SPECIFICATION Spec
CONSTANTS
    i1 = i1
    i2 = i2
    i3 = i3
    i4 = i4
    h1 = h1
    h2 = h2
    Handlers = {h1}
    Ids = {i1, i2, i3, i4}
    Names = {"a", "b", "web", "web2"}
    Versions = {"v1", "v2"}
    Forms <- SequentialForms
    Inside <- NoNesting
    Ports = {1, 2, 3}
    FirstCap = 2
    FaultKinds = {}
    MaxFaults = 0
INVARIANTS
    CapCountsBlocks
    PrimeIsOneBlock
    WebNameUnique
    DomainsRouted
SYMMETRY IdSymmetry
\* Every id may be used up, every port lost.
CHECK_DEADLOCK FALSE
