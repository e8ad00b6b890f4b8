SPECIFICATION Spec
CONSTANTS
    i1 = i1
    i2 = i2
    i3 = i3
    i4 = i4
    h1 = h1
    h2 = h2
    Handlers = {h1, h2}
    Ids = {i1, i2}
    Names = {"a", "b", "web", "web2"}
    Versions = {"v1", "v2"}
    Forms <- WebForms
    Inside <- NoNesting
    Ports = {1, 2}
    FirstCap = 2
    FaultKinds = {"sentinel", "dns", "database", "abandon"}
    MaxFaults = 1
INVARIANTS
    TypeOK
    PortsOwned
    RecordsExist
    NoPortLost
SYMMETRY Symmetry
\* Every id may be used up, every port lost.
CHECK_DEADLOCK FALSE
