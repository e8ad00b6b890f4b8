\* Two users, concurrent requests with a fault at any step.
SPECIFICATION Spec
CONSTANTS
    Handlers = {h1, h2}
    Users = {u1, u2}
    Ids = {a1, a2, a3}
    Names = {n1, n2}
    Versions = {v1, v2}
    FirstVersion = v1
    AppTier = 2
    VersionTier = 2
    MaxRequests = 4
    MaxFaults = 1
SYMMETRY Symmetry
INVARIANTS
    TypeOK
    WriterExists
    VersionsUsable
    ListsCounted
    NothingOutlives
CHECK_DEADLOCK FALSE
