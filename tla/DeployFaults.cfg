SPECIFICATION Spec
CONSTANTS
    b1 = b1
    b2 = b2
    n1 = n1
    n2 = n2
    h1 = h1
    h2 = h2
    Blocks = {b1, b2}
    FirstBlocks = {b1}
    Names = {n1}
    NameOf <- SharedName
    Handlers = {h1, h2}
    Requests <- AllRequests
    Ops = {"build_and_run", "delete"}
    BadUploads = TRUE
    FaultKinds = {"abandon", "docker", "delete"}
    MaxFaults = 1
    WorkerCount = 1
    MaxLog = 3
    MaxRestarts = 0
INVARIANTS
    TypeOK
    StatusTrue
PROPERTIES
    RowsRefined
SYMMETRY HandlerSymmetry
\* The builder-server may stay down, and users may stop asking.
CHECK_DEADLOCK FALSE
