SPECIFICATION Spec
CONSTANTS
    b1 = b1
    b2 = b2
    n1 = n1
    n2 = n2
    h1 = h1
    h2 = h2
    Blocks = {b1}
    FirstBlocks = {b1}
    Names = {n1}
    NameOf <- OneBlock
    Handlers = {h1, h2}
    Requests <- AllRequests
    Ops = {"build", "run", "cli", "stop"}
    BadUploads = TRUE
    FaultKinds = {"produce", "duplicate", "abandon", "patch"}
    MaxFaults = 1
    WorkerCount = 1
    MaxLog = 2
    MaxRestarts = 1
INVARIANTS
    StatusTrue
SYMMETRY HandlerSymmetry
\* The builder-server may stay down, and users may stop asking.
CHECK_DEADLOCK FALSE
