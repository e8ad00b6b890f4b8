SPECIFICATION FairSpec
CONSTANTS
    b1 = b1
    v1 = v1
    v2 = v2
    Blocks = {b1}
    Versions = {v1, v2}
    VersionOf <- FirstVersion
    Statuses = {"ready", "pending", "stopped"}
    Unsettled = {"pending"}
    Commands = {"build_and_run", "stop", "delete"}
    MaxPolls = 2
    MaxChanges = 2
    MaxFaults = 1
INVARIANTS
    TypeOK
    BrowserOnSettled
PROPERTIES
    ListConverges
    OverlaysEnd
