SPECIFICATION QueueSpec
CONSTANTS
    Requests <- OneRequest
    WorkerCount = 2
    MaxLog = 6
    MaxRestarts = 1
INVARIANTS
    QueueTypeOK
    DispatchOrder
    NoSilentLoss
    NoRepeatWithoutCrash
    LossBounded
\* The builder-server may stay down: nothing restarts it.
CHECK_DEADLOCK FALSE
