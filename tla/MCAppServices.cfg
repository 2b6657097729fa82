CONSTANTS
    as1 = as1
    WorkerStates <- MCWorkerStates
    MaxRequests = 2
    Txns = {t1}
    None = None
    BatchSize = 1
    MaxEvents = 2
    MaxFaults = 1
SPECIFICATION Spec
INVARIANT TypeOK
INVARIANT DeliversInOrder
INVARIANT ConsumedIsInserted
INVARIANT OnePerTransaction
PROPERTY LeftoverIsSent
CHECK_DEADLOCK FALSE
