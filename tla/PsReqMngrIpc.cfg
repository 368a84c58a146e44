CONSTANTS
    Clients = {c1, c2}
    MaxCalls = 1
    InitResults <- MCInitResults
    StorageResults <- MCStorageResults
SPECIFICATION Spec
CHECK_DEADLOCK FALSE
INVARIANT TypeOK
PROPERTY OnlyPriorityStarves
