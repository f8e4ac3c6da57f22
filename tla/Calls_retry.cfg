SPECIFICATION Spec
CONSTANTS
    c1 = c1
    c2 = c2
    Callers <- MCCallers
    Adapters <- OnlyPostgres
    Ops <- OnlyActions
    ConnectionLimit = 2
    MAX_CONCURRENT_EXTRACTS = 1
    ActionRetryLimit = 1
    Tasks = 1
    Listed = 1
    Described = 1
    ConnectionsDrop = FALSE
INVARIANT
    RetriesReachTheWarehouse
CHECK_DEADLOCK FALSE
