SPECIFICATION FairSpec
CONSTANTS
    c1 = c1
    c2 = c2
    Callers <- MCCallers
    Adapters <- MCAdapters
    Ops <- MCOps
    ConnectionLimit = 2
    MAX_CONCURRENT_EXTRACTS = 1
    ActionRetryLimit = 1
    Tasks = 1
    Listed = 1
    Described = 1
    ConnectionsDrop = TRUE
INVARIANTS
    TypeOK
    ClientsComeBack
PROPERTIES
    CancelReachesEveryCall
    CallsEnd
CHECK_DEADLOCK FALSE
