SPECIFICATION FairSpec
CONSTANTS
    base = base
    side = side
    op = op
    report = report
    flag = flag
    outside = outside
    Action <- JoinAction
    External = {}
    Dep <- JoinDep
    Compiled <- JoinCompiled
    Tasks <- JoinTasks
    NeedsMetadata <- JoinMetadata
    warehouse = "mysql"
    PoolSize = 1
    Options <- AnyOptions
    HasTimeout = TRUE
    AdapterCancels = FALSE
    MaxResumes = 0
PROPERTIES
    RunSettles
