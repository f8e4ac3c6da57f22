SPECIFICATION Spec
CONSTANTS
    base = base
    side = side
    op = op
    report = report
    flag = flag
    outside = outside
    Action <- MCAction
    External <- MCExternal
    Dep <- MCDep
    Compiled <- MCCompiled
    Tasks <- MCTasks
    NeedsMetadata <- MCMetadata
    warehouse = "postgres"
    PoolSize = 2
    Options <- RetryOptions
    HasTimeout = TRUE
    AdapterCancels = TRUE
    MaxResumes = 1
INVARIANTS
    TypeOK
    DependencyOrder
    TasksInOrder
    SuccessIsComplete
    UnreportedOnlyBelowSkipped
PROPERTIES
    OutcomesAreFinal
    NothingStartsAfterCancel
    StopFreezesTheFrontier
    ImplementsRunSpec
