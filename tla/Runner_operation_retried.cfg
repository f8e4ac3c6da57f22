\* On BigQuery, whose client submits every attempt; no action waits for a client.
SPECIFICATION Spec
CONSTANTS
    base = base
    side = side
    op = op
    report = report
    flag = flag
    outside = outside
    Action <- JoinAction
    External = {}
    Dep <- JoinDep
    Compiled <- JoinCompiled
    Tasks <- JoinTasks
    NeedsMetadata <- JoinMetadata
    warehouse = "bigquery"
    PoolSize = 3
    Options <- RetryOptions
    HasTimeout = FALSE
    AdapterCancels = TRUE
    MaxResumes = 0
PROPERTY OperationsAreNotRetried
