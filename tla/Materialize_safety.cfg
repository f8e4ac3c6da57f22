\* Two runs of any selection, one edit of a definition before or between the runs.
SPECIFICATION Spec
CONSTANTS
    up = up
    mid = mid
    down = down
    Action <- MCAction
    Dep <- MCDep
    Warehouses <- MCWarehouses
    Configs <- MCConfigs
    Row = {r1, r2}
    MaxRuns = 2
    MaxEdits = 1
SYMMETRY Symmetry
INVARIANTS
    TypeOK
    BuiltAsConfigured
    SuccessIsUpToDate
    RerunRepairs
PROPERTIES
    KeepsHistory
