\* A failure after CREATE TABLE, and the run after it.
SPECIFICATION Spec
CONSTANTS
    up = up
    mid = mid
    down = down
    Action <- MCAction
    Dep <- MCDep
    Warehouses <- MCPostgres
    Configs <- MCSettings
    Row = {r1}
    MaxRuns = 2
    MaxEdits = 0
INVARIANT
    SettingsPersist
