---------------------------- MODULE MCMaterialize ----------------------------
(***************************************************************************)
(* Instances of Materialize for TLC: "up" loads from the source, "mid"     *)
(* reads "up" and "down" reads "mid"; a run may leave out any of them.     *)
(***************************************************************************)
EXTENDS Materialize, TLC

CONSTANTS up, mid, down

MCAction == {up, mid, down}
MCDep == [a \in MCAction |-> CASE a = up -> {} [] a = mid -> {up} [] a = down -> {mid}]

Plain(type) == [type |-> type, keyed |-> FALSE, protected |-> FALSE,
                settings |-> FALSE, inPlace |-> FALSE, overwrites |-> "no"]

Orders  == [Plain("incremental") EXCEPT !.keyed = TRUE, !.protected = TRUE, !.settings = TRUE]
InPlace == [Plain("matview") EXCEPT !.inPlace = TRUE, !.settings = TRUE]
Indexed(type) == [Plain(type) EXCEPT !.settings = TRUE]
Overwriting(partition) ==
    [Plain("incremental") EXCEPT !.overwrites = partition, !.protected = TRUE]

\* Definitions of every type the warehouse supports.
ConfigsOfUp(w) ==
    {Orders, Plain("view"), Plain("matview")} \cup
    CASE w = "postgres" -> {Plain("extract"), Plain("import"), Plain("append")}
      [] w = "bigquery" -> {Plain("import"), Plain("append")}
      [] w = "mysql"    -> {Indexed("table")}
ConfigsOfMid(w) ==
    IF w = "postgres" THEN {Plain("view"), Plain("partitioned")} ELSE {Plain("table")}
ConfigsOfDown(w) ==
    {Plain("view"), Plain("incremental")} \cup
    CASE w = "postgres" -> {InPlace, Plain("table")}
      [] w = "bigquery" -> {Plain("matview"), Overwriting("month"), Overwriting("day")}
      [] w = "mysql"    -> {Indexed("matview")}

MCWarehouses == {"postgres", "bigquery", "mysql"}
MCConfigs == [w \in MCWarehouses |->
                 [a \in MCAction |-> CASE a = up   -> ConfigsOfUp(w)
                                      [] a = mid  -> ConfigsOfMid(w)
                                      [] a = down -> ConfigsOfDown(w)]]
Symmetry == Permutations(Row)

\* For the disagreement.
MCPostgres == {"postgres"}
MCSettings == [w \in MCPostgres |->
                  [a \in MCAction |-> IF a = up THEN {Orders} ELSE {Plain("view")}]]
=============================================================================
