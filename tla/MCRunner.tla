------------------------------ MODULE MCRunner ------------------------------
(***************************************************************************)
(* Instances of BuiltRunner for TLC.                                       *)
(***************************************************************************)
EXTENDS BuiltRunner, TLC

CONSTANTS base, side, op, report, flag, outside

Make(type, statements, described) ==
    [type |-> type, disabled |-> FALSE, statements |-> statements, described |-> described]
Disabled == [Make("table", 1, FALSE) EXCEPT !.disabled = TRUE]

\* A chain of three, so that report is two steps from a failure of base; a
\* second root that competes with base for the clients and runs on the
\* runner's side; a disabled action; and a declaration outside the graph.
MCAction   == {base, side, op, report, flag}
MCExternal == {outside}
MCDep      == base :> {outside} @@ side :> {} @@ op :> {base}
              @@ report :> {op, side, flag} @@ flag :> {}
MCCompiled == base :> Make("table", 2, TRUE) @@ side :> Make("extract", 0, FALSE)
              @@ op :> Make("operation", 1, FALSE) @@ report :> Make("assertion", 0, FALSE)
              @@ flag :> Disabled
MCTasks    == [a \in MCAction |-> TasksOf(warehouse, MCCompiled[a])]
MCMetadata == {a \in MCAction : HasMetadata(MCCompiled[a])}

RetryOptions == {[dryRun |-> FALSE, retryLimit |-> 1]}
AnyOptions   == [dryRun : BOOLEAN, retryLimit : {0, 1}]

\* Two roots, a join and one client: every wait for a client matters.
JoinAction   == {base, side, report}
JoinDep      == base :> {} @@ side :> {} @@ report :> {base, side}
JoinCompiled == base :> Make("table", 2, TRUE) @@ side :> Make("operation", 1, FALSE)
                @@ report :> Make("assertion", 0, FALSE)
JoinTasks    == [a \in JoinAction |-> TasksOf(warehouse, JoinCompiled[a])]
JoinMetadata == {a \in JoinAction : HasMetadata(JoinCompiled[a])}
=============================================================================
