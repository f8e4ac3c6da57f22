---------------------------- MODULE BuiltRunner -----------------------------
(***************************************************************************)
(* A Runner whose execution graph comes from build(), as it does in        *)
(* cli/commands/run_command.ts.                                            *)
(***************************************************************************)
EXTENDS Runner, Build

CONSTANTS
    Compiled,   \* the pruned compiled graph: an action's CompiledAction
    warehouse   \* projectConfig.warehouse

ASSUME BuiltAssumption ==
    /\ warehouse \in Warehouse
    /\ Compiled \in [Action -> CompiledAction]
    /\ \A a \in Action : Buildable(warehouse, Compiled[a])
    /\ Tasks = [a \in Action |-> TasksOf(warehouse, Compiled[a])]
    /\ NeedsMetadata = {a \in Action : HasMetadata(Compiled[a])}

\* run_command.ts, of --action-retry-limit: "idempotent actions will be retried
\* up to the limit"; and api.spec.ts: "should not retry when the task is an
\* operation".  So a statement of an operation that was submitted is not handed
\* to the adapter for another attempt, whatever became of it.
OperationsAreNotRetried ==
    [][\A a \in Action :
        Compiled[a].type = "operation" /\ call[a] \in {"listening", "deaf", "cancelling"} =>
            ~(call'[a] = "queued" /\ attempt'[a] > attempt[a])]_vars
=============================================================================
