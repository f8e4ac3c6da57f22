------------------------------ MODULE MCCalls ------------------------------
(* Instances of Calls for TLC. *)
EXTENDS Calls

CONSTANTS c1, c2
MCCallers == {c1, c2}
MCAdapters == {"postgres", "mysql", "bigquery"}
OnlyPostgres == {"postgres"}
MCOps == Op
OnlyActions == {"action"}
============================================================================
