------------------------------- MODULE Build --------------------------------
(***************************************************************************)
(* cli/api/commands/build.ts and the create*Tasks() of the adapters'       *)
(* execution SQL: which tasks an action of the compiled graph becomes.     *)
(* The SQL itself is left out; publishTasks() is reduced to how many       *)
(* statements it makes.                                                    *)
(***************************************************************************)
EXTENDS Naturals, Sequences

Warehouse  == {"bigquery", "postgres", "supabase", "mysql"}
ActionType == {"table", "operation", "assertion", "export", "import", "extract", "script"}

\* statements: how many a table's publishTasks() makes, or an operation has;
\* described: the action has an actionDescriptor.
CompiledAction ==
    [type : ActionType, disabled : BOOLEAN, statements : Nat, described : BOOLEAN]

Statements(n) == [i \in 1..n |-> "statement"]

\* A table's statements, and an operation's too: a task's type does not say
\* which of the two it comes from.
TableTasks(c)     == Statements(c.statements)
OperationTasks(c) == Statements(c.statements)

\* The query is made a view and its rows are counted.
AssertionTasks(warehouse) ==
    Statements(IF warehouse = "bigquery" THEN 1 ELSE 2) \o <<"assertion">>

\* BigQuery exports and imports in-engine, Postgres through DuckDB.
FileTasks(warehouse) ==
    IF warehouse = "bigquery" THEN Statements(1) ELSE <<"runnerSide">>

MarkerTask == <<"runnerSide">>

TasksOf(warehouse, c) ==
    CASE c.disabled -> <<>>
      [] ~c.disabled /\ c.type = "table" -> TableTasks(c)
      [] ~c.disabled /\ c.type = "operation" -> OperationTasks(c)
      [] ~c.disabled /\ c.type = "assertion" -> AssertionTasks(warehouse)
      [] ~c.disabled /\ c.type \in {"export", "import"} -> FileTasks(warehouse)
      [] ~c.disabled /\ c.type \in {"extract", "script"} -> MarkerTask

\* MySQL's createExportTasks() and createImportTasks() throw.
Buildable(warehouse, c) ==
    c.disabled \/ warehouse # "mysql" \/ c.type \notin {"export", "import"}

\* executeAction() asks for the metadata of these.
HasMetadata(c) == c.type = "table" /\ c.described
=============================================================================
