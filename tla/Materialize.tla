----------------------------- MODULE Materialize -----------------------------
(***************************************************************************)
(* How the relations of a warehouse come about: publishTasks() of the      *)
(* warehouse's *_execution_sql.ts plans an action's statements from what   *)
(* the warehouse held when the run was built, the runner executes them one *)
(* by one, createPgLoader() of extract_load.ts loads the extracts and      *)
(* buildImportSql() of duckdb_import.ts the imports.  Any statement may    *)
(* fail, and the process may die between two of them; between two runs a   *)
(* definition may be edited.                                               *)
(*                                                                         *)
(* Rows are abstract.  SQL is reduced to the relation it drops, creates or *)
(* fills.  One run at a time writes to a target.  Materialized views with  *)
(* postgres.noData, which are made without rows and cannot be read before  *)
(* somebody refreshes them (postgres_execution_sql.ts:413), are left out.  *)
(***************************************************************************)
EXTENDS Naturals, Sequences, FiniteSets

CONSTANTS
    Action,     \* actions that make a relation
    Dep,        \* the actions an action's query reads; none: it reads the source
    Warehouses, \* those a project may have; Supabase is a Postgres here
    Configs,    \* the definitions an action may have in each
    Row,
    MaxRuns, MaxEdits    \* bounds

\* partitioned: a table with postgres.partition; matview: a materialized view;
\* import, append: an import that overwrites, or does not; keyed: it has a
\* uniqueKey; settings: it has indexes, or statements for afterTableCreated();
\* inPlace: refreshPolicy is "on_dependency_change"; overwrites: its
\* incrementalStrategy is INSERT_OVERWRITE, with all rows in one partition
\* ("month"), or each in its own ("day").
Types == {"table", "partitioned", "incremental", "view", "matview",
          "extract", "import", "append"}
Config == [type : Types,
           keyed : BOOLEAN, protected : BOOLEAN, settings : BOOLEAN, inPlace : BOOLEAN,
           overwrites : {"no", "month", "day"}]

\* Only Postgres' SQL reads postgres.partition, extracts are loaded into Postgres
\* and createImportTasks() throws on MySQL.
Supported == [postgres |-> Types,
              bigquery |-> Types \ {"partitioned", "extract"},
              mysql    |-> {"table", "incremental", "view", "matview"}]

\* Extracts and imports have no query: "Extracts are DAG roots" (run.ts).
\* (Dependencies that are declared but not read only order; they are left out.)
Loads == {"extract", "import", "append"}

ASSUME MaterializeAssumption ==
    /\ Dep \in [Action -> SUBSET Action]
    /\ Warehouses \subseteq {"postgres", "bigquery", "mysql"}
    /\ Configs \in [Warehouses -> [Action -> SUBSET Config]]
    /\ \A w \in Warehouses : \A a \in Action : \A c \in Configs[w][a] :
          /\ c.type \in Supported[w]
          /\ c.type \in Loads => Dep[a] = {}
    /\ {MaxRuns, MaxEdits} \subseteq Nat

VARIABLES
    warehouse,  \* the project's
    config,     \* the definition of each action
    relation,   \* what the warehouse holds under each action's name
    stage,      \* actions whose staging table exists
    source,     \* rows of the source
    fullRefresh,\* runConfig.fullRefresh of the run
    plan,       \* the statements each action has left
    result,     \* what each action's run has come to; "out": not selected
    runs, edits \* runs planned, definitions edited

project   == <<warehouse, config>>
relations == <<relation, stage>>
vars == <<project, relations, source, fullRefresh, plan, result, runs, edits>>

Kind == {"none", "table", "view", "matview"}
Relation == [kind : Kind, rows : SUBSET Row, keyIndex : BOOLEAN, settings : BOOLEAN]
Missing == [kind |-> "none", rows |-> {}, keyIndex |-> FALSE, settings |-> FALSE]
Holding(kind, rows) == [Missing EXCEPT !.kind = kind, !.rows = rows]

Result == {"out", "waiting", "running", "ok", "failed", "skipped"}
Over(a) == result[a] \notin {"waiting", "running"}
Idle    == \A a \in Action : Over(a)

-----------------------------------------------------------------------------
(* publishTasks(): statements, given what the warehouse held at the build. *)

Op == {"drop", "dropFound", "dropUnread", "create", "createEmpty", "replace", "insert",
       "upsert", "overwrite", "loadInto", "page", "refresh", "keyIndex", "settings",
       "createStage", "dropStage"}
Statements == [op : Op, kind : Kind]

Drop(kind)    == <<[op |-> "drop", kind |-> kind]>>    \* if exists
Create(kind)  == <<[op |-> "create", kind |-> kind]>>
Replace(kind) == <<[op |-> "replace", kind |-> kind]>> \* create or replace
Do(op)       == <<[op |-> op, kind |-> "none"]>>
Optional(condition, statements) == IF condition THEN statements ELSE <<>>

BaseTableType(c)   == IF c.type \in {"view", "matview"} THEN "view" ELSE "table"
OppositeType(kind) == IF kind = "table" THEN "view" ELSE "table"

\* What the adapter's table() says is there; BigQuery's knows no matviews.
Reported(kind) == IF warehouse = "bigquery" /\ kind = "matview" THEN "unknown" ELSE kind

\* Mutant: protection is forgotten.
RefreshesProtected(c, full, held) == ~full /\ held \notin {"none", "view"}

\* MySQL does not look at the protection.
ShouldWriteIncrementally(c, full, held) ==
    IF warehouse = "mysql" THEN ~full /\ held = "table"
    ELSE (~full \/ c.protected) /\ held \notin {"none", "view"}

\* What is of another type is dropped first.
CrossTypeDrop(c, held) ==
    Optional(held \notin {"none", BaseTableType(c)}, Drop(OppositeType(BaseTableType(c))))

FreshIncremental(c) ==
    Drop("table") \o Create("table") \o Optional(c.keyed, Do("keyIndex"))
        \o Optional(c.settings, Do("settings"))

RefreshInPlace(c, full, held) == ~full /\ c.inPlace /\ held = "matview"

\* Mutants: the staging table is not dropped first; the query is not inserted.
PartitionedTableNoCleanup(c) ==
    Do("createStage") \o Drop("table") \o Do("createEmpty")
        \o Do("insert") \o Do("dropStage") \o Optional(c.settings, Do("settings"))
PartitionedTableEmpty(c) ==
    Do("dropStage") \o Do("createStage") \o Drop("table") \o Do("createEmpty")
        \o Do("dropStage") \o Optional(c.settings, Do("settings"))

\* CREATE TABLE AS cannot partition: the query is staged for its columns.
PartitionedTable(c) ==
    Do("dropStage") \o Do("createStage") \o Drop("table") \o Do("createEmpty")
        \o Do("insert") \o Do("dropStage") \o Optional(c.settings, Do("settings"))

\* Materialized views see to the type of what is there themselves.
PostgresTasks(c, full, held) ==
    Optional(c.type # "matview", CrossTypeDrop(c, held)) \o
    CASE c.type = "incremental" ->
            IF ShouldWriteIncrementally(c, full, held)
            THEN Do(IF c.keyed THEN "upsert" ELSE "insert")
            ELSE FreshIncremental(c)
      [] c.type = "matview" ->
            IF RefreshInPlace(c, full, held)
            THEN Do("refresh")
            ELSE Drop("matview") \o Create("matview") \o Optional(c.settings, Do("settings"))
      [] c.type = "view" -> Drop("view") \o Create("view")
      [] c.type = "partitioned" -> PartitionedTable(c)
      [] c.type = "table" ->
            Drop("table") \o Create("table") \o Optional(c.settings, Do("settings"))

\* The statements are one job, which BigQuery executes one by one.
BigqueryTasks(c, full, held) ==
    CrossTypeDrop(c, held) \o
    IF c.type = "incremental" /\ ShouldWriteIncrementally(c, full, held)
    THEN Do(CASE c.overwrites # "no"              -> "overwrite"
              [] c.overwrites = "no" /\ c.keyed  -> "upsert"
              [] c.overwrites = "no" /\ ~c.keyed -> "insert")
    ELSE Replace(IF c.type = "incremental" THEN "table" ELSE c.type)

\* A matview is a table that is made anew; nothing else is dropped that is of
\* another type.
MysqlTasks(c, full, held) ==
    CASE c.type = "view" -> Replace("view")
      [] c.type = "matview" ->
            Drop("view") \o Drop("table") \o Create("table") \o Optional(c.settings, Do("settings"))
      [] c.type = "incremental" ->
            IF ShouldWriteIncrementally(c, full, held)
            THEN Do(IF c.keyed THEN "upsert" ELSE "insert")
            ELSE FreshIncremental(c)
      [] c.type = "table" ->
            Drop("table") \o Create("table") \o Optional(c.settings, Do("settings"))

PublishTasks(c, full, held) ==
    CASE warehouse = "postgres" -> PostgresTasks(c, full, held)
      [] warehouse = "bigquery" -> BigqueryTasks(c, full, held)
      [] warehouse = "mysql"    -> MysqlTasks(c, full, held)

\* createPgLoader() looks at what is there when it runs, drops it and makes an
\* empty table; pages of rows follow, up to a cap.
ExtractSteps == Do("dropFound") \o Do("createEmpty") \o Do("page")

\* DuckDB drops (without cascade) and creates the table, or inserts into it;
\* BigQuery loads the file itself.
ImportSteps(c) ==
    CASE warehouse = "bigquery" -> IF c.type = "import" THEN Replace("table") ELSE Do("loadInto")
      [] warehouse = "postgres" ->
            IF c.type = "import"
            THEN <<[op |-> "dropUnread", kind |-> "table"]>> \o Create("table")
            ELSE Do("insert")

Planned(c, full, held) ==
    CASE c.type = "extract"              -> ExtractSteps
      [] c.type \in {"import", "append"} -> ImportSteps(c)
      [] OTHER                           -> PublishTasks(c, full, Reported(held))

-----------------------------------------------------------------------------
(* The warehouse                                                           *)

\* Relations that hold no rows of their own; BigQuery keeps matviews current.
Live(kind) == kind = "view" \/ (kind = "matview" /\ warehouse = "bigquery")

\* Where Dep leads from a, going on from the actions in through only: the
\* smallest set with a and what each of its members in through reads.
Reach(a, through) ==
    {x \in Action : \A S \in SUBSET Action :
        a \in S /\ (\A y \in S \cap through : Dep[y] \subseteq S) => x \in S}

\* Views that read a, over other views too: Postgres' `cascade` drops them.
Views == {v \in Action : relation[v].kind \in {"view", "matview"}}
Readers(a) == {v \in Action \ {a} : a \in Reach(v, Views)}

\* The relations whose rows selecting from a's reads.
ReadThrough(a) == Reach(a, {v \in Action : Live(relation[v].kind)})

\* Relations that are there, and over which no view reads one that is not.
Readable == {a \in Action : \A x \in ReadThrough(a) : relation[x].kind # "none"}

Rows(x) ==
    CASE ~Live(relation[x].kind) -> relation[x].rows
      [] Live(relation[x].kind) /\ Dep[x] = {} -> source
      [] OTHER -> {}

\* What selecting from an action's relation returns.
Content(a) == UNION {Rows(x) : x \in ReadThrough(a)}

Input(a) == IF Dep[a] = {} THEN source ELSE UNION {Content(d) : d \in Dep[a]}
Reads(s) == s.op \in {"create", "replace", "createStage", "insert", "upsert", "overwrite",
                      "loadInto", "refresh"}

\* insertOverwrite(): rows of the partitions the new rows are in go.  (No row
\* is without a partition.)
Replaced(a, row) ==
    CASE config[a].overwrites = "no"    -> FALSE
      [] config[a].overwrites = "day"   -> row \in Input(a)
      [] config[a].overwrites = "month" -> Input(a) # {}

\* IF EXISTS only guards absence: a drop of the wrong kind is an error, which
\* MySQL forgives.
Rejected(a, s) ==
    LET kind      == relation[a].kind
        wrongKind == kind \notin {"none", s.kind}
    IN  \/ s.op = "drop" /\ wrongKind /\ warehouse # "mysql"
        \/ s.op = "dropUnread" /\ (wrongKind \/ Readers(a) # {})
        \/ s.op = "dropFound" /\ kind = "matview"
        \/ s.op = "replace" /\ wrongKind
        \/ s.op \in {"create", "createEmpty"} /\ kind # "none"
        \/ s.op = "createStage" /\ a \in stage
        \/ s.op \in {"insert", "upsert", "overwrite", "page", "keyIndex"} /\ kind # "table"
        \/ s.op = "loadInto" /\ kind \notin {"none", "table"}
        \/ s.op = "settings" /\ kind \notin {"table", "matview"}
        \/ s.op = "upsert" /\ ~relation[a].keyIndex /\ warehouse = "postgres"
        \/ s.op = "refresh" /\ kind # "matview"
        \/ Reads(s) /\ ~(Dep[a] \subseteq Readable)

Put(a, r) == relation' = [relation EXCEPT ![a] = r] /\ UNCHANGED stage
Remove(as) ==
    /\ relation' = [b \in Action |-> IF b \in as THEN Missing ELSE relation[b]]
    /\ UNCHANGED stage
Selected(a, kind) == Holding(kind, IF Live(kind) THEN {} ELSE Input(a))

\* What a statement does to the warehouse.
Effect(a, s) ==
    CASE s.op \in {"drop", "dropFound", "dropUnread"} ->
            Remove(IF relation[a].kind = "none" \/ (s.op = "drop" /\ relation[a].kind # s.kind) THEN {}
                   ELSE IF warehouse = "postgres" THEN {a} \cup Readers(a) ELSE {a})
      [] s.op = "create" -> Put(a, Selected(a, s.kind))
      [] s.op = "replace" -> Put(a, [Selected(a, s.kind) EXCEPT !.settings = TRUE])
      [] s.op = "createEmpty" -> Put(a, Holding("table", {}))
      [] s.op = "page" -> \E pages \in SUBSET Input(a) : Put(a, [relation[a] EXCEPT !.rows = pages])
      [] s.op = "loadInto" ->
            Put(a, [relation[a] EXCEPT !.kind = "table", !.rows = @ \cup Input(a)])
      [] s.op \in {"insert", "upsert"} -> Put(a, [relation[a] EXCEPT !.rows = @ \cup Input(a)])
      [] s.op = "overwrite" ->
            Put(a, [relation[a] EXCEPT !.rows = {row \in @ : ~Replaced(a, row)} \cup Input(a)])
      [] s.op = "refresh" -> Put(a, [relation[a] EXCEPT !.rows = Input(a)])
      [] s.op = "keyIndex" -> Put(a, [relation[a] EXCEPT !.keyIndex = TRUE])
      [] s.op = "settings" -> Put(a, [relation[a] EXCEPT !.settings = TRUE])
      [] s.op = "createStage" -> stage' = stage \cup {a} /\ UNCHANGED relation
      [] s.op = "dropStage" -> stage' = stage \ {a} /\ UNCHANGED relation

-----------------------------------------------------------------------------
Init ==
    /\ warehouse \in Warehouses
    /\ config \in [Action -> UNION {Configs[warehouse][a] : a \in Action}]
    /\ \A a \in Action : config[a] \in Configs[warehouse][a]
    /\ relation = [a \in Action |-> Missing]
    /\ stage = {}
    /\ source = {}
    /\ fullRefresh = FALSE
    /\ plan = [a \in Action |-> <<>>]
    /\ result = [a \in Action |-> "out"]
    /\ runs = 0
    /\ edits = 0

\* build(): prune() selects some actions, state() reads what the warehouse
\* holds, and every action's statements are decided at once.
Build ==
    /\ Idle /\ runs < MaxRuns
    /\ runs' = runs + 1
    /\ fullRefresh' \in BOOLEAN
    /\ \E selected \in (SUBSET Action) \ {{}} :
        /\ result' = [a \in Action |-> IF a \in selected THEN "waiting" ELSE "out"]
        /\ plan' = [a \in Action |->
                IF a \in selected THEN Planned(config[a], fullRefresh', relation[a].kind)
                                  ELSE <<>>]
    /\ UNCHANGED <<project, relations, source, edits>>

\* Mutant: an action is started before what it reads.
ReadyAnyTime(a) == result[a] \in {"waiting", "running"}

\* The runner starts an action when the dependencies that take part succeeded.
Ready(a) ==
    \/ result[a] = "running"
    \/ /\ result[a] = "waiting"
       /\ \A d \in Dep[a] : result[d] \in {"out", "ok"}

Statement(a) == Head(plan[a])

Execute(a) ==
    /\ Ready(a)
    /\ ~Rejected(a, Statement(a))
    /\ Effect(a, Statement(a))
    /\ plan' = [plan EXCEPT ![a] = Tail(@)]
    /\ result' = [result EXCEPT ![a] = IF Len(plan[a]) = 1 THEN "ok" ELSE "running"]
    /\ UNCHANGED <<project, source, fullRefresh, runs, edits>>

\* A statement fails: it is rejected, something else is wrong with it, or the
\* connection is lost before or after it took effect.
Fail(a) ==
    /\ Ready(a)
    /\ \/ UNCHANGED relations
       \/ ~Rejected(a, Statement(a)) /\ Effect(a, Statement(a))
    /\ plan' = [plan EXCEPT ![a] = <<>>]
    /\ result' = [result EXCEPT ![a] = "failed"]
    /\ UNCHANGED <<project, source, fullRefresh, runs, edits>>

\* Mutant: a skipped action keeps its statements.
SkipKeepsPlan(a) ==
    /\ result[a] = "waiting"
    /\ \E d \in Dep[a] : result[d] \in {"failed", "skipped"}
    /\ result' = [result EXCEPT ![a] = "skipped"]
    /\ UNCHANGED <<project, relations, source, fullRefresh, plan, runs, edits>>

Skip(a) ==
    /\ result[a] = "waiting"
    /\ \E d \in Dep[a] : result[d] \in {"failed", "skipped"}
    /\ plan' = [plan EXCEPT ![a] = <<>>]
    /\ result' = [result EXCEPT ![a] = "skipped"]
    /\ UNCHANGED <<project, relations, source, fullRefresh, runs, edits>>

\* The process dies: nothing of the run goes on.
Crash ==
    /\ ~Idle
    /\ plan' = [a \in Action |-> <<>>]
    /\ result' = [a \in Action |-> IF Over(a) THEN result[a] ELSE "failed"]
    /\ UNCHANGED <<project, relations, source, fullRefresh, runs, edits>>

\* Somebody changes a definition between two runs.
Edit(a) ==
    /\ Idle /\ edits < MaxEdits
    /\ edits' = edits + 1
    /\ \E c \in Configs[warehouse][a] \ {config[a]} : config' = [config EXCEPT ![a] = c]
    /\ result' = [b \in Action |-> "out"]
    /\ UNCHANGED <<warehouse, relations, source, fullRefresh, plan, runs>>

\* Rows arrive at the source, and leave it when their retention is over.
Arrive(row) ==
    /\ row \notin source
    /\ source' = source \cup {row}
    /\ UNCHANGED <<project, relations, fullRefresh, plan, result, runs, edits>>
Expire(row) ==
    /\ row \in source
    /\ source' = source \ {row}
    /\ UNCHANGED <<project, relations, fullRefresh, plan, result, runs, edits>>

Next ==
    \/ Build \/ Crash
    \/ \E a \in Action : Execute(a) \/ Fail(a) \/ Skip(a) \/ Edit(a)
    \/ \E row \in Row : Arrive(row) \/ Expire(row)

Spec == Init /\ [][Next]_vars

-----------------------------------------------------------------------------
(* Properties                                                              *)

\* Type invariant.
TypeOK ==
    /\ warehouse \in Warehouses
    /\ config \in [Action -> Config]
    /\ relation \in [Action -> Relation]
    /\ stage \subseteq Action
    /\ source \subseteq Row
    /\ fullRefresh \in BOOLEAN
    /\ plan \in [Action -> Seq(Statements)]
    /\ \A a \in Action : plan[a] # <<>> <=> ~Over(a)
    /\ result \in [Action -> Result]
    /\ runs \in 0..MaxRuns
    /\ edits \in 0..MaxEdits

Wanted(c) ==
    CASE c.type = "view" -> "view"
      [] c.type = "matview" -> IF warehouse = "mysql" THEN "table" ELSE "matview"
      [] OTHER -> "table"

\* The runner orders an action after those it reads itself, so nothing orders
\* it after one it reads over an action that was not selected.
Upstream(a) == UNION {Reach(d, Action) : d \in Dep[a]}
Unordered(a) ==
    \E m \in Upstream(a) : result[m] = "out" /\ \E b \in Upstream(m) : result[b] # "out"

\* An action reported SUCCESSFUL has left the kind of relation its definition
\* asks for, and no later statement of the run, of whatever action, takes it
\* away again, but the drop ... cascade of an action it is not ordered after.
BuiltAsConfigured ==
    \A a \in Action : result[a] = "ok" =>
        \/ relation[a].kind = Wanted(config[a])
        \/ warehouse = "postgres" /\ Unordered(a) /\ relation[a].kind = "none"

\* An action reported SUCCESSFUL holds what its inputs hold: all of it when it
\* is incremental, exactly it otherwise, whatever failed before.  (Views among
\* its inputs, and the source, change by themselves, and a cascade may have
\* dropped an input.)
SuccessIsUpToDate ==
    \A a \in Action :
        /\ result[a] = "ok"
        /\ Dep[a] # {} /\ \A d \in Dep[a] : ~Live(relation[d].kind)
        /\ ~(warehouse = "postgres" /\ Unordered(a))
        => IF config[a].type = "incremental"
           THEN Input(a) \subseteq Content(a) ELSE Input(a) = Content(a)

\* The rows of an incremental table survive every run but a full refresh, and
\* those of a protected one that too, though the source has lost them: "If
\* true, prevents the dataset from being rebuilt from scratch" (configs.proto);
\* not so on MySQL.  An overwriting table gives up the partitions it is sent.
Kept(a) ==
    /\ config[a].type = "incremental"
    /\ relation[a].kind = "table"
    /\ (config[a].protected /\ warehouse # "mysql") \/ ~fullRefresh
KeepsHistory ==
    [][\A a \in Action : Kept(a) =>
        \A row \in relation[a].rows : row \in relation'[a].rows \/ Replaced(a, row)]_vars

\* What a failure or an edit leaves behind does not stop the next run, in all
\* but these cases.
\* A definition became, or ceased to be, a materialized view; on BigQuery any
\* matview is in the way, on MySQL any relation of another kind, and an
\* import drops tables only.
ChangedKind(a) ==
    /\ relation[a].kind # "none"
    /\ \/ (relation[a].kind = "matview") # (config[a].type = "matview")
       \/ warehouse = "bigquery" /\ relation[a].kind = "matview"
       \/ warehouse = "mysql" /\ relation[a].kind # Wanted(config[a])
       \/ config[a].type \in {"import", "append"} /\ relation[a].kind # "table"
\* A keyed table was left without its index.
LeftWithoutKey(a) ==
    warehouse = "postgres" /\ Statement(a).op = "upsert" /\ ~relation[a].keyIndex
\* The matview to refresh (or, by an edited definition, to append to) was
\* dropped with what it reads, or, if nothing orders the two, the one just made;
\* an import has no table to append to.
DroppedByCascade(a) ==
    /\ warehouse = "postgres"
    /\ \/ Statement(a).op \in {"refresh", "insert", "upsert"}
       \/ Statement(a).op = "settings" /\ Unordered(a)
    /\ relation[a].kind = "none"
\* A view reads the table an import is to overwrite.
ReadByViews(a) == config[a].type = "import" /\ Readers(a) # {}
\* A relation that is not part of the run is missing, or under a view that is
\* not ordered after what it reads.
InputMissing(a) == \E d \in Dep[a] : d \notin Readable /\ (result[d] # "ok" \/ Unordered(d))
RerunRepairs ==
    \A a \in Action : Ready(a) /\ Rejected(a, Statement(a)) =>
        \/ ChangedKind(a) \/ LeftWithoutKey(a) \/ DroppedByCascade(a)
        \/ ReadByViews(a) \/ InputMissing(a)

\* postgres_execution_sql.ts of afterTableCreated(): "Not run on incremental
\* appends: the table, and anything set on it, persists."  So a table whose
\* action succeeded has its settings.
SettingsPersist ==
    \A a \in Action : result[a] = "ok" /\ config[a].settings => relation[a].settings

=============================================================================
