------------------------------- MODULE Calls -------------------------------
(***************************************************************************)
(* The calls a sqlanvil process makes of its warehouse, and the limited    *)
(* things they compete for: the connections of the adapter's pool          *)
(* (src/cli/api/utils/postgres.ts, mysql.ts; BigQuery: the slots of a      *)
(* PromisePoolExecutor), the runner's extract slots, and the pools and     *)
(* DuckDB instances that extracts, exports and imports open on their own.  *)
(*                                                                         *)
(* A caller is one promise that is awaited: an action of the runner        *)
(* (executeAction() with its lock, its tasks with retry() and its          *)
(* setMetadata()), or one operation of the adapter.  An operation is       *)
(* modelled by the batches of calls it makes: the calls of one batch run   *)
(* side by side (Promise.all), one batch after the other (await).  What a  *)
(* statement says and what its rows hold is left out, but for whether a    *)
(* relation was found and of what kind, where the next call depends on it. *)
(***************************************************************************)
EXTENDS Integers, Sequences, FiniteSets

CONSTANTS
    Callers,                \* the promises under way
    Adapters,               \* "postgres" (and Supabase), "mysql", "bigquery"
    Ops,                    \* what the callers ask for
    ConnectionLimit,        \* clients of the pool, or jobs at a time
    MAX_CONCURRENT_EXTRACTS,
    ActionRetryLimit,       \* --action-retry-limit
    Tasks,                  \* statements of an action of the runner
    Listed,                 \* relations a listing or a search returns
    Described,              \* columns of an action that have a description
    ConnectionsDrop         \* whether a connection may be lost

ASSUME CallsAssumption ==
    /\ Callers # {}
    /\ Adapters \subseteq {"postgres", "mysql", "bigquery"}
    /\ ConnectionLimit \in Nat \ {0}
    /\ MAX_CONCURRENT_EXTRACTS \in Nat \ {0}
    /\ {ActionRetryLimit, Tasks, Listed, Described} \subseteq Nat
    /\ ConnectionsDrop \in BOOLEAN

\* What the runner runs under a lock ("action": a table, so that setMetadata()
\* follows); the rest are operations of the adapter.
RunnerSide == {"extract", "export", "import"}
RunnerOps == {"action"} \union RunnerSide

JOB_MAX_ATTEMPTS == 3       \* BIGQUERY_INTERNAL_ERROR_JOB_MAX_ATTEMPTS

VARIABLES
    adapter,    \* the adapter of this process
    executor,   \* "connecting" until create() verified it, then "ready"
    cancelled,  \* CANCEL_EVENT was emitted
    queue,      \* who waits for a client, one entry per call, first come first
    leased,     \* clients the pool counts as in use
    broken,     \* idle clients of the pool on which a statement failed
    slots,      \* runningExtracts
    waiters,    \* extractWaiters
    caller      \* what each caller is at

vars == <<adapter, executor, cancelled, queue, leased, broken, slots, waiters,
          caller>>

-----------------------------------------------------------------------------
(* The batches of calls each operation makes.                              *)

Pool(n) == [n |-> n, via |-> "pool"]    \* n calls, each with a client
Api(n) == [n |-> n, via |-> "api"]      \* n calls beside the pool

\* table(): five queries at once, each on a client of its own.
PostgresTable == <<Pool(5)>>

\* tables(): the listing, then table() for every relation at once.
PostgresTables == <<Pool(1), Pool(5 * Listed)>>

PostgresSearch == <<Pool(1), Pool(5 * Listed)>>

\* evaluate(): an action's queries (an incremental one and its full one), one
\* after the other; a failure is a verdict.
PostgresEvaluate == <<Pool(1), Pool(1)>>

\* schemas() and createSchema().
PostgresSchemas == <<Pool(1)>>

\* execute(): one statement on a client of its own.
PostgresExecute == <<Pool(1)>>

\* deleteTable(): table(), then the drop.
PostgresDeleteTable(found) == IF found = "none" THEN <<>> ELSE <<Pool(1)>>

\* setMetadata(): table(), then all comments at once.
PostgresSetMetadata(found) ==
    IF found = "none" THEN <<>> ELSE <<Pool(1 + Described)>>

MySqlTable == <<Pool(2)>>

MySqlTables == <<Pool(1), Pool(2 * Listed)>>

MySqlSearch == <<Pool(1), Pool(2 * Listed)>>

MySqlEvaluate == <<Pool(1), Pool(1)>>

MySqlSchemas == <<Pool(1)>>

MySqlExecute == <<Pool(1)>>

MySqlDeleteTable(found) == IF found = "none" THEN <<>> ELSE <<Pool(1)>>

\* setMetadata(): nothing for a view; the table's comment, the definitions of
\* its columns, and then column by column.
MySqlSetMetadata(found) ==
    IF found \in {"none", "view"} THEN <<>>
    ELSE <<Pool(1)>> \o (IF Described = 0 THEN <<>>
                         ELSE [i \in 1..(1 + Described) |-> Pool(1)])

\* table(): getMetadata() asks the API, not the query pool.
BigQueryTable == <<Api(1)>>

\* tables() of a schema that is named.  JiT code may name none: schemas() comes
\* first then, one more call to the API, and is left out.
BigQueryTables == <<Api(1), Api(Listed)>>

BigQuerySearch == <<Pool(1), Api(Listed)>>

\* evaluate(): dry runs, all of them at once.
BigQueryEvaluate == <<Pool(2)>>

BigQuerySchemas == <<Api(1)>>

BigQueryCreateSchema == <<Pool(1)>>

BigQueryExecuteRaw == <<Pool(1)>>

\* deleteTable() does not look first: `ignoreNotFound`.
BigQueryDeleteTable == <<Api(1)>>

BigQuerySetMetadata == <<Api(1)>>

\* n times the one call of an operation, at once.
Times(batch, n) == <<[batch[1] EXCEPT !.n = @ * n]>>

Table ==
    CASE adapter = "postgres" -> PostgresTable
      [] adapter = "mysql" -> MySqlTable
      [] adapter = "bigquery" -> BigQueryTable

\* state(): table() for all targets at once.
State == Times(Table, Listed)

\* prepareAllSchemas(): the schemas there are, then the missing ones at once.
PrepareAllSchemas ==
    CASE adapter = "postgres" -> PostgresSchemas \o Times(PostgresSchemas, Listed)
      [] adapter = "mysql" -> MySqlSchemas \o Times(MySqlSchemas, Listed)
      [] adapter = "bigquery" ->
           BigQuerySchemas \o Times(BigQueryCreateSchema, Listed)

\* The batches an operation starts with.
First(o) ==
    CASE o \in {"action", "getTable"} -> Table
      [] o = "state" -> State
      [] o = "prepareAllSchemas" -> PrepareAllSchemas
      [] OTHER ->
           (CASE adapter = "postgres" ->
                   (CASE o = "tables" -> PostgresTables
                      [] o = "search" -> PostgresSearch
                      [] o = "evaluate" -> PostgresEvaluate
                      [] o = "deleteTable" -> PostgresTable
                      [] o = "execute" -> PostgresExecute)
              [] adapter = "mysql" ->
                   (CASE o = "tables" -> MySqlTables
                      [] o = "search" -> MySqlSearch
                      [] o = "evaluate" -> MySqlEvaluate
                      [] o = "deleteTable" -> MySqlTable
                      [] o = "execute" -> MySqlExecute)
              [] adapter = "bigquery" ->
                   (CASE o = "tables" -> BigQueryTables
                      [] o = "search" -> BigQuerySearch
                      [] o = "evaluate" -> BigQueryEvaluate
                      [] o = "deleteTable" -> BigQueryDeleteTable
                      [] o = "execute" -> BigQueryExecuteRaw))

\* Whether what comes next depends on what table() found.
LooksFirst(o) ==
    o \in {"action", "getTable"} \/ (o = "deleteTable" /\ adapter # "bigquery")

\* The batches that follow, once table() has found `found`.
Rest(o, found) ==
    CASE o = "getTable" -> <<>>
      [] o = "action" /\ adapter = "postgres" -> PostgresSetMetadata(found)
      [] o = "action" /\ adapter = "mysql" -> MySqlSetMetadata(found)
      [] o = "action" /\ adapter = "bigquery" -> BigQuerySetMetadata
      [] o = "deleteTable" /\ adapter = "postgres" -> PostgresDeleteTable(found)
      [] OTHER -> MySqlDeleteTable(found)

Found == {"none", "table", "view"}
         \union (IF adapter = "postgres" THEN {"matview"} ELSE {})

\* What an extract, an export or an import does, step by step.
MysqlExtract == <<"source", "read", "target", "create", "load">>
BigQueryExtract == <<"target", "create", "load">>
DuckdbExport == <<"duckdb", "attach", "copy">>
DuckdbImport == <<"duckdb", "attach", "write">>

Steps(o) == CASE o = "extract" -> {MysqlExtract, BigQueryExtract}
              [] o = "export" -> {DuckdbExport}
              [] o = "import" -> {DuckdbImport}
              [] OTHER -> {<<>>}

-----------------------------------------------------------------------------
(* Shapes.                                                                 *)

\* What a JiT worker may ask for (handleDbRequest()).
RpcOps == {"execute", "tables", "getTable", "deleteTable"}

Op == RunnerOps \union RpcOps
      \union {"state", "prepareAllSchemas", "search", "evaluate"}

ASSUME OpsAssumption == Ops \subseteq Op

Step == {"source", "read", "target", "create", "load", "duckdb", "attach",
         "copy", "write"}

Caller == [
    op: Op,
    pc: {"start", "asking", "between", "executing", "slot", "stepping",
         "leaving", "describing", "batch", "over"},
    result: {"RUNNING", "SUCCESSFUL", "FAILED", "CANCELLED"},
    lock: {"none", "whole", "lost"},    \* its client, and whether it still works
    released: BOOLEAN,                  \* given back: withClientLock()'s flag
    task: 0..Tasks,                     \* the tasks that have a result
    done: 0..Tasks,                     \* the statements that succeeded
    attempt: 0..(ActionRetryLimit + 1), \* retry() in executeTask()
    sent: 0..(ActionRetryLimit + 1),    \* attempts that got to the warehouse
    call: {"none", "queued", "creating", "running", "checking", "ended",
           "rejected"},
    jobs: 0..JOB_MAX_ATTEMPTS,          \* retry() in createQueryJob()
    onCancel: {"none", "registered", "called"},
    left: Nat,                          \* calls of the batch not settled yet
    running: Nat,                       \* calls that have what they wait for
    found: Found \union {"unknown"},
    batches: Seq([n: Nat, via: {"pool", "api"}]),
    steps: Seq(Step),
    own: SUBSET {"source", "target", "duckdb"}] \* its own pools, its DuckDB

New(o, todo) ==
    [op |-> o, pc |-> "start", result |-> "RUNNING", lock |-> "none",
     released |-> FALSE, task |-> 0, done |-> 0, attempt |-> 0, sent |-> 0,
     call |-> "none", jobs |-> 0, onCancel |-> "none", left |-> 0,
     running |-> 0, found |-> "unknown", batches |-> <<>>, steps |-> todo,
     own |-> {}]

\* A BigQuery adapter connects to nothing when it is made.
Init ==
    /\ adapter \in Adapters
    /\ executor = IF adapter = "bigquery" THEN "ready" ELSE "connecting"
    /\ cancelled = FALSE
    /\ queue = <<>> /\ leased = 0 /\ broken = 0
    /\ slots = 0 /\ waiters = <<>>
    /\ \E ops \in [Callers -> Ops] :
          /\ \A a \in Callers :
                ops[a] \in RunnerSide => adapter = "postgres"
          /\ caller \in {f \in [Callers -> UNION {
                             {New(ops[a], todo) : todo \in Steps(ops[a])}
                                : a \in Callers}] :
                           \A a \in Callers : f[a].op = ops[a]}

-----------------------------------------------------------------------------
(* The pool.                                                               *)

\* create(): one connection is made and given back before anything else; if
\* that fails the pool is ended and create() rejects, so nobody gets to ask.
CreatePostgres ==
    /\ adapter = "postgres" /\ executor = "connecting"
    /\ executor' \in {"ready", "unreachable"}
    /\ UNCHANGED <<adapter, cancelled, queue, leased, broken, slots, waiters,
                   caller>>

CreateMySql ==
    /\ adapter = "mysql" /\ executor = "connecting"
    /\ executor' \in {"ready", "unreachable"}
    /\ UNCHANGED <<adapter, cancelled, queue, leased, broken, slots, waiters,
                   caller>>

\* What client.release(err) does: a client that comes with an error is closed,
\* one without is idle again, broken or not.
GiveBack(withError, isBroken) ==
    /\ leased' = leased - 1
    /\ broken' = IF isBroken /\ ~withError THEN broken + 1 ELSE broken

\* Mutants: a release for everyone who asks; the error not passed on.
ReleaseEveryTime(r, withError, isBroken) == GiveBack(withError, isBroken)
ReleaseWithoutError(r, withError, isBroken) ==
    IF r.released THEN UNCHANGED <<leased, broken>> ELSE GiveBack(FALSE, isBroken)

\* releaseOnce(): the first of the client's error, the query's error and the
\* finally block gives the client back, the others do nothing.
ReleaseOnce(r, withError, isBroken) ==
    IF r.released THEN UNCHANGED <<leased, broken>>
    ELSE GiveBack(withError, isBroken)

Copies(a, n) == [i \in 1..n |-> a]

\* A job settled: its place in the PromisePoolExecutor is free.
JobLeaves == leased' = leased - 1 /\ UNCHANGED broken

\* executeAction() and execute() ask for a client.  BigQuery has no clients:
\* its withClientLock() calls back at once.  The runner starts no action once
\* it is cancelled.
Ask(a) ==
    /\ executor = "ready" /\ caller[a].pc = "start"
    /\ caller[a].op \in RunnerOps
    /\ IF cancelled
       THEN /\ caller' = [caller EXCEPT ![a].pc = "over", ![a].result = "CANCELLED"]
            /\ UNCHANGED queue
       ELSE IF adapter = "bigquery"
       THEN /\ caller' = [caller EXCEPT ![a].pc = "between"]
            /\ UNCHANGED queue
       ELSE /\ caller' = [caller EXCEPT ![a].pc = "asking"]
            /\ queue' = Append(queue, a)
    /\ UNCHANGED <<adapter, executor, cancelled, leased, broken, slots, waiters>>

\* The head of the queue gets a client: the lock of an action, the client of
\* one call of a batch, or the turn of a BigQuery job, whose generator
\* registers for the cancellation only now.
Connect ==
    /\ queue # <<>> /\ leased < ConnectionLimit
    /\ queue' = Tail(queue)
    /\ leased' = leased + 1
    /\ LET a == Head(queue)
           r == caller[a]
       IN  caller' = [caller EXCEPT ![a] =
             IF r.pc = "asking" THEN [r EXCEPT !.pc = "between", !.lock = "whole"]
             ELSE IF r.call = "queued"
             THEN [r EXCEPT !.call = "creating", !.onCancel = "registered"]
             ELSE [r EXCEPT !.running = @ + 1]]
    /\ UNCHANGED <<adapter, executor, cancelled, broken, slots, waiters>>

\* One call of a batch is rejected: so is Promise.all, and with it the
\* operation, while the other calls go on.  evaluate() makes it a verdict.
Rejected(r) ==
    IF r.pc # "batch" THEN r
    ELSE IF r.op = "evaluate" THEN [r EXCEPT !.left = @ - 1]
    ELSE [r EXCEPT !.pc = "over", !.left = 0, !.result = "FAILED"]

\* No client can be had: withClientLock() rejects before its callback.
ConnectFails ==
    /\ adapter # "bigquery"
    /\ queue # <<>> /\ leased < ConnectionLimit
    /\ queue' = Tail(queue)
    /\ LET a == Head(queue)
           r == caller[a]
       IN  caller' = [caller EXCEPT ![a] =
             IF r.pc = "asking" THEN [r EXCEPT !.pc = "over", !.result = "FAILED"]
             ELSE Rejected(r)]
    /\ UNCHANGED <<adapter, executor, cancelled, leased, broken, slots, waiters>>

\* The connection of an action is lost, during a statement or between two.
\* Postgres: the client's "error" gives it back with the error; a statement
\* that is running fails.  mysql2 takes a lost connection out of its pool.
ConnectionLost(a) ==
    /\ ConnectionsDrop
    /\ caller[a].lock = "whole"
    /\ caller' = [caller EXCEPT ![a].lock = "lost", ![a].released = TRUE,
                    ![a].call = IF @ = "running" THEN "rejected" ELSE @]
    /\ ReleaseOnce(caller[a], TRUE, TRUE)
    /\ UNCHANGED <<adapter, executor, cancelled, queue, slots, waiters>>

-----------------------------------------------------------------------------
(* The tasks of an action.                                                 *)

\* client.execute(): Postgres registers for the cancellation and sends the
\* statement; MySQL only sends it; on a client that was closed it is rejected
\* unsent.  BigQuery queues a job.
Execute(r) ==
    [r EXCEPT !.pc = "executing",
              !.attempt = @ + 1,
              !.jobs = IF adapter = "bigquery" THEN 1 ELSE 0,
              !.onCancel = IF adapter = "postgres" THEN "registered" ELSE "none",
              !.sent = IF r.released \/ adapter = "bigquery" THEN @ ELSE @ + 1,
              !.call = IF adapter = "bigquery" THEN "queued"
                       ELSE IF r.released THEN "rejected" ELSE "running"]

\* The loop over the tasks: the next one is run while the action is RUNNING
\* and not cancelled; otherwise it and those behind it are SKIPPED.
NextTask(a) ==
    LET r == caller[a]
        runs == r.result = "RUNNING" /\ ~cancelled
    IN  /\ r.pc = "between" /\ r.op = "action"
        /\ caller' = [caller EXCEPT ![a] =
              IF r.task < Tasks /\ runs
              THEN Execute([r EXCEPT !.attempt = 0, !.sent = 0])
              ELSE [r EXCEPT !.task = Tasks, !.pc = "leaving"]]
        /\ queue' = IF r.task < Tasks /\ runs /\ adapter = "bigquery"
                    THEN Append(queue, a) ELSE queue
        /\ UNCHANGED <<adapter, executor, cancelled, leased, broken, slots,
                       waiters>>

\* The statement ran to its end: the query's "end", or conn.query() resolves.
StatementEnds(a) ==
    /\ caller[a].call = "running" /\ adapter # "bigquery"
    /\ caller' = [caller EXCEPT ![a].call = "ended"]
    /\ UNCHANGED <<adapter, executor, cancelled, queue, leased, broken, slots,
                   waiters>>

\* The query's "error": the client is given back at once, with the error, so
\* that it is closed; the callback goes on with it.
PostgresStatementFails(a) ==
    /\ caller[a].call = "running" /\ adapter = "postgres"
    /\ caller' = [caller EXCEPT ![a].call = "rejected", ![a].released = TRUE]
    /\ ReleaseOnce(caller[a], TRUE, TRUE)
    /\ UNCHANGED <<adapter, executor, cancelled, queue, slots, waiters>>

\* conn.query() rejects; the connection is as good as before.
MySqlStatementFails(a) ==
    /\ caller[a].call = "running" /\ adapter = "mysql"
    /\ caller' = [caller EXCEPT ![a].call = "rejected"]
    /\ UNCHANGED <<adapter, executor, cancelled, queue, leased, broken, slots,
                   waiters>>

\* The attempts retry() makes in executeTask().  (Its exception for tasks of
\* type "operation" never applies: build() makes none.)
MaxAttempts == ActionRetryLimit + 1

\* retry(): every rejection counts as one that may be retried.
Retried(r) == r.call = "rejected" /\ r.attempt < MaxAttempts

\* The call settles: a result makes the task SUCCESSFUL; a rejection is
\* retried, whatever it was, and in the end makes the task CANCELLED if the
\* run is, else FAILED.
Settle(a) ==
    LET r == caller[a]
        retried == Retried(r)
    IN  /\ r.pc = "executing" /\ r.call \in {"ended", "rejected"}
        /\ caller' = [caller EXCEPT ![a] =
              IF retried THEN Execute(r)
              ELSE [r EXCEPT !.pc = "between", !.task = @ + 1, !.call = "none",
                             !.onCancel = "none",
                             !.done = IF r.call = "ended" THEN @ + 1 ELSE @,
                             !.result = IF r.call = "ended" THEN @
                                        ELSE IF cancelled THEN "CANCELLED"
                                        ELSE "FAILED"]]
        /\ queue' = IF retried /\ adapter = "bigquery" THEN Append(queue, a)
                    ELSE queue
        /\ UNCHANGED <<adapter, executor, cancelled, leased, broken, slots,
                       waiters>>

\* cancel() emits CANCEL_EVENT.  A Postgres query that is registered is
\* destroyed, which is an error of it like any other; a BigQuery job that is
\* being created has its flag set; one that has a stream rejects the call
\* (the job itself goes on).
Strike(r) ==
    IF r.onCancel # "registered" \/ r.call \in {"ended", "rejected"} THEN r
    ELSE [r EXCEPT !.onCancel = "called",
                   !.call = IF @ \in {"running", "checking"} THEN "rejected"
                            ELSE @,
                   !.released = @ \/ (adapter = "postgres" /\ r.call = "running")]

Struck == {a \in Callers : /\ caller[a].onCancel = "registered"
                           /\ caller[a].call \in {"running", "checking"}}

Cancel ==
    /\ ~cancelled /\ executor = "ready"
    /\ \E a \in Callers : caller[a].op \in RunnerOps
    /\ cancelled' = TRUE
    /\ caller' = [a \in Callers |-> Strike(caller[a])]
    /\ leased' = leased - Cardinality(Struck)
    /\ UNCHANGED <<adapter, executor, queue, broken, slots, waiters>>

\* Mutant: only a stream that is there is cancelled.
JobCreatedUnasked(a) ==
    /\ caller[a].call = "creating"
    /\ caller' = [caller EXCEPT ![a].call = "running", ![a].sent = caller[a].attempt]
    /\ UNCHANGED <<adapter, executor, cancelled, queue, leased, broken, slots,
                   waiters>>

\* BigQuery answers the request for a job: the call that was cancelled in the
\* meantime is rejected now, the other one streams the job's rows.
JobCreated(a) ==
    /\ caller[a].call = "creating"
    /\ IF caller[a].onCancel = "called"
       THEN caller' = [caller EXCEPT ![a].call = "rejected"] /\ JobLeaves
       ELSE /\ caller' = [caller EXCEPT ![a].call = "running",
                                        ![a].sent = caller[a].attempt]
            /\ UNCHANGED <<leased, broken>>
    /\ UNCHANGED <<adapter, executor, cancelled, queue, slots, waiters>>

\* The request, the job or the question for its metadata fails.  An error that
\* says that retrying may help is retried inside the same call.
JobFails(a) ==
    LET r == caller[a]
    IN  /\ adapter = "bigquery" /\ r.call \in {"creating", "running", "checking"}
        /\ \/ /\ caller' = [caller EXCEPT ![a].call = "rejected"]
              /\ JobLeaves
           \/ /\ r.jobs < JOB_MAX_ATTEMPTS
              /\ caller' = [caller EXCEPT ![a].call = "creating", ![a].jobs = @ + 1]
              /\ UNCHANGED <<leased, broken>>
        /\ UNCHANGED <<adapter, executor, cancelled, queue, slots, waiters>>

\* The rows came to their end: whether the job failed all the same is asked
\* for before the call settles.
JobStreamed(a) ==
    /\ adapter = "bigquery" /\ caller[a].call = "running"
    /\ caller' = [caller EXCEPT ![a].call = "checking"]
    /\ UNCHANGED <<adapter, executor, cancelled, queue, leased, broken, slots,
                   waiters>>

JobSucceeds(a) ==
    /\ caller[a].call = "checking"
    /\ caller' = [caller EXCEPT ![a].call = "ended"]
    /\ JobLeaves
    /\ UNCHANGED <<adapter, executor, cancelled, queue, slots, waiters>>

-----------------------------------------------------------------------------
(* Extracts, exports and imports: they hold the client of their action, and *)
(* work on connections of their own.                                        *)

\* acquireExtractSlot(); exports and imports need none.
Acquire(a) ==
    LET r == caller[a]
    IN  /\ r.pc = "between" /\ r.op \in RunnerSide
        /\ IF r.result = "RUNNING" /\ ~cancelled /\ r.steps # <<>>
           THEN IF r.op # "extract"
                THEN /\ caller' = [caller EXCEPT ![a].pc = "stepping"]
                     /\ UNCHANGED <<slots, waiters>>
                ELSE IF slots < MAX_CONCURRENT_EXTRACTS
                THEN /\ caller' = [caller EXCEPT ![a].pc = "stepping"]
                     /\ slots' = slots + 1
                     /\ UNCHANGED waiters
                ELSE /\ caller' = [caller EXCEPT ![a].pc = "slot"]
                     /\ waiters' = Append(waiters, a)
                     /\ UNCHANGED slots
           ELSE /\ caller' = [caller EXCEPT ![a].pc = "leaving"]
                /\ UNCHANGED <<slots, waiters>>
        /\ UNCHANGED <<adapter, executor, cancelled, queue, leased, broken>>

\* An extract without columnTypes is refused before it asks for a slot.
Refuse(a) ==
    /\ caller[a].pc = "between" /\ caller[a].op = "extract"
    /\ caller[a].result = "RUNNING" /\ ~cancelled /\ caller[a].steps # <<>>
    /\ caller' = [caller EXCEPT ![a].pc = "leaving", ![a].steps = <<>>,
                                ![a].task = Tasks, ![a].result = "FAILED"]
    /\ UNCHANGED <<adapter, executor, cancelled, queue, leased, broken, slots,
                   waiters>>

\* releaseExtractSlot() in the finally block: the first waiter resumes, and
\* counts itself, before another event of the process is handled.
ReleaseExtractSlot(f) ==
    IF waiters = <<>>
    THEN caller' = f /\ slots' = slots - 1 /\ UNCHANGED waiters
    ELSE /\ caller' = [f EXCEPT ![Head(waiters)].pc = "stepping"]
         /\ waiters' = Tail(waiters)
         /\ UNCHANGED slots

\* What a step opens: create() of the source's and of the target's adapter (a
\* pool each), and withDuckdb()'s instance with its connection.
Opens(step) == IF step \in {"source", "target", "duckdb"} THEN {step} ELSE {}

\* What is closed behind a step that succeeded: the source once it is read,
\* the rest behind the last step.
Closes(r) ==
    IF Len(r.steps) = 1 THEN {"target", "duckdb"}
    ELSE IF Head(r.steps) = "read" THEN {"source"} ELSE {}

StepEnds(a) ==
    LET r == caller[a]
        next == [r EXCEPT !.steps = Tail(@),
                          !.own = (@ \union Opens(Head(r.steps))) \ Closes(r)]
    IN  /\ r.pc = "stepping"
        /\ IF Len(r.steps) > 1
           THEN caller' = [caller EXCEPT ![a] = next] /\ UNCHANGED <<slots, waiters>>
           ELSE LET f == [caller EXCEPT ![a] =
                             [next EXCEPT !.pc = "leaving", !.task = Tasks]]
                IN  IF r.op = "extract" THEN ReleaseExtractSlot(f)
                    ELSE caller' = f /\ UNCHANGED <<slots, waiters>>
        /\ UNCHANGED <<adapter, executor, cancelled, queue, leased, broken>>

\* What is closed when a step fails: the finally block around the read closes
\* the source; createPgLoader()'s catch and the finally block around the load
\* close the target; withDuckdb() closes its connection and instance.  A pool
\* that could not connect was ended by create() (a DuckDB instance whose
\* connect() fails is only dropped).
LeftOpen(r) ==
    r.own \ (CASE Head(r.steps) = "read" -> {"source"}
               [] Head(r.steps) \in {"create", "load"} -> {"target"}
               [] Head(r.steps) \in {"attach", "copy", "write"} -> {"duckdb"}
               [] OTHER -> {})

\* Mutant: the slot is given back behind an extract that succeeded only.
StepFailsWithSlot(a) ==
    LET r == caller[a]
    IN  /\ r.pc = "stepping"
        /\ caller' = [caller EXCEPT ![a] =
                [r EXCEPT !.pc = "leaving", !.steps = <<>>, !.own = LeftOpen(r),
                          !.task = Tasks,
                          !.result = IF cancelled THEN "CANCELLED" ELSE "FAILED"]]
        /\ UNCHANGED <<adapter, executor, cancelled, queue, leased, broken, slots,
                       waiters>>

\* A step fails: whatever was opened is closed, and the task has its outcome.
StepFails(a) ==
    LET r == caller[a]
        f == [caller EXCEPT ![a] =
                [r EXCEPT !.pc = "leaving", !.steps = <<>>, !.own = LeftOpen(r),
                          !.task = Tasks,
                          !.result = IF cancelled THEN "CANCELLED" ELSE "FAILED"]]
    IN  /\ r.pc = "stepping"
        /\ IF r.op = "extract" THEN ReleaseExtractSlot(f)
           ELSE caller' = f /\ UNCHANGED <<slots, waiters>>
        /\ UNCHANGED <<adapter, executor, cancelled, queue, leased, broken>>

-----------------------------------------------------------------------------
(* The end of the lock, and what follows it.                               *)

\* The finally block of withClientLock() gives back the client, unless an
\* error did already.  Then setMetadata(), if the action is still RUNNING and
\* is a table; a cancelled run does it too.
Leave(a) ==
    LET r == caller[a]
    IN  /\ r.pc = "leaving"
        /\ IF r.lock = "none" THEN UNCHANGED <<leased, broken>>
           ELSE ReleaseOnce(r, FALSE, r.lock = "lost")
        /\ caller' = [caller EXCEPT ![a] =
              [r EXCEPT !.lock = "none", !.released = FALSE,
                        !.pc = IF r.result = "RUNNING" /\ r.op = "action"
                               THEN "describing" ELSE "over",
                        !.result = IF @ = "RUNNING" /\ r.op # "action"
                                   THEN "SUCCESSFUL" ELSE @]]
        /\ UNCHANGED <<adapter, executor, cancelled, queue, slots, waiters>>

\* The calls of a batch are made at once: they queue for clients, or are at
\* the API already.
StartBatch(a, r, todo) ==
    LET b == Head(todo)
    IN  /\ caller' = [caller EXCEPT ![a] =
              [r EXCEPT !.pc = "batch", !.batches = todo, !.left = b.n,
                        !.running = IF b.via = "api" THEN b.n ELSE 0]]
        /\ queue' = IF b.via = "api" THEN queue ELSE queue \o Copies(a, b.n)

\* An operation of the adapter begins; so does the setMetadata() of an action.
Begin(a) ==
    LET r == caller[a]
    IN  /\ executor = "ready"
        /\ \/ r.pc = "start" /\ r.op \notin RunnerOps
           \/ r.pc = "describing"
        /\ StartBatch(a, r, First(r.op))
        /\ UNCHANGED <<adapter, executor, cancelled, leased, broken, slots,
                       waiters>>

\* Postgres refuses to drop a materialized view as a table, which is what
\* deleteTable() asks it for.
Refused(r) ==
    adapter = "postgres" /\ r.op = "deleteTable" /\ r.found = "matview"

\* A table that is not there: BigQuery's setMetadata() trips over the null that
\* getMetadata() makes of it, and GetTable answers with an error.
Unreadable(r) ==
    /\ r.found = "none"
    /\ r.op = "getTable" \/ (adapter = "bigquery" /\ r.op = "action")

\* The client of one call goes back to the pool as its withClientLock() ends:
\* closed after an error, idle else.
UnitReleases(r) ==
    IF Head(r.batches).via = "api" THEN UNCHANGED <<leased, broken>>
    ELSE GiveBack(TRUE, FALSE)

UnitEnds(a) ==
    LET r == caller[a]
    IN  /\ r.running > 0 /\ ~(r.pc = "batch" /\ Refused(r))
        /\ caller' = [caller EXCEPT ![a].running = @ - 1,
                         ![a].left = IF r.pc = "batch" THEN @ - 1 ELSE @]
        /\ UnitReleases(r)
        /\ UNCHANGED <<adapter, executor, cancelled, queue, slots, waiters>>

UnitFails(a) ==
    LET r == caller[a]
    IN  /\ r.running > 0
        /\ caller' = [caller EXCEPT ![a] = Rejected([r EXCEPT !.running = @ - 1])]
        /\ UnitReleases(r)
        /\ UNCHANGED <<adapter, executor, cancelled, queue, slots, waiters>>

\* All calls of the batch are there: on to the next one, to what follows from
\* what was found, or to the end.
NextBatch(a) ==
    LET r == caller[a]
        over == [r EXCEPT !.pc = "over", !.result = "SUCCESSFUL"]
    IN  /\ r.pc = "batch" /\ r.left = 0
        /\ IF Len(r.batches) > 1
           THEN StartBatch(a, r, Tail(r.batches))
           ELSE IF LooksFirst(r.op) /\ r.found = "unknown"
           THEN \E k \in Found :
                   LET s == [r EXCEPT !.found = k]
                   IN  IF Unreadable(s)
                       THEN /\ caller' = [caller EXCEPT ![a] =
                                  [over EXCEPT !.found = k, !.result = "FAILED"]]
                            /\ UNCHANGED queue
                       ELSE IF Rest(r.op, k) = <<>>
                       THEN /\ caller' = [caller EXCEPT ![a] = [over EXCEPT !.found = k]]
                            /\ UNCHANGED queue
                       ELSE StartBatch(a, s, Rest(r.op, k))
           ELSE caller' = [caller EXCEPT ![a] = over] /\ UNCHANGED queue
        /\ UNCHANGED <<adapter, executor, cancelled, leased, broken, slots,
                       waiters>>

-----------------------------------------------------------------------------
CallerStep(a) ==
    \/ Ask(a) \/ NextTask(a) \/ StatementEnds(a) \/ PostgresStatementFails(a)
    \/ MySqlStatementFails(a) \/ Settle(a) \/ ConnectionLost(a)
    \/ JobCreated(a) \/ JobFails(a) \/ JobStreamed(a) \/ JobSucceeds(a)
    \/ Acquire(a) \/ Refuse(a) \/ StepEnds(a) \/ StepFails(a)
    \/ Leave(a) \/ Begin(a) \/ UnitEnds(a) \/ UnitFails(a) \/ NextBatch(a)

Next ==
    \/ CreatePostgres \/ CreateMySql
    \/ Connect \/ ConnectFails \/ Cancel
    \/ \E a \in Callers : CallerStep(a)

Spec == Init /\ [][Next]_vars

\* The process goes on as long as there is something it can do: the event loop
\* handles every event, the warehouse answers or refuses every call.
FairSpec == Spec /\ WF_vars(Next)

-----------------------------------------------------------------------------
TypeOK ==
    /\ adapter \in Adapters
    /\ executor \in {"connecting", "ready", "unreachable"}
    /\ cancelled \in BOOLEAN
    /\ queue \in Seq(Callers)
    /\ leased \in 0..ConnectionLimit
    /\ broken \in Nat
    /\ slots \in 0..MAX_CONCURRENT_EXTRACTS
    /\ waiters \in Seq(Callers)
    /\ caller \in [Callers -> Caller]

\* What a caller holds of the pool now: the client of its action's lock, the
\* place of its job, the clients of the calls of a batch.
HoldsClient(r) == r.lock # "none" /\ ~r.released
HoldsJob(r) == adapter = "bigquery" /\ r.call \in {"creating", "running", "checking"}
BatchHolds(r) ==
    IF r.running > 0 /\ Head(r.batches).via = "pool" THEN r.running ELSE 0

Holds(r) == (IF HoldsClient(r) THEN 1 ELSE 0) + (IF HoldsJob(r) THEN 1 ELSE 0)
            + BatchHolds(r)

\* Everything that is held, and the extracts that are at work.
InUse == UNION {{<<a, i>> : i \in 1..Holds(caller[a])} : a \in Callers}
AtWork == {a \in Callers : caller[a].op = "extract" /\ caller[a].pc = "stepping"}

\* What is limited comes back, once: the clients the pool counts as leased are
\* those that somebody still works with, a client on which a statement failed
\* is never idle in the pool again (it would fail its next user), the slots in
\* use are those of the extracts at work, and who is through has closed what
\* it opened.  (utils/postgres.ts:69-88, 131-137, 144-150)
ClientsComeBack ==
    /\ leased = Cardinality(InUse)
    /\ broken = 0
    /\ slots = Cardinality(AtWork)
    /\ \A a \in Callers : caller[a].pc \in {"leaving", "over"} => caller[a].own = {}

\* Cancelling a run reaches every call that registered for it: none of them
\* succeeds afterwards, whatever the warehouse answers, be it that the job was
\* only being created or that its rows were all there.  (bigquery.ts:536-566,
\* utils/postgres.ts:116)
CancelReachesEveryCall ==
    [][\A a \in Callers :
          caller[a].onCancel = "called" => caller'[a].done = caller[a].done]_vars

\* Everything asked of the warehouse is answered, one way or the other, however
\* few clients there are and whoever else waits: nobody waits for a client or
\* a slot that never comes back, also not behind calls that were left alone
\* by an operation that failed.
CallsEnd == \A a \in Callers :
    <>(executor = "unreachable" \/ (caller[a].pc = "over" /\ caller[a].running = 0))

\* A retry is an attempt at the statement: the second attempt gets to the
\* warehouse as the first one did.
\* (run_command.ts:135)
RetriesReachTheWarehouse ==
    \A a \in Callers :
        ~cancelled /\ caller[a].attempt > 1 /\ caller[a].pc = "executing"
        /\ caller[a].call \in {"running", "checking", "ended", "rejected"}
            => caller[a].sent = caller[a].attempt

=============================================================================
