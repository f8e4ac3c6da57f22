# SQLAnvil in TLA+

SQLAnvil compiles a project of SQLX files into a graph of actions (tables, views, incremental
tables, operations, assertions, extracts, imports, exports, scripts) and runs that graph against a
warehouse: BigQuery, Postgres, Supabase or MySQL. This directory specifies the parts of it whose
correctness depends on the order in which things happen, checks them with TLC and proves the core
with TLAPS.

    tlc -workers 2 -config Runner_safety.cfg MCRunner        # a run
    tlapm RunnerProofs.tla                                    # the proofs

`PROJECT.json` lists the runs, the lines of source behind each definition (`map`), the mutants that
show what each property can catch, the disagreements found, and the hazards of the code with the
properties that watch over them.

## 1. Inventory

How a `sqlanvil run` flows through the system:

    compile (child process, vm) -> CompiledGraph -> prune -> state (warehouse metadata)
        -> Builder.build -> ExecutionGraph -> Runner -> IDbAdapter -> warehouse

| Component | State | Operations | Hard behaviour | What makes it correct |
|---|---|---|---|---|
| **Runner** (`cli/api/commands/run.ts`) | results so far, `executedActionTargets`, `successfullyExecutedActionTargets`, `pendingActions`, `stopped`, `cancelled`, the timer | `execute`, `cancel`, `stop`, `result`, `resume`; per action the dispatch, the task loop, retries, `setMetadata` | one coroutine per action; cancellation, deadline and stop at any `await`; retries; resumption; a bounded pool | dependencies first; each task once; outcomes final; nothing starts after a cancellation; a run settles; SUCCESSFUL means all was done |
| **Build** (`build.ts`, `state.ts`, `execution_sql.ts`, `tasks.ts`) | none; reads warehouse metadata once | an action becomes tasks | the metadata is a snapshot | tasks have the types the Runner's exemptions look for |
| **Materialization SQL** (`*_execution_sql.ts`) | the warehouse's relations | `publishTasks` and what it calls | statements that fail in the middle; types that change; cascades; incremental history | what is reported built is built; history is kept; a later run repairs what a failed one left |
| **Extract, import, export** (`extract_load.ts`, `bigquery_extract.ts`, `mysql_extract.ts`, `duckdb*.ts`) | the loaded table | drop, create, load in batches | not atomic | readers see a whole load |
| **Validate** (`validate.ts`, `validate_graph.ts`, `validate_command.ts`) | `statusByKey`, shadow schemas and stubs in the warehouse | ordering, judging, stubs, teardown, sweep, SIGINT | concurrent runs, kills, failing calls, age-based sweeping | one error does not cascade; nothing is left behind, nothing live is taken |
| **Warehouse adapters** (`dbadapters/`, `utils/postgres.ts`, `utils/mysql.ts`) | pools of clients, BigQuery jobs, `onCancel` handlers | `execute`, `withClientLock`, `table(s)`, `search`, `evaluate`, `schemas`, `deleteTable`, `setMetadata` | leases, cancellation of a job being created, a client released by an error | a client comes back once; a cancelled call does not succeed; everything is answered |
| **Prune** (`prune.ts`) | none | selection by name, tag and closure | names are patterns | what was asked for, all it needs, nothing else |
| **Compile session** (`core/main.ts`, `core/session.ts`, `core/utils.ts`) | the session's actions, names and errors | loading, registration, resolution of references, the passes of `compile()` | order of registration; ambiguous names; names before and after an environment's suffix | each reference resolves to one target; the graph is acyclic; no definition is lost silently |
| **Actions** (`core/actions/`) | an action's proto and what its builder keeps | constructor, builder calls, `compile()` | calls that move or disable an action after others were derived from it | what is derived (inline assertions, gates) follows the action |
| **Compile and JiT workers** (`compile.ts`, `compile_copy_filter.ts`, `base_worker.ts`, `jit/`, `cli/vm/`) | a child process and its promise, a temporary copy of the project | copy, install, start, message, timeout, exit, kill | answers, timeouts and exits race; links and ignore files | one outcome, no process and no copy left; the copy compiles to what the project does |
| **Script actions** (`script_run.ts`) | a child process | spawn, timeout, kill | grandchildren keep the pipes open | the promise settles |
| **Module resolution** (`common/vm/module_resolver.ts`) | none | a name becomes a file | links, index files, nested `node_modules` | the same in the copy as in the project |
| Artifacts and docs, migration, SQLX lexer and formatter, command line, VS Code | none that outlives a call | text and files | none that a model reaches better than a unit test | - |

The hazards, each at its line, are in `PROJECT.json`.

## 2. Modules

| Module | Stands for |
|---|---|
| `Runner` | class Runner of `run.ts`: one TLA+ action per stretch of code between two awaits |
| `RunSpec` | the abstract specification: what a run promises of its actions, without clients, tasks, retries or stop |
| `Build` | `build.ts` and the `create*Tasks()`: an action of the compiled graph becomes tasks |
| `BuiltRunner` | a `Runner` on a graph that `Build` made, as `run_command.ts` composes them |
| `MCRunner` | instances for TLC |
| `RunnerProofs` | the inductive invariant of `Runner`, all its safety properties, and that it implements `RunSpec`, proved |
| `Materialize`, `MCMaterialize` | the `publishTasks()` of Postgres (and Supabase), BigQuery and MySQL, `createPgLoader()`, `buildImportSql()`, and the warehouse they act on |
| `MaterializeProofs` | the inductive invariant of `Materialize` and all its properties, proved |
| `Validate`, `MCValidate` | `validate()`, its order, its sweep and its SIGINT handler, for several processes |
| `ValidateProofs` | what becomes of the shadow schemas, the order of the nodes and their verdicts: all safety properties of `Validate`, proved |
| `Targets` | names and references: targets, settings, suffixes, resolution (`core/targets.ts`, `core/utils.ts`) |
| `Actions` | the action classes of `core/actions/`: what a definition puts in the session and what it compiles to |
| `Session`, `MCSession` | a compilation from loading to the graph, and the pruning of the graph |
| `ActionsProofs` | what every constructor, builder call and `compile()` promises of any definition, as lemmas |
| `SessionProofs` | the inductive invariant of `Session` and all its safety properties, proved |
| `ProjectFiles` | a tree of files with links and ignore files: the copy, the listing, the resolution of modules, the notes |
| `Induction` | induction up to a number and recursive functions, as lemmas the provers can cite |
| `Workers`, `MCWorkers` | `compile()`, `BaseWorker`, the compile and the JiT worker, `runScript()`: one job with its child process |
| `WorkersProofs` | that a copy lists what the project does; the inductive invariant of `Workers` and all its safety properties, proved |
| `Calls`, `MCCalls` | the calls made of a warehouse and what they compete for: clients, jobs, extract slots, pools of extracts |
| `CallsProofs` | the inductive invariant of `Calls`, and all its safety properties, proved |

### Runner

State: `status` and `taskResults` are `runResult.actions`; `executed`, `successful`, `pending`,
`stopped`, `cancelled` and `timedOut` are the fields of the class; `timer` is the timeout; `phase`
is where `executeGraph()` is and `pc` where the coroutine of each action is; `call` and `attempt`
are the adapter call of the current task and how often `retry()` made it. `ran` is a history
variable, read by no action.

Actions: `Execute`, `SchemasReady`/`SchemasFail` (prepareAllSchemas), `Lock`/`LockFails`
(withClientLock), `Submit` (the adapter accepts the call and, if it can, listens for the
cancellation), `CallSucceeds`/`AssertionFails`/`CallFails`, `ContinueTasks` (the task loop goes on),
`Unlock`, `SetMetadata`/`SetMetadataFails`, `Return` (the dispatch after an action), `Finish`,
`ClearTimer`, `Cancel`, `Timeout`, `Stop`, `Resume`. `ExecuteAllReady` is
`executeAllActionsReadyForExecution()` up to its first await; since `Execute` and `Return` contain
it, dispatching is never optional.

What the model takes as given:

- JavaScript runs to its next `await`; between awaits there is no interleaving.
- The targets of a graph are unique, which the compiler checks for most kinds of action (a hazard
  names the exceptions).
- A listening call always settles as rejected once it is cancelled; one that does not listen
  (MySQL's adapter, everything that runs on the runner's side) settles whenever it does.
- `cancel()` is not called before `execute()`; `resume()` is called with the result of a stopped
  run, after `result()`.
- The cap on concurrent extracts is a delay of their call; `Calls` has its counter and its waiters.
- What an adapter does inside a call is `Calls`' matter, `retry()` included; here a call settles.
- Change notifications, messages and timing are left out.

### Build and BuiltRunner

`TasksOf` gives the kinds of the tasks of each type of action and warehouse. The point of composing
it with the Runner: the Runner decides on a task's *type* whether it may be retried, and no builder
makes a task of type `"operation"`. What it decides is to call the adapter once more. On BigQuery and MySQL that
submits the statement again, and the run `runner_operation_retried` is on BigQuery; on Postgres a failed statement
has closed its client, so that the second call is refused before anything is sent (`calls_retry`).

### Materialize

`warehouse` is the project's and does not change. `config` holds the definition of each action, `relation`
what the warehouse holds under its name (its kind, rows, whether it has its unique index and its settings),
`stage` the staging tables of partitioned tables. `Build` reads the kinds of all relations and plans all
statements at once (`PublishTasks`), as `build()` does; `Execute` runs one statement, `Fail` fails one before
or after it took effect, `Crash` ends the run anywhere, `Edit` changes a definition between runs, `Arrive`
and `Expire` change the source.

What a warehouse does with a statement (`Rejected`, `Effect`, `Readers` for `cascade`, `Live`, `Content`) is
modelled from how the code uses it: it is external to the repository. A drop of the wrong kind is an error
on Postgres (extract_load.ts:120-124) and, by analogy, on BigQuery; on MySQL it does nothing, which is what
mysql_execution_sql.ts:77-78 counts on. Only Postgres drops readers along; elsewhere a view may read what is
gone (`Readable`). A matview of BigQuery follows its inputs by itself, one of MySQL is a table. The
statements of a BigQuery action are one job, executed one by one.

Rows are sets: a row is identified by its key, so an upsert and an insert both add what is new;
duplicates by repeated unkeyed inserts are not visible. Columns, pre- and post-operations and
`onSchemaChange` are left out. So is `postgres.noData` of a materialized view (postgres_execution_sql.ts:413):
created WITH NO DATA it holds nothing after its action succeeded, as was asked for. `settings` stands for everything done to a table after it was
created: its indexes and `afterTableCreated()`. With INSERT_OVERWRITE, a table is partitioned by a column
that no row lacks. Imports are read from the source. One run at a time writes to a target.

### Validate

A process goes from `list` and `sweep` (sweepOrphanShadows) over `schemas` and, per node, `node`,
`stub` and `ops` to `teardown` (or `unwind`, the `finally` after an error). `left` holds the schemas
the current loop has yet to treat, `order` the nodes yet to judge, `status` is `statusByKey`. A
shadow schema is named after its process, a stub lives in one. `TopoOrder` is Kahn's algorithm with
the sorted ready list (`Emit` is a round of it) and the fallback for cycles (`ByKey`); `Interrupt`, `HandlerDrop` and `Exit` are the
SIGINT handler, which runs beside the loop. Calls fail without effect. A failing call is an error of the
validation (`Throws`) only where nobody catches it: `evaluate()` of every adapter answers an error of any kind, a
lost connection too, with FAILURE (postgres.ts:131-138, mysql.ts:138-146, bigquery.ts:302-309), and
validate.ts:237-240 makes it the node's verdict. `lost` is a history of the nodes this has happened to. A stub that
cannot be created is passed over, and kept in mind in `stubless`. Two processes never have the
same name: the code's names differ by milliseconds. A project has no cycles: `runValidate()` returns
before it validates if there are compile errors (validate_command.ts:101), and `checkCircularity()`
(session.ts:1097) makes a cycle one. Extracts and exports are not nodes of `validate`,
and not of the model.

### Targets, Actions, Session

A behaviour is one compilation: `Load` takes one definition of the project after the other (its
constructor and builder calls: `New`), `StartCompile` to `EndChunks` are `compileGraphChunk()` chunk by
chunk, then one action per pass of `Session.compile()` (`AddTests`, `FullyQualifyDependencies`,
`RemoveUnreferencedExtracts`, `AlterActionName`, `RemoveNonUniqueActions`, `CheckTestNameUniqueness`,
`CheckCircularity`), and `Prune` on a graph without errors. There is no concurrency: what is hard is
that each pass reads names the others rewrite.

A definition `d` is a record of what its config says; `d.flaw` is the one thing wrong with it, `d.call`
the one builder call that follows. SQL is the relations it names: `texts` are the relations its
`ref()`s were replaced by, `names` those it names otherwise. A name is a sequence of words, so that a
prefix or a suffix is a word in front or behind and a pattern's star stands for any words; `Words` are the
words there are. `queue` holds the indices of the actions left to compile, `graph` maps the index of each
action that compiled to what the graph has of it, `Closure` is what a function leads to. `Targets`
translates the lookup of a reference (`FindActions`), the partial match (`Denotes`) and the names in an
environment (`FinalTarget`, `ResolveTarget`). Includes, extensions, jitData, and options that only
travel to the proto are left out.

### ProjectFiles, Workers

A behaviour is one job: a compilation of a project (with a pinned core version or not), a JiT
compilation of an action, or a script. `stage` is where the caller is, `child` the process, `timer` its
timeout, `verdict` what the promise settled with, `up` and `down` the two directions of the channel,
`work` what each body of the JiT code is doing, `asked` the database requests being served. Messages
arrive in order; the event of an exit may overtake them. `Crash`, a child that hangs (it takes no step)
and failing copies, installations, forks and requests may come anywhere. A killed child dies when
`Dies` says so; what a script started may hold its output open for ever (`pipes`).

The encoding of messages is left out: an answer is rows or an error, and correlation ids are taken to
be unique (the code draws them at random). A copy is `CopyProject(tree)`: entries by
path, links as links, what they lead to and pass through included, `.gitignore` and `.sqlanvilignore` as
pattern lists whose last match decides. What `glob` lists through links is over-approximated: `Listed`
follows every link, up to `MaxSymlinkHops`, where glob follows at most one for each `**`. A tree knows where it is
(`at`) and the directories around it (`around`), so that links are followed as the operating system and
`resolveSymlink()` do: by an absolute path, out of the project, and back in by its own name. The copy
is at `CopyDirectory`, with the project's directories around it: such a link leads elsewhere there, or nowhere. Links
outside the project are replaced by what they lead to, and files outside are left out: the compiler refuses to load
them (module_resolver.ts:178), from the project as from the copy. `IsTree` says what a tree of files is: everything in
it is in a directory of it, and no link names the copy, whose directory is drawn at random.

The command line's own version counts as unknown when it is 0.0.0. Notes are worked out for the modules a compiled
graph reports missing. The code does the same with the error of a compilation that fails (compile.ts:92-97); here only
core makes one fail, and a missing or incompatible core is no file that the copy left out.

### Calls

`caller[a]` is one promise somebody awaits: an action of the runner (its lock, its tasks with
`retry()`, its `setMetadata()`), an extract, export or import with its steps, or an operation of the
adapter, given by the *batches* of calls it makes (`PostgresTable == <<Pool(5)>>`: five queries, each
with a client of its own, at once). `queue` holds who waits for a client, `leased` counts the clients
the pool has out, `broken` the idle ones a statement failed on, `slots` and `waiters` are the runner's
`runningExtracts` and `extractWaiters`. On BigQuery `queue` and `leased` are the `PromisePoolExecutor`.

- Handing over an extract slot is one step: the microtask of the waiter that was resumed runs before
  the process handles another event, so nobody sees the counter between the decrement of the one and
  the increment of the other.
- When the connection of an action is lost, Postgres' client error gives it back; mysql2 takes it out
  of its pool itself (external).
- Batches are counted, not tracked call by call; a call of a batch that fails rejects the operation
  (`Promise.all`) and leaves the others running.
- `stop()` is `Runner`'s matter; rows, limits and the conversion of values are left out.
- BigQuery's `tables()` is given a schema. JiT code may ask without one (jit/rpc.ts:66); the listing of schemas that
  then comes first is left out.

## 3. What is checked

### Runner

`runner_safety` (254,064 states): five actions, built for Postgres, on two clients, one retry, one
resumption. `base` is a table with two statements and metadata, `op` an operation that reads it,
`report` an assertion that reads `op`, `side` (an extract) and `flag` (disabled), so there is a chain
of three (a failure two levels up), a second root that competes for a client, a task the runner
cannot cancel, and a join. Cancel, deadline, stop and every failure may come at any step.

- `DependencyOrder`: an action starts only after all its dependencies in the graph succeeded.
- `TasksInOrder`: nothing runs behind a task that did not succeed; no task completes twice or out of
  order, also not over stop and resume; a task reported SUCCESSFUL did complete.
- `SuccessIsComplete`: SUCCESSFUL means every task of every action succeeded (or is disabled). It is about runs that
  were not resumed: one that resumes a cancelled run counts what was SKIPPED or CANCELLED as executed (run.ts:171), and
  may report SUCCESSFUL without it. `OutcomesAreFinal` says that it does not start such an action again.
- `UnreportedOnlyBelowSkipped`: the code leaves some actions without a result, those below a
  skipped one; no others.
- `OutcomesAreFinal`, `NothingStartsAfterCancel`, `StopFreezesTheFrontier`: what a step may not do.
- `ImplementsRunSpec`: the Runner implements `RunSpec` under the mapping `OutcomeOf`.

`runner_live` (36,642 states): two roots, a join and a *single* client, an adapter that cannot
cancel, with and without dry run and retries. `RunSettles`: a started run is done or rejected in the
end, and so is every coroutine, including those a rejected `Promise.all` leaves behind.

Fairness, in `FairSpec`: weak fairness of every continuation, because the event loop runs what is
ready; of `Lock`, because the pool serves its waiters when a client is free; of the settling of a
call, because the warehouse answers or the connection breaks. There is none of `Cancel`, `Stop`,
`Timeout`, `Resume` or `Execute`: nobody has to do these. `LockFails` and `SetMetadataFails` need
none either.

### Materialize

`materialize_safety` (2,648,652 states, up to swapping the rows), on each warehouse: `up` loads from the
source and is a keyed, protected incremental table with settings, a view, a materialized view or (Postgres) an
extract, (Postgres, BigQuery) an import that overwrites or appends, (MySQL) a table with indexes; `mid` reads it
and is a view or a partitioned table (Postgres), or a table; `down` reads `mid` and is a view, an unkeyed
incremental table, a plain table or a matview, refreshed in place (Postgres), or overwrites partitions
(BigQuery), of one row each or of all. Two runs, each over any selection and with or without a full refresh, one
edit of a definition, two rows. Three actions let a run leave out the one in the middle; two runs and an edit
are enough to make something, to fail over an edited definition, and to repair it. For more of anything there
are the proofs.

- `BuiltAsConfigured`: an action reported built has left a relation of its kind, and nothing takes it
  away during the run, with one exception: the runner orders an action after those it reads itself. If one of
  these is not selected, nothing orders it after what *that* reads, and on Postgres the `drop ... cascade` there
  takes a view away that was just reported SUCCESSFUL (`Unordered`; two actions are not enough to see it).
- `SuccessIsUpToDate`: it holds what its inputs hold, with the same exception. It is about the inputs as a run finds
  or makes them: an action of a later run that reads the table an extract left half loaded is up to date with that.
- `KeepsHistory`: an incremental table loses rows to a full refresh only, a protected one never, but for the
  partitions it is sent anew, and but for MySQL.
- `RerunRepairs`: which leftovers make a later run fail. The property lists them all, and each does occur: a
  definition changes its kind in a way the warehouse's drops do not cover (`ChangedKind`); a keyed table was
  left without its unique index; a matview to refresh, or a relation nothing orders behind its inputs, was
  dropped by cascade; a view reads the table that an
  import replaces; an input that is not part of the run is missing.

### Validate

`validate_safety` (4.4 million states): one process over some 2000 projects of three actions (six
graphs, with keys along and against the order of the reads; every kind of action at every place; one
action left out, wrong, without a stub or with a wrong operation; with and without dry-runs of DDL),
and two processes at once whose time passes the sweep's age. Every call may fail; SIGINT and kills
may come anywhere. Six graphs of three nodes contain a chain, a fork and a join in either direction,
which is all that distinguishes the verdicts of a node and of what it reads.

- `OneErrorDoesNotCascade`: a FAILURE is the action's own: its query or an operation of it is wrong, a call for it
  was lost, or its query itself names a relation that the validation has not made (`Unmade`: not selected, or passed
  without a stub). What reads such an action does not fail with it. `lost` lets only the node fail whose
  own call it was, so that the property is about lost connections too.
- `VerdictsAgree`: what passed has no error, reads only what passed and names only what the validation made; what is
  blocked has a selected dependency that did not pass.
- `EveryNodeIsJudged`: no selected action is lost.
- `NothingIsLeftBehind`: shadows outlive a process only if it was killed, interrupted, told to keep
  them, or could not drop them.
- `YoungShadowsStay`: no sweep takes the shadow of a validation that is not older than the limit.

### Session

`session_safety` (183,063 states): some 3,200 projects of two or three definitions, under plain settings,
with a schema suffix only, and in an environment with prefix, suffixes, tests and disabled assertions, each
pruned with six selections. The first definition makes a relation `a` (17 ways: a table, view or incremental
table with inline assertions, a declaration of this or another warehouse, an operation, an import; with every
builder call), the second uses it in one of 24 ways (by bare and by qualified name, gated by its assertions or
not, as every kind of action), the third collides with them, uses both, or tests them; all triples are
compiled. One definition of each kind comes with each flaw. Two uses and a collision are what the resolution
of names, the duplicate check and the closures distinguish; for more there are the proofs.

- `EveryDependencyIsBuilt`: a dependency of a clean graph is in it, under the environment's name.
- `ReadsAreDependencies`: the relations an action's `ref()`s were replaced by are those of the actions
  it waits for, though one is resolved before the names change and the other rewritten after.
- `CleanGraphIsAcyclic`; `NothingIsLost`: a definition is in the graph or in the errors.
- `InlineAssertionsGuardTheirTable`: they follow their table wherever builder calls move it.
- `GatesWaitForInlineAssertions`: a gated dependency waits for all of them, however it is spelled.
- `SelectionIsWhatWasAsked`: the closures of `prune()`.

### Workers

`workers_safety` (15,858 states): compilations of eleven small projects (links over links, links to
nowhere and to themselves, absolute links, links that leave the project and come back, a nested `node_modules`,
ignore files that re-include), pinned or not, with
a core that is there, missing or of another major version; JiT compilations of all types with up to
two database requests per body; scripts that can and cannot be started.

- `NothingIsLeftBehind`: a call that returned left no child running, no timer armed, and no copy that
  could be removed.
- `AnswerIsTheChilds`: "ok" is what the child said, in time.
- `EveryRequestIsOnItsWay`: a waiting body's request or answer is in exactly one place.
- `CopyCompilesTheProject`: the temporary copy lists what the project lists, no more and no less, but for
  files that only a link through the outside leads to (`ListedInside`, below).
- `NotesHelp`: re-including the path a note names brings it into the copy, with two exceptions (below).
- `SettlesInTime`, under `FairSpec`: timers fire, exit and close events are delivered, a killed
  process dies. Nothing is assumed of npm, of the database or of the child; a script settles unless
  something it started keeps its output open, which is what the code does.

### Calls

`calls_safety` (423,128 states): two callers, each with any of the operations, on each adapter, with two
clients (or jobs at a time), one extract slot, one retry, one relation per listing and one column with a
description. Calls fail, connections drop, and the run is cancelled, at any step. Two clients and a
`table()` of five calls make callers wait within and behind a batch; one slot makes extracts wait for
each other while they hold the two clients.

- `ClientsComeBack`: the clients counted as leased are those somebody works with, no broken one is idle
  in the pool, slots in use are those of extracts at work, and who is through has closed what it opened.
- `CancelReachesEveryCall`: a call that registered for the cancellation does not succeed after it.
- `CallsEnd`, under weak fairness of `Next`: the event loop goes on while there is something to do, and
  the warehouse answers or refuses. No choice among enabled steps is assumed to be fair, since every
  behaviour ends.

Deadlock is not checked where the modelled code ends by itself: a validation, a compilation, a job
and the calls of a process end, and nothing has to start another.

### Disagreements found

Each is a run that TLC refutes; `PROJECT.json` quotes the sentence and the line.

| Run | What the code does |
|---|---|
| `runner_successful_when_cancelled` | an action cancelled while it has no task running is SUCCESSFUL, its tasks SKIPPED |
| `runner_operation_retried` | operations are retried: the exemption looks at a type no builder sets. On BigQuery a statement that was submitted and failed is handed to the adapter again |
| `materialize_settings_lost` | row level security, owner and indexes are never set after a run that failed behind CREATE TABLE |
| `session_suffix` | statements of row-level policies, publications and vector indexes name their table without the environment's suffix |
| `calls_retry` | on Postgres a retry is refused: the failing statement closed the client it is made on |

Seen while modelling, without a run of their own:

- `retry()` makes a cancelled call again, and nothing can cancel that one; on BigQuery a job may be
  created after the cancellation in this way (`Settle`, `Execute` in `Calls`).
- A materialized view refreshed in place is dropped by the rebuild of what it reads, and the sweep of
  `validate` drops the shadow of a validation that takes more than an hour (`Materialize`, `Validate`).
- On Postgres a run that selects a table and a view two readings above it, but not the one between, drops the
  view in whatever order the two come, and may report both SUCCESSFUL (`Unordered` in `Materialize`).
- `prune()` compares the names of `graph.targets` as they are before the environment's suffix, so that
  a pruned graph with a suffix lists no targets (prune.ts:50).
- compile_copy_filter.ts:154-159 lists what the copy must contain "for compilation to see the same inputs as
  in the original project": "everything reachable through symbolic links [...] that resolve inside the project". A link
  `definitions/l -> ../../proj/lib` resolves inside the project, and what it leads to is copied; but the copy is not
  called `proj`, the link dangles there, and a pinned project compiles without the files behind it, silently.
  An absolute link still leads to the project, whose files a compilation of the copy may not load.
  `CopyCompilesTheProject` names the exception (`Straying` and `Twofold` in `MCWorkers` have such links; without
  the exception TLC refutes it).
- compile_copy_filter.ts:344 says that the path a note names "is the one an ignore file excluded, since
  `copySync` doesn't descend into an excluded directory". It does where a link leads through one (`Beneath` and
  `Nested` in `MCWorkers`): with `lib` ignored and a link to `lib/x.sqlx`, the note names `lib/helper.js`, which no
  pattern may match, and re-including that path changes nothing as long as `lib` is ignored. Below a
  `node_modules` the note blames an ignore file that has nothing to do with it. `NotesHelp` names both exceptions
  (`CopiedThoughIgnored`, `AlwaysIgnoredNames`).
- MySQL's `shouldWriteIncrementally()` does not look at `protected`: a full refresh drops the table, though
  configs.proto:518 says protection "prevents the dataset from being rebuilt from scratch".
- On MySQL nothing drops a view before a table of its name is created, or the other way round: such an edit
  fails every run until somebody drops the relation. On BigQuery `table()` reports a matview as UNKNOWN, so
  every run after the first asks to drop a *table* of its name (`ChangedKind`).
- A keyed MySQL table left without its unique index is appended to, and its rows are repeated, where Postgres
  rejects the statement: `LeftWithoutKey` is about Postgres only.
- An import that overwrites drops its table without `cascade`: Postgres refuses while a view reads it.
- Postgres' `deleteTable()` asks for `drop table` on a materialized view, which is refused; BigQuery's
  `setMetadata()` fails on a table that is not there (`Refused`, `Unreadable`).
- When DuckDB cannot connect to the instance it made, the instance is dropped without being closed.

## 4. What is proved

### Runner

Every safety property of `runner_safety` is proved, for every graph, every number of tasks, clients,
retries and resumptions, under `GraphAssumption` and `OptionsAssumption` (dependencies are targets, tasks
are sequences of known kinds, there is at least one client). The graph need not be finite, and only
the last theorem needs it to be acyclic. Each invariant adds to the one before:

| Theorem | Property | Invariant |
|---|---|---|
| `TypeCorrect`, `DependenciesFirst` | `TypeOK`, `DependencyOrder` | `IInv` |
| `OutcomesStay`, `CancelStartsNothing`, `StopKeepsTheFrontier` | `OutcomesAreFinal`, `NothingStartsAfterCancel`, `StopFreezesTheFrontier` | `IInv` |
| `RunnerImplements` | `ImplementsRunSpec` | `RInv` |
| `FailuresAreReported` | `UnreportedOnlyBelowSkipped` | `PInv` |
| `TasksStayInOrder` | `TasksInOrder` | `TInv` |
| `SuccessMeansComplete` | `SuccessIsComplete` | `UInv` |

`DependencyOrder` is not inductive: the code does not look at a dependency's status when it starts an
action, but at `successfullyExecutedActionTargets`, and another coroutine could change the status
of an action that is in it. `IInv` adds what excludes that:

- `SuccessfulSucceeded`: what is in that set has a successful status;
- `StatusAtPc`: a coroutine that can still change its action's status finds it RUNNING (or, behind the
  lock, not successful), so a successful status is never left;
- `PendingIsIdle`: a pending action has no coroutine and no outcome, so the dispatch never overwrites
  one.

The proof goes by the actions of `Next`. Two lemmas carry it: `DispatchEffect` says what
`ExecuteAllReady` does to a single action, whatever sets and program counters it is called with, and
`OneActionStep` that a step that moves one coroutine and leaves the sets alone preserves `IInv`. The
action properties follow from `IInv` step by step.

`RunSpec` starts an action only when its dependencies succeeded, and skips it only when one did not or
the run is cancelled, so
the refinement needs the converse of `SuccessfulSucceeded`: what has been executed has an outcome and, if
it is a success, is in the set (`ExecutedHasEnded`). It needs that RUNNING is not left out of `pending` or
started twice: a resumed run has RUNNING actions pending until its first dispatch takes them, and none
afterwards (`PendingIsNew`, `IdleIsQuiet`, from `PendingRunningIsReady`).

`PInv` accounts for every action: it is pending, on its way, executed or skipped (`Accounted`), and what
stays pending waits for something not executed (`PendingWaits`). When the run is done no coroutine is on
its way, so what was waited for is pending or was skipped.

`TInv` says at which point of `executeAction()` the results of all tasks but the last are successes
(`TasksAtPc`). It covers the task loop that a resumed run enters in the middle.

`UInv` is about runs that are not cancelled, stopped or resumed: an action is SKIPPED only below one that
is FAILED or SKIPPED, and SUCCESSFUL only with all its tasks. If such a run ends without a FAILED action,
the actions that are skipped or pending are a set of which each depends on another. Such a set is empty
if the graph is `Acyclic`, the assumption of `SuccessMeansComplete`. `checkCircularity()`
(session.ts:1097) makes sure of it, and the code relies on it: the Runner would leave a cycle pending and
report SUCCESSFUL.

### Materialize

Every property of `materialize_safety` is proved, for every set of actions (finite or not, with or without
cycles), every reading among them, any definitions a warehouse supports and any number of runs and edits, under
`MaterializeAssumption`: definitions are of types the warehouse has, and extracts and imports read no action.

| Theorem | Property |
|---|---|
| `TypeCorrect` | `TypeOK` |
| `BuildsAsConfigured`, `SuccessMeansUpToDate` | `BuiltAsConfigured`, `SuccessIsUpToDate` |
| `RerunsRepair` | `RerunRepairs` |
| `HistoryIsKept` | `KeepsHistory` |

All five follow from one invariant (`Inductive`), which annotates the statements of a plan as Hoare's logic
does a program. A label (`Label`) says what the warehouse holds under an action's name between two statements:
which kinds the relation may be, whether its rows are none or the right ones, that there is no staging table,
that the statement which makes the relation is behind. `Leads` gives each kind of statement its rule, `Sound`
a plan its labels, and the argument has three parts:

- every plan `publishTasks()` makes, on each warehouse, for each definition and each kind of relation found, is
  sound, from what was found to what the definition asks for (`PlannedIsSound`);
- a statement that is executed makes the label it leads to true (`ExecutedLeads`);
- a statement of another action leaves the labels true (`StaysTrue`): it drops views, on Postgres only, and such
  a view is either not under way (`Allowed`: its label admits "none") or is one that nothing orders behind what
  is dropped (`ReadersAreUnordered`).

What a selection reads through views (`Reach`) is defined as the least set closed under reading, so that
containments are proved by showing a set closed, without induction. The proof is what found the exception in
`BuiltAsConfigured`: without it the third part fails, and TLC then shows the run on three actions.

### Validate

Every property of `validate_safety` is proved, for any number of processes, every age limit and every
project with finitely many actions and no cycle, under `ValidateAssumption`:

| Theorem | Property | Invariant |
|---|---|---|
| `ShadowsAreDropped`, `YoungShadowsAreSafe` | `NothingIsLeftBehind`, `YoungShadowsStay` | `VInv` |
| `TypeCorrect` | `TypeOK` | `JInv` |
| `AllAreJudged` | `EveryNodeIsJudged` | `JInv` |
| `VerdictsAreSound`, `ErrorsDoNotCascade` | `VerdictsAgree`, `OneErrorDoesNotCascade` | `JInv` |

`VInv` relates `left`, `pc` and `shadow` (`Knows`): a process that sweeps has only old shadows left to
sweep; one that creates shadows has all but those it has left; one that drops them has none but those it
has left or could not drop. The second step is that age is stable (`Old`, `OldStays`): between the listing
and the drop time passes and the owner goes on, but neither makes an old shadow young.

The verdicts rest on the order. `TopoOrderIsInOrder` says that `TopoOrder` lists every node once and
behind all it reads. As long as nodes are left, one of them is ready, because what is left would
otherwise be a cycle (`EmitOrders`); a list without repetition that is as long as there are nodes has them all
(`AllAreOrdered`). That the recursive function `kahn` exists and keeps this for every number of rounds needs
induction over the rounds; it goes by the least number of a set (`LeastNumber` in `Induction`): take the least
round that is wrong.

`JInv` adds to `VInv` what `VerdictsAgree` needs to be inductive:

- `Lined`: what is still to be judged is what the process has in `order`, each node behind what it reads, and
  nothing has a verdict before the loop. So when a node's turn comes, what it reads has been judged;
- `Fits`: each verdict agrees with those of what it reads, which do not change any more;
- `AtHand`: between the evaluation of a model and its verdict, what it reads has passed;
- `Stubbed`: what has passed has its stub, or is known to have none, as long as the process is `Undisturbed`. It
  is what a missing relation comes down to in `ErrorsDoNotCascade`, and with it no query passes that names what is
  not there; it holds because no step of another
  process takes a stub from an undisturbed one (`StepJudgeFrame`, from `VInv`'s knowledge of what is old).

Five lemmas (`JudgeStep`, `EvaluateStep`, ...) go through the loop; `Conclude` is what the steps that give a
verdict have in common, `QuietStep` what those that give none have.

### Workers

`WorkersProofs` proves, for every set of jobs, every project, any bodies and any number of database
requests, under `JobAssumption` (a project is a tree), `BodyAssumption`, `MaxAsksAssumption`,
`MaxSymlinkHopsAssumption` and `CopyDirectoryAssumption` (the copy is somewhere outside):

- `TypeCorrect`: `Spec => []TypeOK`
- `CleansUp`: `Spec => []NothingIsLeftBehind`
- `SuccessIsTheChilds`: `Spec => []AnswerIsTheChilds`
- `RequestsAreNeverLost`: `Spec => []EveryRequestIsOnItsWay`
- `CopyIsComplete`: `Spec => []CopyCompilesTheProject`
- `NotesAreUseful`: `Spec => []NotesHelp`

Its `IInv` says what the channel may hold (`ChannelsOK`), that whoever settles the promise has killed
the child and stopped the timer (`Stopping`), that a body asks once at a time (`AskedOnce`), and that an
answer on the channel is one the child gave when all its bodies had returned (`Answering`). The last is
what makes the success invariant inductive: the parent believes the message, not the child's state.

`EveryRequestIsOnItsWay` counts: a body that waits has its request, or its answer, in exactly one place. The
property alone says nothing of the names a body has yet to use, so that a second request could find its
answer already there. `RequestsFit` adds that these are nowhere, and that no body waits before there is a
child. Counts are cardinalities of sets of positions; `FoundAppend` and `FoundTail` say what sending
and receiving a message make of them.

`CopyIsComplete` is about the trees, not the states: for every finite tree, wherever it is and however its links are
nested, leave the project or run in circles, the copy lists exactly what the project lists without following the links
that leave it (`LinksInside`). If no link leaves it, that is what the project lists (`CopyMissesNothing`). The
argument:

- `ReachedIs`: going on as often as there are entries reaches the least set that has the roots and is closed
  under `Visits`. Each round that is not the last adds an entry, and there are only so many;
- `CopyHasInputs`: all that is visited from the input roots is copied, and so is every entry that a visited link
  passes through, with the directories above (`PrefixFacts`);
- `FurtherStaysOut`: a path that has left the project in the copy never comes back into it, since it would have to name
  the copy's directory;
- `ResolvedAgrees`: a link that passes only through what is copied, and does not leave the project, leads to the same
  place in the copy; one that does leave it leads to nothing in the copy
  (`FurtherAgrees` for a name, `WalkAgrees` for a path, then by the number of hops);
- `CopyVisitsAgree`: so from what is visited the copy goes where the project goes, and the two closures are the
  same (`CopyListsTheSame`).

That `Walk`, `Resolved` and `ReachedFrom`, which are recursive functions, exist and are what their equations say
is `ByRecursion`; what holds of all their values is `UpTo`. Both are in `Induction`, for sets and functions
rather than for operators, and rest on the library's theorem that finite sets are well-founded under inclusion.

`NotesAreUseful` needs `NotesAreDue`: a note is about something the project has, and the copy lacks though it has
all that is above it. `ReincludedIsCopied` then shows that, re-included, it passes the filter: neither it nor
anything above it is ignored any more.

### Calls

`CallsProofs` proves every safety property of `calls_safety`, for any number of callers (finite or not), any
operations, pools, slots, retries and listings, under `CallsAssumption` (there is a client and a slot to be had)
and `OpsAssumption` (the operations are those the model knows):

| Theorem | Property | Invariant |
|---|---|---|
| `TypeCorrect` | `TypeOK` | `IInv` |
| `ClientsAlwaysComeBack` | `ClientsComeBack` | `IInv` |
| `CancellationIsFinal` | `CancelReachesEveryCall` | `ReachedAreRefused` |

`ClientsComeBack` says what the counters are, and a step that finds a counter right leaves it right only if the
caller is at what the step takes it to be at: nobody is handed a client that does not wait for one, no call of a
batch ends that was never made, no lock ends twice. `IInv` adds that:

- `Fit`: what a caller is at says what it may have. There is a lock exactly inside the action, it is never marked as
  given back before there is one, a statement runs only on a client that is not given back, what is open is
  what the step at hand needs, and the steps left are in order;
- `Lines`: and how often it stands in line: once while it asks or its job is queued; in a batch, for as many of the
  calls that are left as are not running; after a batch that failed, for any that were left alone;
- `leased` and `slots` are the sums of what the callers have, the line holds as many entries of each caller as it
  waits for, nobody waits twice for a slot, and only extracts that have not started do.

The sums are cardinalities: `InUse` is the set of pairs of a caller and a number up to what it holds, so that no
induction over the callers is needed. A step gives its caller h clients more or less and k places in the line
(`Moved`); one lemma per action says so of the record alone (`...Moves`), and a few say what becomes of the process
(`OneMoves`, `ManyMove`, `ReleaseInv`). A cancellation takes a client from many callers at once: what it takes is a
subset of `InUse`, one to one with the calls it strikes (`StruckAreBack`).

For the cancellation `ReachedAreRefused` says that a call it reached is a job being created, or refused already, and
that nothing is registered for a call that was not made yet. The property alone says nothing of a call that
ended *before* it settles: the invariant shows that `cancel()` passes those by. Most steps do not touch the call:
`OneSame` and `SlotSame` dispose of them, `CallSteps` goes through the ones that do.

### Session

`SessionProofs` proves every property of `session_safety`, for every set of projects of any length, any
settings, references, names and selections, under `WordsAssumption` (the words include those the compiler
adds itself) and `SessionAssumption` (a project is a sequence of definitions, those of actions.yaml files first;
the settings are names):

| Theorem | Property |
|---|---|
| `TypeCorrect` | `TypeOK` |
| `DependenciesExist` | `EveryDependencyIsBuilt` |
| `ReadsAndDependenciesAgree` | `ReadsAreDependencies` |
| `CleanGraphsAreAcyclic` | `CleanGraphIsAcyclic` |
| `NothingGetsLost` | `NothingIsLost` |
| `InlineAssertionsGuardTables` | `InlineAssertionsGuardTheirTable` |
| `GatesAreComplete` | `GatesWaitForInlineAssertions` |
| `SelectionsAreExact` | `SelectionIsWhatWasAsked` |

All of them speak of a *clean* graph, at the end. `IInv` (`Invariant`) says what is true on the way there; TLC
checked it on the 183,063 states of the run before it was proved. As long as there is no error:

- `Built`: the session holds what constructors make (`Fit`), nothing with a fault, and each inline assertion is
  there with its table (`Whole`). `ActionsProofs` shows this of every class, builder call and `compile()`;
  `Sound`, `Guards` and `Reads` are what it promises of one action;
- `Same`: an entry of the graph has the kind, file and target of its action, renamed once names are final;
- `Reading`: its SQL names what its references found, under the final name (`Reads`);
- `Waiting`: until they are qualified its dependencies are the references, as written; afterwards each is the
  target of an action that is there, and each reference has found exactly one action, whose target it is, with its
  assertions if it was gated;
- what is not in the graph is yet to be compiled, or an extract that nothing finds (`Unwanted`).

The renaming is where names could come apart. `AlterActionName` renames a target only if an entry of the graph
other than a declaration has it. The proof names that map without the graph: `Alias` depends on the actions alone,
and on targets whose actions are all in the graph (`Present`) it is what the pass does (`AlterActionNameKeeps`). A
dependency that was found is such a target, because `removeUnreferencedExtracts()` removes extracts only, and
only those that nothing waits for. Nor does such a target belong to a declaration as well, which would keep its
name while the other is renamed: every reference that finds the one finds the other (`FoundTogether`), and a
dependency that finds two is an error. So the SQL and the dependency agree on the final name (`AliasOfFound`).

`Closure` is the least set that contains its start and is closed (`ClosureIsClosed`, `ClosureIsLeast`): its rounds
grow until one adds nothing, and there are no more of them than the function has arguments. From this:

- `SelectionsAreExact` compares closures by showing one closed under the other's function;
- `CleanGraphsAreAcyclic` takes, from a set of actions that each wait for another of it, one with the fewest
  targets ahead of it. What it waits for is of the set and has fewer, since the first is not among them: otherwise it
  would be `Circular`.

### Model-checked only

The liveness properties `RunSettles`, `CallsEnd` and `SettlesInTime`: fairness and ENABLED are beyond the
prover. Violations that the runs find are TLC's alone. The proofs about selections hold for whatever `GlobMatches`
says of a pattern and a name; that it is the regular expression would be an induction over both.

## 5. Plan

Done, in this order: `Runner` with `RunSpec`, `Build`/`BuiltRunner`, `Materialize`, `Validate`,
`Targets`/`Actions`/`Session` with pruning, `ProjectFiles`/`Workers`, `Calls`; and the proofs: every safety
property of every passing run, and the refinement.

1. The composition: what `Session` and `prune()` make is a graph as `Runner` assumes one (`GraphAssumption`,
   `Acyclic`).
2. `Build` as a theorem: no builder makes a task that the Runner's exemptions mistake.
3. `Materialize`: columns and `onSchemaChange`.

## 6. Not modelled

Artifacts, docs and migration write files from data they are given; the lexer and the formatter are
text; the command line parses options and prints; the VS Code extension calls the command line.
`artifacts.ts` runs once, after the Runner is done. None of them keeps state that another actor could
see half changed. Credentials are read, never written. Within modelled components: change notifications
and timing of the Runner; the text of statements and the conversion of rows and values; row and byte
limits; includes and extensions of a compilation; `package.json` `main` entries and the allow-list of
modules; the encoding of the workers' messages; the output of scripts and the checks of
`script_env.ts`.
