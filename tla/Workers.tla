------------------------------- MODULE Workers -------------------------------
(***************************************************************************)
(* The processes the command line starts and waits for: the worker of a    *)
(* compilation (cli/api/commands/compile.ts), of a JiT compilation         *)
(* (cli/api/commands/jit/compiler.ts, cli/vm/jit_worker.ts), both run by   *)
(* BaseWorker, and a script action's interpreter (script_run.ts).          *)
(*                                                                         *)
(* A behaviour is one such job.  The child may hang, crash, or be slow;    *)
(* its messages are delivered in order, but the event of its exit may come *)
(* before them.                                                            *)
(***************************************************************************)
EXTENDS ProjectFiles

CONSTANTS Job,          \* what is asked: of CompileJob, JitJob or ScriptJob
          Body,         \* the main bodies of JiT code
          MaxAsks,      \* how many database requests a body makes at most
          CliVersion    \* [major, minor, patch]; 0.0.0 when it is not known

JitTypes == {"operation", "table", "incremental_table", "assertion", "unrecognized"}

IsJob(j) ==
    /\ j.kind \in {"compile", "jit", "script"}
    /\ j.kind = "compile" => IsTree(j.tree)
ASSUME JobAssumption == \A j \in Job : IsJob(j)
ASSUME BodyAssumption == {"main", "incremental", "regular"} \subseteq Body
ASSUME MaxAsksAssumption == MaxAsks \in Nat

VARIABLES job,
          stage,     \* of the caller
          copy,      \* the temporary directory: "none", "there" or "removed"
          removable, \* whether removing it works
          child,     \* "none", "booting", "up", "killed" or "dead"
          timer,     \* "off", "armed", "fired" or "cleared"
          verdict,   \* what the promise settled with: "none", "ok", "failed", "timeout"
          booted,    \* the parent has seen the worker boot
          up, down,  \* the messages to the parent, and to the child
          asked,     \* the database requests the parent is serving
          exited,    \* the exit event was delivered
          work,      \* what each body does in the child
          asks,      \* how often each body asked
          replied,   \* the child has sent its answer
          pipes,     \* of a script: somebody holds its output open
          exit,      \* of a script: "none", "zero", "nonzero"
          notes      \* the paths named by notes about missing modules

caller    == <<job, stage, copy, removable, notes>>
process   == <<child, timer, verdict, exited>>
channel   == <<booted, up, down, asked>>
jit       == <<work, asks, replied>>
script    == <<pipes, exit>>
vars      == <<caller, process, channel, jit, script>>

Idle == [b \in Body |-> "idle"]

Init ==
    /\ job \in Job
    /\ stage = "called" /\ copy = "none" /\ removable \in BOOLEAN /\ notes = {}
    /\ child = "none" /\ timer = "off" /\ verdict = "none" /\ exited = FALSE
    /\ booted = FALSE /\ up = << >> /\ down = << >> /\ asked = {}
    /\ work = Idle /\ asks = [b \in Body |-> 0] /\ replied = FALSE
    /\ pipes = FALSE /\ exit = "none"

Running(c) == c \in {"booting", "up"}
Killed(c)  == IF Running(c) THEN "killed" ELSE c

-----------------------------------------------------------------------------
(* The caller of a compilation.                                            *)

\* What compile() refuses before it makes anything.
Refused(j) ==
    \/ ~j.pinned /\ "package.json" \notin j.npm
    \/ j.pinned /\ j.npm # {}

Refuse ==
    /\ job.kind = "compile" /\ stage = "called" /\ Refused(job)
    /\ stage' = "returned" /\ verdict' = "failed"
    /\ UNCHANGED <<job, copy, removable, notes, child, timer, exited, channel, jit, script>>

MakeCopy ==
    /\ job.kind = "compile" /\ stage = "called" /\ ~Refused(job) /\ job.pinned
    /\ stage' = "installing" /\ copy' = "there"
    /\ UNCHANGED <<job, removable, notes, process, channel, jit, script>>

\* Copying the project and npm install, which has no timeout.
InstallIsolatedCore ==
    /\ stage = "installing"
    /\ \/ stage' = "forking" /\ UNCHANGED verdict
       \/ stage' = "cleaning" /\ verdict' = "failed"
    /\ UNCHANGED <<job, copy, removable, notes, child, timer, exited, channel, jit, script>>

ReadyToFork ==
    \/ stage = "forking"
    \/ stage = "called" /\ job.kind = "compile" /\ ~job.pinned /\ ~Refused(job)
    \/ stage = "called" /\ job.kind = "jit"

\* fork(): the timer starts with the process; a process that could not be
\* started is an error event.
RunWorker ==
    /\ ReadyToFork
    /\ stage' = "waiting" /\ timer' = "armed"
    /\ child' \in {"booting", "dead"}
    /\ UNCHANGED <<job, copy, removable, notes, verdict, exited, channel, jit, script>>

\* There is no worker script to fork.
ResolveScriptFails ==
    /\ ReadyToFork
    /\ stage' = "cleaning" /\ verdict' = "failed"
    /\ UNCHANGED <<job, copy, removable, notes, child, timer, exited, channel, jit, script>>

\* Whether core and the command line go together: the same major version, and
\* core at least 1.0.0.
CheckCoreCompatibility(core, cli) ==
    \/ cli = [major |-> 0, minor |-> 0, patch |-> 0]
    \/ core.major = cli.major /\ core.major >= 1

\* What the compiler sees: the copy, or the project in place.
Seen(j)    == IF j.pinned THEN CopyProject(j.tree) ELSE j.tree
Succeeds(j) == j.core.bundle /\ CheckCoreCompatibility(j.core, CliVersion)

\* Notes on the modules that the compiled graph says are missing; the copy is
\* still there to be looked at.  (A compilation that fails has its error looked
\* at in the same way; what fails here is core, and an absent or incompatible
\* core is no file the copy left out.)
PrintExcludedModuleNotes ==
    IF job.kind = "compile" /\ job.pinned /\ verdict = "ok"
    THEN LET seen == Seen(job)
         IN UNION {ExplainExcludedModule(job.tree, seen, m) : m \in CannotFind(seen)}
    ELSE {}

Settle ==
    /\ stage = "waiting" /\ verdict # "none"
    /\ stage' = IF job.kind = "compile" THEN "cleaning" ELSE "returned"
    /\ notes' = PrintExcludedModuleNotes
    /\ UNCHANGED <<job, copy, removable, process, channel, jit, script>>

\* The finally of compile(): removal is best effort.
Clean ==
    /\ stage = "cleaning"
    /\ stage' = "returned"
    /\ copy' = IF copy = "there" /\ removable THEN "removed" ELSE copy
    /\ UNCHANGED <<job, removable, notes, process, channel, jit, script>>

-----------------------------------------------------------------------------
(* BaseWorker.runWorker(), in the parent.                                  *)

TerminateOnly(v) ==
    IF verdict # "none" THEN UNCHANGED <<verdict, child, timer>>
    ELSE verdict' = v /\ child' = child /\ timer' = "cleared"

\* The first to decide kills the child and stops the timer.
Terminate(v) ==
    IF verdict # "none" THEN UNCHANGED <<verdict, child, timer>>
    ELSE verdict' = v /\ child' = Killed(child) /\ timer' = "cleared"

IsWorker == job.kind \in {"compile", "jit"}

TimeoutFires ==
    /\ IsWorker /\ timer = "armed"
    /\ Terminate("timeout")
    /\ UNCHANGED <<caller, exited, channel, jit, script>>

\* The exit event, or the error event of a process that never ran.
ChildExits ==
    /\ IsWorker /\ child = "dead" /\ ~exited
    /\ exited' = TRUE
    /\ Terminate("failed")
    /\ UNCHANGED <<caller, channel, jit, script>>

NoId == <<"none", 0>>
Message(type, id) == [type |-> type, id |-> id]

\* The request goes to the worker once it has booted.
ReceiveBooted ==
    /\ up # << >> /\ Head(up).type = "worker_booted"
    /\ up' = Tail(up) /\ booted' = TRUE
    /\ down' = IF booted THEN down ELSE Append(down, Message("request", NoId))
    /\ UNCHANGED <<caller, process, asked, jit, script>>

ReceiveAnswer ==
    /\ up # << >> /\ Head(up).type \in {"answer", "error"}
    /\ up' = Tail(up)
    /\ Terminate(IF Head(up).type = "answer" THEN "ok" ELSE "failed")
    /\ UNCHANGED <<caller, exited, booted, down, asked, jit, script>>

\* A request is served whether or not the promise has settled.
ReceiveRpcRequest ==
    /\ up # << >> /\ Head(up).type = "rpc_request"
    /\ up' = Tail(up) /\ asked' = asked \cup {Head(up).id}
    /\ UNCHANGED <<caller, process, booted, down, jit, script>>

\* The database answers: rows, or whatever handleDbRequest() threw.  Sending
\* to a process that is gone is an error event.
HandleRpcRequest(id) ==
    /\ id \in asked
    /\ asked' = asked \ {id}
    /\ \/ /\ Running(child)
          /\ \E type \in {"rpc_rows", "rpc_error"} : down' = Append(down, Message(type, id))
          /\ UNCHANGED process
       \/ /\ child \in {"killed", "dead"}
          /\ Terminate("failed") /\ UNCHANGED <<down, exited>>
    /\ UNCHANGED <<caller, booted, up, jit, script>>

-----------------------------------------------------------------------------
(* The worker.                                                             *)

Boot ==
    /\ IsWorker /\ child = "booting"
    /\ child' = "up" /\ up' = Append(up, Message("worker_booted", NoId))
    /\ UNCHANGED <<caller, timer, verdict, exited, booted, down, asked, jit, script>>

Crash ==
    /\ IsWorker /\ Running(child)
    /\ child' = "dead"
    /\ UNCHANGED <<caller, timer, verdict, exited, channel, jit, script>>

Dies ==
    /\ child = "killed"
    /\ child' = "dead"
    /\ UNCHANGED <<caller, timer, verdict, exited, channel, jit, script>>

Answer(type) == up' = Append(up, Message(type, NoId)) /\ replied' = TRUE

\* The compiler runs to its end before the next message is looked at.
Compile ==
    /\ job.kind = "compile" /\ child = "up" /\ down # << >> /\ Head(down).type = "request"
    /\ down' = Tail(down)
    /\ Answer(IF Succeeds(job) THEN "answer" ELSE "error")
    /\ UNCHANGED <<caller, process, booted, asked, work, asks, script>>

\* jitCompile(): one main body, or two at once for an incremental table.
Bodies(type) ==
    CASE type = "incremental_table" -> {"incremental", "regular"}
      [] type = "unrecognized"      -> {}
      [] OTHER                      -> {"main"}

HandleJitRequest ==
    /\ job.kind = "jit" /\ child = "up" /\ down # << >> /\ Head(down).type = "request"
    /\ down' = Tail(down)
    /\ IF job.core.bundle /\ Bodies(job.type) # {}
       THEN /\ work' = [b \in Body |-> IF b \in Bodies(job.type) THEN "running" ELSE "idle"]
            /\ UNCHANGED <<up, replied>>
       ELSE Answer("error") /\ UNCHANGED work
    /\ UNCHANGED <<caller, process, booted, asked, asks, script>>

CorrelationIdOfCount(b) == <<"any", asks[b]>>

\* What stands for Math.random(): the body and which of its requests it is.
CorrelationId(b) == <<b, asks[b]>>

Ask(b) ==
    /\ job.kind = "jit" /\ child = "up" /\ work[b] = "running" /\ asks[b] < MaxAsks
    /\ asks' = [asks EXCEPT ![b] = @ + 1]
    /\ work' = [work EXCEPT ![b] = "waiting"]
    /\ up' = Append(up, Message("rpc_request", CorrelationId(b)'))
    /\ UNCHANGED <<caller, process, booted, down, asked, replied, script>>

\* What a body is told goes to the callback it registered; one that does not
\* catch the error fails with it, and so does the whole Promise.all().
FailBody(b) ==
    /\ work' = [work EXCEPT ![b] = "failed"]
    /\ IF replied THEN UNCHANGED <<up, replied>> ELSE Answer("error")

IsAnswerTo(message, b) == work[b] = "waiting" /\ message.id = CorrelationId(b)

ReceiveRpcResponse(b) ==
    /\ job.kind = "jit" /\ child = "up" /\ down # << >> /\ Head(down).type \in {"rpc_rows", "rpc_error"}
    /\ IsAnswerTo(Head(down), b)
    /\ down' = Tail(down)
    /\ \/ work' = [work EXCEPT ![b] = "running"] /\ UNCHANGED <<up, replied>>
       \/ Head(down).type = "rpc_error" /\ FailBody(b)
    /\ UNCHANGED <<caller, process, booted, asked, asks, script>>

\* The body throws: its own error, or a reference to what it did not declare.
Throw(b) ==
    /\ job.kind = "jit" /\ child = "up" /\ work[b] = "running"
    /\ FailBody(b)
    /\ UNCHANGED <<caller, process, booted, down, asked, asks, script>>

IsAnyDone(w) == \E b \in Bodies(job.type) : w[b] = "done"

\* A body returns its result; the last one completes the response.
IsComplete(w) == \A b \in Bodies(job.type) : w[b] = "done"

Return(b) ==
    /\ job.kind = "jit" /\ child = "up" /\ work[b] = "running"
    /\ work' = [work EXCEPT ![b] = "done"]
    /\ IF IsComplete(work') THEN Answer("answer") ELSE UNCHANGED <<up, replied>>
    /\ UNCHANGED <<caller, process, booted, down, asked, asks, script>>

-----------------------------------------------------------------------------
(* runScript().                                                            *)

\* No runner for the language, no interpreter in the declared venv, or no
\* such file.
RefuseScript ==
    /\ job.kind = "script" /\ stage = "called" /\ ~job.runnable
    /\ stage' = "returned" /\ verdict' = "failed"
    /\ UNCHANGED <<job, copy, removable, notes, child, timer, exited, channel, jit, script>>

SpawnScript ==
    /\ job.kind = "script" /\ stage = "called" /\ job.runnable
    /\ stage' = "waiting"
    /\ \/ child' = "up" /\ timer' = "armed" /\ pipes' = TRUE /\ UNCHANGED verdict
       \/ child' = "dead" /\ timer' = "cleared" /\ verdict' = "failed" /\ UNCHANGED pipes
    /\ UNCHANGED <<job, copy, removable, notes, exited, channel, jit, exit>>

\* The interpreter ends; processes it started may keep its output open.
ScriptEnds ==
    /\ job.kind = "script" /\ child = "up"
    /\ child' = "dead" /\ exit' \in {"zero", "nonzero"} /\ pipes' \in BOOLEAN
    /\ UNCHANGED <<caller, timer, verdict, exited, channel, jit>>

PipesClose ==
    /\ job.kind = "script" /\ child = "dead" /\ pipes
    /\ pipes' = FALSE
    /\ UNCHANGED <<caller, process, channel, jit, exit>>

ScriptTimeoutWithoutKill ==
    /\ job.kind = "script" /\ timer = "armed"
    /\ timer' = "fired" /\ child' = child
    /\ UNCHANGED <<caller, verdict, exited, channel, jit, script>>

ScriptTimeoutFires ==
    /\ job.kind = "script" /\ timer = "armed"
    /\ timer' = "fired" /\ child' = Killed(child)
    /\ UNCHANGED <<caller, verdict, exited, channel, jit, script>>

\* The close event: the process is gone and its output is at an end.
ScriptCloses ==
    /\ job.kind = "script" /\ child = "dead" /\ ~pipes /\ ~exited
    /\ exited' = TRUE
    /\ IF verdict # "none" THEN UNCHANGED <<verdict, timer>>
       ELSE /\ verdict' = IF timer = "fired" THEN "timeout"
                          ELSE IF exit = "zero" THEN "ok" ELSE "failed"
            /\ timer' = IF timer = "fired" THEN timer ELSE "cleared"
    /\ UNCHANGED <<caller, child, channel, jit, script>>

-----------------------------------------------------------------------------
ParentEvent ==
    \/ TimeoutFires \/ ChildExits
    \/ ReceiveBooted \/ ReceiveAnswer \/ ReceiveRpcRequest
    \/ ScriptTimeoutFires \/ ScriptCloses

ChildStep ==
    \/ Boot \/ Crash \/ Compile \/ HandleJitRequest \/ ScriptEnds \/ PipesClose
    \/ \E b \in Body : Ask(b) \/ ReceiveRpcResponse(b) \/ Throw(b) \/ Return(b)

CallerStep ==
    \/ Refuse \/ MakeCopy \/ InstallIsolatedCore \/ RunWorker \/ ResolveScriptFails
    \/ RefuseScript \/ SpawnScript \/ Settle \/ Clean

Next ==
    \/ CallerStep \/ ParentEvent \/ ChildStep \/ Dies
    \/ \E id \in asked : HandleRpcRequest(id)

Spec == Init /\ [][Next]_vars

\* Timers fire, events are delivered, and the operating system kills what it
\* is told to; neither npm, the database nor the child owes us anything.
FairSpec ==
    /\ Spec
    /\ WF_vars(TimeoutFires \/ ScriptTimeoutFires)
    /\ WF_vars(ChildExits \/ ScriptCloses)
    /\ WF_vars(Dies)

-----------------------------------------------------------------------------
(* Properties.                                                             *)

\* The shape of the state; the notes are about paths of the project.
TypeOK ==
    /\ job \in Job
    /\ stage \in {"called", "installing", "forking", "waiting", "cleaning", "returned"}
    /\ copy \in {"none", "there", "removed"} /\ removable \in BOOLEAN
    /\ child \in {"none", "booting", "up", "killed", "dead"}
    /\ timer \in {"off", "armed", "fired", "cleared"}
    /\ verdict \in {"none", "ok", "failed", "timeout"}
    /\ exited \in BOOLEAN /\ booted \in BOOLEAN /\ replied \in BOOLEAN /\ pipes \in BOOLEAN
    /\ work \in [Body -> {"idle", "running", "waiting", "done", "failed"}]
    /\ asks \in [Body -> Nat]
    /\ exit \in {"none", "zero", "nonzero"}
    /\ notes # {} => job.kind = "compile" /\ notes \subseteq Entries(job.tree)

\* When a call returns, its child is dead or was told to die and its timer is
\* off, and of the copy of a pinned project nothing is left that could be
\* removed (compile.ts:56-58), whatever failed, crashed or was late.
NothingIsLeftBehind ==
    stage = "returned" =>
        /\ ~Running(child)
        /\ timer # "armed"
        /\ copy = "there" => ~removable

\* Success is the child's own: the compiler found a core it goes with, every
\* body of the JiT code returned, the script exited with zero in its time.
AnswerIsTheChilds ==
    verdict = "ok" =>
        CASE job.kind = "compile" -> Succeeds(job)
          [] job.kind = "jit"     -> \A b \in Bodies(job.type) : work[b] = "done"
          [] OTHER                -> exit = "zero" /\ timer = "cleared"

\* How often an id is found among a channel's messages of the given types.
Found(id, messages, types) ==
    Cardinality({i \in 1 .. Len(messages) : messages[i].type \in types /\ messages[i].id = id})

\* A body that waits for the database waits for one thing: its request on the
\* way, being served, or the answer on the way.  Two bodies at once neither
\* lose nor swap their answers (jit_worker.ts:13-25).
EveryRequestIsOnItsWay ==
    \A b \in Body :
        work[b] = "waiting" /\ Running(child) =>
            LET id == CorrelationId(b)
            IN Found(id, up, {"rpc_request"}) + Found(id, down, {"rpc_rows", "rpc_error"})
                 + (IF id \in asked THEN 1 ELSE 0) = 1

\* What the project would list if the links that leave it were not followed.
ListedInside(t) == {p \in ReachedFrom(t, LinksInside(t), CoreRoots(t)) : IsFile(t, p)}

\* The temporary copy compiles to what the project does: every file that
\* definitions and includes lead to, through whatever links inside the project
\* and whatever ignore files, is listed in the copy too, and no other
\* (compile_copy_filter.ts:238-276).  A link that leaves the project and comes
\* back is followed in the project but leads elsewhere in the copy: what only
\* such links lead to is copied and not compiled, though lines 154-159 want
\* the copy to contain everything reachable.
CopyCompilesTheProject ==
    job.kind = "compile" /\ job.pinned /\ stage = "forking" =>
        Listed(Seen(job)) = ListedInside(job.tree)

\* The patterns of .sqlanvilignore come last.
ReincludedIn(t, p) ==
    [t EXCEPT !.ignore = Append(@, [matches |-> {q \in Entries(t) : p \in Prefixes(q)},
                                    negated |-> TRUE])]

CopiedThoughIgnored(t) == {p \in Entries(CopyProject(t)) : Ignores(t, p)}

\* What a note says to do helps: with the path it names re-included, the path
\* is copied.  (Below a directory that is in the copy only because links lead
\* through it it does not: such a directory is a node_modules, or ignored, and
\* the note is wrong to blame the path itself.)
NotesHelp ==
    \A p \in notes :
        \/ Names(p) \cap AlwaysIgnoredNames # {}
        \/ Prefixes(p) \cap CopiedThoughIgnored(job.tree) # {}
        \/ p \in Entries(CopyProject(ReincludedIn(job.tree, p)))

\* Once it is started, a worker's promise settles, whatever the worker does; a
\* script's does unless something it left behind keeps its output open.
SettlesInTime ==
    (stage = "waiting") ~> (verdict # "none" \/ [](child = "dead" /\ pipes))
=============================================================================
