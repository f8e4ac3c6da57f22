------------------------------- MODULE Runner -------------------------------
(***************************************************************************)
(* cli/api/commands/run.ts, class Runner: executes the actions of a        *)
(* compiled execution graph against a warehouse, each action once its      *)
(* dependencies have succeeded.                                            *)
(*                                                                         *)
(* Every `await` of the TypeScript is a point where another coroutine may  *)
(* run, so each action of this module is the code between two awaits.  An  *)
(* action of the graph is one coroutine; pc says at which await it is.     *)
(* Notifications (onChange), timing and messages are left out.             *)
(***************************************************************************)
EXTENDS Naturals, Sequences, FiniteSets

CONSTANTS
    Action,         \* targets of graph.actions (unique in a compiled graph)
    External,       \* dependency targets that are not in the graph
    Dep,            \* action.dependencyTargets
    Tasks,          \* action.tasks, each one reduced to its kind
    NeedsMetadata,  \* actions of type "table" that carry an actionDescriptor
    PoolSize,       \* clients the adapter can lease at the same time
    Options,        \* executionOptions.bigquery: dryRun and actionRetryLimit
    HasTimeout,     \* graph.runConfig.timeoutMillis is set
    AdapterCancels, \* the adapter passes onCancel on (MySQL's does not)
    MaxResumes      \* bound on Runner.resume() of a stopped run

\* A task is a plain statement, an assertion, or is run by the runner itself
\* (export, import, script, extract); one typed "operation" is never retried.
TaskKind == {"statement", "operation", "assertion", "runnerSide"}

ASSUME GraphAssumption ==
    /\ Action \cap External = {}
    /\ Dep \in [Action -> SUBSET (Action \cup External)]
    /\ Tasks \in [Action -> Seq(TaskKind)]
    /\ NeedsMetadata \subseteq Action
ASSUME OptionsAssumption ==
    /\ PoolSize \in Nat \ {0}
    /\ Options \subseteq [dryRun : BOOLEAN, retryLimit : Nat]
    /\ MaxResumes \in Nat
    /\ {HasTimeout, AdapterCancels} \subseteq BOOLEAN

VARIABLES
    status,      \* runResult.actions[].status; "NONE": no result pushed yet
    taskResults, \* runResult.actions[].tasks[].status
    executed,    \* executedActionTargets
    successful,  \* successfullyExecutedActionTargets
    pending,     \* pendingActions
    stopped, cancelled, timedOut,
    timer,       \* the run's timeout is ticking
    runStatus,   \* runResult.status
    phase,       \* where executeGraph() is
    pc,          \* where each action's coroutine is
    call,        \* the call in flight of each action's current task
    attempt,     \* attempts made by retry() for that call
    resumes,     \* runs resumed so far
    options,     \* executionOptions of the Runner
    ran          \* history: indices of the tasks that completed, in order

flags == <<stopped, cancelled, timedOut>>
sets  == <<executed, successful, pending>>
calls == <<call, attempt>>
run   == <<runStatus, phase, timer, resumes, options>>
vars  == <<status, taskResults, sets, flags, run, pc, calls, ran>>

TaskStatus    == {"RUNNING", "SUCCESSFUL", "FAILED", "SKIPPED", "CANCELLED"}
ActionStatus  == TaskStatus \cup {"NONE", "DISABLED"}
SuccessStatus == {"SUCCESSFUL", "DISABLED"}
RunStatus     == {"NONE", "RUNNING", "SUCCESSFUL", "FAILED", "CANCELLED", "TIMED_OUT"}
Phase         == {"idle", "schemas", "actions", "done", "rejected"}

\* none: not started; lock: waiting for a client; task: a call is in flight;
\* settled: the call has settled, the task loop has not seen it; unlock: the
\* callback returned; metadata: setMetadata() in flight; returned: the result
\* is final, executeAllActionsReadyForExecution() has not seen it; end; threw.
PC     == {"none", "lock", "task", "settled", "unlock", "metadata", "returned", "end", "threw"}
Active == {"lock", "task", "settled", "unlock", "metadata", "returned"}

\* queued: accepted by the adapter, no cancel handler yet; listening: its
\* handler is registered; deaf: nothing to cancel it with; cancelling: the
\* handler has been called.
Call == {"none", "queued", "listening", "deaf", "cancelling"}

InGraph(a) == Dep[a] \cap Action
NTasks(a)  == Len(Tasks[a])
Skips(n)   == [i \in 1..n |-> "SKIPPED"]
LastIx(a)  == Len(taskResults[a])
Kind(a)    == Tasks[a][LastIx(a)]

\* executionOptions = {}, which is all that Runner.resume() passes on.
NoOptions  == [dryRun |-> FALSE, retryLimit |-> 0]
Attempts(kind) ==
    IF kind \in {"operation", "runnerSide"} THEN 1 ELSE options.retryLimit + 1

\* Mutant: the metadata is set inside the lock.
HoldersSetMetadata == {a \in Action : pc[a] \in {"task", "settled", "unlock", "metadata"}}

\* Actions whose coroutine holds a client leased by withClientLock().
Holders    == {a \in Action : pc[a] \in {"task", "settled", "unlock"}}
ClientFree == Cardinality(Holders) < PoolSize
NoneActive == \A a \in Action : pc[a] \notin Active

Init ==
    /\ status = [a \in Action |-> "NONE"]
    /\ taskResults = [a \in Action |-> <<>>]
    /\ executed = {}
    /\ successful = {}
    /\ pending = Action
    /\ stopped = FALSE
    /\ cancelled = FALSE
    /\ timedOut = FALSE
    /\ timer = FALSE
    /\ runStatus = "NONE"
    /\ phase = "idle"
    /\ pc = [a \in Action |-> "none"]
    /\ call = [a \in Action |-> "none"]
    /\ attempt = [a \in Action |-> 0]
    /\ resumes = 0
    /\ options \in Options
    /\ ran = [a \in Action |-> <<>>]

-----------------------------------------------------------------------------
(* executeAllActionsReadyForExecution(), up to its first await, when ex and *)
(* su are the executed and the successfully executed targets and the other  *)
(* coroutines are at p.                                                     *)

\* Mutants: some dependency is enough; every dependency has to have failed.
ExecutableSome(su)   == {a \in pending : InGraph(a) # {} => InGraph(a) \cap su # {}}
SkippableAll(ex, su) == {a \in pending : InGraph(a) # {} /\ InGraph(a) \subseteq ex \ su}

Executable(su)    == {a \in pending : InGraph(a) \subseteq su}
Skippable(ex, su) == {a \in pending \ Executable(su) : InGraph(a) \subseteq ex}

SkipAllPending ==
    /\ pending' = {}
    /\ status' = [a \in Action |-> IF a \in pending THEN "SKIPPED" ELSE status[a]]
    /\ taskResults' = [a \in Action |->
            IF a \in pending THEN Skips(IF NTasks(a) = 0 THEN 1 ELSE NTasks(a))
                              ELSE taskResults[a]]

\* Mutant: the result of the run that is resumed is not found again.
SkipAndStartAfresh(start, skip, p) ==
    /\ pending' = pending \ (start \cup skip)
    /\ status' = [a \in Action |->
            CASE a \in skip -> "SKIPPED"
              [] a \in start -> IF NTasks(a) = 0 THEN "DISABLED" ELSE "RUNNING"
              [] OTHER -> status[a]]
    /\ taskResults' = [a \in Action |->
            CASE a \in skip -> Skips(NTasks(a))
              [] a \in start -> <<>>
              [] OTHER -> taskResults[a]]
    /\ pc' = [a \in Action |->
            IF a \in start THEN IF NTasks(a) = 0 THEN "returned" ELSE "lock" ELSE p[a]]

\* A skipped action joins neither set: executedActionTargets is only added to
\* when executeAction() returns.
SkipAndStart(start, skip, p) ==
    /\ pending' = pending \ (start \cup skip)
    /\ status' = [a \in Action |->
            CASE a \in skip -> "SKIPPED"
              [] a \in start -> IF NTasks(a) = 0 THEN "DISABLED" ELSE "RUNNING"
              [] OTHER -> status[a]]
    /\ taskResults' = [a \in Action |->
            IF a \in skip THEN Skips(NTasks(a)) ELSE taskResults[a]]
    /\ pc' = [a \in Action |->
            IF a \in start THEN IF NTasks(a) = 0 THEN "returned" ELSE "lock" ELSE p[a]]

\* Mutants: cancellation, or stop(), is not looked at.
ExecuteAllReadyNoCancel(ex, su, p) ==
    \/ stopped /\ pc' = p /\ UNCHANGED <<status, taskResults, pending>>
    \/ ~stopped /\ SkipAndStart(Executable(su), Skippable(ex, su), p)
ExecuteAllReadyNoStop(ex, su, p) ==
    \/ cancelled /\ SkipAllPending /\ pc' = p
    \/ ~cancelled /\ SkipAndStart(Executable(su), Skippable(ex, su), p)

ExecuteAllReady(ex, su, p) ==
    \/ /\ stopped
       /\ pc' = p
       /\ UNCHANGED <<status, taskResults, pending>>
    \/ /\ ~stopped /\ cancelled
       /\ SkipAllPending
       /\ pc' = p
    \/ /\ ~stopped /\ ~cancelled
       /\ SkipAndStart(Executable(su), Skippable(ex, su), p)

-----------------------------------------------------------------------------
(* executeGraph()                                                          *)

\* execute(): runs executeGraph() up to its first await, then sets the timer.
\* A run that resumes earlier results does not prepare the schemas.
Execute ==
    /\ phase = "idle"
    /\ runStatus' = "RUNNING"
    /\ timer' = HasTimeout
    /\ \/ /\ \A a \in Action : status[a] = "NONE"
          /\ phase' = "schemas"
          /\ UNCHANGED <<status, taskResults, pending, pc>>
       \/ /\ \E a \in Action : status[a] # "NONE"
          /\ phase' = "actions"
          /\ ExecuteAllReady(executed, successful, pc)
    /\ UNCHANGED <<executed, successful, flags, resumes, options, calls, ran>>

\* prepareAllSchemas() resolves.
SchemasReady ==
    /\ phase = "schemas"
    /\ phase' = "actions"
    /\ ExecuteAllReady(executed, successful, pc)
    /\ UNCHANGED <<executed, successful, flags, runStatus, timer, resumes, options, calls, ran>>

\* prepareAllSchemas() rejects, and executeGraph() with it.
SchemasFail ==
    /\ phase = "schemas"
    /\ phase' = "rejected"
    /\ UNCHANGED <<status, taskResults, sets, flags, runStatus, timer, resumes, options, pc, calls, ran>>

\* Mutant: failures are not looked at.
FinalStatusNoFailed ==
    IF timedOut THEN "TIMED_OUT" ELSE IF cancelled THEN "CANCELLED" ELSE "SUCCESSFUL"

FinalStatus ==
    CASE timedOut -> "TIMED_OUT"
      [] ~timedOut /\ cancelled -> "CANCELLED"
      [] ~timedOut /\ ~cancelled /\ (\E a \in Action : status[a] = "FAILED") -> "FAILED"
      [] OTHER -> "SUCCESSFUL"

\* The outermost executeAllActionsReadyForExecution() resolves when every
\* coroutine below it has; a stopped run keeps its status RUNNING.
Finish ==
    /\ phase = "actions"
    /\ NoneActive
    /\ phase' = "done"
    /\ runStatus' = IF stopped THEN runStatus ELSE FinalStatus
    /\ UNCHANGED <<status, taskResults, sets, flags, timer, resumes, options, pc, calls, ran>>

\* result(): its finally block clears the timer once executeGraph() has settled.
ClearTimer ==
    /\ phase \in {"done", "rejected"}
    /\ timer
    /\ timer' = FALSE
    /\ UNCHANGED <<status, taskResults, sets, flags, runStatus, phase, resumes, options, pc, calls, ran>>

-----------------------------------------------------------------------------
(* executeAction(a)                                                        *)

\* The awaits a task can reach before control returns to the event loop.  A
\* dry-run assertion completes at once; a call may be refused before anything
\* is submitted (no columnTypes, no projectDir, no connection credentials).
Starts(kind) ==
    IF kind = "assertion" /\ options.dryRun
    THEN {[result |-> "SUCCESSFUL", pc |-> "settled", call |-> "none"]}
    ELSE {[result |-> "FAILED", pc |-> "settled", call |-> "none"],
          [result |-> "RUNNING", pc |-> "task",
           call |-> IF kind = "runnerSide" THEN "deaf" ELSE "queued"]}

\* The body of the task loop from the next task on, when the action's status
\* is st: every task is skipped once one of them did not succeed or the run
\* is cancelled, and none is touched once it is stopped.
TaskLoop(a, st) ==
    LET next == LastIx(a) + 1
        left == NTasks(a) - LastIx(a)
    IN  \/ /\ left = 0 \/ stopped
           /\ pc' = [pc EXCEPT ![a] = "unlock"]
           /\ UNCHANGED <<taskResults, calls, ran>>
        \/ /\ left > 0 /\ ~stopped
           /\ st # "RUNNING" \/ cancelled
           /\ taskResults' = [taskResults EXCEPT ![a] = @ \o Skips(left)]
           /\ pc' = [pc EXCEPT ![a] = "unlock"]
           /\ UNCHANGED <<calls, ran>>
        \/ /\ left > 0 /\ ~stopped
           /\ st = "RUNNING" /\ ~cancelled
           /\ \E s \in Starts(Tasks[a][next]) :
                /\ taskResults' = [taskResults EXCEPT ![a] = Append(@, s.result)]
                /\ pc' = [pc EXCEPT ![a] = s.pc]
                /\ call' = [call EXCEPT ![a] = s.call]
                /\ attempt' = [attempt EXCEPT ![a] = 1]
                /\ ran' = IF s.result = "SUCCESSFUL"
                          THEN [ran EXCEPT ![a] = Append(@, next)] ELSE ran

\* withClientLock() leases a client and runs the callback.
Lock(a) ==
    /\ pc[a] = "lock"
    /\ ClientFree
    /\ TaskLoop(a, status[a])
    /\ UNCHANGED <<status, sets, flags, run>>

\* withClientLock() cannot connect: executeAction() rejects, and the rejection
\* reaches executeGraph() while the other coroutines go on.
LockFails(a) ==
    /\ pc[a] = "lock"
    /\ pc' = [pc EXCEPT ![a] = "threw"]
    /\ phase' = IF phase = "actions" THEN "rejected" ELSE phase
    /\ UNCHANGED <<status, taskResults, sets, flags, runStatus, timer, resumes, options, calls, ran>>

\* The adapter submits the statement, and registers the cancel handler that
\* Runner passed it.  A cancellation emitted earlier is not replayed to it.
Submit(a) ==
    /\ call[a] = "queued"
    /\ call' = [call EXCEPT ![a] = IF AdapterCancels THEN "listening" ELSE "deaf"]
    /\ UNCHANGED <<status, taskResults, sets, flags, run, pc, attempt, ran>>

\* The end of executeTask(): the task's result is st.
Settle(a, st) ==
    /\ taskResults' = [taskResults EXCEPT ![a][LastIx(a)] = st]
    /\ pc' = [pc EXCEPT ![a] = "settled"]
    /\ call' = [call EXCEPT ![a] = "none"]
    /\ ran' = IF st = "SUCCESSFUL" THEN [ran EXCEPT ![a] = Append(@, LastIx(a))] ELSE ran
    /\ UNCHANGED <<status, sets, flags, run, attempt>>

\* Mutant: the run's status, not the task's.
ErrorStatusOfRun == IF timedOut THEN "TIMED_OUT" ELSE "FAILED"

ErrorStatus == IF cancelled THEN "CANCELLED" ELSE "FAILED"

CallSucceeds(a) ==
    /\ pc[a] = "task"
    /\ call[a] \in {"listening", "deaf"}
    /\ Settle(a, "SUCCESSFUL")

\* The assertion's query returns rows; this is past the retries.
AssertionFails(a) ==
    /\ pc[a] = "task"
    /\ call[a] \in {"listening", "deaf"}
    /\ Kind(a) = "assertion"
    /\ Settle(a, ErrorStatus)

\* The call rejects, by itself or because its cancel handler was called:
\* retry() makes another one while it has attempts left.
CallFails(a) ==
    /\ pc[a] = "task"
    /\ \/ /\ attempt[a] < Attempts(Kind(a))
          /\ call' = [call EXCEPT ![a] = "queued"]
          /\ attempt' = [attempt EXCEPT ![a] = @ + 1]
          /\ UNCHANGED <<status, taskResults, sets, flags, run, pc, ran>>
       \/ /\ attempt[a] >= Attempts(Kind(a))
          /\ Settle(a, ErrorStatus)

\* executeTask() returns to the loop, which takes over a failure.
ContinueTasks(a) ==
    /\ pc[a] = "settled"
    /\ LET result == taskResults[a][LastIx(a)]
           st == IF result \in {"FAILED", "CANCELLED"} THEN result ELSE status[a]
       IN  /\ status' = [status EXCEPT ![a] = st]
           /\ TaskLoop(a, st)
    /\ UNCHANGED <<sets, flags, run>>

\* The client is released and executeAction() goes on behind withClientLock().
\* Mutant: whatever the tasks came to.
SucceededAnyway(st) == "SUCCESSFUL"

WantsMetadata(a) == a \in NeedsMetadata /\ status[a] = "RUNNING" /\ ~options.dryRun
Succeeded(st)    == IF st = "RUNNING" THEN "SUCCESSFUL" ELSE st

Unlock(a) ==
    /\ pc[a] = "unlock"
    /\ \/ /\ stopped
          /\ pc' = [pc EXCEPT ![a] = "returned"]
          /\ UNCHANGED status
       \/ /\ ~stopped /\ WantsMetadata(a)
          /\ pc' = [pc EXCEPT ![a] = "metadata"]
          /\ UNCHANGED status
       \/ /\ ~stopped /\ ~WantsMetadata(a)
          /\ pc' = [pc EXCEPT ![a] = "returned"]
          /\ status' = [status EXCEPT ![a] = Succeeded(@)]
    /\ UNCHANGED <<taskResults, sets, flags, run, calls, ran>>

\* setMetadata() issues its own statements, so it needs a client to get done.
SetMetadata(a) ==
    /\ pc[a] = "metadata"
    /\ ClientFree
    /\ pc' = [pc EXCEPT ![a] = "returned"]
    /\ status' = [status EXCEPT ![a] = "SUCCESSFUL"]
    /\ UNCHANGED <<taskResults, sets, flags, run, calls, ran>>

\* Its error is put on the last task, whatever that task's own result was.
SetMetadataFails(a) ==
    /\ pc[a] = "metadata"
    /\ pc' = [pc EXCEPT ![a] = "returned"]
    /\ status' = [status EXCEPT ![a] = "FAILED"]
    /\ taskResults' = [taskResults EXCEPT ![a][LastIx(a)] = "FAILED"]
    /\ UNCHANGED <<sets, flags, run, calls, ran>>

\* Mutant: every action that returns counts as successful.
ReturnSuccessful(a) ==
    /\ pc[a] = "returned"
    /\ executed' = executed \cup {a}
    /\ successful' = successful \cup {a}
    /\ ExecuteAllReady(executed', successful', [pc EXCEPT ![a] = "end"])
    /\ UNCHANGED <<flags, run, calls, ran>>

\* The continuation behind `await this.executeAction(executableAction)`.
Return(a) ==
    /\ pc[a] = "returned"
    /\ executed' = executed \cup {a}
    /\ successful' = IF status[a] \in SuccessStatus THEN successful \cup {a} ELSE successful
    /\ ExecuteAllReady(executed', successful', [pc EXCEPT ![a] = "end"])
    /\ UNCHANGED <<flags, run, calls, ran>>

-----------------------------------------------------------------------------
(* Calls from outside                                                      *)

\* cancel() and CANCEL_EVENT: the handlers registered so far are called.
Emit ==
    /\ cancelled' = TRUE
    /\ call' = [a \in Action |-> IF call[a] = "listening" THEN "cancelling" ELSE call[a]]

Cancel ==
    /\ phase # "idle"
    /\ Emit
    /\ UNCHANGED <<status, taskResults, sets, stopped, timedOut, run, pc, attempt, ran>>

Timeout ==
    /\ timer
    /\ timer' = FALSE
    /\ timedOut' = TRUE
    /\ Emit
    /\ UNCHANGED <<status, taskResults, sets, stopped, runStatus, phase, resumes, options, pc, attempt, ran>>

Stop ==
    /\ phase \in {"schemas", "actions"}
    /\ stopped' = TRUE
    /\ UNCHANGED <<status, taskResults, sets, cancelled, timedOut, run, pc, calls, ran>>

\* Runner.resume() on the result of a stopped run: the constructor of a new
\* Runner.  What is not RUNNING counts as executed, skipped actions included.
Resume ==
    /\ phase = "done" /\ stopped /\ ~timer
    /\ resumes < MaxResumes
    /\ resumes' = resumes + 1
    /\ options' = NoOptions
    /\ executed' = {a \in Action : status[a] \notin {"NONE", "RUNNING"}}
    /\ successful' = {a \in Action : status[a] \in SuccessStatus}
    /\ pending' = Action \ executed'
    /\ stopped' = FALSE /\ cancelled' = FALSE /\ timedOut' = FALSE
    /\ phase' = "idle"
    /\ pc' = [a \in Action |-> "none"]
    /\ UNCHANGED <<status, taskResults, runStatus, timer, calls, ran>>

\* The run is over, and no coroutine that it left behind is alive.
Over ==
    /\ phase \in {"done", "rejected"}
    /\ NoneActive /\ ~timer
    /\ UNCHANGED vars

-----------------------------------------------------------------------------
GraphStep == Execute \/ SchemasReady \/ SchemasFail \/ Finish \/ ClearTimer

CallSettles(a) == CallSucceeds(a) \/ AssertionFails(a) \/ CallFails(a)
MetadataSettles(a) == SetMetadata(a) \/ SetMetadataFails(a)
ActionStep(a) ==
    \/ Lock(a) \/ LockFails(a)
    \/ Submit(a) \/ CallSettles(a) \/ ContinueTasks(a)
    \/ Unlock(a) \/ MetadataSettles(a) \/ Return(a)

Next ==
    \/ GraphStep
    \/ \E a \in Action : ActionStep(a)
    \/ Cancel \/ Timeout \/ Stop \/ Resume
    \/ Over

Spec == Init /\ [][Next]_vars

\* The event loop runs every continuation that is ready, the pool serves its
\* waiters, and the environment settles every call.  Nobody has to cancel or
\* stop the run, or to start it.
Fairness ==
    /\ WF_vars(SchemasReady \/ SchemasFail)
    /\ WF_vars(Finish)
    /\ WF_vars(ClearTimer)
    /\ \A a \in Action :
        /\ WF_vars(Lock(a))
        /\ WF_vars(Submit(a))
        /\ WF_vars(CallSettles(a))
        /\ WF_vars(ContinueTasks(a))
        /\ WF_vars(Unlock(a))
        /\ WF_vars(SetMetadata(a))
        /\ WF_vars(Return(a))

FairSpec == Spec /\ Fairness

-----------------------------------------------------------------------------
(* Properties                                                              *)

\* Type invariant.
TypeOK ==
    /\ status \in [Action -> ActionStatus]
    /\ taskResults \in [Action -> Seq(TaskStatus)]
    /\ executed \subseteq Action
    /\ successful \subseteq Action
    /\ pending \subseteq Action
    /\ {stopped, cancelled, timedOut, timer} \subseteq BOOLEAN
    /\ runStatus \in RunStatus
    /\ phase \in Phase
    /\ pc \in [Action -> PC]
    /\ call \in [Action -> Call]
    /\ attempt \in [Action -> Nat]
    /\ resumes \in 0..MaxResumes
    /\ options \in [dryRun : BOOLEAN, retryLimit : Nat]
    /\ ran \in [Action -> Seq(Nat)]

\* An action is only ever started when every dependency it has in the graph
\* has succeeded, whatever else ran, failed, was cancelled or resumed: the
\* promise of executeAllActionsReadyForExecution().
Started == {"RUNNING", "SUCCESSFUL", "FAILED", "CANCELLED", "DISABLED"}
DependencyOrder ==
    \A a \in Action : status[a] \in Started =>
        \A d \in InGraph(a) : status[d] \in SuccessStatus

\* The tasks of an action run one after the other.  Nothing runs behind a task
\* that did not succeed (what follows it is SKIPPED by the task loop; an error
\* of setMetadata() may still turn the last SKIPPED into FAILED), no task
\* completes twice or out of order over a run and its resumptions, and every
\* task reported SUCCESSFUL did complete: resume() starts behind the last task
\* that has a result.
TasksInOrder ==
    \A a \in Action :
        /\ \A i, j \in DOMAIN taskResults[a] :
              i < j /\ taskResults[a][i] # "SUCCESSFUL"
                  => taskResults[a][j] \notin {"RUNNING", "SUCCESSFUL", "CANCELLED"}
        /\ \A i, j \in DOMAIN ran[a] : i < j => ran[a][i] < ran[a][j]
        /\ \A i \in DOMAIN taskResults[a] :
              taskResults[a][i] = "SUCCESSFUL" => \E k \in DOMAIN ran[a] : ran[a][k] = i

\* Once an action has an outcome it keeps it, whatever is still running, and
\* when the run is stopped and resumed.
Outcome == {"SUCCESSFUL", "FAILED", "CANCELLED", "DISABLED", "SKIPPED"}
OutcomesAreFinal ==
    [][\A a \in Action : status[a] \in Outcome => status'[a] = status[a]]_vars

\* After cancel() or the timeout no action and no task starts: what has not
\* begun is SKIPPED.
TaskStarts(a) == Len(taskResults'[a]) > LastIx(a) /\ taskResults'[a][LastIx(a) + 1] # "SKIPPED"
ActionStarts(a) == status[a] = "NONE" /\ status'[a] \in Started
NothingStartsAfterCancel ==
    [][cancelled => \A a \in Action : ~TaskStarts(a) /\ ~ActionStarts(a)]_vars

\* After stop() no action or task starts or is skipped, so that the result
\* of the stopped run is one that resume() can go on from.
StopFreezesTheFrontier ==
    [][stopped => /\ \A a \in Action : Len(taskResults'[a]) = LastIx(a)
                  /\ phase # "done" => pending' = pending]_vars

\* A run that was never resumed and is reported SUCCESSFUL has run every
\* task of every action of the graph, and all of them succeeded.
SuccessIsComplete ==
    runStatus = "SUCCESSFUL" /\ resumes = 0 =>
        \A a \in Action :
            /\ status[a] = IF NTasks(a) = 0 THEN "DISABLED" ELSE "SUCCESSFUL"
            /\ taskResults[a] = [i \in 1..NTasks(a) |-> "SUCCESSFUL"]

\* An action of a finished run has no result at all only when one of its
\* dependencies was skipped, or has no result itself; so every action right
\* below one that failed is reported SKIPPED.
UnreportedOnlyBelowSkipped ==
    phase = "done" /\ ~stopped =>
        \A a \in pending : \E d \in InGraph(a) : status[d] \in {"SKIPPED", "NONE"}

\* A started run settles: no action waits for a client that is never released,
\* or for a dependency nobody will finish.  So does every coroutine, those a
\* rejected run leaves behind too, so that the process can exit.
RunSettles ==
    /\ phase \in {"schemas", "actions"} ~> phase \in {"done", "rejected"}
    /\ \A a \in Action : pc[a] \in Active ~> pc[a] \notin Active

\* run_command.ts, of a deadline: "in-flight actions are cancelled and pending
\* actions are skipped".  So an action some of whose tasks were skipped was
\* cancelled, and is not reported SUCCESSFUL.
CancelledActionIsNotSuccessful ==
    \A a \in Action : status[a] = "SUCCESSFUL" =>
        \A i \in DOMAIN taskResults[a] : taskResults[a][i] # "SKIPPED"

-----------------------------------------------------------------------------
(* The abstract specification, and how a run's state maps to it.           *)

OutcomeOf(st) ==
    CASE st = "NONE" -> "waiting"
      [] st = "RUNNING" -> "running"
      [] st \in SuccessStatus -> "succeeded"
      [] st \in {"FAILED", "CANCELLED"} -> "failed"
      [] st = "SKIPPED" -> "skipped"

Abstract == INSTANCE RunSpec WITH
                outcome <- [a \in Action |-> OutcomeOf(status[a])],
                cancelled <- cancelled

\* Runner implements RunSpec: no interleaving of coroutines, cancellation,
\* stop or resumption makes an action start, end or be skipped out of turn.
ImplementsRunSpec == Abstract!Spec
=============================================================================
