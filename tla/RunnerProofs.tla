---------------------------- MODULE RunnerProofs ----------------------------
(***************************************************************************)
(* Proofs about Runner, for every graph, pool size and set of options: its *)
(* invariants, what a cancelled or stopped run may still do, that it       *)
(* implements RunSpec, and what it reports: which actions of a finished    *)
(* run have no result, that the tasks of an action run in order, each at   *)
(* most once, over a run and its resumptions, and that a run reported      *)
(* SUCCESSFUL is complete.                                                 *)
(***************************************************************************)
EXTENDS Runner, SequenceTheorems, TLAPS

-----------------------------------------------------------------------------
(* Sequences of statuses                                                   *)

LEMMA SkipsType == \A n \in Nat : Skips(n) \in Seq(TaskStatus)
<1> SUFFICES ASSUME NEW n \in Nat PROVE Skips(n) \in Seq(TaskStatus)
  OBVIOUS
<1>1. Skips(n) \in [1..n -> TaskStatus]
  BY DEF Skips, TaskStatus
<1> QED
  BY <1>1, SeqDef

LEMMA UpdateType ==
    ASSUME NEW S, NEW s \in Seq(S), NEW i \in Nat, NEW e \in S
    PROVE  [s EXCEPT ![i] = e] \in Seq(S)
<1>1. s \in [1..Len(s) -> S] /\ Len(s) \in Nat
  BY LenProperties
<1>2. [s EXCEPT ![i] = e] \in [1..Len(s) -> S]
  BY <1>1
<1> QED
  BY <1>1, <1>2, SeqDef

LEMMA NTasksType == \A a \in Action : NTasks(a) \in Nat
  BY GraphAssumption DEF NTasks

-----------------------------------------------------------------------------
(* The inductive invariant                                                 *)

\* The status that goes with each point of executeAction().
StatusAtPc ==
    \A a \in Action :
        /\ pc[a] \in {"lock", "task", "settled", "metadata"} => status[a] = "RUNNING"
        /\ pc[a] = "unlock" => status[a] \in {"RUNNING", "FAILED", "CANCELLED"}

\* A pending action has no coroutine, and no outcome.
PendingIsIdle ==
    \A a \in pending : pc[a] = "none" /\ status[a] \in {"NONE", "RUNNING"}

\* successfullyExecutedActionTargets tells the truth.
SuccessfulSucceeded == \A a \in successful : status[a] \in SuccessStatus

IInv ==
    /\ TypeOK
    /\ StatusAtPc
    /\ PendingIsIdle
    /\ SuccessfulSucceeded
    /\ DependencyOrder

\* What executeAllActionsReadyForExecution() does to each action: nothing, or
\* it is taken from the pending ones and skipped, or started because all of
\* its dependencies are in su.
DispatchedTo(a, su, p) ==
    \/ status'[a] = status[a] /\ pc'[a] = p[a]
    \/ /\ a \in pending \ pending'
       /\ \/ status'[a] = "SKIPPED" /\ pc'[a] = p[a]
          \/ /\ InGraph(a) \subseteq su
             /\ \/ status'[a] = "RUNNING" /\ pc'[a] = "lock"
                \/ status'[a] = "DISABLED" /\ pc'[a] = "returned"

LEMMA DispatchType ==
    ASSUME TypeOK, NEW ex, NEW su, NEW p \in [Action -> PC],
           ExecuteAllReady(ex, su, p)
    PROVE  /\ status' \in [Action -> ActionStatus]
           /\ taskResults' \in [Action -> Seq(TaskStatus)]
           /\ pending' \subseteq pending
           /\ pc' \in [Action -> PC]
<1>1. CASE stopped /\ pc' = p /\ UNCHANGED <<status, taskResults, pending>>
  BY <1>1 DEF TypeOK
<1>2. CASE SkipAllPending /\ pc' = p
  <2>1. \A a \in Action : (IF NTasks(a) = 0 THEN 1 ELSE NTasks(a)) \in Nat
    BY NTasksType
  <2>2. \A a \in Action : Skips(IF NTasks(a) = 0 THEN 1 ELSE NTasks(a)) \in Seq(TaskStatus)
    BY <2>1, SkipsType
  <2>3. taskResults' \in [Action -> Seq(TaskStatus)]
    BY <1>2, <2>2 DEF SkipAllPending, TypeOK
  <2> QED
    BY <1>2, <2>3 DEF SkipAllPending, TypeOK, ActionStatus, TaskStatus
<1>3. CASE SkipAndStart(Executable(su), Skippable(ex, su), p)
  <2>1. \A a \in Action : Skips(NTasks(a)) \in Seq(TaskStatus)
    BY NTasksType, SkipsType
  <2>2. taskResults' \in [Action -> Seq(TaskStatus)]
    BY <1>3, <2>1 DEF SkipAndStart, TypeOK
  <2>3. status' \in [Action -> ActionStatus]
    BY <1>3 DEF SkipAndStart, TypeOK, ActionStatus, TaskStatus
  <2>4. pc' \in [Action -> PC]
    BY <1>3 DEF SkipAndStart, PC
  <2> QED
    BY <1>3, <2>2, <2>3, <2>4 DEF SkipAndStart, TypeOK
<1> QED
  BY <1>1, <1>2, <1>3 DEF ExecuteAllReady

LEMMA DispatchEffect ==
    ASSUME TypeOK, NEW ex, NEW su, NEW p \in [Action -> PC],
           ExecuteAllReady(ex, su, p)
    PROVE  \A a \in Action : DispatchedTo(a, su, p)
<1> SUFFICES ASSUME NEW a \in Action PROVE DispatchedTo(a, su, p)
  OBVIOUS
<1>1. CASE stopped /\ pc' = p /\ UNCHANGED <<status, taskResults, pending>>
  BY <1>1 DEF DispatchedTo
<1>2. CASE SkipAllPending /\ pc' = p
  BY <1>2 DEF SkipAllPending, DispatchedTo
<1>3. CASE SkipAndStart(Executable(su), Skippable(ex, su), p)
  <2>1. CASE a \in Skippable(ex, su)
    <3>1. a \notin Executable(su)
      BY <2>1 DEF Skippable
    <3>2. status'[a] = "SKIPPED" /\ pc'[a] = p[a] /\ a \in pending \ pending'
      BY <1>3, <2>1, <3>1 DEF SkipAndStart, Skippable
    <3> QED
      BY <3>2 DEF DispatchedTo
  <2>2. CASE a \in Executable(su)
    <3>1. a \notin Skippable(ex, su)
      BY <2>2 DEF Skippable
    <3>2. a \in pending \ pending' /\ InGraph(a) \subseteq su
      BY <1>3, <2>2 DEF SkipAndStart, Executable
    <3>3. \/ status'[a] = "RUNNING" /\ pc'[a] = "lock"
          \/ status'[a] = "DISABLED" /\ pc'[a] = "returned"
      BY <1>3, <2>2, <3>1 DEF SkipAndStart
    <3> QED
      BY <3>2, <3>3 DEF DispatchedTo
  <2>3. CASE a \notin Executable(su) /\ a \notin Skippable(ex, su)
    BY <1>3, <2>3 DEF SkipAndStart, DispatchedTo
  <2> QED
    BY <2>1, <2>2, <2>3
<1> QED
  BY <1>1, <1>2, <1>3 DEF ExecuteAllReady

\* What the task loop does: it starts a task, only if the action is RUNNING,
\* or it returns.
LEMMA TaskLoopType ==
    ASSUME TypeOK, NEW a \in Action, NEW st, TaskLoop(a, st)
    PROVE  /\ taskResults' \in [Action -> Seq(TaskStatus)]
           /\ call' \in [Action -> Call]
           /\ attempt' \in [Action -> Nat]
           /\ ran' \in [Action -> Seq(Nat)]
           /\ \E at \in {"unlock", "task", "settled"} :
                /\ pc' = [pc EXCEPT ![a] = at]
                /\ at # "unlock" => st = "RUNNING"
<1> DEFINE next == LastIx(a) + 1
           left == NTasks(a) - LastIx(a)
<1>0. taskResults[a] \in Seq(TaskStatus) /\ LastIx(a) \in Nat /\ next \in Nat
  BY LenProperties DEF TypeOK, LastIx
<1>1. CASE /\ pc' = [pc EXCEPT ![a] = "unlock"]
           /\ UNCHANGED <<taskResults, calls, ran>>
  BY <1>1 DEF TypeOK, calls
<1>2. CASE /\ left > 0
           /\ taskResults' = [taskResults EXCEPT ![a] = @ \o Skips(left)]
           /\ pc' = [pc EXCEPT ![a] = "unlock"]
           /\ UNCHANGED <<calls, ran>>
  <2>1. left \in Nat
    BY <1>0, <1>2, NTasksType
  <2>2. taskResults[a] \o Skips(left) \in Seq(TaskStatus)
    BY <1>0, <2>1, SkipsType, ConcatProperties
  <2>3. taskResults' \in [Action -> Seq(TaskStatus)]
    BY <1>2, <2>2 DEF TypeOK
  <2> QED
    BY <1>2, <2>3 DEF TypeOK, calls
<1>3. CASE /\ st = "RUNNING"
           /\ \E s \in Starts(Tasks[a][next]) :
                /\ taskResults' = [taskResults EXCEPT ![a] = Append(@, s.result)]
                /\ pc' = [pc EXCEPT ![a] = s.pc]
                /\ call' = [call EXCEPT ![a] = s.call]
                /\ attempt' = [attempt EXCEPT ![a] = 1]
                /\ ran' = IF s.result = "SUCCESSFUL"
                          THEN [ran EXCEPT ![a] = Append(@, next)] ELSE ran
  <2>1. PICK s \in Starts(Tasks[a][next]) :
            /\ taskResults' = [taskResults EXCEPT ![a] = Append(@, s.result)]
            /\ pc' = [pc EXCEPT ![a] = s.pc]
            /\ call' = [call EXCEPT ![a] = s.call]
            /\ attempt' = [attempt EXCEPT ![a] = 1]
            /\ ran' = IF s.result = "SUCCESSFUL"
                      THEN [ran EXCEPT ![a] = Append(@, next)] ELSE ran
    BY <1>3
  <2>2. s.result \in TaskStatus /\ s.pc \in {"task", "settled"} /\ s.call \in Call
    BY DEF Starts, TaskStatus, Call
  <2>3. Append(taskResults[a], s.result) \in Seq(TaskStatus)
    BY <1>0, <2>2, AppendProperties
  <2>4. taskResults' \in [Action -> Seq(TaskStatus)]
    BY <2>1, <2>3 DEF TypeOK
  <2>5. ran[a] \in Seq(Nat) /\ Append(ran[a], next) \in Seq(Nat)
    BY <1>0, AppendProperties DEF TypeOK
  <2>6. ran' \in [Action -> Seq(Nat)]
    BY <2>1, <2>5 DEF TypeOK
  <2>7. call' \in [Action -> Call] /\ attempt' \in [Action -> Nat]
    BY <2>1, <2>2 DEF TypeOK
  <2> QED
    BY <1>3, <2>1, <2>2, <2>4, <2>6, <2>7
<1> QED
  BY <1>1, <1>2, <1>3 DEF TaskLoop

\* The end of a task's call.
LEMMA SettleType ==
    ASSUME TypeOK, NEW a \in Action, NEW st \in TaskStatus, Settle(a, st)
    PROVE  /\ taskResults' \in [Action -> Seq(TaskStatus)]
           /\ call' \in [Action -> Call]
           /\ ran' \in [Action -> Seq(Nat)]
           /\ pc' = [pc EXCEPT ![a] = "settled"]
           /\ UNCHANGED <<status, sets, flags, run, attempt>>
<1>1. taskResults[a] \in Seq(TaskStatus) /\ LastIx(a) \in Nat
  BY LenProperties DEF TypeOK, LastIx
<1>2. [taskResults[a] EXCEPT ![LastIx(a)] = st] \in Seq(TaskStatus)
  BY <1>1, UpdateType
<1>3. taskResults' \in [Action -> Seq(TaskStatus)]
  BY <1>2 DEF Settle, TypeOK
<1>4. ran[a] \in Seq(Nat) /\ Append(ran[a], LastIx(a)) \in Seq(Nat)
  BY <1>1, AppendProperties DEF TypeOK
<1>5. ran' \in [Action -> Seq(Nat)]
  BY <1>4 DEF Settle, TypeOK
<1> QED
  BY <1>3, <1>5 DEF Settle, TypeOK, Call

-----------------------------------------------------------------------------
(* Two kinds of step keep the invariant                                    *)

\* A step of the coroutine of one action, which may set that action's status.
LEMMA OneActionStep ==
    ASSUME IInv, TypeOK', NEW a \in Action,
           pc[a] \in Active,
           \A b \in Action \ {a} : pc'[b] = pc[b] /\ status'[b] = status[b],
           UNCHANGED <<successful, pending>>,
           status[a] \in SuccessStatus => status'[a] = status[a],
           status[a] \in Started,
           pc'[a] \in {"lock", "task", "settled", "metadata"} => status'[a] = "RUNNING",
           pc'[a] = "unlock" => status'[a] \in {"RUNNING", "FAILED", "CANCELLED"}
    PROVE  IInv'
<1>1. StatusAtPc'
  BY DEF IInv, TypeOK, StatusAtPc
<1>2. PendingIsIdle'
  <2>1. \A b \in pending : b # a /\ b \in Action
    BY DEF IInv, TypeOK, PendingIsIdle, Active
  <2> QED
    BY <2>1 DEF IInv, TypeOK, PendingIsIdle
<1>3. SuccessfulSucceeded'
  BY DEF IInv, TypeOK, SuccessfulSucceeded
<1>4. DependencyOrder'
  <2> SUFFICES ASSUME NEW b \in Action, status'[b] \in Started, NEW d \in InGraph(b)
               PROVE  status'[d] \in SuccessStatus
    BY DEF DependencyOrder, InGraph
  <2>1. status[b] \in Started
    BY DEF IInv, TypeOK
  <2>2. d \in Action /\ status[d] \in SuccessStatus
    BY <2>1 DEF IInv, DependencyOrder, InGraph
  <2> QED
    BY <2>2 DEF IInv, TypeOK
<1> QED
  BY <1>1, <1>2, <1>3, <1>4 DEF IInv

\* A call of executeAllActionsReadyForExecution().
LEMMA DispatchStep ==
    ASSUME IInv, TypeOK', NEW su, NEW p,
           \A a \in Action : DispatchedTo(a, su, p),
           \A a \in Action : p[a] = pc[a] \/ p[a] = "end",
           \A a \in pending : p[a] = "none",
           \A a \in su : a \in Action /\ status[a] \in SuccessStatus,
           successful' \subseteq su,
           pending' \subseteq pending
    PROVE  IInv'
<1>0. \A a \in su : status'[a] = status[a]
  BY DEF DispatchedTo, IInv, PendingIsIdle, SuccessStatus
<1>1. StatusAtPc'
  <2> SUFFICES ASSUME NEW a \in Action
               PROVE  /\ pc'[a] \in {"lock", "task", "settled", "metadata"} => status'[a] = "RUNNING"
                      /\ pc'[a] = "unlock" => status'[a] \in {"RUNNING", "FAILED", "CANCELLED"}
    BY DEF StatusAtPc
  <2>1. CASE status'[a] = status[a] /\ pc'[a] = p[a]
    BY <2>1 DEF IInv, StatusAtPc
  <2>2. CASE a \in pending /\ pc'[a] = p[a]
    BY <2>2
  <2> QED
    BY <2>1, <2>2 DEF DispatchedTo
<1>2. PendingIsIdle'
  BY DEF IInv, TypeOK, PendingIsIdle, DispatchedTo
<1>3. SuccessfulSucceeded'
  BY <1>0 DEF SuccessfulSucceeded
<1>4. DependencyOrder'
  <2> SUFFICES ASSUME NEW a \in Action, status'[a] \in Started, NEW d \in InGraph(a)
               PROVE  status'[d] \in SuccessStatus
    BY DEF DependencyOrder, InGraph
  <2>0. d \in Action
    BY DEF InGraph
  <2>1. CASE status'[a] = status[a]
    <3>1. status[d] \in SuccessStatus
      BY <2>1 DEF IInv, DependencyOrder
    <3>2. d \notin pending
      BY <3>1 DEF IInv, PendingIsIdle, SuccessStatus
    <3> QED
      BY <2>0, <3>1, <3>2 DEF DispatchedTo
  <2>2. CASE InGraph(a) \subseteq su
    BY <1>0, <2>2
  <2> QED
    BY <2>1, <2>2 DEF DispatchedTo, Started
<1> QED
  BY <1>1, <1>2, <1>3, <1>4 DEF IInv

-----------------------------------------------------------------------------
(* Every step keeps it                                                     *)

LEMMA InitIInv == Init => IInv
<1> SUFFICES ASSUME Init PROVE IInv
  OBVIOUS
<1>1. <<>> \in Seq(TaskStatus) /\ <<>> \in Seq(Nat)
  BY EmptySeq
<1>2. resumes \in 0..MaxResumes /\ options \in [dryRun : BOOLEAN, retryLimit : Nat]
  BY OptionsAssumption DEF Init
<1>3. {stopped, cancelled, timedOut, timer} \subseteq BOOLEAN
  BY DEF Init
<1>4. taskResults \in [Action -> Seq(TaskStatus)] /\ ran \in [Action -> Seq(Nat)]
  BY <1>1 DEF Init
<1>5. TypeOK
  BY <1>2, <1>3, <1>4 DEF Init, TypeOK, ActionStatus, RunStatus, Phase, PC, Call
<1> QED
  BY <1>5 DEF Init, IInv, StatusAtPc, PendingIsIdle, SuccessfulSucceeded, DependencyOrder, Started

\* Execute and SchemasReady dispatch with the sets as they are.
LEMMA DispatchFromGraph ==
    ASSUME IInv, ExecuteAllReady(executed, successful, pc), UNCHANGED <<executed, successful>>,
           TypeOK'
    PROVE  IInv'
<1>1. pc \in [Action -> PC] /\ TypeOK
  BY DEF IInv, TypeOK
<1>2. /\ \A a \in Action : DispatchedTo(a, successful, pc)
      /\ pending' \subseteq pending
  BY <1>1, DispatchType, DispatchEffect
<1>3. /\ \A a \in pending : pc[a] = "none"
      /\ \A a \in successful : a \in Action /\ status[a] \in SuccessStatus
  BY DEF IInv, TypeOK, PendingIsIdle, SuccessfulSucceeded
<1> QED
  BY <1>2, <1>3, DispatchStep

LEMMA StepIInv == IInv /\ [Next]_vars => IInv'
<1> SUFFICES ASSUME IInv, [Next]_vars PROVE IInv'
  OBVIOUS
<1>0. TypeOK
  BY DEF IInv
<1>1. CASE Execute
  <2>1. CASE /\ phase' = "schemas"
             /\ UNCHANGED <<status, taskResults, pending, pc>>
    <3>1. TypeOK'
      BY <1>0, <1>1, <2>1, OptionsAssumption DEF Execute, TypeOK, RunStatus, Phase, flags, calls
    <3> QED
      BY <1>1, <2>1, <3>1
      DEF Execute, IInv, StatusAtPc, PendingIsIdle, SuccessfulSucceeded, DependencyOrder
  <2>2. CASE phase' = "actions" /\ ExecuteAllReady(executed, successful, pc)
    <3>1. pc \in [Action -> PC]
      BY <1>0 DEF TypeOK
    <3>2. TypeOK'
      BY <1>0, <1>1, <2>2, <3>1, DispatchType, OptionsAssumption
      DEF Execute, TypeOK, RunStatus, Phase, flags, calls
    <3> QED
      BY <1>1, <2>2, <3>2, DispatchFromGraph DEF Execute
  <2> QED
    BY <1>1, <2>1, <2>2 DEF Execute
<1>2. CASE SchemasReady
  <2>1. pc \in [Action -> PC]
    BY <1>0 DEF TypeOK
  <2>2. TypeOK'
    BY <1>0, <1>2, <2>1, DispatchType DEF SchemasReady, TypeOK, Phase, flags, calls
  <2> QED
    BY <1>2, <2>2, DispatchFromGraph DEF SchemasReady
<1>3. CASE SchemasFail \/ Finish \/ ClearTimer
  <2>1. TypeOK'
    BY <1>0, <1>3
    DEF SchemasFail, Finish, ClearTimer, FinalStatus, TypeOK, RunStatus, Phase, flags, sets, calls
  <2> QED
    BY <1>3, <2>1
    DEF SchemasFail, Finish, ClearTimer, sets, IInv, StatusAtPc, PendingIsIdle,
        SuccessfulSucceeded, DependencyOrder
<1>4. ASSUME NEW a \in Action, ActionStep(a) PROVE IInv'
  <2>1. CASE Lock(a)
    <3>1. TaskLoop(a, status[a]) /\ UNCHANGED <<status, sets, flags, run>> /\ pc[a] = "lock"
      BY <2>1 DEF Lock
    <3>2. PICK at \in {"unlock", "task", "settled"} :
              /\ pc' = [pc EXCEPT ![a] = at]
              /\ at # "unlock" => status[a] = "RUNNING"
      BY <1>0, <3>1, TaskLoopType
    <3>3. TypeOK'
      BY <1>0, <3>1, <3>2, TaskLoopType DEF TypeOK, PC, sets, flags, run
    <3>4. status[a] = "RUNNING" /\ status' = [status EXCEPT ![a] = status[a]]
      BY <1>0, <3>1 DEF IInv, StatusAtPc, TypeOK
    <3> QED
      BY <1>0, <3>1, <3>2, <3>3, <3>4, OneActionStep DEF TypeOK, Active, Started, SuccessStatus, sets
  <2>2. CASE LockFails(a)
    <3>1. TypeOK'
      BY <1>0, <2>2 DEF LockFails, TypeOK, PC, Phase, sets, flags, calls
    <3>2. status[a] = "RUNNING" /\ status' = [status EXCEPT ![a] = status[a]]
      BY <1>0, <2>2 DEF LockFails, IInv, StatusAtPc, TypeOK
    <3> QED
      BY <1>0, <2>2, <3>1, <3>2, OneActionStep DEF LockFails, TypeOK, Active, Started, SuccessStatus, sets
  <2>3. CASE Submit(a)
    <3>1. TypeOK'
      BY <1>0, <2>3 DEF Submit, TypeOK, Call, sets, flags, run
    <3> QED
      BY <2>3, <3>1
      DEF Submit, sets, IInv, StatusAtPc, PendingIsIdle, SuccessfulSucceeded, DependencyOrder
  <2>4. ASSUME NEW st \in TaskStatus, Settle(a, st), pc[a] = "task" PROVE IInv'
    <3>1. TypeOK'
      BY <1>0, <2>4, SettleType DEF TypeOK, PC, sets, flags, run
    <3>2. status[a] = "RUNNING" /\ status' = [status EXCEPT ![a] = status[a]]
      BY <1>0, <2>4, SettleType DEF IInv, StatusAtPc, TypeOK
    <3>3. pc' = [pc EXCEPT ![a] = "settled"] /\ UNCHANGED <<successful, pending>>
      BY <1>0, <2>4, SettleType DEF sets
    <3> QED
      BY <1>0, <2>4, <3>1, <3>2, <3>3, OneActionStep DEF TypeOK, Active, Started, SuccessStatus
  <2>5. CASE CallSettles(a)
    <3>1. ErrorStatus \in TaskStatus /\ "SUCCESSFUL" \in TaskStatus
      BY DEF ErrorStatus, TaskStatus
    <3>2. CASE CallSucceeds(a) \/ AssertionFails(a)
      BY <2>4, <3>1, <3>2 DEF CallSucceeds, AssertionFails
    <3>3. CASE CallFails(a) /\ Settle(a, ErrorStatus)
      BY <2>4, <3>1, <3>3 DEF CallFails
    <3>4. CASE /\ call' = [call EXCEPT ![a] = "queued"]
               /\ attempt' = [attempt EXCEPT ![a] = @ + 1]
               /\ UNCHANGED <<status, taskResults, sets, flags, run, pc, ran>>
      <4>1. TypeOK'
        BY <1>0, <3>4 DEF TypeOK, Call, sets, flags, run
      <4> QED
        BY <3>4, <4>1
        DEF sets, IInv, StatusAtPc, PendingIsIdle, SuccessfulSucceeded, DependencyOrder
    <3> QED
      BY <2>5, <3>2, <3>3, <3>4 DEF CallSettles, CallFails
  <2>6. CASE ContinueTasks(a)
    <3> DEFINE result == taskResults[a][LastIx(a)]
               st == IF result \in {"FAILED", "CANCELLED"} THEN result ELSE status[a]
    <3>1. /\ pc[a] = "settled" /\ TaskLoop(a, st)
          /\ status' = [status EXCEPT ![a] = st]
          /\ UNCHANGED <<sets, flags, run>>
      BY <2>6 DEF ContinueTasks
    <3>2. status[a] = "RUNNING" /\ st \in {"RUNNING", "FAILED", "CANCELLED"}
      BY <3>1 DEF IInv, StatusAtPc
    <3> HIDE DEF st
    <3>3. PICK at \in {"unlock", "task", "settled"} :
              /\ pc' = [pc EXCEPT ![a] = at]
              /\ at # "unlock" => st = "RUNNING"
      BY <1>0, <3>1, TaskLoopType
    <3>4. status' \in [Action -> ActionStatus]
      BY <1>0, <3>1, <3>2 DEF TypeOK, ActionStatus, TaskStatus
    <3>5. TypeOK'
      BY <1>0, <3>1, <3>3, <3>4, TaskLoopType DEF TypeOK, PC, sets, flags, run
    <3> QED
      BY <1>0, <3>1, <3>2, <3>3, <3>5, OneActionStep DEF TypeOK, Active, Started, SuccessStatus, sets
  <2>7. CASE Unlock(a)
    <3>1. PICK at \in {"returned", "metadata"}, st \in ActionStatus :
              /\ pc' = [pc EXCEPT ![a] = at] /\ status' = [status EXCEPT ![a] = st]
              /\ at = "metadata" => st = "RUNNING"
              /\ st \in {status[a], Succeeded(status[a])}
      BY <1>0, <2>7 DEF Unlock, WantsMetadata, Succeeded, TypeOK, ActionStatus, TaskStatus
    <3>2. status[a] \in {"RUNNING", "FAILED", "CANCELLED"}
      BY <2>7 DEF Unlock, IInv, StatusAtPc
    <3>3. TypeOK'
      BY <1>0, <2>7, <3>1 DEF Unlock, TypeOK, PC, sets, flags, run, calls
    <3> QED
      BY <1>0, <2>7, <3>1, <3>2, <3>3, OneActionStep
      DEF Unlock, Succeeded, TypeOK, Active, Started, SuccessStatus, sets
  <2>8. CASE MetadataSettles(a)
    <3>1. PICK st \in {"SUCCESSFUL", "FAILED"} :
              pc' = [pc EXCEPT ![a] = "returned"] /\ status' = [status EXCEPT ![a] = st]
      BY <2>8 DEF MetadataSettles, SetMetadata, SetMetadataFails
    <3>2. pc[a] = "metadata" /\ UNCHANGED <<sets, flags, run, calls, ran>>
      BY <2>8 DEF MetadataSettles, SetMetadata, SetMetadataFails
    <3>3. taskResults' \in [Action -> Seq(TaskStatus)]
      <4>1. taskResults[a] \in Seq(TaskStatus) /\ LastIx(a) \in Nat /\ "FAILED" \in TaskStatus
        BY <1>0, LenProperties DEF TypeOK, LastIx, TaskStatus
      <4>2. [taskResults[a] EXCEPT ![LastIx(a)] = "FAILED"] \in Seq(TaskStatus)
        BY <4>1, UpdateType
      <4> QED
        BY <1>0, <2>8, <4>2 DEF MetadataSettles, SetMetadata, SetMetadataFails, TypeOK
    <3>4. TypeOK'
      BY <1>0, <3>1, <3>2, <3>3 DEF TypeOK, PC, ActionStatus, TaskStatus, sets, flags, run, calls
    <3>5. status[a] = "RUNNING"
      BY <3>2 DEF IInv, StatusAtPc
    <3> QED
      BY <1>0, <3>1, <3>2, <3>4, <3>5, OneActionStep DEF TypeOK, Active, Started, SuccessStatus, sets
  <2>9. CASE Return(a)
    <3> DEFINE p == [pc EXCEPT ![a] = "end"]
    <3>1. /\ pc[a] = "returned" /\ ExecuteAllReady(executed', successful', p)
          /\ executed' = executed \cup {a} /\ UNCHANGED <<flags, run, calls, ran>>
          /\ successful' = IF status[a] \in SuccessStatus THEN successful \cup {a} ELSE successful
      BY <2>9 DEF Return
    <3>2. p \in [Action -> PC]
      BY <1>0 DEF TypeOK, PC
    <3> HIDE DEF p
    <3>3. TypeOK'
      BY <1>0, <3>1, <3>2, DispatchType DEF TypeOK, flags, run, calls
    <3>4. \A b \in successful' : b \in Action /\ status[b] \in SuccessStatus
      BY <3>1 DEF IInv, TypeOK, SuccessfulSucceeded
    <3>5. \A b \in pending : p[b] = "none"
      BY <3>1 DEF p, IInv, TypeOK, PendingIsIdle
    <3>6. \A b \in Action : p[b] = pc[b] \/ p[b] = "end"
      BY <1>0 DEF p, TypeOK
    <3>7. (\A b \in Action : DispatchedTo(b, successful', p)) /\ pending' \subseteq pending
      BY <1>0, <3>1, <3>2, DispatchEffect, DispatchType
    <3> QED
      BY <3>3, <3>4, <3>5, <3>6, <3>7, DispatchStep
  <2> QED
    BY <1>4, <2>1, <2>2, <2>3, <2>5, <2>6, <2>7, <2>8, <2>9 DEF ActionStep
<1>5. CASE Cancel \/ Timeout \/ Stop
  <2>1. TypeOK'
    BY <1>0, <1>5 DEF Cancel, Timeout, Stop, Emit, TypeOK, Call, sets, run, calls
  <2> QED
    BY <1>5, <2>1
    DEF Cancel, Timeout, Stop, sets, IInv, StatusAtPc, PendingIsIdle, SuccessfulSucceeded,
        DependencyOrder
<1>6. CASE Resume
  <2>0. NoOptions \in [dryRun : BOOLEAN, retryLimit : Nat] /\ resumes' \in 0..MaxResumes
    BY <1>0, <1>6, OptionsAssumption DEF Resume, TypeOK, NoOptions
  <2>1. TypeOK'
    BY <1>0, <1>6, <2>0 DEF Resume, TypeOK, Phase, PC, calls
  <2>2. \A a \in pending' : status[a] \in {"NONE", "RUNNING"}
    BY <1>6 DEF Resume
  <2> QED
    BY <1>6, <2>1, <2>2
    DEF Resume, IInv, TypeOK, StatusAtPc, PendingIsIdle, SuccessfulSucceeded, DependencyOrder
<1>7. CASE Over \/ UNCHANGED vars
  BY <1>7
  DEF Over, vars, sets, flags, run, calls, IInv, TypeOK, StatusAtPc, PendingIsIdle,
      SuccessfulSucceeded, DependencyOrder
<1> QED
  BY <1>1, <1>2, <1>3, <1>4, <1>5, <1>6, <1>7 DEF Next, GraphStep

-----------------------------------------------------------------------------
(* The theorems                                                            *)

\* The invariant that the safety theorems follow from.
THEOREM Invariance == Spec => []IInv
  BY InitIInv, StepIInv, PTL DEF Spec

\* Every variable keeps to its type, in every run of every graph.
THEOREM TypeCorrect == Spec => []TypeOK
<1>1. IInv => TypeOK
  BY DEF IInv
<1> QED
  BY Invariance, <1>1, PTL

\* No action is started before all of its dependencies in the graph have
\* succeeded, for every graph, pool size, retry limit, and with any number of
\* failures, cancellations, stops and resumptions.
THEOREM DependenciesFirst == Spec => []DependencyOrder
<1>1. IInv => DependencyOrder
  BY DEF IInv
<1> QED
  BY Invariance, <1>1, PTL

-----------------------------------------------------------------------------
(* Outcomes                                                                *)

\* A dispatch gives a status only to an action that is still pending.
LEMMA DispatchKeepsOutcomes ==
    ASSUME IInv, NEW ex, NEW su, NEW p \in [Action -> PC], ExecuteAllReady(ex, su, p),
           NEW a \in Action, status[a] \in Outcome
    PROVE  status'[a] = status[a]
<1>1. DispatchedTo(a, su, p)
  BY DispatchEffect DEF IInv
<1>2. a \notin pending
  BY DEF IInv, PendingIsIdle, Outcome
<1> QED
  BY <1>1, <1>2 DEF DispatchedTo

LEMMA StepKeepsOutcomes ==
    ASSUME IInv, [Next]_vars, NEW a \in Action, status[a] \in Outcome
    PROVE  status'[a] = status[a]
<1>0. TypeOK /\ pc \in [Action -> PC] /\ status \in [Action -> ActionStatus]
  BY DEF IInv, TypeOK
<1>1. CASE GraphStep
  BY <1>0, <1>1, DispatchKeepsOutcomes
  DEF GraphStep, Execute, SchemasReady, SchemasFail, Finish, ClearTimer
<1>2. ASSUME NEW b \in Action, ActionStep(b) PROVE status'[a] = status[a]
  <2>1. CASE UNCHANGED status
    BY <2>1
  <2>2. CASE ContinueTasks(b)
    <3>1. a # b
      BY <2>2 DEF ContinueTasks, IInv, StatusAtPc, Outcome
    <3> QED
      BY <2>2, <3>1 DEF ContinueTasks
  <2>3. CASE Unlock(b)
    BY <1>0, <2>3 DEF Unlock, Succeeded, Outcome
  <2>4. CASE MetadataSettles(b)
    <3>1. a # b
      BY <2>4
      DEF MetadataSettles, SetMetadata, SetMetadataFails, IInv, StatusAtPc, Outcome
    <3> QED
      BY <1>0, <2>4, <3>1 DEF MetadataSettles, SetMetadata, SetMetadataFails
  <2>5. CASE Return(b)
    <3>1. [pc EXCEPT ![b] = "end"] \in [Action -> PC]
      BY <1>0 DEF PC
    <3> QED
      BY <2>5, <3>1, DispatchKeepsOutcomes DEF Return
  <2>6. CASE Lock(b) \/ LockFails(b) \/ Submit(b) \/ CallSettles(b)
    BY <2>6
    DEF Lock, LockFails, Submit, CallSettles, CallSucceeds, AssertionFails, CallFails, Settle
  <2> QED
    BY <1>2, <2>2, <2>3, <2>4, <2>5, <2>6 DEF ActionStep
<1>3. CASE Cancel \/ Timeout \/ Stop \/ Resume \/ Over \/ UNCHANGED vars
  BY <1>3 DEF Cancel, Timeout, Stop, Resume, Over, vars
<1> QED
  BY <1>1, <1>2, <1>3 DEF Next

\* No step of any coroutine, no cancellation, stop or resumption changes the
\* outcome that an action has been given, for every graph and pool size.
THEOREM OutcomesStay == Spec => OutcomesAreFinal
<1>1. IInv /\ [Next]_vars => [\A a \in Action : status[a] \in Outcome => status'[a] = status[a]]_vars
  BY StepKeepsOutcomes
<1> QED
  BY Invariance, <1>1, PTL DEF Spec, OutcomesAreFinal

-----------------------------------------------------------------------------
(* Cancellation and stop                                                   *)

\* What becomes of one action's results: none is added; or what is added is
\* SKIPPED, which a stopped run does not do either.
Untouched(a)   == Len(taskResults'[a]) = LastIx(a)
OnlySkipped(a) == ~stopped /\ ~TaskStarts(a)

\* Once the run is cancelled, a dispatch at most skips.
LEMMA DispatchWhenOver ==
    ASSUME TypeOK, NEW ex, NEW su, NEW p, ExecuteAllReady(ex, su, p), stopped \/ cancelled,
           NEW a \in Action
    PROVE  /\ Untouched(a) \/ OnlySkipped(a)
           /\ ~ActionStarts(a)
           /\ stopped => pending' = pending
<1>1. CASE stopped
  <2>1. UNCHANGED <<status, taskResults, pending>>
    BY <1>1 DEF ExecuteAllReady
  <2> QED
    BY <2>1 DEF Untouched, LastIx, ActionStarts, Started
<1>2. CASE ~stopped
  <2>1. SkipAllPending
    BY <1>2 DEF ExecuteAllReady
  <2>2. CASE a \in pending
    <3> DEFINE n == IF NTasks(a) = 0 THEN 1 ELSE NTasks(a)
    <3>1. n \in Nat /\ taskResults'[a] = Skips(n) /\ status'[a] = "SKIPPED"
      BY <2>1, <2>2, NTasksType DEF SkipAllPending
    <3>2. LastIx(a) \in Nat
      BY LenProperties DEF TypeOK, LastIx
    <3> HIDE DEF n
    <3>3. Len(taskResults'[a]) = n
      BY <3>1 DEF Skips
    <3>4. ~TaskStarts(a)
      BY <3>1, <3>2, <3>3 DEF TaskStarts, Skips
    <3> QED
      BY <1>2, <3>1, <3>4 DEF OnlySkipped, ActionStarts, Started
  <2>3. CASE a \notin pending
    BY <1>2, <2>1, <2>3 DEF SkipAllPending, TypeOK, Untouched, LastIx, ActionStarts, Started
  <2> QED
    BY <2>2, <2>3
<1> QED
  BY <1>1, <1>2

\* So does the task loop.
LEMMA TaskLoopWhenOver ==
    ASSUME TypeOK, NEW b \in Action, NEW st, TaskLoop(b, st), stopped \/ cancelled,
           NEW a \in Action
    PROVE  Untouched(a) \/ OnlySkipped(a)
<1> DEFINE left == NTasks(b) - LastIx(b)
<1>0. \A c \in Action : taskResults[c] \in Seq(TaskStatus) /\ LastIx(c) \in Nat
  BY LenProperties DEF TypeOK, LastIx
<1>1. CASE UNCHANGED taskResults
  BY <1>1 DEF Untouched, LastIx
<1>2. CASE /\ left > 0 /\ ~stopped
           /\ taskResults' = [taskResults EXCEPT ![b] = @ \o Skips(left)]
  <2>1. CASE a = b
    <3>1. left \in Nat
      BY <1>0, <1>2, NTasksType
    <3>2. taskResults'[a] = taskResults[a] \o Skips(left)
      BY <1>2, <2>1 DEF TypeOK
    <3>3. LastIx(a) = Len(taskResults[a])
      BY DEF LastIx
    <3> HIDE DEF left
    <3>4. /\ Skips(left) \in Seq(TaskStatus)
          /\ Len(Skips(left)) = left
          /\ Skips(left)[1] = "SKIPPED"
      BY <1>2, <3>1, SkipsType DEF Skips
    <3>5. (taskResults[a] \o Skips(left))[LastIx(a) + 1] = Skips(left)[1]
      BY <1>0, <1>2, <3>1, <3>3, <3>4, ConcatProperties
    <3> QED
      BY <1>2, <3>2, <3>4, <3>5 DEF OnlySkipped, TaskStarts
  <2>2. CASE a # b
    BY <1>2, <2>2 DEF TypeOK, Untouched, LastIx
  <2> QED
    BY <2>1, <2>2
<1> QED
  BY <1>1, <1>2 DEF TaskLoop

\* Neither does any other step.
LEMMA StepWhenOver ==
    ASSUME IInv, [Next]_vars, stopped \/ cancelled, NEW a \in Action
    PROVE  /\ Untouched(a) \/ OnlySkipped(a)
           /\ ~ActionStarts(a)
           /\ stopped /\ phase # "done" => pending' = pending
<1>0. TypeOK
  BY DEF IInv
<1>1. CASE UNCHANGED <<status, taskResults, pending>>
  BY <1>1 DEF Untouched, LastIx, ActionStarts, Started
<1>2. CASE Execute \/ SchemasReady
  BY <1>0, <1>1, <1>2, DispatchWhenOver DEF Execute, SchemasReady
<1>3. CASE SchemasFail \/ Finish \/ ClearTimer \/ Cancel \/ Timeout \/ Stop \/ Over \/ UNCHANGED vars
  BY <1>1, <1>3 DEF SchemasFail, Finish, ClearTimer, Cancel, Timeout, Stop, Over, vars, sets
<1>4. CASE Resume
  BY <1>4 DEF Resume, Untouched, LastIx, ActionStarts, Started
<1>5. ASSUME NEW b \in Action, ActionStep(b)
      PROVE  /\ Untouched(a) \/ OnlySkipped(a)
             /\ ~ActionStarts(a)
             /\ stopped /\ phase # "done" => pending' = pending
  <2>1. CASE Lock(b)
    BY <1>0, <2>1, TaskLoopWhenOver DEF Lock, sets, ActionStarts, Started
  <2>2. CASE ContinueTasks(b)
    <3>1. status[b] # "NONE" /\ UNCHANGED pending
      BY <2>2 DEF ContinueTasks, IInv, StatusAtPc, sets
    <3>2. ~ActionStarts(a)
      BY <1>0, <2>2, <3>1 DEF ContinueTasks, ActionStarts, Started, TypeOK
    <3>3. Untouched(a) \/ OnlySkipped(a)
      BY <1>0, <2>2, TaskLoopWhenOver DEF ContinueTasks
    <3> QED
      BY <3>1, <3>2, <3>3
  <2>3. CASE Return(b)
    BY <1>0, <2>3, DispatchWhenOver DEF Return
  <2>4. CASE Unlock(b)
    <3>1. status[b] # "NONE" /\ UNCHANGED <<taskResults, pending>>
      BY <2>4 DEF Unlock, IInv, StatusAtPc, sets
    <3>2. ~ActionStarts(a)
      BY <1>0, <2>4, <3>1 DEF Unlock, Succeeded, ActionStarts, Started, TypeOK
    <3> QED
      BY <3>1, <3>2 DEF Untouched, LastIx
  <2>5. ASSUME NEW st, taskResults' = [taskResults EXCEPT ![b][LastIx(b)] = st]
        PROVE  Untouched(a)
    BY <1>0, <2>5, LenProperties DEF TypeOK, Untouched, LastIx
  <2>6. CASE MetadataSettles(b)
    <3>1. status[b] # "NONE" /\ UNCHANGED pending
      BY <2>6 DEF MetadataSettles, SetMetadata, SetMetadataFails, IInv, StatusAtPc, sets
    <3>2. ~ActionStarts(a)
      BY <1>0, <2>6, <3>1
      DEF MetadataSettles, SetMetadata, SetMetadataFails, ActionStarts, Started, TypeOK
    <3>3. Untouched(a)
      BY <2>5, <2>6 DEF MetadataSettles, SetMetadata, SetMetadataFails, Untouched, LastIx
    <3> QED
      BY <3>1, <3>2, <3>3
  <2>7. ASSUME NEW st, Settle(b, st)
        PROVE  Untouched(a) /\ UNCHANGED <<status, pending>>
    BY <2>5, <2>7 DEF Settle, sets
  <2>8. CASE CallSettles(b)
    BY <1>1, <2>7, <2>8
    DEF CallSettles, CallSucceeds, AssertionFails, CallFails, ActionStarts, Started, sets
  <2>9. CASE LockFails(b) \/ Submit(b)
    BY <1>1, <2>9 DEF LockFails, Submit, sets
  <2> QED
    BY <1>5, <2>1, <2>2, <2>3, <2>4, <2>6, <2>8, <2>9 DEF ActionStep
<1> QED
  BY <1>2, <1>3, <1>4, <1>5 DEF Next, GraphStep

\* After cancel() or the timeout no action and no task starts, in every run of
\* every graph: what has not begun is skipped.
THEOREM CancelStartsNothing == Spec => NothingStartsAfterCancel
<1>1. ASSUME IInv, [Next]_vars, cancelled, NEW a \in Action PROVE ~TaskStarts(a) /\ ~ActionStarts(a)
  <2>1. Untouched(a) => ~TaskStarts(a)
    <3>1. LastIx(a) \in Nat
      BY <1>1, LenProperties DEF IInv, TypeOK, LastIx
    <3> QED
      BY <3>1 DEF Untouched, TaskStarts
  <2> QED
    BY <1>1, <2>1, StepWhenOver DEF OnlySkipped
<1>2. IInv /\ [Next]_vars => [cancelled => \A a \in Action : ~TaskStarts(a) /\ ~ActionStarts(a)]_vars
  BY <1>1
<1> QED
  BY Invariance, <1>2, PTL DEF Spec, NothingStartsAfterCancel

\* After stop() no action or task starts or is skipped, in every run of every
\* graph: resume() finds the frontier where stop() left it.
THEOREM StopKeepsTheFrontier == Spec => StopFreezesTheFrontier
<1>1. ASSUME IInv, [Next]_vars, stopped
      PROVE  /\ \A a \in Action : Len(taskResults'[a]) = LastIx(a)
             /\ phase # "done" => pending' = pending
  <2>1. \A a \in Action : Len(taskResults'[a]) = LastIx(a)
    BY <1>1, StepWhenOver DEF Untouched, OnlySkipped
  <2>2. CASE \E a \in Action : TRUE
    BY <1>1, <2>1, <2>2, StepWhenOver
  <2>3. CASE ~\E a \in Action : TRUE
    <3>1. pending = {} /\ pending' = {}
      BY <1>1, <2>3, StepIInv DEF IInv, TypeOK
    <3> QED
      BY <2>1, <3>1
  <2> QED
    BY <2>2, <2>3
<1>2. IInv /\ [Next]_vars =>
        [stopped => /\ \A a \in Action : Len(taskResults'[a]) = LastIx(a)
                    /\ phase # "done" => pending' = pending]_vars
  BY <1>1
<1> QED
  BY Invariance, <1>2, PTL DEF Spec, StopFreezesTheFrontier

-----------------------------------------------------------------------------
(* Runner implements RunSpec: each step of a run, resumed or not, is a     *)
(* step of the abstract specification under OutcomeOf, or leaves it        *)
(* unchanged.                                                              *)

\* A Runner that has not started is untouched, and knows every success.
IdleIsQuiet ==
    phase = "idle" =>
        /\ ~stopped /\ ~cancelled /\ ~timer
        /\ \A a \in Action : pc[a] = "none"
        /\ \A a \in Action : status[a] \in SuccessStatus => a \in successful

\* A RUNNING action is pending only until a resumed run starts: all of its
\* dependencies have succeeded, so the first dispatch takes it.
PendingIsNew == phase # "idle" => \A a \in pending : status[a] = "NONE"

\* Unless the run is stopped, an action that returns has an outcome, and so
\* has every executed one: what may skip an action did not succeed.
ReturnedHasEnded == ~stopped => \A a \in Action : pc[a] = "returned" => status[a] \in Outcome
ExecutedHasEnded ==
    ~stopped => \A a \in executed :
                    /\ status[a] \in Outcome
                    /\ status[a] \in SuccessStatus => a \in successful

\* Only an action with tasks is ever RUNNING; one without is DISABLED at once.
RunningHasTasks == \A a \in Action : status[a] = "RUNNING" => NTasks(a) # 0

RInv ==
    /\ IInv
    /\ IdleIsQuiet
    /\ PendingIsNew
    /\ ReturnedHasEnded
    /\ ExecutedHasEnded
    /\ RunningHasTasks

-----------------------------------------------------------------------------
(* What a dispatch and the other steps do to a status                      *)

\* Why a dispatch may change the status of a, or leave it.
DispatchedBecause(a, ex, su, p) ==
    \/ status'[a] = status[a] /\ pc'[a] = p[a] /\ a \notin pending \ pending'
    \/ a \in pending /\ cancelled /\ status'[a] = "SKIPPED" /\ pc'[a] = p[a]
    \/ /\ a \in pending \ Executable(su) /\ InGraph(a) \subseteq ex
       /\ ~stopped /\ status'[a] = "SKIPPED" /\ pc'[a] = p[a]
    \/ /\ a \in Executable(su)
       /\ \/ NTasks(a) # 0 /\ status'[a] = "RUNNING" /\ pc'[a] = "lock"
          \/ NTasks(a) = 0 /\ status'[a] = "DISABLED" /\ pc'[a] = "returned"

LEMMA DispatchReason ==
    ASSUME TypeOK, NEW ex, NEW su, NEW p, ExecuteAllReady(ex, su, p), NEW a \in Action
    PROVE  DispatchedBecause(a, ex, su, p)
<1>1. CASE stopped /\ pc' = p /\ UNCHANGED <<status, taskResults, pending>>
  BY <1>1 DEF DispatchedBecause
<1>2. CASE cancelled /\ SkipAllPending /\ pc' = p
  BY <1>2 DEF SkipAllPending, DispatchedBecause
<1>3. CASE ~stopped /\ ~cancelled /\ SkipAndStart(Executable(su), Skippable(ex, su), p)
  <2>1. CASE a \in Skippable(ex, su)
    <3>1. a \in pending \ Executable(su) /\ InGraph(a) \subseteq ex
      BY <2>1 DEF Skippable
    <3>2. status'[a] = "SKIPPED" /\ pc'[a] = p[a]
      BY <1>3, <2>1, <3>1 DEF SkipAndStart
    <3> QED
      BY <1>3, <3>1, <3>2 DEF DispatchedBecause
  <2>2. CASE a \in Executable(su)
    <3>1. a \notin Skippable(ex, su)
      BY <2>2 DEF Skippable
    <3>2. \/ NTasks(a) # 0 /\ status'[a] = "RUNNING" /\ pc'[a] = "lock"
          \/ NTasks(a) = 0 /\ status'[a] = "DISABLED" /\ pc'[a] = "returned"
      BY <1>3, <2>2, <3>1 DEF SkipAndStart
    <3> QED
      BY <2>2, <3>2 DEF DispatchedBecause
  <2>3. CASE a \notin Executable(su) /\ a \notin Skippable(ex, su)
    <3>1. status'[a] = status[a] /\ pc'[a] = p[a] /\ a \notin pending \ pending'
      BY <1>3, <2>3 DEF SkipAndStart
    <3> QED
      BY <2>3, <3>1 DEF DispatchedBecause
  <2> QED
    BY <2>1, <2>2, <2>3
<1> QED
  BY <1>1, <1>2, <1>3 DEF ExecuteAllReady

\* A dispatch that is not stopped leaves nothing pending that could start.
LEMMA DispatchLeavesNoneReady ==
    ASSUME NEW ex, NEW su, NEW p, ExecuteAllReady(ex, su, p), ~stopped
    PROVE  pending' \cap Executable(su) = {} /\ pending' \subseteq pending
  BY DEF ExecuteAllReady, SkipAllPending, SkipAndStart

\* A RUNNING action that is pending is one that a resumed run is about to start.
LEMMA PendingRunningIsReady ==
    ASSUME RInv, NEW a \in pending, status[a] = "RUNNING"
    PROVE  phase = "idle" /\ ~stopped /\ ~cancelled /\ a \in Executable(successful)
<1>1. phase = "idle" /\ ~stopped /\ ~cancelled
  BY DEF RInv, PendingIsNew, IdleIsQuiet
<1>2. ASSUME NEW d \in InGraph(a) PROVE d \in successful
  <2>1. a \in Action /\ d \in Action
    BY <1>2 DEF RInv, IInv, TypeOK, InGraph
  <2>2. status[d] \in SuccessStatus
    BY <1>2, <2>1 DEF RInv, IInv, DependencyOrder, Started
  <2> QED
    BY <1>1, <2>1, <2>2 DEF RInv, IdleIsQuiet
<1> QED
  BY <1>1, <1>2 DEF Executable

\* A step of a coroutine ends its own action, or leaves every status alone.
Ends(a) ==
    \/ UNCHANGED status
    \/ /\ status[a] = "RUNNING"
       /\ \E o \in {"SUCCESSFUL", "FAILED", "CANCELLED"} : status' = [status EXCEPT ![a] = o]

LEMMA ActionStepEnds ==
    ASSUME IInv, NEW a \in Action, ActionStep(a), ~Return(a)
    PROVE  Ends(a)
<1>0. status \in [Action -> ActionStatus]
  BY DEF IInv, TypeOK
<1>1. CASE ContinueTasks(a)
  <2> DEFINE result == taskResults[a][LastIx(a)]
             st == IF result \in {"FAILED", "CANCELLED"} THEN result ELSE status[a]
  <2>1. status[a] = "RUNNING" /\ status' = [status EXCEPT ![a] = st]
    BY <1>1 DEF ContinueTasks, IInv, StatusAtPc
  <2>2. CASE result \in {"FAILED", "CANCELLED"}
    BY <2>1, <2>2 DEF Ends
  <2>3. CASE result \notin {"FAILED", "CANCELLED"}
    BY <1>0, <2>1, <2>3 DEF Ends
  <2> QED
    BY <2>2, <2>3
<1>2. CASE Unlock(a)
  <2>1. CASE status[a] = "RUNNING"
    BY <1>2, <2>1 DEF Unlock, Succeeded, Ends
  <2>2. CASE status[a] # "RUNNING"
    BY <1>0, <1>2, <2>2 DEF Unlock, Succeeded, Ends
  <2> QED
    BY <2>1, <2>2
<1>3. CASE MetadataSettles(a)
  <2>1. status[a] = "RUNNING"
    BY <1>3 DEF MetadataSettles, SetMetadata, SetMetadataFails, IInv, StatusAtPc
  <2> QED
    BY <1>3, <2>1 DEF MetadataSettles, SetMetadata, SetMetadataFails, Ends
<1>4. CASE Lock(a) \/ LockFails(a) \/ Submit(a) \/ CallSettles(a)
  BY <1>4
  DEF Lock, LockFails, Submit, CallSettles, CallSucceeds, AssertionFails, CallFails, Settle, Ends
<1> QED
  BY <1>1, <1>2, <1>3, <1>4 DEF ActionStep

\* What a step of a coroutine that does not return leaves alone: the sets and
\* the flags; and it moves only itself, never to "returned" without an outcome
\* unless the run is stopped.
LEMMA ActionStepFrame ==
    ASSUME IInv, NEW a \in Action, ActionStep(a), ~Return(a)
    PROVE  /\ UNCHANGED <<sets, flags, timer>>
           /\ pc[a] \notin {"none", "returned"} \/ UNCHANGED pc
           /\ \A b \in Action \ {a} : pc'[b] = pc[b]
           /\ phase' = phase \/ (phase = "actions" /\ phase' = "rejected")
           /\ ~stopped /\ pc'[a] = "returned" => pc[a] = "returned" \/ status'[a] \in Outcome
<1>0. TypeOK /\ pc \in [Action -> PC] /\ status \in [Action -> ActionStatus]
  BY DEF IInv, TypeOK
<1>1. ASSUME NEW st, TaskLoop(a, st)
      PROVE  /\ \A b \in Action \ {a} : pc'[b] = pc[b]
             /\ pc'[a] # "returned"
  <2>1. PICK at \in {"unlock", "task", "settled"} : pc' = [pc EXCEPT ![a] = at]
    BY <1>0, <1>1, TaskLoopType
  <2> QED
    BY <1>0, <2>1
<1>2. CASE Lock(a)
  BY <1>1, <1>2 DEF Lock, sets, flags, run
<1>3. CASE ContinueTasks(a)
  BY <1>1, <1>3 DEF ContinueTasks, sets, flags, run
<1>4. CASE LockFails(a) \/ Submit(a)
  BY <1>0, <1>4 DEF LockFails, Submit, sets, flags, run
<1>5. CASE CallSettles(a)
  BY <1>0, <1>5 DEF CallSettles, CallSucceeds, AssertionFails, CallFails, Settle, sets, flags, run
<1>6. CASE Unlock(a)
  <2>1. ~stopped /\ pc'[a] = "returned" => status'[a] \in {Succeeded(status[a])}
    BY <1>0, <1>6 DEF Unlock
  <2>2. Succeeded(status[a]) \in Outcome
    BY <1>6 DEF Unlock, Succeeded, Outcome, IInv, StatusAtPc
  <2> QED
    BY <1>0, <1>6, <2>1, <2>2 DEF Unlock, sets, flags, run
<1>7. CASE MetadataSettles(a)
  BY <1>0, <1>7 DEF MetadataSettles, SetMetadata, SetMetadataFails, Outcome, sets, flags, run
<1> QED
  BY <1>2, <1>3, <1>4, <1>5, <1>6, <1>7 DEF ActionStep

-----------------------------------------------------------------------------
(* The invariant                                                           *)

LEMMA InitRInv == Init => RInv
<1> SUFFICES ASSUME Init PROVE RInv
  OBVIOUS
<1>1. IdleIsQuiet /\ PendingIsNew /\ ReturnedHasEnded /\ ExecutedHasEnded /\ RunningHasTasks
  BY DEF Init, IdleIsQuiet, PendingIsNew, ReturnedHasEnded, ExecutedHasEnded, RunningHasTasks,
         SuccessStatus
<1> QED
  BY <1>1, InitIInv DEF RInv

\* A dispatch: ex and su are the sets it is given, which become the Runner's.
LEMMA DispatchRInv ==
    ASSUME RInv, IInv', NEW p, ExecuteAllReady(executed', successful', p),
           UNCHANGED flags, phase' # "idle",
           \A a \in Action : p[a] = pc[a] \/ p[a] = "end",
           ~stopped => \A a \in executed' :
                          /\ status[a] \in Outcome
                          /\ status[a] \in SuccessStatus => a \in successful',
           phase = "idle" \/ \A a \in pending : status[a] = "NONE",
           phase = "idle" => successful' = successful
    PROVE  RInv'
<1>0. TypeOK
  BY DEF RInv, IInv
<1>1. \A a \in Action : DispatchedBecause(a, executed', successful', p)
  BY <1>0, DispatchReason
<1>2. \A a \in pending : a \in Action /\ status[a] \in {"NONE", "RUNNING"}
  BY DEF RInv, IInv, TypeOK, PendingIsIdle
<1>3. pending' \subseteq pending
  BY DEF ExecuteAllReady, SkipAllPending, SkipAndStart
<1>4. \A a \in Executable(successful') : a \in pending
  BY DEF Executable
<1>5. PendingIsNew'
  <2>1. \A a \in pending' : status'[a] \in {"NONE", "RUNNING"}
    BY DEF IInv, PendingIsIdle
  <2>2. CASE phase = "idle"
    <3>1. ~stopped
      BY <2>2 DEF RInv, IdleIsQuiet
    <3>2. \A a \in pending' : a \in pending /\ a \notin Executable(successful)
      BY <2>2, <3>1, DispatchLeavesNoneReady
    <3>3. \A a \in pending' : status[a] = "NONE"
      BY <1>2, <3>2, PendingRunningIsReady
    <3>4. \A a \in pending' : status'[a] = status[a] \/ status'[a] = "SKIPPED"
      BY <1>1, <1>2, <2>2, <3>2 DEF DispatchedBecause
    <3> QED
      BY <2>1, <3>3, <3>4 DEF PendingIsNew
  <2>3. CASE \A a \in pending : status[a] = "NONE"
    <3>1. CASE stopped
      BY <2>3, <3>1 DEF ExecuteAllReady, PendingIsNew
    <3>2. CASE ~stopped
      <4>1. \A a \in pending' : a \in Action /\ a \in pending /\ a \notin Executable(successful')
        BY <1>2, <3>2, DispatchLeavesNoneReady
      <4>2. \A a \in pending' : status'[a] = status[a] \/ status'[a] = "SKIPPED"
        BY <1>1, <4>1 DEF DispatchedBecause
      <4> QED
        BY <2>1, <2>3, <4>1, <4>2 DEF PendingIsNew
    <3> QED
      BY <3>1, <3>2
  <2> QED
    BY <2>2, <2>3
<1>6. ReturnedHasEnded'
  <2> SUFFICES ASSUME ~stopped, NEW a \in Action, pc'[a] = "returned" PROVE status'[a] \in Outcome
    BY DEF ReturnedHasEnded, flags
  <2>1. CASE pc'[a] = p[a]
    <3>1. status[a] \in Outcome /\ a \notin pending
      BY <2>1 DEF RInv, IInv, PendingIsIdle, ReturnedHasEnded
    <3> QED
      BY <1>1, <1>4, <3>1 DEF DispatchedBecause
  <2>2. CASE status'[a] = "DISABLED"
    BY <2>2 DEF Outcome
  <2> QED
    BY <1>1, <2>1, <2>2 DEF DispatchedBecause
<1>7. ExecutedHasEnded'
  <2> SUFFICES ASSUME ~stopped, NEW a \in executed'
               PROVE  /\ status'[a] \in Outcome
                      /\ status'[a] \in SuccessStatus => a \in successful'
    BY DEF ExecutedHasEnded, flags
  <2>1. a \in Action
    BY DEF IInv, TypeOK
  <2>2. a \notin pending
    BY <1>2 DEF Outcome
  <2>3. status'[a] = status[a]
    BY <1>1, <1>4, <2>1, <2>2 DEF DispatchedBecause
  <2> QED
    BY <2>3
<1>8. RunningHasTasks'
  BY <1>1 DEF DispatchedBecause, RInv, RunningHasTasks, NTasks
<1> QED
  BY <1>5, <1>6, <1>7, <1>8 DEF RInv, IdleIsQuiet

LEMMA StepRInv == RInv /\ [Next]_vars => RInv'
<1> SUFFICES ASSUME RInv, [Next]_vars PROVE RInv'
  OBVIOUS
<1>0. /\ IInv /\ IInv' /\ TypeOK
      /\ pc \in [Action -> PC] /\ status \in [Action -> ActionStatus]
  BY StepIInv DEF RInv, IInv, TypeOK
<1>1. CASE Execute
  <2>1. CASE /\ \A a \in Action : status[a] = "NONE"
             /\ phase' = "schemas"
             /\ UNCHANGED <<status, taskResults, pending, pc>>
    BY <1>0, <1>1, <2>1
    DEF Execute, RInv, IdleIsQuiet, PendingIsNew, ReturnedHasEnded, ExecutedHasEnded,
        RunningHasTasks, NTasks, flags, IInv, TypeOK
  <2>2. CASE phase' = "actions" /\ ExecuteAllReady(executed, successful, pc)
    <3>1. UNCHANGED <<executed, successful, flags>> /\ phase = "idle"
      BY <1>1 DEF Execute
    <3> QED
      BY <1>0, <2>2, <3>1, DispatchRInv DEF RInv, ExecutedHasEnded
  <2> QED
    BY <1>1, <2>1, <2>2 DEF Execute
<1>2. CASE SchemasReady
  <2>1. /\ UNCHANGED <<executed, successful, flags>> /\ phase = "schemas" /\ phase' = "actions"
        /\ ExecuteAllReady(executed, successful, pc)
    BY <1>2 DEF SchemasReady
  <2> QED
    BY <1>0, <2>1, DispatchRInv DEF RInv, ExecutedHasEnded, PendingIsNew
<1>3. CASE SchemasFail \/ Finish \/ ClearTimer
  BY <1>0, <1>3
  DEF SchemasFail, Finish, ClearTimer, RInv, IdleIsQuiet, PendingIsNew, ReturnedHasEnded,
      ExecutedHasEnded, RunningHasTasks, NTasks, flags, sets
<1>4. ASSUME NEW a \in Action, ActionStep(a), ~Return(a) PROVE RInv'
  <2>1. /\ UNCHANGED <<sets, flags, timer>>
        /\ pc[a] \notin {"none", "returned"} \/ UNCHANGED pc
        /\ \A b \in Action \ {a} : pc'[b] = pc[b]
        /\ phase' = phase \/ (phase = "actions" /\ phase' = "rejected")
        /\ ~stopped /\ pc'[a] = "returned" => pc[a] = "returned" \/ status'[a] \in Outcome
    BY <1>0, <1>4, ActionStepFrame
  <2>2. Ends(a)
    BY <1>0, <1>4, ActionStepEnds
  <2>3. \A b \in Action : status[b] \in Outcome => status'[b] = status[b]
    BY <1>0, <2>2 DEF Ends, Outcome
  <2>4. \A b \in pending : status'[b] = status[b]
    <3>1. \A b \in pending : pc'[b] = "none" /\ pc[b] = "none"
      BY <1>0, <2>1 DEF IInv, PendingIsIdle, TypeOK, sets
    <3>2. a \in pending => UNCHANGED status
      BY <1>4, <3>1
      DEF ActionStep, Lock, LockFails, Submit, CallSettles, CallSucceeds, AssertionFails,
          CallFails, ContinueTasks, Unlock, MetadataSettles, SetMetadata, SetMetadataFails, Settle
    <3>3. \A b \in pending : b \in Action
      BY <1>0 DEF TypeOK
    <3> QED
      BY <1>0, <2>2, <3>2, <3>3 DEF Ends
  <2>5. IdleIsQuiet'
    <3>1. CASE phase' = "idle"
      <4>1. phase = "idle"
        BY <2>1, <3>1
      <4>2. pc[a] = "none" /\ UNCHANGED pc
        BY <2>1, <4>1 DEF RInv, IdleIsQuiet
      <4>3. UNCHANGED status
        BY <1>4, <4>2
        DEF ActionStep, Lock, LockFails, Submit, CallSettles, CallSucceeds, AssertionFails,
            CallFails, ContinueTasks, Unlock, MetadataSettles, SetMetadata, SetMetadataFails, Settle
      <4> QED
        BY <2>1, <4>1, <4>2, <4>3 DEF RInv, IdleIsQuiet, sets, flags
    <3> QED
      BY <3>1 DEF IdleIsQuiet
  <2>6. PendingIsNew'
    BY <2>1, <2>4 DEF RInv, PendingIsNew, sets
  <2>7. ReturnedHasEnded'
    BY <2>1, <2>3 DEF RInv, ReturnedHasEnded, flags
  <2>8. ExecutedHasEnded'
    BY <1>0, <2>1, <2>3 DEF RInv, ExecutedHasEnded, sets, flags, IInv, TypeOK
  <2>9. RunningHasTasks'
    BY <1>0, <2>2 DEF Ends, RInv, RunningHasTasks, NTasks
  <2> QED
    BY <1>0, <2>5, <2>6, <2>7, <2>8, <2>9 DEF RInv
<1>5. ASSUME NEW a \in Action, Return(a) PROVE RInv'
  <2> DEFINE p == [pc EXCEPT ![a] = "end"]
  <2>1. /\ pc[a] = "returned" /\ ExecuteAllReady(executed', successful', p)
        /\ executed' = executed \cup {a} /\ UNCHANGED <<flags, phase>>
        /\ successful' = IF status[a] \in SuccessStatus THEN successful \cup {a} ELSE successful
    BY <1>5 DEF Return, run
  <2>2. \A b \in Action : p[b] = pc[b] \/ p[b] = "end"
    BY <1>0
  <2> HIDE DEF p
  <2>3. phase # "idle"
    BY <2>1 DEF RInv, IdleIsQuiet
  <2>4. ~stopped => \A b \in executed' :
                       /\ status[b] \in Outcome
                       /\ status[b] \in SuccessStatus => b \in successful'
    BY <2>1 DEF RInv, ReturnedHasEnded, ExecutedHasEnded
  <2> QED
    BY <1>0, <2>1, <2>2, <2>3, <2>4, DispatchRInv DEF RInv, PendingIsNew
<1>6. CASE Cancel \/ Timeout \/ Stop
  BY <1>0, <1>6
  DEF Cancel, Timeout, Stop, Emit, RInv, IdleIsQuiet, PendingIsNew, ReturnedHasEnded,
      ExecutedHasEnded, RunningHasTasks, NTasks, sets, run
<1>7. CASE Resume
  <2>1. executed' \subseteq {a \in Action : status[a] \in Outcome}
    BY <1>0, <1>7 DEF Resume, ActionStatus, TaskStatus, Outcome
  <2>2. IdleIsQuiet'
    BY <1>7 DEF Resume, IdleIsQuiet
  <2>3. ExecutedHasEnded'
    BY <1>7, <2>1 DEF Resume, ExecutedHasEnded
  <2> QED
    BY <1>0, <1>7, <2>2, <2>3
    DEF Resume, RInv, PendingIsNew, ReturnedHasEnded, RunningHasTasks, NTasks
<1>8. CASE Over \/ UNCHANGED vars
  BY <1>0, <1>8
  DEF Over, vars, RInv, IdleIsQuiet, PendingIsNew, ReturnedHasEnded,
      ExecutedHasEnded, RunningHasTasks, NTasks, sets, flags, run, calls
<1> QED
  BY <1>1, <1>2, <1>3, <1>4, <1>5, <1>6, <1>7, <1>8 DEF Next, GraphStep, ActionStep

-----------------------------------------------------------------------------
(* The refinement                                                          *)

LEMMA OutcomeOfType == \A st \in ActionStatus : OutcomeOf(st) \in Abstract!Outcomes
  BY DEF ActionStatus, TaskStatus, OutcomeOf, SuccessStatus, Abstract!Outcomes

\* The step that a dispatch implements.
LEMMA DispatchImplements ==
    ASSUME RInv, IInv', NEW p, ExecuteAllReady(executed', successful', p), UNCHANGED cancelled,
           phase = "idle" => successful' = successful,
           \A a \in successful' : status[a] \in SuccessStatus,
           ~stopped => \A a \in executed' :
                          /\ status[a] \in Outcome
                          /\ status[a] \in SuccessStatus => a \in successful'
    PROVE  Abstract!Dispatch
<1> DEFINE out(a)  == OutcomeOf(status[a])
           outp(a) == OutcomeOf(status'[a])
<1>0. TypeOK /\ status' \in [Action -> ActionStatus]
  BY DEF RInv, IInv, TypeOK
<1>1. ASSUME NEW a \in pending
      PROVE  status[a] = "NONE" \/ /\ status[a] = "RUNNING" /\ a \in Action /\ ~cancelled
                                   /\ a \in Executable(successful')
  BY <1>1, PendingRunningIsReady DEF RInv, IInv, TypeOK, PendingIsIdle
<1>2. ASSUME NEW a \in Action
      PROVE  \/ outp(a) = out(a)
             \/ /\ out(a) = "waiting" /\ outp(a) \in {"running", "succeeded"}
                /\ \A d \in InGraph(a) : out(d) = "succeeded"
             \/ /\ out(a) = "waiting" /\ outp(a) = "skipped"
                /\ cancelled \/ \E d \in InGraph(a) : out(d) \in {"failed", "skipped"}
  <2>0. DispatchedBecause(a, executed', successful', p)
    BY <1>0, DispatchReason
  <2>1. CASE status'[a] = status[a]
    BY <2>1
  <2>2. CASE /\ status'[a] # status[a] /\ a \in Executable(successful')
             /\ \/ NTasks(a) # 0 /\ status'[a] = "RUNNING"
                \/ NTasks(a) = 0 /\ status'[a] = "DISABLED"
    <3>1. a \in pending /\ \A d \in InGraph(a) : status[d] \in SuccessStatus
      BY <2>2 DEF Executable
    <3>2. \A d \in InGraph(a) : out(d) = "succeeded"
      BY <3>1 DEF OutcomeOf, SuccessStatus
    <3>3. status[a] = "NONE"
      BY <1>1, <2>2, <3>1 DEF RInv, RunningHasTasks
    <3>4. out(a) = "waiting" /\ outp(a) \in {"running", "succeeded"}
      BY <2>2, <3>3 DEF OutcomeOf, SuccessStatus
    <3> QED
      BY <3>2, <3>4
  <2>3. CASE a \in pending /\ cancelled /\ status'[a] = "SKIPPED"
    <3>1. status[a] = "NONE"
      BY <1>1, <2>3
    <3> QED
      BY <2>3, <3>1 DEF OutcomeOf, SuccessStatus
  <2>4. CASE /\ a \in pending \ Executable(successful') /\ InGraph(a) \subseteq executed'
             /\ ~stopped /\ status'[a] = "SKIPPED"
    <3>1. status[a] = "NONE"
      BY <1>1, <2>4
    <3>2. PICK d \in InGraph(a) : d \notin successful'
      BY <2>4 DEF Executable
    <3>3. status[d] \in {"FAILED", "CANCELLED", "SKIPPED"}
      BY <2>4, <3>2 DEF Outcome, SuccessStatus
    <3>4. out(d) \in {"failed", "skipped"}
      BY <3>3 DEF OutcomeOf, SuccessStatus
    <3>5. out(a) = "waiting" /\ outp(a) = "skipped"
      BY <2>4, <3>1 DEF OutcomeOf, SuccessStatus
    <3> QED
      BY <3>2, <3>4, <3>5
  <2> QED
    BY <2>0, <2>1, <2>2, <2>3, <2>4 DEF DispatchedBecause
<1>3. \A a \in Action : outp(a) \in Abstract!Outcomes
  BY <1>0, OutcomeOfType
<1>4. \A a \in Action : InGraph(a) = Abstract!Deps(a) /\ InGraph(a) \subseteq Action
  BY DEF InGraph, Abstract!Deps
<1> QED
  BY <1>2, <1>3, <1>4 DEF Abstract!Dispatch, Abstract!MayStart, Abstract!MaySkip

\* The step that the end of an action implements.
LEMMA EndImplements ==
    ASSUME TypeOK, NEW a \in Action, Ends(a), UNCHANGED cancelled
    PROVE  Abstract!End(a) \/ UNCHANGED Abstract!specVars
<1>1. CASE UNCHANGED status
  BY <1>1 DEF Abstract!specVars
<1>2. CASE status[a] = "RUNNING" /\ ~UNCHANGED status
  <2>1. PICK o \in {"SUCCESSFUL", "FAILED", "CANCELLED"} : status' = [status EXCEPT ![a] = o]
    BY <1>2 DEF Ends
  <2>2. OutcomeOf(status[a]) = "running" /\ OutcomeOf(o) \in {"succeeded", "failed"}
    BY <1>2 DEF OutcomeOf, SuccessStatus
  <2>3. \A b \in Action : OutcomeOf(status'[b]) = IF b = a THEN OutcomeOf(o) ELSE OutcomeOf(status[b])
    BY <2>1 DEF TypeOK
  <2>4. [b \in Action |-> OutcomeOf(status'[b])]
          = [[b \in Action |-> OutcomeOf(status[b])] EXCEPT ![a] = OutcomeOf(o)]
    BY <2>3
  <2> QED
    BY <2>2, <2>4 DEF Abstract!End
<1> QED
  BY <1>1, <1>2 DEF Ends

LEMMA StepImplements ==
    ASSUME RInv, [Next]_vars
    PROVE  [Abstract!SpecNext]_(Abstract!specVars)
<1>0. RInv' /\ IInv' /\ TypeOK
  BY StepRInv DEF RInv, IInv
<1>1. ASSUME ExecuteAllReady(executed, successful, pc), UNCHANGED <<executed, successful, cancelled>>
      PROVE  Abstract!Dispatch
  <2>1. \A a \in successful : status[a] \in SuccessStatus
    BY DEF RInv, IInv, SuccessfulSucceeded
  <2> QED
    BY <1>0, <1>1, <2>1, DispatchImplements DEF RInv, ExecutedHasEnded
<1>2. CASE UNCHANGED <<status, cancelled>>
  BY <1>2 DEF Abstract!specVars
<1>3. CASE Execute \/ SchemasReady
  BY <1>1, <1>2, <1>3 DEF Execute, SchemasReady, flags, Abstract!SpecNext
<1>4. CASE SchemasFail \/ Finish \/ ClearTimer \/ Stop \/ Over \/ UNCHANGED vars
  BY <1>2, <1>4 DEF SchemasFail, Finish, ClearTimer, Stop, Over, vars, flags
<1>5. CASE Cancel \/ Timeout \/ Resume
  <2>1. UNCHANGED status /\ cancelled' \in BOOLEAN
    BY <1>5 DEF Cancel, Timeout, Resume, Emit
  <2> QED
    BY <2>1 DEF Abstract!SetCancelled, Abstract!SpecNext
<1>6. ASSUME NEW a \in Action, ActionStep(a), ~Return(a)
      PROVE  [Abstract!SpecNext]_(Abstract!specVars)
  <2>1. Ends(a) /\ UNCHANGED cancelled
    BY <1>6, ActionStepEnds, ActionStepFrame DEF RInv, flags
  <2> QED
    BY <1>0, <2>1, EndImplements DEF Abstract!SpecNext
<1>7. ASSUME NEW a \in Action, Return(a) PROVE Abstract!Dispatch
  <2>1. /\ pc[a] = "returned" /\ ExecuteAllReady(executed', successful', [pc EXCEPT ![a] = "end"])
        /\ executed' = executed \cup {a} /\ UNCHANGED cancelled
        /\ successful' = IF status[a] \in SuccessStatus THEN successful \cup {a} ELSE successful
    BY <1>7 DEF Return, flags
  <2>2. phase # "idle"
    BY <2>1 DEF RInv, IdleIsQuiet
  <2>3. \A b \in successful' : status[b] \in SuccessStatus
    BY <2>1 DEF RInv, IInv, SuccessfulSucceeded
  <2>4. ~stopped => \A b \in executed' :
                       /\ status[b] \in Outcome
                       /\ status[b] \in SuccessStatus => b \in successful'
    BY <2>1 DEF RInv, ReturnedHasEnded, ExecutedHasEnded
  <2> QED
    BY <1>0, <2>1, <2>2, <2>3, <2>4, DispatchImplements
<1> QED
  BY <1>3, <1>4, <1>5, <1>6, <1>7 DEF Next, GraphStep, ActionStep, Abstract!SpecNext

LEMMA InitImplements == Init => Abstract!SpecInit
<1> SUFFICES ASSUME Init PROVE Abstract!SpecInit
  OBVIOUS
<1>1. OutcomeOf("NONE") = "waiting"
  BY DEF OutcomeOf, SuccessStatus
<1>2. \A a \in Action : OutcomeOf(status[a]) = "waiting"
  BY <1>1 DEF Init
<1> QED
  BY <1>2 DEF Init, Abstract!SpecInit

\* Whatever the coroutines, failures, retries, cancellations, stops and
\* resumptions do, executeAllActionsReadyForExecution() starts, ends and skips
\* actions as RunSpec says: every step of every run is one of its steps.
THEOREM RunnerImplements == Spec => ImplementsRunSpec
<1>1. Spec => []RInv
  BY InitRInv, StepRInv, PTL DEF Spec
<1>2. RInv /\ [Next]_vars => [Abstract!SpecNext]_(Abstract!specVars)
  BY StepImplements
<1> QED
  BY <1>1, <1>2, InitImplements, PTL DEF Spec, ImplementsRunSpec, Abstract!Spec

-----------------------------------------------------------------------------
(* Reports: where every action of a run is, and what its results say.      *)

\* Coroutines run between the start of executeGraph()'s second half and its
\* end; one whose withClientLock() threw has rejected the run.
ActiveRuns ==
    \A a \in Action :
        /\ pc[a] \in Active => phase \in {"actions", "rejected"}
        /\ pc[a] = "threw" => phase = "rejected"

\* Where an action can be: waiting, on its way, done, or skipped.
Accounted ==
    \A a \in Action :
        a \in pending \cup executed \/ pc[a] \in Active \cup {"threw"} \/ status[a] = "SKIPPED"

\* What a running graph keeps pending waits for an action that has not been
\* executed: otherwise the last dispatch would have started or skipped it.
PendingWaits ==
    ~stopped /\ phase \in {"actions", "done"} => \A a \in pending : ~(InGraph(a) \subseteq executed)

PInv == RInv /\ ActiveRuns /\ Accounted /\ PendingWaits

-----------------------------------------------------------------------------
(* Actions without a result                                                *)

LEMMA DispatchPInv ==
    ASSUME PInv, RInv', NEW p, ExecuteAllReady(executed', successful', p), UNCHANGED flags,
           phase' \in {"actions", "rejected"}, phase = "rejected" => phase' = "rejected",
           executed \subseteq executed',
           \A a \in Action : p[a] = pc[a] \/ (p[a] = "end" /\ a \in executed')
    PROVE  PInv'
<1>0. TypeOK /\ UNCHANGED stopped
  BY DEF PInv, RInv, IInv, flags
<1>1. \A a \in Action : DispatchedBecause(a, executed', successful', p)
  BY <1>0, DispatchReason
<1>2. ActiveRuns'
  <2> SUFFICES ASSUME NEW a \in Action, pc'[a] = "threw" PROVE phase' = "rejected"
    BY DEF ActiveRuns
  <2>1. pc[a] = "threw"
    BY <1>1 DEF DispatchedBecause
  <2> QED
    BY <2>1 DEF PInv, ActiveRuns
<1>3. Accounted'
  <2> SUFFICES ASSUME NEW a \in Action
               PROVE  \/ a \in pending' \cup executed'
                      \/ pc'[a] \in Active \cup {"threw"}
                      \/ status'[a] = "SKIPPED"
    BY DEF Accounted
  <2>1. CASE status'[a] = status[a] /\ pc'[a] = p[a] /\ a \notin pending \ pending'
    BY <2>1 DEF PInv, Accounted
  <2>2. CASE pc'[a] \in {"lock", "returned"}
    BY <2>2 DEF Active
  <2> QED
    BY <1>1, <2>1, <2>2 DEF DispatchedBecause
<1>4. PendingWaits'
  BY <1>0
  DEF PendingWaits, ExecuteAllReady, SkipAllPending, SkipAndStart, Executable, Skippable, InGraph
<1> QED
  BY <1>2, <1>3, <1>4 DEF PInv

\* How the steps of a coroutine that does not return move it.
LEMMA ActionStepMoves ==
    ASSUME IInv, NEW a \in Action, ActionStep(a), ~Return(a)
    PROVE  \/ UNCHANGED pc /\ UNCHANGED phase
           \/ /\ pc[a] \in Active /\ UNCHANGED phase
              /\ \E at \in Active : pc' = [pc EXCEPT ![a] = at]
           \/ LockFails(a)
<1>0. TypeOK
  BY DEF IInv
<1>1. ASSUME NEW st, TaskLoop(a, st) PROVE \E at \in Active : pc' = [pc EXCEPT ![a] = at]
  BY <1>0, <1>1, TaskLoopType DEF Active
<1>2. CASE Lock(a) \/ ContinueTasks(a)
  <2>1. \E at \in Active : pc' = [pc EXCEPT ![a] = at]
    BY <1>1, <1>2 DEF Lock, ContinueTasks
  <2> QED
    BY <1>2, <2>1 DEF Lock, ContinueTasks, Active, run
<1>3. CASE Submit(a)
  BY <1>3 DEF Submit, run
<1>4. CASE CallSettles(a)
  BY <1>4 DEF CallSettles, CallSucceeds, AssertionFails, CallFails, Settle, Active, run
<1>5. CASE Unlock(a)
  BY <1>5 DEF Unlock, Active, run
<1>6. CASE MetadataSettles(a)
  BY <1>6 DEF MetadataSettles, SetMetadata, SetMetadataFails, Active, run
<1> QED
  BY <1>2, <1>3, <1>4, <1>5, <1>6 DEF ActionStep

LEMMA InitPInv == Init => PInv
<1> SUFFICES ASSUME Init PROVE PInv
  OBVIOUS
<1>1. ActiveRuns /\ Accounted /\ PendingWaits
  BY DEF Init, ActiveRuns, Accounted, PendingWaits, Active
<1> QED
  BY <1>1, InitRInv DEF PInv

LEMMA StepPInv == PInv /\ [Next]_vars => PInv'
<1> SUFFICES ASSUME PInv, [Next]_vars PROVE PInv'
  OBVIOUS
<1>0. /\ RInv /\ RInv' /\ IInv /\ TypeOK /\ pc \in [Action -> PC]
      /\ \A a \in Action : status[a] = "SKIPPED" => status'[a] = "SKIPPED"
  BY StepRInv, StepKeepsOutcomes DEF PInv, RInv, IInv, TypeOK, Outcome
<1>1. CASE Execute
  <2>1. CASE phase' = "schemas" /\ UNCHANGED <<status, taskResults, pending, pc>>
    BY <1>0, <1>1, <2>1
    DEF Execute, PInv, RInv, IdleIsQuiet, ActiveRuns, Accounted, PendingWaits, flags, Active
  <2>2. CASE phase' = "actions" /\ ExecuteAllReady(executed, successful, pc)
    <3>1. UNCHANGED <<executed, successful, flags>> /\ phase = "idle"
      BY <1>1 DEF Execute
    <3> QED
      BY <1>0, <2>2, <3>1, DispatchPInv
  <2> QED
    BY <1>1, <2>1, <2>2 DEF Execute
<1>2. CASE SchemasReady
  <2>1. /\ UNCHANGED <<executed, successful, flags>> /\ phase = "schemas" /\ phase' = "actions"
        /\ ExecuteAllReady(executed, successful, pc)
    BY <1>2 DEF SchemasReady
  <2> QED
    BY <1>0, <2>1, DispatchPInv
<1>3. CASE SchemasFail \/ Finish \/ ClearTimer \/ Cancel \/ Timeout \/ Stop
  BY <1>0, <1>3
  DEF SchemasFail, Finish, NoneActive, ClearTimer, Cancel, Timeout, Stop, Emit, PInv, ActiveRuns,
      Accounted, PendingWaits, InGraph, flags, sets, run
<1>4. ASSUME NEW a \in Action, ActionStep(a), ~Return(a) PROVE PInv'
  <2>1. UNCHANGED <<sets, flags>>
    BY <1>0, <1>4, ActionStepFrame
  <2>2. PendingWaits'
    <3>1. phase' = phase \/ phase' = "rejected"
      BY <1>0, <1>4, ActionStepFrame
    <3> QED
      BY <2>1, <3>1 DEF PInv, PendingWaits, InGraph, sets, flags
  <2>3. CASE UNCHANGED pc /\ UNCHANGED phase
    BY <1>0, <2>1, <2>2, <2>3 DEF PInv, ActiveRuns, Accounted, sets
  <2>4. CASE /\ pc[a] \in Active /\ UNCHANGED phase
             /\ \E at \in Active : pc' = [pc EXCEPT ![a] = at]
    <3>1. PICK at \in Active : pc' = [pc EXCEPT ![a] = at]
      BY <2>4
    <3>2. at # "threw"
      BY DEF Active
    <3>3. ActiveRuns'
      BY <1>0, <2>4, <3>1, <3>2 DEF PInv, ActiveRuns
    <3>4. Accounted'
      BY <1>0, <2>1, <3>1 DEF PInv, Accounted, sets
    <3> QED
      BY <1>0, <2>2, <3>3, <3>4 DEF PInv
  <2>5. CASE LockFails(a)
    <3>1. phase' = "rejected" /\ pc' = [pc EXCEPT ![a] = "threw"]
      BY <2>5 DEF LockFails, PInv, ActiveRuns, Active
    <3>2. ActiveRuns'
      BY <3>1 DEF ActiveRuns
    <3>3. Accounted'
      BY <1>0, <2>1, <3>1 DEF PInv, Accounted, sets
    <3> QED
      BY <1>0, <2>2, <3>2, <3>3 DEF PInv
  <2> QED
    BY <1>0, <1>4, <2>3, <2>4, <2>5, ActionStepMoves
<1>5. ASSUME NEW a \in Action, Return(a) PROVE PInv'
  <2>1. /\ pc[a] = "returned" /\ ExecuteAllReady(executed', successful', [pc EXCEPT ![a] = "end"])
        /\ executed' = executed \cup {a} /\ UNCHANGED <<flags, phase>>
    BY <1>5 DEF Return, run
  <2>2. phase \in {"actions", "rejected"}
    BY <2>1 DEF PInv, ActiveRuns, Active
  <2>3. \A b \in Action : \/ [pc EXCEPT ![a] = "end"][b] = pc[b]
                          \/ [pc EXCEPT ![a] = "end"][b] = "end" /\ b \in executed'
    BY <1>0, <2>1
  <2> QED
    BY <1>0, <2>1, <2>2, <2>3, DispatchPInv
<1>6. CASE Resume
  BY <1>0, <1>6 DEF Resume, PInv, ActiveRuns, Accounted, PendingWaits, Active
<1>7. CASE Over \/ UNCHANGED vars
  BY <1>0, <1>7
  DEF Over, vars, PInv, ActiveRuns, Accounted, PendingWaits, InGraph, sets, flags, run, calls
<1> QED
  BY <1>1, <1>2, <1>3, <1>4, <1>5, <1>6, <1>7 DEF Next, GraphStep, ActionStep

THEOREM Reporting == Spec => []PInv
  BY InitPInv, StepPInv, PTL DEF Spec

\* In a finished run of any graph, an action has no result only below one that
\* was skipped, or that has none either.
THEOREM FailuresAreReported == Spec => []UnreportedOnlyBelowSkipped
<1>1. PInv => UnreportedOnlyBelowSkipped
  <2> SUFFICES ASSUME PInv, phase = "done", ~stopped, NEW a \in pending
               PROVE  \E d \in InGraph(a) : status[d] \in {"SKIPPED", "NONE"}
    BY DEF UnreportedOnlyBelowSkipped
  <2>1. PICK d \in InGraph(a) : d \notin executed
    BY DEF PInv, PendingWaits
  <2>2. d \in Action /\ pc[d] \notin Active \cup {"threw"}
    BY DEF PInv, ActiveRuns, InGraph
  <2>3. d \in pending \/ status[d] = "SKIPPED"
    BY <2>1, <2>2 DEF PInv, Accounted
  <2> QED
    BY <2>3 DEF PInv, RInv, PendingIsNew
<1> QED
  BY Reporting, <1>1, PTL

-----------------------------------------------------------------------------
(* Tasks in order                                                          *)

\* Results s of an action whose tasks completed in the order r.
InOrder(s, r) ==
    /\ \A i, j \in DOMAIN s :
          i < j /\ s[i] # "SUCCESSFUL" => s[j] \notin {"RUNNING", "SUCCESSFUL", "CANCELLED"}
    /\ \A i, j \in DOMAIN r : i < j => r[i] < r[j]
    /\ \A i \in DOMAIN s : s[i] = "SUCCESSFUL" => \E k \in DOMAIN r : r[k] = i
    /\ \A k \in DOMAIN r : r[k] <= Len(s)

AllSucceeded(s) == \A i \in DOMAIN s : s[i] = "SUCCESSFUL"
ButLast(s)      == Len(s) # 0 /\ \A i \in DOMAIN s : i # Len(s) => s[i] = "SUCCESSFUL"

\* The task results that go with each point of executeAction().
TasksAtPc(a) ==
    /\ status[a] = "NONE" => taskResults[a] = <<>> /\ ran[a] = <<>>
    /\ pc[a] \in {"task", "settled"} => ButLast(taskResults[a])
    /\ pc[a] = "task" => \A k \in DOMAIN ran[a] : ran[a][k] < LastIx(a)
    /\ pc[a] = "settled" => taskResults[a][LastIx(a)] \in {"SUCCESSFUL", "FAILED", "CANCELLED"}
    /\ status[a] = "RUNNING" /\ pc[a] \notin {"task", "settled"} =>
            AllSucceeded(taskResults[a]) \/ LastIx(a) = NTasks(a)

TInv ==
    /\ PInv
    /\ \A a \in Action : InOrder(taskResults[a], ran[a]) /\ TasksAtPc(a)

-----------------------------------------------------------------------------
(* Sequences of results                                                    *)

\* The next task starts, and may complete at once.
LEMMA StartInOrder ==
    ASSUME NEW s \in Seq(TaskStatus), NEW r \in Seq(Nat), InOrder(s, r), AllSucceeded(s),
           NEW e \in TaskStatus
    PROVE  /\ InOrder(Append(s, e), IF e = "SUCCESSFUL" THEN Append(r, Len(s) + 1) ELSE r)
           /\ ButLast(Append(s, e))
           /\ Append(s, e)[Len(Append(s, e))] = e
           /\ \A k \in DOMAIN r : r[k] < Len(Append(s, e))
<1> DEFINE t == Append(s, e)
<1>0. Len(s) \in Nat /\ DOMAIN s = 1..Len(s) /\ Len(r) \in Nat /\ DOMAIN r = 1..Len(r)
  BY LenProperties
<1>1. /\ Len(t) = Len(s) + 1 /\ DOMAIN t = 1..(Len(s) + 1)
      /\ \A i \in 1..Len(s) : t[i] = "SUCCESSFUL"
      /\ t[Len(s) + 1] = e
  BY <1>0, AppendProperties DEF AllSucceeded
<1>2. \A k \in 1..Len(r) : r[k] \in Nat /\ r[k] <= Len(s)
  BY <1>0, ElementOfSeq DEF InOrder
<1> HIDE DEF t
<1>3. CASE e = "SUCCESSFUL"
  <2> DEFINE q == Append(r, Len(s) + 1)
  <2>1. /\ DOMAIN q = 1..(Len(r) + 1)
        /\ \A k \in 1..Len(r) : q[k] = r[k]
        /\ q[Len(r) + 1] = Len(s) + 1
    BY <1>0, AppendProperties
  <2> HIDE DEF q
  <2>2. \A i, j \in DOMAIN q : i < j => q[i] < q[j]
    <3> SUFFICES ASSUME NEW i \in 1..(Len(r) + 1), NEW j \in 1..(Len(r) + 1), i < j
                 PROVE  q[i] < q[j]
      BY <2>1
    <3>1. i \in 1..Len(r) /\ q[i] = r[i] /\ r[i] \in Nat /\ r[i] <= Len(s)
      BY <1>0, <1>2, <2>1
    <3>2. CASE j = Len(r) + 1
      BY <1>0, <2>1, <3>1, <3>2
    <3>3. CASE j \in 1..Len(r)
      BY <1>0, <2>1, <3>1, <3>3 DEF InOrder
    <3> QED
      BY <1>0, <3>2, <3>3
  <2>3. \A i \in DOMAIN t : \E k \in DOMAIN q : q[k] = i
    <3> SUFFICES ASSUME NEW i \in 1..(Len(s) + 1) PROVE \E k \in DOMAIN q : q[k] = i
      BY <1>1
    <3>1. CASE i = Len(s) + 1
      BY <1>0, <2>1, <3>1
    <3>2. CASE i \in 1..Len(s)
      <4>1. PICK k \in 1..Len(r) : r[k] = i
        BY <1>0, <3>2 DEF InOrder, AllSucceeded
      <4> QED
        BY <1>0, <2>1, <4>1
    <3> QED
      BY <1>0, <3>1, <3>2
  <2>4. InOrder(t, q)
    BY <1>0, <1>1, <1>2, <1>3, <2>1, <2>2, <2>3 DEF InOrder
  <2> QED
    BY <1>0, <1>1, <1>2, <1>3, <2>4 DEF ButLast, t, q
<1>4. CASE e # "SUCCESSFUL"
  <2>1. InOrder(t, r)
    <3>1. \A i \in DOMAIN t : t[i] = "SUCCESSFUL" => \E k \in DOMAIN r : r[k] = i
      BY <1>0, <1>1, <1>4 DEF InOrder, AllSucceeded
    <3>2. \A i, j \in DOMAIN t : i < j => t[i] = "SUCCESSFUL"
      BY <1>0, <1>1
    <3> QED
      BY <1>0, <1>1, <1>2, <3>1, <3>2 DEF InOrder
  <2> QED
    BY <1>0, <1>1, <1>2, <1>4, <2>1 DEF ButLast, t
<1> QED
  BY <1>3, <1>4

\* What is left is skipped.
LEMMA SkipInOrder ==
    ASSUME NEW s \in Seq(TaskStatus), NEW r \in Seq(Nat), InOrder(s, r), NEW n \in Nat
    PROVE  InOrder(s \o Skips(n), r) /\ Len(s \o Skips(n)) = Len(s) + n
<1> DEFINE t == s \o Skips(n)
<1>0. Len(s) \in Nat /\ DOMAIN s = 1..Len(s) /\ Len(r) \in Nat /\ DOMAIN r = 1..Len(r)
  BY LenProperties
<1>1. Skips(n) \in Seq(TaskStatus) /\ Len(Skips(n)) = n
  BY SkipsType DEF Skips
<1>2. /\ t \in Seq(TaskStatus) /\ Len(t) = Len(s) + n
      /\ \A i \in 1..(Len(s) + n) : t[i] = IF i <= Len(s) THEN s[i] ELSE Skips(n)[i - Len(s)]
  BY <1>1, ConcatProperties
<1> HIDE DEF t
<1>3. DOMAIN t = 1..(Len(s) + n)
  BY <1>2, LenProperties
<1>4. \A i \in DOMAIN t : IF i <= Len(s) THEN i \in DOMAIN s /\ t[i] = s[i] ELSE t[i] = "SKIPPED"
  BY <1>0, <1>2, <1>3 DEF Skips
<1>5. \A k \in DOMAIN r : r[k] \in Nat
  BY <1>0, ElementOfSeq
<1>6. \A i, j \in DOMAIN t :
          i < j /\ t[i] # "SUCCESSFUL" => t[j] \notin {"RUNNING", "SUCCESSFUL", "CANCELLED"}
  <2> SUFFICES ASSUME NEW i \in DOMAIN t, NEW j \in DOMAIN t, i < j, t[i] # "SUCCESSFUL"
               PROVE  t[j] \notin {"RUNNING", "SUCCESSFUL", "CANCELLED"}
    OBVIOUS
  <2>1. CASE j <= Len(s)
    BY <1>0, <1>3, <1>4, <2>1 DEF InOrder
  <2>2. CASE ~(j <= Len(s))
    BY <1>4, <2>2
  <2> QED
    BY <2>1, <2>2
<1>7. \A i \in DOMAIN t : t[i] = "SUCCESSFUL" => i \in DOMAIN s /\ s[i] = "SUCCESSFUL"
  BY <1>4
<1>8. \A k \in DOMAIN r : r[k] <= Len(t)
  BY <1>0, <1>2, <1>5 DEF InOrder
<1>9. InOrder(t, r)
  BY <1>6, <1>7, <1>8 DEF InOrder
<1> QED
  BY <1>2, <1>9 DEF t

\* The last task ends, or is given an error in the end.
LEMMA EndInOrder ==
    ASSUME NEW s \in Seq(TaskStatus), NEW r \in Seq(Nat), InOrder(s, r), ButLast(s),
           \A k \in DOMAIN r : r[k] < Len(s), NEW e \in {"SUCCESSFUL", "FAILED", "CANCELLED"}
    PROVE  /\ InOrder([s EXCEPT ![Len(s)] = e],
                      IF e = "SUCCESSFUL" THEN Append(r, Len(s)) ELSE r)
           /\ ButLast([s EXCEPT ![Len(s)] = e])
           /\ [s EXCEPT ![Len(s)] = e][Len([s EXCEPT ![Len(s)] = e])] = e
<1> DEFINE t == [s EXCEPT ![Len(s)] = e]
<1>0. Len(s) \in Nat /\ DOMAIN s = 1..Len(s) /\ Len(r) \in Nat /\ DOMAIN r = 1..Len(r)
  BY LenProperties
<1>1. Len(s) \in 1..Len(s) /\ e \in TaskStatus
  BY <1>0 DEF ButLast, TaskStatus
<1>2. t \in Seq(TaskStatus) /\ DOMAIN t = 1..Len(s)
  BY <1>0, <1>1, UpdateType
<1>3. \A i \in 1..Len(s) : t[i] = IF i = Len(s) THEN e ELSE "SUCCESSFUL"
  BY <1>0, <1>1 DEF ButLast
<1> HIDE DEF t
<1>a. Len(t) = Len(s)
  BY <1>0, <1>2, LenProperties
<1>4. \A k \in 1..Len(r) : r[k] \in Nat /\ r[k] < Len(s)
  BY <1>0, ElementOfSeq
<1>5. \A i, j \in DOMAIN t : i < j => t[i] = "SUCCESSFUL"
  <2> SUFFICES ASSUME NEW i \in 1..Len(s), NEW j \in 1..Len(s), i < j PROVE t[i] = "SUCCESSFUL"
    BY <1>2
  <2>1. i \in Nat /\ j \in Nat /\ j <= Len(s)
    BY <1>0
  <2>2. \A l, m, n \in Nat : l < m /\ m <= n => l # n
    OBVIOUS
  <2>3. i # Len(s)
    BY <1>0, <2>1, <2>2
  <2> QED
    BY <1>3, <2>3
<1>6. ButLast(t) /\ t[Len(t)] = e
  BY <1>1, <1>2, <1>3, <1>a DEF ButLast
<1>7. \A i \in 1..Len(s) : i # Len(s) => \E k \in 1..Len(r) : r[k] = i
  BY <1>0 DEF InOrder, ButLast
<1>8. CASE e = "SUCCESSFUL"
  <2> DEFINE q == Append(r, Len(s))
  <2>1. /\ DOMAIN q = 1..(Len(r) + 1)
        /\ \A k \in 1..Len(r) : q[k] = r[k]
        /\ q[Len(r) + 1] = Len(s)
    BY <1>0, AppendProperties
  <2> HIDE DEF q
  <2>2. \A i, j \in DOMAIN q : i < j => q[i] < q[j]
    BY <1>0, <1>4, <2>1 DEF InOrder
  <2>3. \A i \in DOMAIN t : \E k \in DOMAIN q : q[k] = i
    <3> SUFFICES ASSUME NEW i \in 1..Len(s) PROVE \E k \in DOMAIN q : q[k] = i
      BY <1>2
    <3>1. CASE i = Len(s)
      BY <1>0, <2>1, <3>1
    <3>2. CASE i # Len(s)
      <4>1. PICK k \in 1..Len(r) : r[k] = i
        BY <1>7, <3>2
      <4> QED
        BY <1>0, <2>1, <4>1
    <3> QED
      BY <3>1, <3>2
  <2>4. \A k \in DOMAIN q : q[k] <= Len(t)
    <3> SUFFICES ASSUME NEW k \in 1..(Len(r) + 1) PROVE q[k] <= Len(s)
      BY <1>a, <2>1
    <3>1. CASE k = Len(r) + 1
      BY <1>0, <2>1, <3>1
    <3>2. CASE k \in 1..Len(r)
      BY <1>0, <1>4, <2>1, <3>2
    <3> QED
      BY <1>0, <3>1, <3>2
  <2>5. InOrder(t, q)
    BY <1>5, <2>2, <2>3, <2>4 DEF InOrder
  <2> QED
    BY <1>6, <1>8, <2>5 DEF t, q
<1>9. CASE e # "SUCCESSFUL"
  <2>1. \A i \in DOMAIN t : t[i] = "SUCCESSFUL" => \E k \in DOMAIN r : r[k] = i
    BY <1>0, <1>2, <1>3, <1>7, <1>9
  <2>2. \A k \in DOMAIN r : r[k] <= Len(t)
    BY <1>0, <1>4, <1>a
  <2>3. InOrder(t, r)
    BY <1>5, <2>1, <2>2 DEF InOrder
  <2> QED
    BY <1>6, <1>9, <2>3 DEF t
<1> QED
  BY <1>8, <1>9

\* The error of setMetadata() on the last task.
LEMMA FailInOrder ==
    ASSUME NEW s \in Seq(TaskStatus), NEW r \in Seq(Nat), InOrder(s, r)
    PROVE  InOrder([s EXCEPT ![Len(s)] = "FAILED"], r)
<1> DEFINE t == [s EXCEPT ![Len(s)] = "FAILED"]
<1>0. Len(s) \in Nat /\ DOMAIN s = 1..Len(s) /\ "FAILED" \in TaskStatus
  BY LenProperties DEF TaskStatus
<1>1. DOMAIN t = 1..Len(s) /\ t \in Seq(TaskStatus)
  BY <1>0, UpdateType
<1>2. Len(t) = Len(s)
  BY <1>0, <1>1, LenProperties
<1>3. \A i \in DOMAIN t : t[i] = IF i = Len(s) THEN "FAILED" ELSE s[i]
  BY <1>0, <1>1
<1> HIDE DEF t
<1>4. \A i, j \in DOMAIN t :
          i < j /\ t[i] # "SUCCESSFUL" => t[j] \notin {"RUNNING", "SUCCESSFUL", "CANCELLED"}
  BY <1>0, <1>1, <1>3 DEF InOrder
<1>5. \A i \in DOMAIN t : t[i] = "SUCCESSFUL" => s[i] = "SUCCESSFUL" /\ i \in DOMAIN s
  BY <1>0, <1>1, <1>3
<1>6. InOrder(t, r)
  BY <1>2, <1>4, <1>5 DEF InOrder
<1> QED
  BY <1>6 DEF t

-----------------------------------------------------------------------------
(* The steps                                                               *)

OnTrack(a) == InOrder(taskResults[a], ran[a]) /\ TasksAtPc(a)

\* A step that leaves the tasks, the status and the place of an action alone.
LEMMA SameOnTrack ==
    ASSUME NEW a \in Action, OnTrack(a), taskResults'[a] = taskResults[a], ran'[a] = ran[a],
           status'[a] = status[a], pc'[a] = pc[a]
    PROVE  OnTrack(a)'
  BY DEF OnTrack, TasksAtPc, LastIx, NTasks

\* The task loop, from where every task so far has succeeded, or is behind.
LEMMA TaskLoopOnTrack ==
    ASSUME TypeOK, NEW a \in Action, NEW st, TaskLoop(a, st), status'[a] = st, st # "NONE",
           InOrder(taskResults[a], ran[a]),
           st = "RUNNING" => AllSucceeded(taskResults[a]) \/ LastIx(a) = NTasks(a)
    PROVE  /\ OnTrack(a)'
           /\ \A b \in Action \ {a} :
                taskResults'[b] = taskResults[b] /\ ran'[b] = ran[b] /\ pc'[b] = pc[b]
<1> DEFINE s    == taskResults[a]
           r    == ran[a]
           left == NTasks(a) - LastIx(a)
           next == LastIx(a) + 1
<1>0. /\ s \in Seq(TaskStatus) /\ r \in Seq(Nat)
      /\ LastIx(a) = Len(s) /\ Len(s) \in Nat /\ NTasks(a) \in Nat
  BY LenProperties, NTasksType DEF TypeOK, LastIx
<1>1. CASE /\ left = 0 \/ stopped
           /\ pc' = [pc EXCEPT ![a] = "unlock"]
           /\ UNCHANGED <<taskResults, calls, ran>>
  <2>1. pc'[a] = "unlock"
    BY <1>1 DEF TypeOK
  <2>2. TasksAtPc(a)'
    BY <1>1, <2>1 DEF TasksAtPc, LastIx, NTasks
  <2> QED
    BY <1>1, <2>2 DEF OnTrack, TypeOK
<1>2. CASE /\ left > 0
           /\ taskResults' = [taskResults EXCEPT ![a] = @ \o Skips(left)]
           /\ pc' = [pc EXCEPT ![a] = "unlock"]
           /\ UNCHANGED <<calls, ran>>
  <2>1. left \in Nat
    BY <1>0, <1>2
  <2>2. pc'[a] = "unlock" /\ taskResults'[a] = s \o Skips(left) /\ ran'[a] = r
    BY <1>2 DEF TypeOK
  <2>3. InOrder(taskResults'[a], ran'[a]) /\ Len(taskResults'[a]) = Len(s) + left
    BY <1>0, <2>1, <2>2, SkipInOrder
  <2>4. Len(taskResults'[a]) = NTasks(a)
    BY <1>0, <2>3
  <2>5. TasksAtPc(a)'
    BY <2>2, <2>4 DEF TasksAtPc, LastIx, NTasks
  <2> QED
    BY <1>2, <2>3, <2>5 DEF OnTrack, TypeOK
<1>3. CASE /\ left > 0 /\ st = "RUNNING"
           /\ \E c \in Starts(Tasks[a][next]) :
                /\ taskResults' = [taskResults EXCEPT ![a] = Append(@, c.result)]
                /\ pc' = [pc EXCEPT ![a] = c.pc]
                /\ call' = [call EXCEPT ![a] = c.call]
                /\ attempt' = [attempt EXCEPT ![a] = 1]
                /\ ran' = IF c.result = "SUCCESSFUL"
                          THEN [ran EXCEPT ![a] = Append(@, next)] ELSE ran
  <2>1. PICK c \in Starts(Tasks[a][next]) :
            /\ taskResults' = [taskResults EXCEPT ![a] = Append(@, c.result)]
            /\ pc' = [pc EXCEPT ![a] = c.pc]
            /\ ran' = IF c.result = "SUCCESSFUL"
                      THEN [ran EXCEPT ![a] = Append(@, next)] ELSE ran
    BY <1>3
  <2>2. /\ c.result \in TaskStatus
        /\ \/ c.pc = "settled" /\ c.result \in {"SUCCESSFUL", "FAILED"}
           \/ c.pc = "task" /\ c.result = "RUNNING"
    BY DEF Starts, TaskStatus
  <2>3. AllSucceeded(s)
    BY <1>0, <1>3
  <2> DEFINE t == Append(s, c.result)
             q == IF c.result = "SUCCESSFUL" THEN Append(r, Len(s) + 1) ELSE r
  <2>4. /\ InOrder(t, q) /\ ButLast(t) /\ t[Len(t)] = c.result
        /\ \A k \in DOMAIN r : r[k] < Len(t)
    BY <1>0, <2>2, <2>3, StartInOrder
  <2>5. taskResults'[a] = t /\ pc'[a] = c.pc /\ ran'[a] = q
    BY <1>0, <2>1 DEF TypeOK
  <2>6. c.pc = "task" => ran'[a] = r
    BY <2>2, <2>5
  <2> HIDE DEF t, q
  <2>7. TasksAtPc(a)'
    BY <1>3, <2>2, <2>4, <2>5, <2>6 DEF TasksAtPc, LastIx, NTasks
  <2>8. \A b \in Action \ {a} :
            taskResults'[b] = taskResults[b] /\ ran'[b] = ran[b] /\ pc'[b] = pc[b]
    BY <2>1 DEF TypeOK
  <2> QED
    BY <2>4, <2>5, <2>7, <2>8 DEF OnTrack
<1> QED
  BY <1>1, <1>2, <1>3 DEF TaskLoop

\* A dispatch skips tasks of an action that has run none of them.
LEMMA DispatchOnTrack ==
    ASSUME TInv, NEW p, ExecuteAllReady(executed', successful', p), UNCHANGED ran,
           phase = "idle" => successful' = successful,
           \A a \in Action : p[a] = pc[a] \/ (p[a] = "end" /\ pc[a] = "returned"),
           NEW a \in Action
    PROVE  OnTrack(a)'
<1>0. TypeOK /\ RInv /\ OnTrack(a)
  BY DEF TInv, PInv, RInv, IInv, OnTrack
<1>1. DispatchedBecause(a, executed', successful', p)
  BY <1>0, DispatchReason
<1>2. a \in pending => pc[a] = "none" /\ status[a] \in {"NONE", "RUNNING"}
  BY <1>0 DEF RInv, IInv, PendingIsIdle
<1>3. \/ taskResults'[a] = taskResults[a]
      \/ /\ a \in pending /\ status'[a] = "SKIPPED" /\ pc'[a] = p[a]
         /\ \E n \in Nat : taskResults'[a] = Skips(n)
         /\ cancelled \/ a \notin Executable(successful')
  <2>1. NTasks(a) \in Nat /\ (IF NTasks(a) = 0 THEN 1 ELSE NTasks(a)) \in Nat
    BY NTasksType
  <2>2. CASE stopped
    BY <2>2 DEF ExecuteAllReady
  <2>3. CASE cancelled /\ SkipAllPending /\ pc' = p
    BY <1>0, <2>1, <2>3 DEF SkipAllPending, TypeOK
  <2>4. CASE SkipAndStart(Executable(successful'), Skippable(executed', successful'), p)
    <3>1. CASE a \in Skippable(executed', successful')
      <4>1. a \in pending /\ a \notin Executable(successful')
        BY <3>1 DEF Skippable
      <4>2. status'[a] = "SKIPPED" /\ pc'[a] = p[a] /\ taskResults'[a] = Skips(NTasks(a))
        BY <2>4, <3>1, <4>1 DEF SkipAndStart
      <4> QED
        BY <2>1, <4>1, <4>2
    <3>2. CASE a \notin Skippable(executed', successful')
      BY <2>4, <3>2 DEF SkipAndStart
    <3> QED
      BY <3>1, <3>2
  <2> QED
    BY <2>2, <2>3, <2>4 DEF ExecuteAllReady
<1>4. CASE taskResults'[a] = taskResults[a]
  <2>1. CASE status'[a] = status[a] /\ pc'[a] = p[a]
    BY <1>0, <1>4, <2>1 DEF OnTrack, TasksAtPc, LastIx, NTasks
  <2>2. CASE a \in pending /\ status'[a] = "SKIPPED" /\ pc'[a] = p[a]
    BY <1>0, <1>2, <1>4, <2>2 DEF OnTrack, TasksAtPc, LastIx, NTasks
  <2>3. CASE a \in Executable(successful') /\ status'[a] = "DISABLED" /\ pc'[a] = "returned"
    BY <1>0, <1>4, <2>3 DEF OnTrack, TasksAtPc, LastIx, NTasks
  <2>4. CASE a \in Executable(successful') /\ status'[a] = "RUNNING" /\ pc'[a] = "lock"
    <3>1. a \in pending
      BY <2>4 DEF Executable
    <3>2. AllSucceeded(taskResults[a]) \/ LastIx(a) = NTasks(a)
      BY <1>0, <1>2, <3>1 DEF OnTrack, TasksAtPc, AllSucceeded
    <3> QED
      BY <1>0, <1>4, <2>4, <3>2 DEF OnTrack, TasksAtPc, LastIx, NTasks
  <2> QED
    BY <1>1, <2>1, <2>2, <2>3, <2>4 DEF DispatchedBecause
<1>5. CASE /\ a \in pending /\ status'[a] = "SKIPPED" /\ pc'[a] = p[a]
           /\ \E n \in Nat : taskResults'[a] = Skips(n)
           /\ cancelled \/ a \notin Executable(successful')
  <2>1. status[a] = "NONE"
    BY <1>0, <1>2, <1>5, PendingRunningIsReady
  <2>2. ran'[a] = <<>>
    BY <1>0, <2>1 DEF OnTrack, TasksAtPc
  <2>3. PICK n \in Nat : taskResults'[a] = Skips(n)
    BY <1>5
  <2>4. \A i \in DOMAIN Skips(n) : Skips(n)[i] = "SKIPPED"
    BY DEF Skips
  <2>5. \A r : r = <<>> => DOMAIN r = {}
    OBVIOUS
  <2>6. InOrder(Skips(n), <<>>)
    BY <2>4, <2>5 DEF InOrder
  <2>7. pc'[a] \notin {"task", "settled"}
    BY <1>2, <1>5
  <2> QED
    BY <1>5, <2>2, <2>3, <2>6, <2>7 DEF OnTrack, TasksAtPc
<1> QED
  BY <1>3, <1>4, <1>5

LEMMA InitTInv == Init => TInv
<1> SUFFICES ASSUME Init, NEW a \in Action PROVE OnTrack(a)
  BY InitPInv DEF TInv, OnTrack
<1>1. taskResults[a] = <<>> /\ ran[a] = <<>> /\ pc[a] = "none" /\ status[a] = "NONE"
  BY DEF Init
<1>2. \A s : s = <<>> => DOMAIN s = {}
  OBVIOUS
<1>3. InOrder(<<>>, <<>>)
  BY <1>2 DEF InOrder
<1> QED
  BY <1>1, <1>3 DEF OnTrack, TasksAtPc

\* A task's call ends, in a result or in another attempt.
LEMMA SettleOnTrack ==
    ASSUME TypeOK, NEW a \in Action, OnTrack(a), pc[a] = "task",
           NEW st \in {"SUCCESSFUL", "FAILED", "CANCELLED"}, Settle(a, st)
    PROVE  OnTrack(a)'
<1> DEFINE s == taskResults[a]
           r == ran[a]
           t == [s EXCEPT ![Len(s)] = st]
           q == IF st = "SUCCESSFUL" THEN Append(r, Len(s)) ELSE r
<1>1. /\ s \in Seq(TaskStatus) /\ r \in Seq(Nat) /\ InOrder(s, r) /\ ButLast(s)
      /\ \A k \in DOMAIN r : r[k] < Len(s)
  BY DEF TypeOK, OnTrack, TasksAtPc, LastIx
<1>2. InOrder(t, q) /\ ButLast(t) /\ t[Len(t)] = st
  <2> HIDE DEF s, r
  <2> QED
    BY <1>1, EndInOrder
<1>3. taskResults'[a] = t /\ ran'[a] = q /\ pc'[a] = "settled" /\ status'[a] = status[a]
  BY DEF Settle, TypeOK, LastIx
<1> HIDE DEF t, q
<1>4. status[a] = "NONE" => FALSE
  BY <1>1 DEF OnTrack, TasksAtPc, ButLast
<1>5. TasksAtPc(a)'
  BY <1>2, <1>3, <1>4 DEF TasksAtPc, LastIx
<1> QED
  BY <1>2, <1>3, <1>5 DEF OnTrack

LEMMA ActionStepOnTrack ==
    ASSUME TInv, NEW a \in Action, ActionStep(a), ~Return(a), NEW b \in Action
    PROVE  OnTrack(b)'
<1>0. /\ IInv /\ TypeOK /\ OnTrack(a) /\ OnTrack(b)
      /\ pc \in [Action -> PC] /\ status \in [Action -> ActionStatus]
  BY DEF TInv, PInv, RInv, IInv, TypeOK, OnTrack
<1>1. CASE Lock(a)
  <2>1. status[a] = "RUNNING" /\ pc[a] = "lock" /\ TaskLoop(a, status[a]) /\ status' = status
    BY <1>0, <1>1 DEF Lock, IInv, StatusAtPc
  <2>2. AllSucceeded(taskResults[a]) \/ LastIx(a) = NTasks(a)
    BY <1>0, <2>1 DEF OnTrack, TasksAtPc
  <2>3. /\ OnTrack(a)'
        /\ \A c \in Action \ {a} :
             taskResults'[c] = taskResults[c] /\ ran'[c] = ran[c] /\ pc'[c] = pc[c]
    BY <1>0, <2>1, <2>2, TaskLoopOnTrack DEF OnTrack
  <2> QED
    BY <1>0, <2>1, <2>3, SameOnTrack
<1>2. CASE ContinueTasks(a)
  <2> DEFINE result == taskResults[a][LastIx(a)]
             st == IF result \in {"FAILED", "CANCELLED"} THEN result ELSE status[a]
  <2>1. /\ pc[a] = "settled" /\ TaskLoop(a, st) /\ status' = [status EXCEPT ![a] = st]
        /\ status[a] = "RUNNING"
    BY <1>0, <1>2 DEF ContinueTasks, IInv, StatusAtPc
  <2>2. result \in {"SUCCESSFUL", "FAILED", "CANCELLED"} /\ ButLast(taskResults[a])
    BY <1>0, <2>1 DEF OnTrack, TasksAtPc
  <2>3. st \in {"RUNNING", "FAILED", "CANCELLED"} /\ (st = "RUNNING" => result = "SUCCESSFUL")
    BY <2>1, <2>2
  <2>4. st = "RUNNING" => AllSucceeded(taskResults[a])
    BY <2>2, <2>3 DEF ButLast, AllSucceeded, LastIx
  <2> HIDE DEF st
  <2>5. status'[a] = st /\ \A c \in Action \ {a} : status'[c] = status[c]
    BY <1>0, <2>1
  <2>6. /\ OnTrack(a)'
        /\ \A c \in Action \ {a} :
             taskResults'[c] = taskResults[c] /\ ran'[c] = ran[c] /\ pc'[c] = pc[c]
    BY <1>0, <2>1, <2>3, <2>4, <2>5, TaskLoopOnTrack DEF OnTrack
  <2> QED
    BY <1>0, <2>5, <2>6, SameOnTrack
<1>3. CASE Submit(a)
  BY <1>0, <1>3, SameOnTrack DEF Submit
<1>4. ASSUME UNCHANGED <<taskResults, ran>>, NEW at, at \notin {"task", "settled"},
             pc' = [pc EXCEPT ![a] = at], pc[a] \notin {"task", "settled"},
             NEW st, st \notin {"NONE", "RUNNING"} \/ st = status[a],
             status' = [status EXCEPT ![a] = st]
      PROVE  OnTrack(b)'
  <2>1. CASE b = a
    BY <1>0, <1>4, <2>1 DEF OnTrack, TasksAtPc, LastIx, NTasks
  <2>2. CASE b # a
    BY <1>0, <1>4, <2>2, SameOnTrack
  <2> QED
    BY <2>1, <2>2
<1>5. CASE LockFails(a)
  <2>1. status' = [status EXCEPT ![a] = status[a]]
    BY <1>0, <1>5 DEF LockFails
  <2> QED
    BY <1>4, <1>5, <2>1 DEF LockFails
<1>6. CASE Unlock(a)
  <2>1. /\ UNCHANGED <<taskResults, ran>> /\ pc[a] = "unlock"
        /\ status[a] \in {"RUNNING", "FAILED", "CANCELLED"}
    BY <1>0, <1>6 DEF Unlock, IInv, StatusAtPc
  <2>2. CASE UNCHANGED status
    <3>1. status' = [status EXCEPT ![a] = status[a]]
      BY <1>0, <2>2
    <3>2. PICK at \in {"returned", "metadata"} : pc' = [pc EXCEPT ![a] = at]
      BY <1>6 DEF Unlock
    <3> QED
      BY <1>4, <2>1, <3>1, <3>2
  <2>3. CASE /\ pc' = [pc EXCEPT ![a] = "returned"]
             /\ status' = [status EXCEPT ![a] = Succeeded(status[a])]
    <3>1. Succeeded(status[a]) \notin {"NONE", "RUNNING"}
      BY <2>1 DEF Succeeded
    <3> QED
      BY <1>4, <2>1, <2>3, <3>1
  <2> QED
    BY <1>6, <2>2, <2>3 DEF Unlock
<1>7. CASE SetMetadata(a)
  BY <1>4, <1>7 DEF SetMetadata
<1>8. CASE SetMetadataFails(a)
  <2> DEFINE s == taskResults[a]
             t == [s EXCEPT ![Len(s)] = "FAILED"]
  <2>1. /\ pc' = [pc EXCEPT ![a] = "returned"] /\ status' = [status EXCEPT ![a] = "FAILED"]
        /\ taskResults' = [taskResults EXCEPT ![a] = t] /\ UNCHANGED ran
    BY <1>8 DEF SetMetadataFails, LastIx
  <2>2. CASE b = a
    <3>1. s \in Seq(TaskStatus) /\ ran[a] \in Seq(Nat) /\ InOrder(s, ran[a])
      BY <1>0 DEF TypeOK, OnTrack
    <3>2. InOrder(t, ran[a])
      BY <3>1, FailInOrder
    <3>3. taskResults'[a] = t /\ ran'[a] = ran[a] /\ pc'[a] = "returned" /\ status'[a] = "FAILED"
      BY <1>0, <2>1 DEF TypeOK
    <3> HIDE DEF t
    <3> QED
      BY <2>2, <3>2, <3>3 DEF OnTrack, TasksAtPc
  <2>3. CASE b # a
    <3>1. taskResults'[b] = taskResults[b] /\ status'[b] = status[b] /\ pc'[b] = pc[b]
      BY <1>0, <2>1, <2>3 DEF TypeOK
    <3> QED
      BY <1>0, <2>1, <3>1, SameOnTrack
  <2> QED
    BY <2>2, <2>3
<1>9. CASE CallSettles(a)
  <2>1. ASSUME NEW st \in {"SUCCESSFUL", "FAILED", "CANCELLED"}, Settle(a, st), pc[a] = "task"
        PROVE  OnTrack(b)'
    <3>1. CASE b = a
      BY <1>0, <2>1, <3>1, SettleOnTrack
    <3>2. CASE b # a
      <4>1. /\ taskResults'[b] = taskResults[b] /\ ran'[b] = ran[b]
            /\ status'[b] = status[b] /\ pc'[b] = pc[b]
        BY <1>0, <2>1, <3>2 DEF Settle, TypeOK
      <4> QED
        BY <1>0, <4>1, SameOnTrack
    <3> QED
      BY <3>1, <3>2
  <2>2. ErrorStatus \in {"SUCCESSFUL", "FAILED", "CANCELLED"}
    BY DEF ErrorStatus
  <2>3. CASE CallSucceeds(a) \/ AssertionFails(a)
    BY <2>1, <2>2, <2>3 DEF CallSucceeds, AssertionFails
  <2>4. CASE CallFails(a)
    <3>1. CASE UNCHANGED <<status, taskResults, pc, ran>>
      BY <1>0, <3>1, SameOnTrack
    <3>2. CASE Settle(a, ErrorStatus)
      BY <2>1, <2>2, <2>4, <3>2 DEF CallFails
    <3> QED
      BY <2>4, <3>1, <3>2 DEF CallFails
  <2> QED
    BY <1>9, <2>3, <2>4 DEF CallSettles
<1> QED
  BY <1>1, <1>2, <1>3, <1>5, <1>6, <1>7, <1>8, <1>9 DEF ActionStep, MetadataSettles

LEMMA StepTInv == TInv /\ [Next]_vars => TInv'
<1> SUFFICES ASSUME TInv, [Next]_vars, NEW b \in Action PROVE OnTrack(b)'
  BY StepPInv DEF TInv, OnTrack
<1>0. PInv /\ RInv /\ TypeOK /\ OnTrack(b)
  BY DEF TInv, PInv, RInv, IInv, OnTrack
<1>1. CASE UNCHANGED <<status, taskResults, pc, ran>>
  BY <1>0, <1>1, SameOnTrack
<1>2. CASE Execute \/ SchemasReady
  <2>1. CASE ExecuteAllReady(executed, successful, pc)
    <3>1. UNCHANGED <<executed, successful, ran>>
      BY <1>2 DEF Execute, SchemasReady
    <3> QED
      BY <2>1, <3>1, DispatchOnTrack
  <2> QED
    BY <1>1, <1>2, <2>1 DEF Execute, SchemasReady
<1>3. CASE SchemasFail \/ Finish \/ ClearTimer \/ Cancel \/ Timeout \/ Stop \/ Over \/ UNCHANGED vars
  BY <1>1, <1>3 DEF SchemasFail, Finish, ClearTimer, Cancel, Timeout, Stop, Over, vars
<1>4. ASSUME NEW a \in Action, ActionStep(a), ~Return(a) PROVE OnTrack(b)'
  BY <1>4, ActionStepOnTrack
<1>5. ASSUME NEW a \in Action, Return(a) PROVE OnTrack(b)'
  <2>1. /\ pc[a] = "returned" /\ UNCHANGED ran
        /\ ExecuteAllReady(executed', successful', [pc EXCEPT ![a] = "end"])
    BY <1>5 DEF Return
  <2>2. phase # "idle"
    BY <1>0, <2>1 DEF RInv, IdleIsQuiet
  <2>3. \A c \in Action : \/ [pc EXCEPT ![a] = "end"][c] = pc[c]
                          \/ [pc EXCEPT ![a] = "end"][c] = "end" /\ pc[c] = "returned"
    BY <1>0, <2>1 DEF TypeOK
  <2> QED
    BY <2>1, <2>2, <2>3, DispatchOnTrack
<1>6. CASE Resume
  <2>1. pc[b] \notin {"task", "settled"}
    BY <1>0, <1>6 DEF Resume, PInv, ActiveRuns, Active
  <2>2. UNCHANGED <<status, taskResults, ran>> /\ pc'[b] = "none"
    BY <1>6 DEF Resume
  <2> QED
    BY <1>0, <2>1, <2>2 DEF OnTrack, TasksAtPc, LastIx, NTasks
<1> QED
  BY <1>2, <1>3, <1>4, <1>5, <1>6 DEF Next, GraphStep, ActionStep

-----------------------------------------------------------------------------
(* The theorem                                                             *)

\* The tasks of an action run one after the other, none behind one that did
\* not succeed and none twice, whatever is cancelled, stopped and resumed; and
\* every task reported SUCCESSFUL did complete.
THEOREM TasksStayInOrder == Spec => []TasksInOrder
<1>1. Spec => []TInv
  BY InitTInv, StepTInv, PTL DEF Spec
<1>2. TInv => TasksInOrder
  BY DEF TInv, InOrder, TasksInOrder
<1> QED
  BY <1>1, <1>2, PTL

-----------------------------------------------------------------------------
(* A run reported SUCCESSFUL is complete, for every acyclic graph.  That   *)
(* the graph is acyclic is session.ts's check of circular dependencies; a  *)
(* cycle would stay pending, and the run be SUCCESSFUL.                    *)

\* Some action of every set depends on none of that set.
Acyclic == \A S \in SUBSET Action : S # {} => \E a \in S : InGraph(a) \cap S = {}

\* Neither cancelled nor stopped, and not the continuation of a stopped run.
Undisturbed == ~cancelled /\ ~stopped /\ resumes = 0

\* What an action of an undisturbed run has behind it.
CleanAt(a) ==
    /\ status[a] # "CANCELLED"
    /\ status[a] = "DISABLED" => NTasks(a) = 0
    /\ status[a] = "SKIPPED" => \E d \in InGraph(a) : status[d] \in {"FAILED", "SKIPPED"}
    /\ status[a] \in {"NONE", "DISABLED"} => taskResults[a] = <<>>
    /\ status[a] = "RUNNING" /\ pc[a] \notin {"task", "settled"} => AllSucceeded(taskResults[a])
    /\ status[a] = "SUCCESSFUL" \/ (status[a] = "RUNNING" /\ pc[a] \in {"unlock", "metadata"}) =>
            NTasks(a) # 0 /\ LastIx(a) = NTasks(a) /\ AllSucceeded(taskResults[a])
    /\ pc[a] = "settled" => taskResults[a][LastIx(a)] # "CANCELLED"

UInv == TInv /\ (Undisturbed => \A a \in Action : CleanAt(a))

\* Every action has run every task it has.
Complete ==
    \A a \in Action :
        /\ status[a] = IF NTasks(a) = 0 THEN "DISABLED" ELSE "SUCCESSFUL"
        /\ taskResults[a] = [i \in 1..NTasks(a) |-> "SUCCESSFUL"]

-----------------------------------------------------------------------------
(* An undisturbed run                                                      *)

\* A step that leaves an action alone leaves the reason alone why it was skipped.
LEMMA SameClean ==
    ASSUME UInv, [Next]_vars, NEW a \in Action, CleanAt(a),
           status'[a] = status[a], taskResults'[a] = taskResults[a],
           \/ pc'[a] = pc[a]
           \/ pc'[a] \notin {"task", "settled", "unlock", "metadata"}
              /\ pc[a] \notin {"task", "settled"}
    PROVE  CleanAt(a)'
<1>1. status[a] = "SKIPPED" => \E d \in InGraph(a) : status'[d] \in {"FAILED", "SKIPPED"}
  <2> SUFFICES ASSUME status[a] = "SKIPPED"
               PROVE  \E d \in InGraph(a) : status'[d] \in {"FAILED", "SKIPPED"}
    OBVIOUS
  <2>1. PICK d \in InGraph(a) : status[d] \in {"FAILED", "SKIPPED"}
    BY DEF CleanAt
  <2>2. status'[d] = status[d]
    BY <2>1, StepKeepsOutcomes DEF UInv, TInv, PInv, RInv, Outcome, InGraph
  <2> QED
    BY <2>1, <2>2
<1> QED
  BY <1>1 DEF CleanAt, LastIx, NTasks, InGraph

LEMMA TaskLoopClean ==
    ASSUME TypeOK, Undisturbed, NEW a \in Action, NEW st \in {"RUNNING", "FAILED"},
           TaskLoop(a, st), status'[a] = st, NTasks(a) # 0, InOrder(taskResults[a], ran[a]),
           st = "RUNNING" => AllSucceeded(taskResults[a])
    PROVE  CleanAt(a)'
<1> DEFINE s == taskResults[a]
           r == ran[a]
<1>0. /\ s \in Seq(TaskStatus) /\ r \in Seq(Nat)
      /\ LastIx(a) = Len(s) /\ Len(s) \in Nat /\ NTasks(a) \in Nat
  BY LenProperties, NTasksType DEF TypeOK, LastIx
<1>1. CASE /\ NTasks(a) - LastIx(a) = 0
           /\ pc' = [pc EXCEPT ![a] = "unlock"]
           /\ UNCHANGED <<taskResults, calls, ran>>
  <2>1. pc'[a] = "unlock" /\ LastIx(a) = NTasks(a)
    BY <1>0, <1>1 DEF TypeOK
  <2> QED
    BY <1>1, <2>1 DEF CleanAt, LastIx, NTasks
<1>2. CASE st = "FAILED" /\ pc' = [pc EXCEPT ![a] = "unlock"]
  <2>1. pc'[a] = "unlock"
    BY <1>2 DEF TypeOK
  <2> QED
    BY <1>2, <2>1 DEF CleanAt
<1>3. CASE /\ st = "RUNNING"
           /\ \E c \in Starts(Tasks[a][LastIx(a) + 1]) :
                /\ taskResults' = [taskResults EXCEPT ![a] = Append(@, c.result)]
                /\ pc' = [pc EXCEPT ![a] = c.pc]
  <2>1. PICK c \in Starts(Tasks[a][LastIx(a) + 1]) :
            /\ taskResults' = [taskResults EXCEPT ![a] = Append(@, c.result)]
            /\ pc' = [pc EXCEPT ![a] = c.pc]
    BY <1>3
  <2>2. c.pc \in {"settled", "task"} /\ c.result \in TaskStatus /\ c.result # "CANCELLED"
    BY DEF Starts, TaskStatus
  <2> DEFINE t == Append(s, c.result)
  <2>3. t[Len(t)] = c.result
    BY <1>0, <1>3, <2>2, StartInOrder
  <2>4. taskResults'[a] = t /\ pc'[a] = c.pc
    BY <2>1 DEF TypeOK
  <2> HIDE DEF t
  <2> QED
    BY <1>3, <2>2, <2>3, <2>4 DEF CleanAt, LastIx
<1> QED
  BY <1>1, <1>2, <1>3 DEF TaskLoop, Undisturbed

LEMMA DispatchClean ==
    ASSUME UInv, [Next]_vars, Undisturbed, NEW p, ExecuteAllReady(executed', successful', p),
           \A a \in Action : p[a] = pc[a] \/ (p[a] = "end" /\ pc[a] = "returned"),
           \A a \in executed' : /\ status[a] \in Outcome
                                /\ status[a] \in SuccessStatus => a \in successful',
           NEW a \in Action
    PROVE  CleanAt(a)'
<1>0. /\ TypeOK /\ RInv /\ CleanAt(a)
      /\ SkipAndStart(Executable(successful'), Skippable(executed', successful'), p)
      /\ a \in pending => pc[a] = "none" /\ status[a] \in {"NONE", "RUNNING"}
  BY DEF UInv, TInv, PInv, RInv, IInv, PendingIsIdle, Undisturbed, ExecuteAllReady
<1>1. CASE a \in Skippable(executed', successful')
  <2>1. a \in pending /\ a \notin Executable(successful') /\ InGraph(a) \subseteq executed'
    BY <1>1 DEF Skippable
  <2>2. status'[a] = "SKIPPED" /\ pc'[a] = p[a]
    BY <1>0, <1>1, <2>1 DEF SkipAndStart
  <2>3. PICK d \in InGraph(a) : d \notin successful'
    BY <2>1 DEF Executable
  <2>4. d \in Action /\ status[d] \in Outcome \ SuccessStatus
    BY <2>1, <2>3 DEF InGraph
  <2>5. status[d] # "CANCELLED" /\ status'[d] = status[d]
    BY <2>4, StepKeepsOutcomes DEF UInv, TInv, PInv, RInv, CleanAt
  <2>6. status'[d] \in {"FAILED", "SKIPPED"}
    BY <2>4, <2>5 DEF Outcome, SuccessStatus
  <2>7. pc'[a] # "settled"
    BY <1>0, <2>1, <2>2
  <2> QED
    BY <2>2, <2>3, <2>6, <2>7 DEF CleanAt, InGraph
<1>2. CASE a \in Executable(successful')
  <2>1. a \in pending /\ a \notin Skippable(executed', successful')
    BY <1>2 DEF Executable, Skippable
  <2>2. /\ taskResults'[a] = taskResults[a]
        /\ \/ NTasks(a) # 0 /\ status'[a] = "RUNNING" /\ pc'[a] = "lock"
           \/ NTasks(a) = 0 /\ status'[a] = "DISABLED" /\ pc'[a] = "returned"
    BY <1>0, <1>2, <2>1 DEF SkipAndStart
  <2>3. AllSucceeded(taskResults[a])
    BY <1>0, <2>1 DEF CleanAt, AllSucceeded
  <2>4. NTasks(a) = 0 => status[a] = "NONE"
    BY <1>0, <2>1 DEF RInv, RunningHasTasks
  <2> QED
    BY <1>0, <2>2, <2>3, <2>4 DEF CleanAt, NTasks
<1>3. CASE a \notin Skippable(executed', successful') /\ a \notin Executable(successful')
  <2>1. status'[a] = status[a] /\ taskResults'[a] = taskResults[a] /\ pc'[a] = p[a]
    BY <1>0, <1>3 DEF SkipAndStart
  <2> QED
    BY <1>0, <2>1, SameClean
<1> QED
  BY <1>1, <1>2, <1>3

LEMMA ActionStepClean ==
    ASSUME UInv, [Next]_vars, Undisturbed, NEW a \in Action, ActionStep(a), ~Return(a),
           NEW b \in Action
    PROVE  CleanAt(b)'
<1>0. /\ IInv /\ TypeOK /\ OnTrack(a) /\ CleanAt(a) /\ CleanAt(b) /\ ~cancelled /\ ~stopped
      /\ pc \in [Action -> PC] /\ status \in [Action -> ActionStatus]
      /\ status[a] = "RUNNING" => NTasks(a) # 0
  BY DEF UInv, TInv, PInv, RInv, IInv, TypeOK, OnTrack, Undisturbed, RunningHasTasks
<1>1. CASE Lock(a)
  <2>1. status[a] = "RUNNING" /\ pc[a] = "lock" /\ TaskLoop(a, status[a]) /\ status' = status
    BY <1>0, <1>1 DEF Lock, IInv, StatusAtPc
  <2>2. AllSucceeded(taskResults[a])
    BY <1>0, <2>1 DEF CleanAt
  <2>3. CleanAt(a)'
    BY <1>0, <2>1, <2>2, TaskLoopClean DEF OnTrack
  <2>4. \A c \in Action \ {a} : taskResults'[c] = taskResults[c] /\ pc'[c] = pc[c]
    BY <1>0, <2>1, <2>2, TaskLoopOnTrack DEF OnTrack
  <2> QED
    BY <1>0, <2>1, <2>3, <2>4, SameClean
<1>2. CASE ContinueTasks(a)
  <2> DEFINE result == taskResults[a][LastIx(a)]
             st == IF result \in {"FAILED", "CANCELLED"} THEN result ELSE status[a]
  <2>1. /\ pc[a] = "settled" /\ TaskLoop(a, st) /\ status' = [status EXCEPT ![a] = st]
        /\ status[a] = "RUNNING"
    BY <1>0, <1>2 DEF ContinueTasks, IInv, StatusAtPc
  <2>2. result \in {"SUCCESSFUL", "FAILED"} /\ ButLast(taskResults[a])
    BY <1>0, <2>1 DEF OnTrack, TasksAtPc, CleanAt
  <2>3. st \in {"RUNNING", "FAILED"} /\ (st = "RUNNING" => result = "SUCCESSFUL")
    BY <2>1, <2>2
  <2>4. st = "RUNNING" => AllSucceeded(taskResults[a])
    BY <2>2, <2>3 DEF ButLast, AllSucceeded, LastIx
  <2> HIDE DEF st
  <2>5. status'[a] = st /\ \A c \in Action \ {a} : status'[c] = status[c]
    BY <1>0, <2>1
  <2>6. CleanAt(a)'
    BY <1>0, <2>1, <2>3, <2>4, <2>5, TaskLoopClean DEF OnTrack
  <2>7. \A c \in Action \ {a} : taskResults'[c] = taskResults[c] /\ pc'[c] = pc[c]
    BY <1>0, <2>1, <2>3, <2>4, <2>5, TaskLoopOnTrack DEF OnTrack
  <2> QED
    BY <1>0, <2>5, <2>6, <2>7, SameClean
<1>3. CASE Submit(a)
  BY <1>0, <1>3, SameClean DEF Submit
<1>4. CASE LockFails(a)
  <2>1. /\ UNCHANGED <<status, taskResults>>
        /\ pc[a] = "lock" /\ pc' = [pc EXCEPT ![a] = "threw"]
    BY <1>4 DEF LockFails
  <2>2. CASE b = a
    BY <1>0, <2>1, <2>2, SameClean
  <2>3. CASE b # a
    BY <1>0, <2>1, <2>3, SameClean
  <2> QED
    BY <2>2, <2>3
<1>5. CASE Unlock(a)
  <2>1. UNCHANGED taskResults /\ pc[a] = "unlock" /\ status[a] \in {"RUNNING", "FAILED"}
    BY <1>0, <1>5 DEF Unlock, IInv, StatusAtPc, CleanAt
  <2>2. CASE b = a
    <3>1. \/ pc'[a] = "metadata" /\ status'[a] = status[a]
          \/ pc'[a] = "returned" /\ status'[a] = Succeeded(status[a])
      BY <1>0, <1>5 DEF Unlock
    <3>2. status[a] = "RUNNING" => /\ NTasks(a) # 0 /\ LastIx(a) = NTasks(a)
                                   /\ AllSucceeded(taskResults[a])
      BY <1>0, <2>1 DEF CleanAt
    <3> QED
      BY <2>1, <2>2, <3>1, <3>2 DEF CleanAt, Succeeded, LastIx, NTasks
  <2>3. CASE b # a
    <3>1. status'[b] = status[b] /\ pc'[b] = pc[b]
      BY <1>0, <1>5, <2>3 DEF Unlock
    <3> QED
      BY <1>0, <2>1, <3>1, SameClean
  <2> QED
    BY <2>2, <2>3
<1>6. CASE MetadataSettles(a)
  <2>1. PICK st \in {"SUCCESSFUL", "FAILED"} :
            /\ pc' = [pc EXCEPT ![a] = "returned"] /\ status' = [status EXCEPT ![a] = st]
            /\ st = "SUCCESSFUL" => UNCHANGED taskResults
            /\ \A c \in Action \ {a} : taskResults'[c] = taskResults[c]
    BY <1>0, <1>6 DEF MetadataSettles, SetMetadata, SetMetadataFails, TypeOK
  <2>2. pc[a] = "metadata" /\ status[a] = "RUNNING"
    BY <1>0, <1>6 DEF MetadataSettles, SetMetadata, SetMetadataFails, IInv, StatusAtPc
  <2>3. CASE b = a
    <3>1. pc'[a] = "returned" /\ status'[a] = st
      BY <1>0, <2>1
    <3>2. NTasks(a) # 0 /\ LastIx(a) = NTasks(a) /\ AllSucceeded(taskResults[a])
      BY <1>0, <2>2 DEF CleanAt
    <3> QED
      BY <2>1, <2>3, <3>1, <3>2 DEF CleanAt, LastIx, NTasks
  <2>4. CASE b # a
    <3>1. status'[b] = status[b] /\ pc'[b] = pc[b] /\ taskResults'[b] = taskResults[b]
      BY <1>0, <2>1, <2>4
    <3> QED
      BY <1>0, <3>1, SameClean
  <2> QED
    BY <2>3, <2>4
<1>7. CASE CallSettles(a)
  <2>1. ASSUME NEW st \in {"SUCCESSFUL", "FAILED"}, Settle(a, st), pc[a] = "task"
        PROVE  CleanAt(b)'
    <3>1. CASE b = a
      <4>1. status[a] = "RUNNING" /\ status'[a] = "RUNNING" /\ pc'[a] = "settled"
        BY <1>0, <2>1 DEF Settle, IInv, StatusAtPc
      <4>2. taskResults[a] \in Seq(TaskStatus) /\ LastIx(a) = Len(taskResults[a]) /\ LastIx(a) # 0
        BY <1>0, <2>1 DEF TypeOK, OnTrack, TasksAtPc, ButLast, LastIx
      <4>3. LastIx(a) \in 1..Len(taskResults[a]) /\ st \in TaskStatus
        BY <4>2, LenProperties DEF TaskStatus
      <4>4. taskResults'[a] = [taskResults[a] EXCEPT ![LastIx(a)] = st]
        BY <1>0, <2>1 DEF Settle, TypeOK
      <4>5. taskResults'[a][LastIx(a)] = st /\ Len(taskResults'[a]) = LastIx(a)
        BY <4>2, <4>3, <4>4, ExceptSeq
      <4> QED
        BY <2>1, <3>1, <4>1, <4>5 DEF CleanAt, LastIx
    <3>2. CASE b # a
      <4>1. taskResults'[b] = taskResults[b] /\ status'[b] = status[b] /\ pc'[b] = pc[b]
        BY <1>0, <2>1, <3>2 DEF Settle, TypeOK
      <4> QED
        BY <1>0, <4>1, SameClean
    <3> QED
      BY <3>1, <3>2
  <2>2. ErrorStatus = "FAILED"
    BY <1>0 DEF ErrorStatus
  <2>3. CASE CallSucceeds(a) \/ AssertionFails(a)
    BY <2>1, <2>2, <2>3 DEF CallSucceeds, AssertionFails
  <2>4. CASE CallFails(a)
    <3>1. CASE UNCHANGED <<status, taskResults, pc, ran>>
      BY <1>0, <3>1, SameClean
    <3>2. CASE Settle(a, ErrorStatus)
      BY <2>1, <2>2, <2>4, <3>2 DEF CallFails
    <3> QED
      BY <2>4, <3>1, <3>2 DEF CallFails
  <2> QED
    BY <1>7, <2>3, <2>4 DEF CallSettles
<1> QED
  BY <1>1, <1>2, <1>3, <1>4, <1>5, <1>6, <1>7 DEF ActionStep

LEMMA InitUInv == Init => UInv
<1> SUFFICES ASSUME Init, NEW a \in Action PROVE CleanAt(a)
  BY InitTInv DEF UInv
<1>1. taskResults[a] = <<>> /\ pc[a] = "none" /\ status[a] = "NONE"
  BY DEF Init
<1> QED
  BY <1>1 DEF CleanAt

LEMMA StepUInv == UInv /\ [Next]_vars => UInv'
<1> SUFFICES ASSUME UInv, [Next]_vars, Undisturbed', NEW a \in Action PROVE CleanAt(a)'
  BY StepTInv DEF UInv
<1>0. /\ TInv /\ RInv /\ TypeOK /\ resumes \in Nat
  BY OptionsAssumption DEF UInv, TInv, PInv, RInv, IInv, TypeOK
<1>1. ~Resume
  BY <1>0 DEF Resume, Undisturbed
<1>2. Undisturbed /\ CleanAt(a)
  <2>1. UNCHANGED resumes
    BY <1>1
    DEF Next, GraphStep, ActionStep, Execute, SchemasReady, SchemasFail, Finish, ClearTimer, Cancel,
        Timeout, Stop, Over, Lock, LockFails, Submit, CallSettles, CallSucceeds, AssertionFails,
        CallFails, Settle, ContinueTasks, Unlock, MetadataSettles, SetMetadata, SetMetadataFails,
        Return, run, vars
  <2>2. UNCHANGED <<cancelled, stopped>>
    BY <1>1
    DEF Next, GraphStep, ActionStep, Execute, SchemasReady, SchemasFail, Finish, ClearTimer, Cancel,
        Emit, Timeout, Stop, Over, Lock, LockFails, Submit, CallSettles, CallSucceeds,
        AssertionFails, CallFails, Settle, ContinueTasks, Unlock, MetadataSettles, SetMetadata,
        SetMetadataFails, Return, flags, vars, Undisturbed
  <2> QED
    BY <2>1, <2>2 DEF Undisturbed, UInv
<1>3. CASE UNCHANGED <<status, taskResults, pc>>
  BY <1>2, <1>3, SameClean
<1>4. CASE Execute \/ SchemasReady
  <2>1. CASE ExecuteAllReady(executed, successful, pc)
    <3>1. UNCHANGED <<executed, successful>>
      BY <1>4 DEF Execute, SchemasReady
    <3>2. \A b \in executed : /\ status[b] \in Outcome
                              /\ status[b] \in SuccessStatus => b \in successful
      BY <1>0, <1>2 DEF RInv, ExecutedHasEnded, Undisturbed
    <3> QED
      BY <1>2, <2>1, <3>1, <3>2, DispatchClean
  <2> QED
    BY <1>3, <1>4, <2>1 DEF Execute, SchemasReady
<1>5. CASE SchemasFail \/ Finish \/ ClearTimer \/ Cancel \/ Timeout \/ Stop \/ Over \/ UNCHANGED vars
  BY <1>3, <1>5 DEF SchemasFail, Finish, ClearTimer, Cancel, Timeout, Stop, Over, vars
<1>6. ASSUME NEW b \in Action, ActionStep(b), ~Return(b) PROVE CleanAt(a)'
  BY <1>2, <1>6, ActionStepClean
<1>7. ASSUME NEW b \in Action, Return(b) PROVE CleanAt(a)'
  <2>1. /\ pc[b] = "returned" /\ executed' = executed \cup {b}
        /\ successful' = IF status[b] \in SuccessStatus THEN successful \cup {b} ELSE successful
        /\ ExecuteAllReady(executed', successful', [pc EXCEPT ![b] = "end"])
    BY <1>7 DEF Return
  <2>2. \A c \in executed' : /\ status[c] \in Outcome
                             /\ status[c] \in SuccessStatus => c \in successful'
    BY <1>0, <1>2, <2>1 DEF RInv, ExecutedHasEnded, ReturnedHasEnded, Undisturbed
  <2>3. \A c \in Action : \/ [pc EXCEPT ![b] = "end"][c] = pc[c]
                          \/ [pc EXCEPT ![b] = "end"][c] = "end" /\ pc[c] = "returned"
    BY <1>0, <2>1 DEF TypeOK
  <2> QED
    BY <1>2, <2>1, <2>2, <2>3, DispatchClean
<1> QED
  BY <1>1, <1>4, <1>5, <1>6, <1>7 DEF Next, GraphStep, ActionStep

-----------------------------------------------------------------------------
(* A successful one                                                        *)

\* When an undisturbed run without failures comes to its end, an action that
\* did not succeed would have to wait for another one that did not.
LEMMA EndIsComplete ==
    ASSUME Acyclic, UInv, Undisturbed, phase = "actions", NoneActive,
           \A a \in Action : status[a] # "FAILED"
    PROVE  Complete
<1>0. /\ TypeOK /\ PInv /\ RInv /\ \A a \in Action : CleanAt(a)
      /\ status \in [Action -> ActionStatus]
  BY DEF UInv, TInv, PInv, RInv, IInv, TypeOK
<1>1. ASSUME NEW a \in Action
      PROVE  a \in pending \/ a \in executed \/ status[a] = "SKIPPED"
  BY <1>0, <1>1 DEF NoneActive, PInv, Accounted, ActiveRuns
<1>2. ASSUME NEW a \in Action, \A d \in InGraph(a) : status[d] \in SuccessStatus
      PROVE  status[a] \in SuccessStatus
  <2>1. status[a] # "SKIPPED"
    BY <1>0, <1>2 DEF CleanAt, SuccessStatus
  <2>2. a \notin pending
    <3> SUFFICES ASSUME a \in pending PROVE FALSE
      OBVIOUS
    <3>1. PICK d \in InGraph(a) : d \notin executed
      BY <1>0 DEF PInv, PendingWaits, Undisturbed
    <3>2. d \in Action /\ status[d] \in SuccessStatus
      BY <1>2, <3>1 DEF InGraph
    <3>3. d \in pending
      BY <1>1, <3>1, <3>2 DEF SuccessStatus
    <3> QED
      BY <1>0, <3>2, <3>3 DEF RInv, PendingIsNew, SuccessStatus
  <2>3. status[a] \in Outcome
    BY <1>0, <1>1, <2>1, <2>2 DEF RInv, ExecutedHasEnded, Undisturbed
  <2> QED
    BY <1>0, <2>1, <2>3 DEF Outcome, CleanAt, SuccessStatus
<1>3. \A a \in Action : status[a] \in SuccessStatus
  <2> DEFINE S == {a \in Action : status[a] \notin SuccessStatus}
  <2> SUFFICES ASSUME S # {} PROVE FALSE
    OBVIOUS
  <2>1. PICK a \in S : InGraph(a) \cap S = {}
    BY DEF Acyclic
  <2>2. \A d \in InGraph(a) : status[d] \in SuccessStatus
    BY <2>1 DEF InGraph
  <2> QED
    BY <1>2, <2>1, <2>2
<1>4. ASSUME NEW a \in Action
      PROVE  /\ status[a] = IF NTasks(a) = 0 THEN "DISABLED" ELSE "SUCCESSFUL"
             /\ taskResults[a] = [i \in 1..NTasks(a) |-> "SUCCESSFUL"]
  <2>1. CASE status[a] = "DISABLED"
    <3>1. NTasks(a) = 0 /\ taskResults[a] = <<>>
      BY <1>0, <2>1 DEF CleanAt
    <3>2. \A n : n = 0 => [i \in 1..n |-> "SUCCESSFUL"] = <<>>
      OBVIOUS
    <3> QED
      BY <2>1, <3>1, <3>2
  <2>2. CASE status[a] = "SUCCESSFUL"
    <3>1. NTasks(a) # 0 /\ LastIx(a) = NTasks(a) /\ AllSucceeded(taskResults[a])
      BY <1>0, <2>2 DEF CleanAt
    <3>2. /\ taskResults[a] \in [1..NTasks(a) -> TaskStatus]
          /\ DOMAIN taskResults[a] = 1..NTasks(a)
      BY <1>0, <3>1, LenProperties DEF TypeOK, LastIx
    <3>3. taskResults[a] = [i \in 1..NTasks(a) |-> "SUCCESSFUL"]
      BY <3>1, <3>2 DEF AllSucceeded
    <3> QED
      BY <2>2, <3>1, <3>3
  <2> QED
    BY <1>3, <2>1, <2>2 DEF SuccessStatus
<1> QED
  BY <1>4 DEF Complete

SInv == UInv /\ (runStatus = "SUCCESSFUL" /\ resumes = 0 => phase = "done" /\ Complete)

LEMMA InitSInv == Init => SInv
  BY InitUInv DEF Init, SInv

LEMMA StepSInv == ASSUME Acyclic PROVE SInv /\ [Next]_vars => SInv'
<1> SUFFICES ASSUME SInv, [Next]_vars, runStatus' = "SUCCESSFUL", resumes' = 0
             PROVE  phase' = "done" /\ Complete'
  BY StepUInv DEF SInv
<1>0. /\ UInv /\ PInv /\ TypeOK /\ resumes \in Nat
  BY OptionsAssumption DEF SInv, UInv, TInv, PInv, RInv, IInv, TypeOK
<1>1. ~Resume
  BY <1>0 DEF Resume
<1>2. UNCHANGED resumes
  BY <1>1
  DEF Next, GraphStep, ActionStep, Execute, SchemasReady, SchemasFail, Finish, ClearTimer, Cancel,
      Timeout, Stop, Over, Lock, LockFails, Submit, CallSettles, CallSucceeds, AssertionFails,
      CallFails, Settle, ContinueTasks, Unlock, MetadataSettles, SetMetadata, SetMetadataFails,
      Return, run, vars
<1>3. CASE Finish
  <2>1. CASE stopped
    <3>1. runStatus = "SUCCESSFUL"
      BY <1>3, <2>1 DEF Finish
    <3> QED
      BY <1>2, <1>3, <3>1 DEF Finish, SInv
  <2>2. CASE ~stopped
    <3>1. /\ ~cancelled /\ \A a \in Action : status[a] # "FAILED"
      BY <1>3, <2>2 DEF Finish, FinalStatus
    <3>2. Undisturbed
      BY <1>2, <2>2, <3>1 DEF Undisturbed
    <3>3. Complete
      BY <1>0, <1>3, <3>1, <3>2, EndIsComplete DEF Finish
    <3> QED
      BY <1>3, <3>3 DEF Finish, Complete, NTasks
  <2> QED
    BY <2>1, <2>2
<1>4. CASE ~Finish
  <2>1. ~Execute
    BY DEF Execute
  <2>2. UNCHANGED runStatus
    BY <1>1, <1>4, <2>1
    DEF Next, GraphStep, ActionStep, SchemasReady, SchemasFail, ClearTimer, Cancel,
        Timeout, Stop, Over, Lock, LockFails, Submit, CallSettles, CallSucceeds, AssertionFails,
        CallFails, Settle, ContinueTasks, Unlock, MetadataSettles, SetMetadata, SetMetadataFails,
        Return, run, vars
  <2>3. phase = "done" /\ Complete
    BY <1>2, <2>2 DEF SInv
  <2>4. \A a \in Action : pc[a] \notin Active \cup {"threw"}
    BY <1>0, <2>3 DEF PInv, ActiveRuns
  <2>5. phase' = "done" /\ UNCHANGED <<status, taskResults>>
    <3>1. CASE \E a \in Action : ActionStep(a)
      BY <2>3, <2>4, <3>1
      DEF ActionStep, Lock, LockFails, Submit, CallSettles, CallSucceeds, AssertionFails,
          CallFails, ContinueTasks, Unlock, MetadataSettles, SetMetadata, SetMetadataFails,
          Return, run, Active
    <3>2. CASE SchemasReady \/ SchemasFail \/ ClearTimer \/ Cancel \/ Timeout \/ Stop \/ Over \/ UNCHANGED vars
      BY <2>3, <3>2 DEF SchemasReady, SchemasFail, ClearTimer, Cancel, Timeout, Stop, Over, run, vars
    <3> QED
      BY <1>1, <1>4, <2>1, <3>1, <3>2 DEF Next, GraphStep
  <2> QED
    BY <2>3, <2>5 DEF Complete, NTasks
<1> QED
  BY <1>3, <1>4

-----------------------------------------------------------------------------
(* The theorem                                                             *)

\* A run of an acyclic graph that was never resumed and is reported SUCCESSFUL
\* has run every task of every action, and all of them succeeded: nothing that
\* was cancelled, skipped, lost or left waiting is covered by the report.
THEOREM SuccessMeansComplete == ASSUME Acyclic PROVE Spec => []SuccessIsComplete
<1>1. Init => SInv
  BY InitSInv
<1>2. SInv /\ [Next]_vars => SInv'
  BY StepSInv
<1>3. SInv => SuccessIsComplete
  BY DEF SInv, Complete, SuccessIsComplete
<1> QED
  BY <1>1, <1>2, <1>3, PTL DEF Spec
=============================================================================
