---------------------------- MODULE CallsProofs ----------------------------
(***************************************************************************)
(* Proofs about Calls, for any number of callers, any pool and any limit   *)
(* on retries: the types of the state, that what is limited comes back,    *)
(* and what a cancellation does to the calls it reached.                   *)
(*                                                                         *)
(* The first two follow from one inductive invariant, IInv: what a caller  *)
(* is at (Fit) says what it may hold and how often it stands in line       *)
(* (Lines), and the counters of the process are the sums of that.  Every   *)
(* step is first a step of one caller's record (the lemmas ...Moves, each  *)
(* with the h clients and k places it gains), and then one of the process  *)
(* (the lemmas ...Inv).                                                    *)
(***************************************************************************)
EXTENDS Calls, TLAPS, FiniteSetTheorems, SequenceTheorems

-----------------------------------------------------------------------------
(* The inductive invariant.                                                *)

\* What each step opens, and that the steps come in the order of their kind.
OwnAt(step) ==
    CASE step = "read" -> {"source"}
      [] step \in {"create", "load"} -> {"target"}
      [] step \in {"attach", "copy", "write"} -> {"duckdb"}
      [] OTHER -> {}

Follows(step, next) ==
    \/ step = "source" /\ next = "read"
    \/ step = "read" /\ next = "target"
    \/ step = "target" /\ next = "create"
    \/ step = "create" /\ next = "load"
    \/ step = "duckdb" /\ next = "attach"
    \/ step = "attach" /\ next \in {"copy", "write"}

Openers == {"source", "target", "duckdb"}
Closers == {"load", "copy", "write"}

Ordered(steps) ==
    \A i \in 1..Len(steps) :
        IF i = Len(steps) THEN steps[i] \in Closers
        ELSE Follows(steps[i], steps[i + 1])

\* Where an action is while it has its client.
Inside == {"between", "executing", "slot", "stepping", "leaving"}

CallFits(r) ==
    /\ r.call # "none" <=> r.pc = "executing"
    /\ r.call \in {"queued", "creating", "checking"} => adapter = "bigquery"
    /\ r.onCancel = "registered" =>
           r.call \notin {"none", "queued"} /\ adapter # "mysql"
    /\ r.pc = "executing" => r.task < Tasks
    /\ r.done <= r.task
    /\ r.sent <= r.attempt

LockFits(r) ==
    /\ r.lock # "none" <=> adapter # "bigquery" /\ r.pc \in Inside
    /\ r.pc = "asking" => adapter # "bigquery"
    /\ r.lock = "lost" => r.released
    /\ r.lock = "none" => ~r.released
    /\ r.call = "running" /\ adapter # "bigquery" => ~r.released

BatchFits(r) ==
    /\ r.pc \notin {"batch", "over"} => r.running = 0
    /\ r.pc = "batch" \/ r.running > 0 => r.batches # <<>>
    /\ r.pc = "describing" => r.op = "action"

StepsFit(r) ==
    /\ Ordered(r.steps)
    /\ IF r.pc = "stepping" THEN r.steps # <<>> /\ r.own = OwnAt(Head(r.steps))
       ELSE r.own = {} /\ (r.steps # <<>> => Head(r.steps) \in Openers)
    /\ r.pc = "slot" => r.op = "extract" /\ r.steps # <<>>

Fit(r) == r \in Caller /\ CallFits(r) /\ LockFits(r) /\ BatchFits(r) /\ StepsFit(r)

\* How often a caller stands in line, by what it is at.
InLine(q, a) == {i \in 1..Len(q) : q[i] = a}

Lines(r, n) ==
    /\ r.pc = "asking" \/ r.call = "queued" => n = 1
    /\ r.pc \notin {"asking", "batch", "over"} /\ r.call # "queued" => n = 0
    /\ r.pc = "batch" => r.left = r.running + n
    /\ r.pc = "batch" /\ Head(r.batches).via = "api" => n = 0
    /\ r.pc = "over" /\ n > 0 => r.batches # <<>> /\ Head(r.batches).via = "pool"

ProcessFits ==
    /\ adapter \in Adapters
    /\ executor \in {"connecting", "ready", "unreachable"}
    /\ cancelled \in BOOLEAN

CallersFit ==
    /\ caller \in [Callers -> Caller]
    /\ \A a \in Callers : Fit(caller[a])

QueueFits ==
    /\ queue \in Seq(Callers)
    /\ \A a \in Callers : Lines(caller[a], Cardinality(InLine(queue, a)))

PoolFits ==
    /\ IsFiniteSet(InUse)
    /\ leased = Cardinality(InUse)
    /\ leased <= ConnectionLimit
    /\ broken = 0

SlotsFit ==
    /\ IsFiniteSet(AtWork)
    /\ slots = Cardinality(AtWork)
    /\ slots <= MAX_CONCURRENT_EXTRACTS
    /\ waiters \in Seq(Callers)
    /\ \A i \in 1..Len(waiters) : caller[waiters[i]].pc = "slot"
    /\ \A i, j \in 1..Len(waiters) : i # j => waiters[i] # waiters[j]

IInv == ProcessFits /\ CallersFit /\ QueueFits /\ PoolFits /\ SlotsFit

-----------------------------------------------------------------------------
(* Types.                                                                  *)

LEMMA Constants ==
    /\ Adapters \subseteq {"postgres", "mysql", "bigquery"}
    /\ ConnectionLimit \in Nat /\ MAX_CONCURRENT_EXTRACTS \in Nat
    /\ ActionRetryLimit \in Nat /\ Tasks \in Nat /\ Listed \in Nat
    /\ Described \in Nat
  BY CallsAssumption

\* The types of the fields by name, so that a record is typed field by field.
Pcs == {"start", "asking", "between", "executing", "slot", "stepping",
        "leaving", "describing", "batch", "over"}
Results == {"RUNNING", "SUCCESSFUL", "FAILED", "CANCELLED"}
Locks == {"none", "whole", "lost"}
TaskCounts == 0..Tasks
Attempts == 0..(ActionRetryLimit + 1)
Calling == {"none", "queued", "creating", "running", "checking", "ended",
            "rejected"}
JobAttempts == 0..JOB_MAX_ATTEMPTS
Registering == {"none", "registered", "called"}
Finds == Found \union {"unknown"}
Batches == Seq([n: Nat, via: {"pool", "api"}])
StepSeqs == Seq(Step)
Owned == SUBSET Openers

LEMMA CallerIs ==
    Caller = [op: Op, pc: Pcs, result: Results, lock: Locks, released: BOOLEAN,
              task: TaskCounts, done: TaskCounts, attempt: Attempts,
              sent: Attempts, call: Calling, jobs: JobAttempts,
              onCancel: Registering, left: Nat, running: Nat, found: Finds,
              batches: Batches, steps: StepSeqs, own: Owned]
  BY DEF Caller, Pcs, Results, Locks, TaskCounts, Attempts, Calling, JobAttempts,
         Registering, Finds, Batches, StepSeqs, Owned, Openers

LEMMA Names ==
    /\ "asking" \in Pcs /\ "between" \in Pcs /\ "executing" \in Pcs
    /\ "slot" \in Pcs /\ "stepping" \in Pcs /\ "leaving" \in Pcs
    /\ "describing" \in Pcs /\ "batch" \in Pcs /\ "over" \in Pcs
    /\ "SUCCESSFUL" \in Results /\ "FAILED" \in Results /\ "CANCELLED" \in Results
    /\ "none" \in Locks /\ "whole" \in Locks /\ "lost" \in Locks
    /\ "none" \in Calling /\ "queued" \in Calling /\ "creating" \in Calling
    /\ "running" \in Calling /\ "checking" \in Calling /\ "ended" \in Calling
    /\ "rejected" \in Calling
    /\ "none" \in Registering /\ "registered" \in Registering
    /\ "called" \in Registering
    /\ 0 \in Attempts /\ Tasks \in TaskCounts
    /\ <<>> \in StepSeqs /\ {} \in Owned
  BY Constants DEF Pcs, Results, Locks, Calling, Registering, Attempts,
                   TaskCounts, StepSeqs, Owned

LEMMA FieldsTyped ==
    ASSUME NEW r \in Caller
    PROVE  /\ r.op \in Op /\ r.pc \in Pcs /\ r.result \in Results
           /\ r.lock \in Locks /\ r.released \in BOOLEAN
           /\ r.task \in TaskCounts /\ r.done \in TaskCounts
           /\ r.attempt \in Attempts /\ r.sent \in Attempts
           /\ r.call \in Calling /\ r.jobs \in JobAttempts
           /\ r.onCancel \in Registering /\ r.left \in Nat /\ r.running \in Nat
           /\ r.found \in Finds /\ r.batches \in Batches
           /\ r.steps \in StepSeqs /\ r.own \in Owned
  BY CallerIs

\* A field may be set to any value of its type.
LEMMA SetField ==
    ASSUME NEW r \in Caller
    PROVE  /\ \A x \in Pcs : [r EXCEPT !.pc = x] \in Caller
           /\ \A x \in Results : [r EXCEPT !.result = x] \in Caller
           /\ \A x \in Locks : [r EXCEPT !.lock = x] \in Caller
           /\ \A x \in BOOLEAN : [r EXCEPT !.released = x] \in Caller
           /\ \A x \in TaskCounts : [r EXCEPT !.task = x] \in Caller
           /\ \A x \in TaskCounts : [r EXCEPT !.done = x] \in Caller
           /\ \A x \in Attempts : [r EXCEPT !.attempt = x] \in Caller
           /\ \A x \in Attempts : [r EXCEPT !.sent = x] \in Caller
           /\ \A x \in Calling : [r EXCEPT !.call = x] \in Caller
           /\ \A x \in JobAttempts : [r EXCEPT !.jobs = x] \in Caller
           /\ \A x \in Registering : [r EXCEPT !.onCancel = x] \in Caller
           /\ \A x \in Nat : [r EXCEPT !.left = x] \in Caller
           /\ \A x \in Nat : [r EXCEPT !.running = x] \in Caller
           /\ \A x \in Finds : [r EXCEPT !.found = x] \in Caller
           /\ \A x \in Batches : [r EXCEPT !.batches = x] \in Caller
           /\ \A x \in StepSeqs : [r EXCEPT !.steps = x] \in Caller
           /\ \A x \in Owned : [r EXCEPT !.own = x] \in Caller
  BY CallerIs

LEMMA HeadIn ==
    ASSUME NEW S, NEW q \in Seq(S), q # <<>> PROVE Head(q) \in S
  OBVIOUS

LEMMA EmptyIs == ASSUME NEW S, NEW q \in Seq(S) PROVE q = <<>> <=> Len(q) = 0
  OBVIOUS

LEMMA BatchTyped ==
    ASSUME NEW q \in Batches, q # <<>>
    PROVE  Head(q).n \in Nat /\ Head(q).via \in {"pool", "api"}
  <1> DEFINE S == [n: Nat, via: {"pool", "api"}]
  <1>1. q \in Seq(S)
    BY DEF Batches
  <1> HIDE DEF S
  <1>2. Head(q) \in S
    BY <1>1, HeadIn
  <1> QED BY <1>2 DEF S

\* What a step of its own makes of a caller: h more clients held, and k more
\* places in the line.
Moved(r, s, h, k) ==
    /\ Fit(s) /\ s.op = r.op
    /\ Holds(s) = Holds(r) + h
    /\ \A n \in Nat : n + k \in Nat /\ Lines(r, n) => Lines(s, n + k)

LEMMA FitTyped == ASSUME NEW r, Fit(r) PROVE r \in Caller
  BY DEF Fit

-----------------------------------------------------------------------------
(* What a caller may be after each step of its own.                         *)

LEMMA AskMoves ==
    ASSUME NEW r, Fit(r), r.pc = "start", r.op \in RunnerOps, ProcessFits
    PROVE  /\ Moved(r, [r EXCEPT !.pc = "over", !.result = "CANCELLED"], 0, 0)
           /\ adapter = "bigquery" => Moved(r, [r EXCEPT !.pc = "between"], 0, 0)
           /\ adapter # "bigquery" => Moved(r, [r EXCEPT !.pc = "asking"], 0, 1)
  <1> DEFINE t == [r EXCEPT !.pc = "over", !.result = "CANCELLED"]
             u == [r EXCEPT !.pc = "between"]
             v == [r EXCEPT !.pc = "asking"]
  <1>1. t \in Caller /\ u \in Caller /\ v \in Caller
    BY FitTyped, SetField, Names
  <1>2. Fit(t)
    BY <1>1, FitTyped, CallerIs DEF Fit, CallFits, LockFits, BatchFits, StepsFit, Inside
  <1>3. adapter = "bigquery" => Fit(u)
    BY <1>1, FitTyped, CallerIs DEF Fit, CallFits, LockFits, BatchFits, StepsFit, Inside
  <1>4. adapter # "bigquery" => Fit(v)
    BY <1>1, FitTyped, CallerIs DEF Fit, CallFits, LockFits, BatchFits, StepsFit, Inside
  <1>5. Holds(t) = Holds(r) + 0 /\ Holds(u) = Holds(r) + 0 /\ Holds(v) = Holds(r) + 0
    BY FitTyped, CallerIs DEF Holds, HoldsClient, HoldsJob, BatchHolds
  <1>6. \A n \in Nat : Lines(r, n) => Lines(t, n) /\ Lines(u, n) /\ Lines(v, n + 1)
    BY FitTyped, CallerIs DEF Lines, Fit, CallFits, LockFits, BatchFits, Inside
  <1> QED BY <1>1, <1>2, <1>3, <1>4, <1>5, <1>6 DEF Moved

\* The head of the line gets a client, or a turn.
LEMMA ConnectMoves ==
    ASSUME NEW r, Fit(r), ProcessFits, NEW m \in Nat, Lines(r, m), m > 0
    PROVE  Moved(r, IF r.pc = "asking"
                    THEN [r EXCEPT !.pc = "between", !.lock = "whole"]
                    ELSE IF r.call = "queued"
                    THEN [r EXCEPT !.call = "creating", !.onCancel = "registered"]
                    ELSE [r EXCEPT !.running = @ + 1], 1, -1)
  <1> DEFINE t == [r EXCEPT !.pc = "between", !.lock = "whole"]
             u == [r EXCEPT !.call = "creating", !.onCancel = "registered"]
             v == [r EXCEPT !.running = @ + 1]
  <1>1. t \in Caller /\ u \in Caller /\ v \in Caller
    <2>1. r \in Caller /\ r.running \in Nat
      BY FitTyped, FieldsTyped
    <2>2. t \in Caller
      BY <2>1, SetField, Names
    <2>3. u \in Caller
      BY <2>1, SetField, Names
    <2>4. \A x \in Nat : [r EXCEPT !.running = x] \in Caller
      BY <2>1, SetField
    <2> QED BY <2>1, <2>2, <2>3, <2>4
  <1>2. CASE r.pc = "asking"
    <2>0. adapter # "bigquery"
      BY <1>2 DEF Fit, LockFits
    <2>1. Fit(t)
      BY <1>1, <1>2, <2>0, FitTyped, CallerIs
         DEF Fit, CallFits, LockFits, BatchFits, StepsFit, Inside
    <2>2. Holds(t) = Holds(r) + 1
      BY <1>2, <2>0, FitTyped, CallerIs
         DEF Fit, LockFits, BatchFits, Inside, Holds, HoldsClient, HoldsJob, BatchHolds
    <2>3. \A n \in Nat : n + -1 \in Nat /\ Lines(r, n) => Lines(t, n + -1)
      BY <1>2, <2>0, FitTyped, CallerIs DEF Lines, Fit, CallFits
    <2> QED BY <1>2, <2>1, <2>2, <2>3 DEF Moved
  <1>3. CASE r.pc # "asking" /\ r.call = "queued"
    <2>0. r.pc = "executing" /\ adapter = "bigquery"
      BY <1>3 DEF Fit, CallFits
    <2>1. Fit(u)
      BY <1>1, <1>3, <2>0, FitTyped, CallerIs
         DEF Fit, CallFits, LockFits, BatchFits, StepsFit, Inside
    <2>2. Holds(u) = Holds(r) + 1
      BY <1>3, <2>0, FitTyped, CallerIs
         DEF Fit, LockFits, BatchFits, Inside, Holds, HoldsClient, HoldsJob, BatchHolds
    <2>3. \A n \in Nat : n + -1 \in Nat /\ Lines(r, n) => Lines(u, n + -1)
      BY <1>3, <2>0, FitTyped, CallerIs DEF Lines, Fit, CallFits
    <2> QED BY <1>3, <2>1, <2>2, <2>3 DEF Moved
  <1>4. CASE r.pc # "asking" /\ r.call # "queued"
    <2>0. /\ r.pc \in {"batch", "over"} /\ r.batches # <<>>
          /\ Head(r.batches).via = "pool" /\ r.running \in Nat /\ r.left \in Nat
      <3>1. r.pc \in {"batch", "over"}
        BY <1>4 DEF Lines
      <3>2. r.running \in Nat /\ r.left \in Nat /\ r.batches # <<>>
        BY <3>1, FitTyped, CallerIs DEF Fit, BatchFits, Lines
      <3>3. Head(r.batches).via \in {"pool", "api"}
        BY <3>2, FitTyped, FieldsTyped, BatchTyped
      <3> QED BY <3>1, <3>2, <3>3 DEF Lines
    <2>1. Fit(v)
      BY <1>1, <1>4, <2>0, FitTyped, CallerIs
         DEF Fit, CallFits, LockFits, BatchFits, StepsFit, Inside
    <2>2. Holds(v) = Holds(r) + 1
      BY <1>4, <2>0, FitTyped, CallerIs
         DEF Fit, LockFits, BatchFits, Inside, Holds, HoldsClient, HoldsJob, BatchHolds
    <2>3. \A n \in Nat : n + -1 \in Nat /\ Lines(r, n) => Lines(v, n + -1)
      BY <1>4, <2>0, FitTyped, CallerIs DEF Lines, Fit, CallFits
    <2> QED BY <1>4, <2>1, <2>2, <2>3 DEF Moved
  <1> QED BY <1>2, <1>3, <1>4

\* A call of a batch is rejected, be it that it got no client (k = -1) or that
\* it had one (then `running` is one less before).
LEMMA RejectedFits ==
    ASSUME NEW r, Fit(r), r.pc = "batch" => r.left > r.running
    PROVE  /\ Fit(Rejected(r)) /\ Rejected(r).op = r.op
           /\ Holds(Rejected(r)) = Holds(r)
  <1> DEFINE t == [r EXCEPT !.left = @ - 1]
             u == [r EXCEPT !.pc = "over", !.left = 0, !.result = "FAILED"]
  <1>1. /\ r.running \in Nat /\ r.left \in Nat
        /\ r.pc = "batch" => t \in Caller
        /\ u \in Caller
    <2>1. r \in Caller /\ r.running \in Nat /\ r.left \in Nat
      BY FitTyped, FieldsTyped
    <2>2. \A q \in Caller : \A x \in Nat : [q EXCEPT !.left = x] \in Caller
      BY SetField
    <2>3. r.pc = "batch" => t \in Caller
      BY <2>1, <2>2
    <2>4. [r EXCEPT !.pc = "over"] \in Caller
      BY <2>1, SetField, Names
    <2>5. [r EXCEPT !.pc = "over", !.left = 0] \in Caller
      BY <2>2, <2>4
    <2>6. u \in Caller
      BY <2>5, SetField, Names
    <2> QED BY <2>1, <2>3, <2>6
  <1>2. r.pc = "batch" => Fit(t)
    BY <1>1, FitTyped, CallerIs DEF Fit, CallFits, LockFits, BatchFits, StepsFit
  <1>3. r.pc = "batch" => Fit(u)
    BY <1>1, FitTyped, CallerIs DEF Fit, CallFits, LockFits, BatchFits, StepsFit, Inside
  <1>4. Holds(t) = Holds(r) /\ Holds(u) = Holds(r)
    BY FitTyped, CallerIs DEF Holds, HoldsClient, HoldsJob, BatchHolds
  <1>5. t.op = r.op /\ u.op = r.op
    BY FitTyped, CallerIs
  <1> QED BY <1>2, <1>3, <1>4, <1>5 DEF Rejected

LEMMA ConnectFailsMoves ==
    ASSUME NEW r, Fit(r), ProcessFits, adapter # "bigquery",
           NEW m \in Nat, Lines(r, m), m > 0
    PROVE  Moved(r, IF r.pc = "asking"
                    THEN [r EXCEPT !.pc = "over", !.result = "FAILED"]
                    ELSE Rejected(r), 0, -1)
  <1>0. r.pc \in {"asking", "batch", "over"} /\ r.call = "none"
    BY DEF Lines, Fit, CallFits
  <1>1. CASE r.pc = "asking"
    <2> DEFINE t == [r EXCEPT !.pc = "over", !.result = "FAILED"]
    <2>1. t \in Caller
      BY FitTyped, FieldsTyped, SetField, Names
    <2>2. Fit(t)
      BY <1>1, <2>1, FitTyped, CallerIs
         DEF Fit, CallFits, LockFits, BatchFits, StepsFit, Inside
    <2>3. Holds(t) = Holds(r) + 0
      BY <1>1, FitTyped, CallerIs DEF Holds, HoldsClient, HoldsJob, BatchHolds
    <2>4. \A n \in Nat : n + -1 \in Nat /\ Lines(r, n) => Lines(t, n + -1)
      BY <1>0, <1>1, FitTyped, CallerIs DEF Lines
    <2> QED BY <1>1, <2>1, <2>2, <2>3, <2>4 DEF Moved
  <1>2. CASE r.pc # "asking"
    <2>0. r.running \in Nat /\ r.left \in Nat /\ Holds(r) \in Int
      BY FitTyped, CallerIs DEF Holds, BatchHolds
    <2>1. r.pc = "batch" => r.left > r.running
      BY <2>0 DEF Lines
    <2>2. Fit(Rejected(r)) /\ Rejected(r).op = r.op /\ Holds(Rejected(r)) = Holds(r) + 0
      BY <2>0, <2>1, RejectedFits
    <2>3. \A n \in Nat : n + -1 \in Nat /\ Lines(r, n) => Lines(Rejected(r), n + -1)
      <3> DEFINE t == [r EXCEPT !.left = @ - 1]
                 u == [r EXCEPT !.pc = "over", !.left = 0, !.result = "FAILED"]
      <3>1. \A n \in Nat : n + -1 \in Nat /\ Lines(r, n) => Lines(t, n + -1)
        BY <1>0, <1>2, <2>0, FitTyped, CallerIs DEF Lines
      <3>2. /\ r.pc = "batch" => r.batches # <<>> /\ Head(r.batches).via \in {"pool", "api"}
            /\ u.pc = "over" /\ u.call = "none" /\ u.batches = r.batches
        <4>2. r.pc = "batch" => r.batches # <<>>
          BY DEF Fit, BatchFits
        <4>3. r.pc = "batch" => Head(r.batches).via \in {"pool", "api"}
          BY <4>2, FitTyped, FieldsTyped, BatchTyped
        <4> QED BY <1>0, <4>2, <4>3, FitTyped, CallerIs
      <3>3. ASSUME r.pc = "batch" 
            PROVE  \A n \in Nat : n + -1 \in Nat /\ Lines(r, n) => Lines(u, n + -1)
        BY <3>2, <3>3 DEF Lines
      <3> HIDE DEF t, u
      <3>4. r.pc # "batch" => Rejected(r) = r
        BY DEF Rejected
      <3>5. r.pc = "batch" => Rejected(r) \in {t, u}
        BY DEF Rejected, t, u
      <3>6. ASSUME r.pc # "batch"
            PROVE  \A n \in Nat : n + -1 \in Nat /\ Lines(r, n) => Lines(r, n + -1)
        BY <1>0, <1>2, <3>6 DEF Lines
      <3> QED BY <3>1, <3>3, <3>4, <3>5, <3>6
    <2> QED BY <1>2, <2>2, <2>3 DEF Moved
  <1> QED BY <1>1, <1>2

-----------------------------------------------------------------------------
(* The calls of the tasks.                                                 *)

\* An attempt at a task queues for a job, is sent, or is refused on a client
\* that was given back.
LEMMA ExecuteMoves ==
    ASSUME NEW r, Fit(r), ProcessFits, r.pc \in {"between", "executing"},
           r.call \in {"none", "rejected"}, r.task < Tasks,
           r.attempt < MaxAttempts
    PROVE  Moved(r, Execute(r), 0, IF adapter = "bigquery" THEN 1 ELSE 0)
  <1> DEFINE s == Execute(r)
             n == r.attempt + 1
             jobs == IF adapter = "bigquery" THEN 1 ELSE 0
             on == IF adapter = "postgres" THEN "registered" ELSE "none"
             m == IF r.released \/ adapter = "bigquery" THEN r.sent
                  ELSE r.sent + 1
             call == IF adapter = "bigquery" THEN "queued"
                     ELSE IF r.released THEN "rejected" ELSE "running"
  <1>1. /\ r \in Caller /\ r.attempt \in Nat /\ r.sent \in Nat
        /\ r.sent <= r.attempt
    BY Constants, FitTyped, FieldsTyped DEF Attempts, Fit, CallFits
  <1>2. s = [r EXCEPT !.pc = "executing", !.attempt = n, !.jobs = jobs,
                      !.onCancel = on, !.sent = m, !.call = call]
    BY DEF Execute
  <1>3. s \in Caller
    <2>1. n \in Attempts /\ m \in Attempts
      BY <1>1, Constants DEF Attempts, MaxAttempts
    <2>2. jobs \in JobAttempts /\ on \in Registering /\ call \in Calling
      BY DEF JobAttempts, JOB_MAX_ATTEMPTS, Registering, Calling
    <2> HIDE DEF s, n, m, jobs, on, call
    <2> QED BY <1>1, <1>2, <2>1, <2>2, CallerIs, Names
  <1>4. CallFits(s) /\ LockFits(s)
    BY <1>1, <1>2, CallerIs DEF ProcessFits, Fit, CallFits, LockFits, Inside
  <1>5. BatchFits(s) /\ StepsFit(s) /\ s.op = r.op
    BY <1>1, <1>2, CallerIs DEF Fit, BatchFits, StepsFit
  <1>6. Holds(s) = Holds(r) + 0
    BY <1>1, <1>2, CallerIs DEF Holds, HoldsClient, HoldsJob, BatchHolds, Fit, CallFits
  <1>7. \A k \in Nat : Lines(r, k) =>
            Lines(s, k + (IF adapter = "bigquery" THEN 1 ELSE 0))
    BY <1>1, <1>2, CallerIs DEF Lines
  <1>8. Fit(s)
    BY <1>3, <1>4, <1>5 DEF Fit
  <1>9. CASE adapter = "bigquery"
    BY <1>5, <1>6, <1>7, <1>8, <1>9 DEF Moved
  <1>10. CASE adapter # "bigquery"
    BY <1>5, <1>6, <1>7, <1>8, <1>10 DEF Moved
  <1> QED BY <1>9, <1>10

LEMMA NextTaskMoves ==
    ASSUME NEW r, Fit(r), ProcessFits, r.pc = "between"
    PROVE  /\ r.task < Tasks =>
                Moved(r, Execute([r EXCEPT !.attempt = 0, !.sent = 0]), 0,
                      IF adapter = "bigquery" THEN 1 ELSE 0)
           /\ Moved(r, [r EXCEPT !.task = Tasks, !.pc = "leaving"], 0, 0)
  <1> DEFINE t == [r EXCEPT !.attempt = 0, !.sent = 0]
             u == [r EXCEPT !.task = Tasks, !.pc = "leaving"]
  <1>1. /\ r \in Caller /\ r.task \in 0..Tasks /\ r.done \in 0..Tasks
        /\ r.call = "none"
    BY FitTyped, FieldsTyped DEF TaskCounts, Fit, CallFits
  <1>2. t \in Caller /\ u \in Caller
    BY <1>1, SetField, Names
  <1>3. Fit(t)
    BY <1>1, <1>2, CallerIs DEF Fit, CallFits, LockFits, BatchFits, StepsFit
  <1>4. Fit(u)
    BY <1>1, <1>2, CallerIs, Constants
       DEF Fit, CallFits, LockFits, BatchFits, StepsFit, Inside
  <1>5. Holds(t) = Holds(r) /\ Holds(u) = Holds(r) + 0 /\ t.op = r.op
    BY <1>1, CallerIs DEF Holds, HoldsClient, HoldsJob, BatchHolds
  <1>6. \A k \in Nat : Lines(r, k) => Lines(t, k) /\ Lines(u, k)
    BY <1>1, CallerIs DEF Lines
  <1>7. ASSUME r.task < Tasks
        PROVE  Moved(r, Execute(t), 0, IF adapter = "bigquery" THEN 1 ELSE 0)
    <2>1. /\ t.pc = "between" /\ t.call = "none" /\ t.task < Tasks
          /\ t.attempt < MaxAttempts
      BY <1>1, <1>7, CallerIs, Constants DEF MaxAttempts
    <2>2. Moved(t, Execute(t), 0, IF adapter = "bigquery" THEN 1 ELSE 0)
      BY <1>3, <2>1, ExecuteMoves
    <2> HIDE DEF t
    <2> QED BY <1>5, <1>6, <2>2 DEF Moved
  <1>8. Moved(r, u, 0, 0)
    <2>1. u.op = r.op
      BY <1>1, CallerIs
    <2> HIDE DEF u
    <2> QED BY <1>4, <1>5, <1>6, <2>1 DEF Moved
  <1> QED BY <1>7, <1>8

LEMMA SettleMoves ==
    ASSUME NEW r, Fit(r), ProcessFits, r.pc = "executing",
           r.call \in {"ended", "rejected"}
    PROVE  Moved(r, [r EXCEPT !.pc = "between", !.task = @ + 1, !.call = "none",
                              !.onCancel = "none",
                              !.done = IF r.call = "ended" THEN @ + 1 ELSE @,
                              !.result = IF r.call = "ended" THEN @
                                         ELSE IF cancelled THEN "CANCELLED"
                                         ELSE "FAILED"], 0, 0)
  <1> DEFINE done == IF r.call = "ended" THEN r.done + 1 ELSE r.done
             result == IF r.call = "ended" THEN r.result
                       ELSE IF cancelled THEN "CANCELLED" ELSE "FAILED"
             s == [r EXCEPT !.pc = "between", !.task = r.task + 1, !.call = "none",
                            !.onCancel = "none", !.done = done, !.result = result]
  <1>1. /\ r \in Caller /\ r.task \in Nat /\ r.done \in Nat
        /\ r.task < Tasks /\ r.done <= r.task /\ Tasks \in Nat
    BY FitTyped, FieldsTyped, Constants DEF TaskCounts, Fit, CallFits
  <1>2. r.task + 1 \in TaskCounts /\ done \in TaskCounts /\ result \in Results
    BY <1>1, FieldsTyped, Names DEF TaskCounts
  <1>3. s \in Caller
    <2> HIDE DEF done, result
    <2> QED BY <1>1, <1>2, CallerIs, Names
  <1>4. Fit(s)
    BY <1>1, <1>3, CallerIs DEF Fit, CallFits, LockFits, BatchFits, StepsFit, Inside
  <1>5. Holds(s) = Holds(r) + 0 /\ s.op = r.op
    BY <1>1, CallerIs DEF Holds, HoldsClient, HoldsJob, BatchHolds
  <1>6. \A k \in Nat : Lines(r, k) => Lines(s, k)
    BY <1>1, CallerIs DEF Lines
  <1> QED BY <1>4, <1>5, <1>6 DEF Moved

\* A client is given back, by the error or by the cancellation.
LEMMA GivenBackMoves ==
    ASSUME NEW r, Fit(r), ProcessFits, r.lock = "whole",
           NEW lock \in {"whole", "lost"}, NEW call \in {"rejected", r.call},
           call # "running", call = "rejected" => r.pc = "executing"
    PROVE  Moved(r, [r EXCEPT !.lock = lock, !.released = TRUE, !.call = call],
                 IF r.released THEN 0 ELSE -1, 0)
  <1> DEFINE s == [r EXCEPT !.lock = lock, !.released = TRUE, !.call = call]
  <1>1. /\ r \in Caller /\ call \in Calling /\ lock \in Locks /\ r.released \in BOOLEAN
        /\ adapter # "bigquery" /\ r.pc \in Inside
    BY FitTyped, FieldsTyped, Names DEF Fit, LockFits
  <1>2. s \in Caller
    BY <1>1, SetField
  <1>3. Fit(s)
    BY <1>1, <1>2, CallerIs DEF Fit, CallFits, LockFits, BatchFits, StepsFit, Inside
  <1>4. Holds(s) = Holds(r) + (IF r.released THEN 0 ELSE -1)
    BY <1>1, CallerIs DEF Holds, HoldsClient, HoldsJob, BatchHolds
  <1>5. \A k \in Nat : Lines(r, k) => Lines(s, k)
    BY <1>1, CallerIs DEF Lines, Inside, Fit, CallFits
  <1>6. s.op = r.op
    BY <1>1, CallerIs
  <1> QED
    <2> HIDE DEF s
    <2>1. Moved(r, s, IF r.released THEN 0 ELSE -1, 0)
      BY <1>3, <1>4, <1>5, <1>6 DEF Moved
    <2> QED BY <2>1 DEF s

\* A call under way moves on; the client or the place of a job it gives back
\* with that, if any, is one.
LEMMA CallMoves ==
    ASSUME NEW r, Fit(r), ProcessFits, r.pc = "executing", r.call # "queued",
           NEW call \in {"creating", "running", "checking", "ended", "rejected"},
           adapter # "bigquery" => call \in {"ended", "rejected"},
           NEW sent \in {r.sent, r.attempt}, NEW jobs \in JobAttempts
    PROVE  Moved(r, [r EXCEPT !.call = call, !.sent = sent, !.jobs = jobs],
                 IF HoldsJob(r) /\ call \in {"ended", "rejected"} THEN -1
                 ELSE IF ~HoldsJob(r) /\ adapter = "bigquery"
                         /\ call \notin {"ended", "rejected"} THEN 1 ELSE 0, 0)
  <1> DEFINE s == [r EXCEPT !.call = call, !.sent = sent, !.jobs = jobs]
             h == IF HoldsJob(r) /\ call \in {"ended", "rejected"} THEN -1
                  ELSE IF ~HoldsJob(r) /\ adapter = "bigquery"
                          /\ call \notin {"ended", "rejected"} THEN 1 ELSE 0
  <1>1. /\ r \in Caller /\ call \in Calling /\ sent \in Attempts
        /\ r.sent \in Nat /\ r.attempt \in Nat
    BY FitTyped, FieldsTyped, Names, Constants DEF Attempts
  <1>2. s \in Caller
    <2>1. [r EXCEPT !.call = call] \in Caller
      BY <1>1, SetField
    <2>2. [r EXCEPT !.call = call, !.sent = sent] \in Caller
      BY <1>1, <2>1, SetField
    <2> QED BY <2>2, SetField
  <1>3. Fit(s)
    <2>1. CallFits(s)
      BY <1>1, <1>2, CallerIs DEF Fit, CallFits
    <2>2. LockFits(s)
      BY <1>1, <1>2, CallerIs DEF Fit, LockFits, Inside
    <2>3. BatchFits(s) /\ StepsFit(s)
      BY <1>1, <1>2, CallerIs DEF Fit, BatchFits, StepsFit
    <2> QED BY <1>2, <2>1, <2>2, <2>3 DEF Fit
  <1>4. Holds(s) = Holds(r) + h
    BY <1>1, CallerIs DEF Holds, HoldsClient, HoldsJob, BatchHolds
  <1>5. \A k \in Nat : Lines(r, k) => Lines(s, k)
    BY <1>1, CallerIs DEF Lines
  <1>6. s.op = r.op
    BY <1>1, CallerIs
  <1>7. Moved(r, s, h, 0)
    <2> HIDE DEF s, h
    <2> QED BY <1>3, <1>4, <1>5, <1>6 DEF Moved
  <1> QED BY <1>7

\* An event that reaches a call: the client or the job's place is given back
\* if the call is at work.
LEMMA StrikeMoves ==
    ASSUME NEW r, Fit(r), ProcessFits
    PROVE  Moved(r, Strike(r),
                 IF r.onCancel = "registered" /\ r.call \in {"running", "checking"}
                 THEN -1 ELSE 0, 0)
  <1> DEFINE hit == r.onCancel = "registered" /\ r.call \in {"running", "checking"}
             call == IF r.call \in {"running", "checking"} THEN "rejected"
                     ELSE r.call
             released == r.released \/ (adapter = "postgres" /\ r.call = "running")
             s == [r EXCEPT !.onCancel = "called", !.call = call,
                            !.released = released]
  <1>1. /\ r \in Caller /\ call \in Calling /\ released \in BOOLEAN
        /\ r.released \in BOOLEAN /\ Holds(r) \in Int
    BY FitTyped, FieldsTyped, Names DEF Holds, BatchHolds
  <1>2. CASE r.onCancel # "registered" \/ r.call \in {"ended", "rejected"}
    <2>1. Strike(r) = r /\ ~hit
      BY <1>2 DEF Strike
    <2>2. Moved(r, r, 0, 0)
      BY <1>1 DEF Moved
    <2> QED BY <2>1, <2>2
  <1>3. CASE ~(r.onCancel # "registered" \/ r.call \in {"ended", "rejected"})
    <2>1. Strike(r) = s
      BY <1>3, Zenon DEF Strike
    <2>2. s \in Caller
      <3> HIDE DEF call, released
      <3> QED BY <1>1, SetField, Names
    <2>3. /\ s.pc = r.pc /\ s.onCancel = "called" /\ s.call = call
          /\ s.released = released /\ s.lock = r.lock /\ s.op = r.op
          /\ s.running = r.running /\ s.batches = r.batches /\ s.left = r.left
          /\ s.task = r.task /\ s.done = r.done /\ s.sent = r.sent
          /\ s.attempt = r.attempt /\ s.steps = r.steps /\ s.own = r.own
      <3> HIDE DEF call, released
      <3> QED BY <1>1, CallerIs
    <2>4. /\ r.pc = "executing" /\ adapter \in {"postgres", "bigquery"}
          /\ r.call \in {"creating", "running", "checking"}
      BY <1>1, <1>3, FieldsTyped, Constants DEF ProcessFits, Fit, CallFits, Calling
    <2> HIDE DEF s
    <2>5. Fit(s)
      <3>1. CallFits(s)
        BY <2>3, <2>4 DEF Fit, CallFits
      <3>2. LockFits(s)
        BY <2>3, <2>4 DEF Fit, LockFits, Inside, CallFits
      <3>3. BatchFits(s) /\ StepsFit(s)
        BY <2>3, <2>4 DEF Fit, BatchFits, StepsFit
      <3> QED BY <2>2, <3>1, <3>2, <3>3 DEF Fit
    <2>6. BatchHolds(s) = BatchHolds(r) /\ BatchHolds(r) \in Int
      BY <1>1, <2>3, FieldsTyped DEF BatchHolds
    <2>7. Holds(s) = Holds(r) + (IF hit THEN -1 ELSE 0)
      <3>1. CASE adapter = "postgres"
        <4>1. r.call = "running" /\ hit /\ s.released
          BY <1>3, <2>3, <2>4, <3>1 DEF Fit, CallFits
        <4>2. HoldsClient(r) /\ ~HoldsClient(s)
          BY <2>3, <2>4, <3>1, <4>1 DEF HoldsClient, Fit, LockFits, Inside
        <4>3. ~HoldsJob(r) /\ ~HoldsJob(s)
          BY <3>1 DEF HoldsJob
        <4> QED BY <2>6, <4>1, <4>2, <4>3 DEF Holds
      <3>2. CASE adapter = "bigquery"
        BY <1>3, <2>3, <2>4, <2>6, <3>2
           DEF Holds, HoldsClient, HoldsJob, Fit, LockFits
      <3> QED BY <2>4, <3>1, <3>2
    <2>8. \A k \in Nat : Lines(r, k) => Lines(s, k)
      BY <2>3, <2>4 DEF Lines
    <2> QED BY <2>1, <2>3, <2>5, <2>7, <2>8 DEF Moved
  <1> QED BY <1>2, <1>3

-----------------------------------------------------------------------------
(* Extracts, exports and imports.                                          *)

\* What is left of the steps behind the first one is in order as well, and
\* begins with the step that follows it.
LEMMA TailOrdered ==
    ASSUME NEW q \in StepSeqs, Ordered(q), q # <<>>
    PROVE  /\ Tail(q) \in StepSeqs /\ Ordered(Tail(q))
           /\ Len(q) = 1 => Tail(q) = <<>> /\ Head(q) \in Closers
           /\ Len(q) # 1 => /\ Tail(q) # <<>> /\ Len(q) > 1
                            /\ Follows(Head(q), Head(Tail(q)))
  <1> DEFINE t == Tail(q)
  <1>1. q \in Seq(Step) /\ Len(q) \in Nat /\ Len(q) >= 1 /\ Head(q) = q[1]
    BY DEF StepSeqs
  <1>2. /\ t \in Seq(Step) /\ Len(t) = Len(q) - 1
        /\ \A i \in 1..(Len(q) - 1) : t[i] = q[i + 1]
    BY <1>1
  <1>3. t # <<>> => Head(t) = t[1]
    BY <1>2
  <1>4. Len(t) = 0 <=> t = <<>>
    BY <1>2, EmptyIs
  <1>5. \A i \in 1..Len(q) :
            IF i = Len(q) THEN q[i] \in Closers ELSE Follows(q[i], q[i + 1])
    BY DEF Ordered
  <1> HIDE DEF t
  <1>6. Ordered(t)
    <2> SUFFICES ASSUME NEW i \in 1..Len(t)
                 PROVE  IF i = Len(t) THEN t[i] \in Closers
                        ELSE Follows(t[i], t[i + 1])
      BY DEF Ordered
    <2>1. i + 1 \in 1..Len(q) /\ i \in 1..(Len(q) - 1) /\ t[i] = q[i + 1]
      BY <1>1, <1>2
    <2>2. CASE i = Len(t)
      BY <1>1, <1>2, <1>5, <2>1, <2>2
    <2>3. CASE i # Len(t)
      <3>1. i + 1 # Len(q) /\ i + 1 \in 1..(Len(q) - 1) /\ t[i + 1] = q[(i + 1) + 1]
        BY <1>1, <1>2, <2>1, <2>3
      <3> QED BY <1>5, <2>1, <2>3, <3>1
    <2> QED BY <2>2, <2>3
  <1>7. Len(q) = 1 => t = <<>> /\ Head(q) \in Closers
    BY <1>1, <1>2, <1>4, <1>5
  <1>8. Len(q) # 1 => /\ t # <<>> /\ Len(q) > 1
                      /\ Follows(Head(q), Head(t))
    <2> SUFFICES ASSUME Len(q) # 1
                 PROVE  t # <<>> /\ Len(q) > 1 /\ Follows(Head(q), Head(t))
      OBVIOUS
    <2>1. Len(q) > 1 /\ t # <<>> /\ Head(t) = q[1 + 1]
      BY <1>1, <1>2, <1>3, <1>4
    <2>2. Follows(q[1], q[1 + 1])
      BY <1>1, <1>5, <2>1
    <2> QED BY <1>1, <2>1, <2>2
  <1> QED BY <1>2, <1>6, <1>7, <1>8 DEF t, StepSeqs

\* From the wait for a slot, or at once, to work, or past it.
LEMMA AcquireMoves ==
    ASSUME NEW r, Fit(r), ProcessFits, r.pc \in {"between", "slot"}
    PROVE  /\ r.steps # <<>> => Moved(r, [r EXCEPT !.pc = "stepping"], 0, 0)
           /\ r.op = "extract" /\ r.steps # <<>> =>
                 Moved(r, [r EXCEPT !.pc = "slot"], 0, 0)
           /\ Moved(r, [r EXCEPT !.pc = "leaving"], 0, 0)
           /\ Moved(r, [r EXCEPT !.pc = "leaving", !.steps = <<>>, !.task = Tasks,
                                 !.result = "FAILED"], 0, 0)
  <1> DEFINE t == [r EXCEPT !.pc = "stepping"]
             u == [r EXCEPT !.pc = "slot"]
             v == [r EXCEPT !.pc = "leaving"]
             w == [r EXCEPT !.pc = "leaving", !.steps = <<>>, !.task = Tasks,
                            !.result = "FAILED"]
  <1>1. /\ r \in Caller /\ r.call = "none" /\ r.done \in 0..Tasks /\ Tasks \in Nat
        /\ r.running = 0
    BY FitTyped, FieldsTyped, Constants DEF TaskCounts, Fit, CallFits, BatchFits
  <1>2. t \in Caller /\ u \in Caller /\ v \in Caller
    BY <1>1, SetField, Names
  <1>3. w \in Caller
    BY <1>1, SetField, Names
  <1> DEFINE Alike(s) ==
            /\ s.call = "none" /\ s.lock = r.lock /\ s.released = r.released
            /\ s.onCancel = r.onCancel /\ s.running = 0 /\ s.op = r.op
            /\ s.sent = r.sent /\ s.attempt = r.attempt /\ s.done = r.done
            /\ s.own = r.own
            /\ s.pc \in {"stepping", "slot", "leaving"}
            /\ s.task \in {r.task, Tasks}
  <1>41. Alike(t) /\ Alike(u)
    BY <1>1, CallerIs
  <1>42. Alike(v)
    BY <1>1, CallerIs
  <1>43. Alike(w)
    BY <1>1, CallerIs
  <1>4. \A s \in {t, u, v, w} : Alike(s)
    BY <1>41, <1>42, <1>43
  <1>5. /\ t.pc = "stepping" /\ t.steps = r.steps
        /\ u.pc = "slot" /\ u.steps = r.steps
        /\ v.pc = "leaving" /\ v.steps = r.steps
        /\ w.pc = "leaving" /\ w.steps = <<>>
    BY <1>1, CallerIs
  <1>6. r.own = {} /\ Ordered(r.steps) /\ (r.steps # <<>> => Head(r.steps) \in Openers)
    BY DEF Fit, StepsFit
  <1>7. Ordered(<<>>)
    BY DEF Ordered
  <1>8. /\ r.steps # <<>> => StepsFit(t)
        /\ r.op = "extract" /\ r.steps # <<>> => StepsFit(u)
        /\ StepsFit(v) /\ StepsFit(w)
    BY <1>4, <1>5, <1>6, <1>7 DEF StepsFit, OwnAt, Openers
  <1> HIDE DEF t, u, v, w
  <1>9. ASSUME NEW s \in {t, u, v, w}, StepsFit(s)
        PROVE  Moved(r, s, 0, 0)
    <2>1. CallFits(s)
      BY <1>1, <1>4 DEF Fit, CallFits
    <2>2. LockFits(s) /\ BatchFits(s)
      BY <1>1, <1>4 DEF Fit, LockFits, BatchFits, Inside
    <2>3. Fit(s)
      BY <1>2, <1>3, <1>9, <2>1, <2>2 DEF Fit
    <2>4. Holds(s) = Holds(r) + 0
      BY <1>1, <1>4 DEF Holds, HoldsClient, HoldsJob, BatchHolds
    <2>5. \A k \in Nat : Lines(r, k) => Lines(s, k)
      BY <1>1, <1>4 DEF Lines
    <2> QED BY <1>4, <2>3, <2>4, <2>5 DEF Moved
  <1> QED BY <1>8, <1>9 DEF t, u, v, w

\* A step succeeds, and what is open is what the next one works with.
LEMMA StepEndsMoves ==
    ASSUME NEW r, Fit(r), ProcessFits, r.pc = "stepping"
    PROVE  LET next == [r EXCEPT !.steps = Tail(@),
                                 !.own = (@ \union Opens(Head(r.steps))) \ Closes(r)]
           IN  IF Len(r.steps) > 1 THEN Moved(r, next, 0, 0)
               ELSE Moved(r, [next EXCEPT !.pc = "leaving", !.task = Tasks], 0, 0)
  <1> DEFINE q == r.steps
             own == (r.own \union Opens(Head(q))) \ Closes(r)
             next == [r EXCEPT !.steps = Tail(q), !.own = own]
             last == [next EXCEPT !.pc = "leaving", !.task = Tasks]
  <1>1. /\ r \in Caller /\ r.call = "none" /\ r.done \in 0..Tasks /\ Tasks \in Nat
        /\ r.running = 0 /\ q \in StepSeqs /\ q # <<>> /\ Ordered(q)
        /\ r.own = OwnAt(Head(q)) /\ r.own \in Owned
    BY FitTyped, FieldsTyped, Constants
       DEF TaskCounts, Fit, CallFits, BatchFits, StepsFit
  <1>2. own \in Owned
    BY <1>1 DEF Owned, Opens, Openers
  <1>3. /\ Tail(q) \in StepSeqs /\ Ordered(Tail(q))
        /\ Len(q) = 1 => Tail(q) = <<>> /\ Head(q) \in Closers
        /\ Len(q) # 1 => /\ Tail(q) # <<>> /\ Len(q) > 1
                         /\ Follows(Head(q), Head(Tail(q)))
    BY <1>1, TailOrdered
  <1>4. Len(q) # 1 => own = OwnAt(Head(Tail(q)))
    BY <1>1, <1>3 DEF OwnAt, Opens, Closes, Follows
  <1>5. Len(q) = 1 => own = {}
    BY <1>1, <1>3 DEF OwnAt, Opens, Closes, Closers
  <1> HIDE DEF own
  <1>6. next \in Caller /\ last \in Caller
    <2>1. next \in Caller
      BY <1>1, <1>2, <1>3, SetField
    <2> HIDE DEF next
    <2> QED BY <2>1, SetField, Names
  <1> DEFINE Alike(s) ==
            /\ s.call = "none" /\ s.lock = r.lock /\ s.released = r.released
            /\ s.onCancel = r.onCancel /\ s.running = 0 /\ s.op = r.op
            /\ s.sent = r.sent /\ s.attempt = r.attempt /\ s.done = r.done
            /\ s.own = own /\ s.steps = Tail(q)
            /\ s.pc \in {"stepping", "leaving"}
            /\ s.task \in {r.task, Tasks}
  <1>7. \A s \in {next, last} : Alike(s)
    <2>1. Alike(next)
      BY <1>1, CallerIs
    <2>2. Alike(last)
      BY <1>1, CallerIs
    <2> QED BY <2>1, <2>2
  <1>8. next.pc = "stepping" /\ last.pc = "leaving"
    BY <1>1, CallerIs
  <1>9. /\ Len(q) # 1 => StepsFit(next)
        /\ Len(q) = 1 => StepsFit(last)
    BY <1>3, <1>4, <1>5, <1>7, <1>8 DEF StepsFit
  <1>10. (Len(q) > 1) <=> (Len(q) # 1)
    <2>1. Len(q) = 1 => ~(Len(q) > 1)
      OBVIOUS
    <2> QED BY <1>3, <2>1
  <1>11. ASSUME NEW s \in {next, last}, StepsFit(s)
         PROVE  Moved(r, s, 0, 0)
    <2> HIDE DEF next, last
    <2>1. CallFits(s)
      BY <1>1, <1>7 DEF Fit, CallFits
    <2>2. LockFits(s) /\ BatchFits(s)
      BY <1>1, <1>7 DEF Fit, LockFits, BatchFits, Inside
    <2>3. Fit(s)
      BY <1>6, <1>11, <2>1, <2>2 DEF Fit
    <2>4. Holds(s) = Holds(r) + 0
      BY <1>1, <1>7 DEF Holds, HoldsClient, HoldsJob, BatchHolds
    <2>5. \A k \in Nat : Lines(r, k) => Lines(s, k)
      BY <1>1, <1>7 DEF Lines
    <2> QED BY <1>7, <2>3, <2>4, <2>5 DEF Moved
  <1>12. IF Len(q) > 1 THEN Moved(r, next, 0, 0) ELSE Moved(r, last, 0, 0)
    BY <1>9, <1>10, <1>11
  <1> QED BY <1>12, Zenon DEF own

\* A step fails: nothing it leaves open.
LEMMA StepFailsMoves ==
    ASSUME NEW r, Fit(r), ProcessFits, r.pc = "stepping", NEW result \in Results
    PROVE  Moved(r, [r EXCEPT !.pc = "leaving", !.steps = <<>>, !.own = LeftOpen(r),
                              !.task = Tasks, !.result = result], 0, 0)
  <1> DEFINE own == LeftOpen(r)
             s == [r EXCEPT !.pc = "leaving", !.steps = <<>>, !.own = own,
                            !.task = Tasks, !.result = result]
  <1>1. /\ r \in Caller /\ r.call = "none" /\ r.done \in 0..Tasks /\ Tasks \in Nat
        /\ r.running = 0 /\ r.own = OwnAt(Head(r.steps))
    BY FitTyped, FieldsTyped, Constants
       DEF TaskCounts, Fit, CallFits, BatchFits, StepsFit
  <1>2. own = {}
    BY <1>1 DEF OwnAt, LeftOpen
  <1> HIDE DEF own
  <1>3. s \in Caller
    <2>1. [r EXCEPT !.pc = "leaving", !.steps = <<>>] \in Caller
      BY <1>1, SetField, Names
    <2>2. [r EXCEPT !.pc = "leaving", !.steps = <<>>, !.own = own] \in Caller
      BY <1>2, <2>1, SetField, Names
    <2>3. [r EXCEPT !.pc = "leaving", !.steps = <<>>, !.own = own,
                    !.task = Tasks] \in Caller
      BY <2>2, SetField, Names
    <2> QED BY <2>3, SetField
  <1>4. /\ s.call = "none" /\ s.lock = r.lock /\ s.released = r.released
        /\ s.onCancel = r.onCancel /\ s.running = 0 /\ s.op = r.op
        /\ s.sent = r.sent /\ s.attempt = r.attempt /\ s.done = r.done
        /\ s.own = {} /\ s.steps = <<>> /\ s.pc = "leaving" /\ s.task = Tasks
    BY <1>1, <1>2, CallerIs
  <1> HIDE DEF s
  <1>5. CallFits(s) /\ LockFits(s) /\ BatchFits(s)
    BY <1>1, <1>4 DEF Fit, CallFits, LockFits, BatchFits, Inside
  <1>6. StepsFit(s)
    BY <1>4 DEF StepsFit, Ordered
  <1>7. Holds(s) = Holds(r) + 0
    BY <1>1, <1>4 DEF Holds, HoldsClient, HoldsJob, BatchHolds
  <1>8. \A k \in Nat : Lines(r, k) => Lines(s, k)
    BY <1>1, <1>4 DEF Lines
  <1>9. Moved(r, s, 0, 0)
    BY <1>3, <1>4, <1>5, <1>6, <1>7, <1>8 DEF Moved, Fit
  <1> QED BY <1>9 DEF s, own

-----------------------------------------------------------------------------
(* The end of the lock.                                                    *)

LEMMA LeaveMoves ==
    ASSUME NEW r, Fit(r), ProcessFits, r.pc = "leaving"
    PROVE  Moved(r, [r EXCEPT !.lock = "none", !.released = FALSE,
                              !.pc = IF r.result = "RUNNING" /\ r.op = "action"
                                     THEN "describing" ELSE "over",
                              !.result = IF @ = "RUNNING" /\ r.op # "action"
                                         THEN "SUCCESSFUL" ELSE @],
                 IF r.lock # "none" /\ ~r.released THEN -1 ELSE 0, 0)
  <1> DEFINE pc == IF r.result = "RUNNING" /\ r.op = "action"
                   THEN "describing" ELSE "over"
             result == IF r.result = "RUNNING" /\ r.op # "action"
                       THEN "SUCCESSFUL" ELSE r.result
             s == [r EXCEPT !.lock = "none", !.released = FALSE, !.pc = pc,
                            !.result = result]
  <1>1. /\ r \in Caller /\ r.call = "none" /\ r.running = 0
        /\ r.pc \in Inside /\ r.released \in BOOLEAN
    BY FitTyped, FieldsTyped DEF Fit, CallFits, BatchFits, Inside
  <1>2. pc \in Pcs /\ result \in Results /\ pc \in {"describing", "over"}
        /\ (pc = "describing" => r.op = "action")
    BY <1>1, FieldsTyped, Names
  <1> HIDE DEF pc, result
  <1>3. s \in Caller
    BY <1>1, <1>2, SetField, Names
  <1>4. /\ s.call = "none" /\ s.lock = "none" /\ s.released = FALSE
        /\ s.onCancel = r.onCancel /\ s.running = 0 /\ s.op = r.op
        /\ s.sent = r.sent /\ s.attempt = r.attempt /\ s.done = r.done
        /\ s.own = r.own /\ s.steps = r.steps /\ s.pc = pc /\ s.task = r.task
    BY <1>1, CallerIs
  <1> HIDE DEF s
  <1>5. CallFits(s) /\ LockFits(s) /\ BatchFits(s)
    BY <1>1, <1>2, <1>4 DEF Fit, CallFits, LockFits, BatchFits, Inside
  <1>6. StepsFit(s)
    BY <1>2, <1>4 DEF Fit, StepsFit
  <1>7. Holds(s) = Holds(r) + (IF r.lock # "none" /\ ~r.released THEN -1 ELSE 0)
    BY <1>1, <1>4 DEF Holds, HoldsClient, HoldsJob, BatchHolds
  <1>8. \A k \in Nat : Lines(r, k) => Lines(s, k)
    BY <1>1, <1>2, <1>4 DEF Lines
  <1>9. Moved(r, s, IF r.lock # "none" /\ ~r.released THEN -1 ELSE 0, 0)
    BY <1>3, <1>4, <1>5, <1>6, <1>7, <1>8 DEF Moved, Fit
  <1> QED BY <1>9 DEF s, pc, result

-----------------------------------------------------------------------------
(* Batches.                                                                *)

LEMMA OneBatch ==
    ASSUME NEW n \in Nat
    PROVE  <<Pool(n)>> \in Batches /\ <<Pool(n)>> # <<>>
           /\ <<Api(n)>> \in Batches /\ <<Api(n)>> # <<>>
  <1> DEFINE S == [n: Nat, via: {"pool", "api"}]
  <1>1. Pool(n) \in S /\ Api(n) \in S
    BY DEF Pool, Api
  <1> HIDE DEF S
  <1>2. <<Pool(n)>> \in Seq(S) /\ <<Api(n)>> \in Seq(S)
    BY <1>1
  <1> QED BY <1>2 DEF S, Batches

LEMMA MoreBatches ==
    ASSUME NEW p \in Batches, NEW q \in Batches, p # <<>>
    PROVE  p \o q \in Batches /\ p \o q # <<>>
  <1> DEFINE S == [n: Nat, via: {"pool", "api"}]
  <1>1. p \in Seq(S) /\ q \in Seq(S)
    BY DEF Batches
  <1> HIDE DEF S
  <1>2. p \o q \in Seq(S) /\ Len(p \o q) = Len(p) + Len(q) /\ Len(p) > 0
    BY <1>1, EmptyIs
  <1>3. p \o q # <<>>
    BY <1>1, <1>2
  <1> QED BY <1>2, <1>3 DEF S, Batches

LEMMA TwoBatches ==
    ASSUME NEW m \in Nat, NEW n \in Nat
    PROVE  /\ <<Pool(m), Pool(n)>> \in Batches /\ <<Pool(m), Pool(n)>> # <<>>
           /\ <<Pool(m), Api(n)>> \in Batches /\ <<Pool(m), Api(n)>> # <<>>
           /\ <<Api(m), Api(n)>> \in Batches /\ <<Api(m), Api(n)>> # <<>>
  <1> DEFINE S == [n: Nat, via: {"pool", "api"}]
  <1>1. Pool(m) \in S /\ Api(m) \in S /\ Pool(n) \in S /\ Api(n) \in S
    BY DEF Pool, Api
  <1> HIDE DEF S
  <1>2. \A x, y \in S : <<x, y>> \in Seq(S) /\ <<x, y>> # <<>>
    OBVIOUS
  <1> QED BY <1>1, <1>2 DEF S, Batches

LEMMA TimesTyped ==
    ASSUME NEW b \in Batches, b # <<>>, NEW n \in Nat
    PROVE  Times(b, n) \in Batches /\ Times(b, n) # <<>>
  <1> DEFINE S == [n: Nat, via: {"pool", "api"}]
             x == [b[1] EXCEPT !.n = @ * n]
  <1>1. b \in Seq(S)
    BY DEF Batches
  <1>2. b[1] \in S
    <2> HIDE DEF S
    <2>1. Head(b) \in S /\ Head(b) = b[1]
      BY <1>1, HeadIn
    <2> QED BY <2>1
  <1>3. x \in S
    <2>1. b[1].n \in Nat /\ b[1].n * n \in Nat
      BY <1>2
    <2> QED BY <1>2, <2>1
  <1> HIDE DEF S, x
  <1>4. <<x>> \in Seq(S) /\ <<x>> # <<>>
    BY <1>3
  <1> QED BY <1>4 DEF Times, x, S, Batches

LEMMA TableTyped ==
    ASSUME ProcessFits PROVE Table \in Batches /\ Table # <<>>
  <1>1. adapter \in {"postgres", "mysql", "bigquery"}
    BY Constants DEF ProcessFits
  <1>2. /\ PostgresTable \in Batches /\ PostgresTable # <<>>
        /\ MySqlTable \in Batches /\ MySqlTable # <<>>
        /\ BigQueryTable \in Batches /\ BigQueryTable # <<>>
    BY OneBatch DEF PostgresTable, MySqlTable, BigQueryTable
  <1> QED BY <1>1, <1>2 DEF Table

LEMMA SchemasTyped ==
    ASSUME ProcessFits
    PROVE  PrepareAllSchemas \in Batches /\ PrepareAllSchemas # <<>>
  <1>1. adapter \in {"postgres", "mysql", "bigquery"} /\ Listed \in Nat
    BY Constants DEF ProcessFits
  <1>2. /\ PostgresSchemas \in Batches /\ PostgresSchemas # <<>>
        /\ MySqlSchemas \in Batches /\ MySqlSchemas # <<>>
        /\ BigQuerySchemas \in Batches /\ BigQuerySchemas # <<>>
        /\ BigQueryCreateSchema \in Batches /\ BigQueryCreateSchema # <<>>
    BY OneBatch DEF PostgresSchemas, MySqlSchemas, BigQuerySchemas,
                    BigQueryCreateSchema
  <1>3. CASE adapter = "postgres"
    BY <1>1, <1>2, <1>3, TimesTyped, MoreBatches DEF PrepareAllSchemas
  <1>4. CASE adapter = "mysql"
    BY <1>1, <1>2, <1>4, TimesTyped, MoreBatches DEF PrepareAllSchemas
  <1>5. CASE adapter = "bigquery"
    BY <1>1, <1>2, <1>5, TimesTyped, MoreBatches DEF PrepareAllSchemas
  <1> QED BY <1>1, <1>3, <1>4, <1>5

\* Every operation of the adapter makes some batch of calls first.
LEMMA FirstTyped ==
    ASSUME ProcessFits, NEW o \in Op \ RunnerSide
    PROVE  First(o) \in Batches /\ First(o) # <<>>
  <1>1. /\ adapter \in {"postgres", "mysql", "bigquery"} /\ Listed \in Nat
        /\ 5 * Listed \in Nat /\ 2 * Listed \in Nat
    BY Constants DEF ProcessFits
  <1>2. CASE o \in {"action", "getTable", "state", "prepareAllSchemas"}
    <2>1. State \in Batches /\ State # <<>>
      BY <1>1, TableTyped, TimesTyped DEF State
    <2>2. CASE o \in {"action", "getTable"}
      <3>1. First(o) = Table
        BY <2>2 DEF First
      <3> QED BY <3>1, TableTyped
    <2>3. CASE o = "state"
      <3>1. First(o) = State
        BY <2>3 DEF First
      <3> QED BY <2>1, <3>1
    <2>4. CASE o = "prepareAllSchemas"
      <3>1. First(o) = PrepareAllSchemas
        BY <2>4 DEF First
      <3> QED BY <3>1, SchemasTyped
    <2> QED BY <1>2, <2>2, <2>3, <2>4
  <1>3. ASSUME o \notin {"action", "getTable", "state", "prepareAllSchemas"}
        PROVE  o \in {"tables", "search", "evaluate", "deleteTable", "execute"}
    BY <1>3 DEF Op, RunnerOps, RunnerSide, RpcOps
  <1>4. CASE /\ o \in {"tables", "search", "evaluate", "deleteTable", "execute"}
             /\ adapter = "postgres"
    BY <1>1, <1>4, OneBatch, TwoBatches
       DEF First, PostgresTables, PostgresSearch, PostgresEvaluate, PostgresTable,
           PostgresExecute
  <1>5. CASE /\ o \in {"tables", "search", "evaluate", "deleteTable", "execute"}
             /\ adapter = "mysql"
    BY <1>1, <1>5, OneBatch, TwoBatches
       DEF First, MySqlTables, MySqlSearch, MySqlEvaluate, MySqlTable, MySqlExecute
  <1>6. CASE /\ o \in {"tables", "search", "evaluate", "deleteTable", "execute"}
             /\ adapter = "bigquery"
    BY <1>1, <1>6, OneBatch, TwoBatches
       DEF First, BigQueryTables, BigQuerySearch, BigQueryEvaluate,
           BigQueryDeleteTable, BigQueryExecuteRaw
  <1> QED BY <1>1, <1>2, <1>3, <1>4, <1>5, <1>6

LEMMA RestTyped ==
    ASSUME ProcessFits, NEW o, NEW k PROVE Rest(o, k) \in Batches
  <1>1. Described \in Nat /\ 1 + Described \in Nat /\ Described \in Int
    BY Constants
  <1>2. <<>> \in Batches
    BY DEF Batches
  <1>3. PostgresSetMetadata(k) \in Batches /\ PostgresDeleteTable(k) \in Batches
        /\ MySqlDeleteTable(k) \in Batches
    BY <1>1, <1>2, OneBatch
       DEF PostgresSetMetadata, PostgresDeleteTable, MySqlDeleteTable
  <1>4. BigQuerySetMetadata \in Batches
    BY OneBatch DEF BigQuerySetMetadata
  <1>5. MySqlSetMetadata(k) \in Batches
    <2> DEFINE S == [n: Nat, via: {"pool", "api"}]
               columns == [i \in 1..(1 + Described) |-> Pool(1)]
    <2>1. Pool(1) \in S
      BY DEF Pool
    <2> HIDE DEF S
    <2>2. columns \in Seq(S)
      BY <1>1, <2>1
    <2>3. columns \in Batches
      BY <2>2 DEF S, Batches
    <2> HIDE DEF columns
    <2>4. <<Pool(1)>> \o columns \in Batches /\ <<Pool(1)>> \o <<>> \in Batches
      BY <1>2, <2>3, OneBatch, MoreBatches
    <2> QED BY <1>2, <2>4 DEF MySqlSetMetadata, columns
  <1> QED BY <1>2, <1>3, <1>4, <1>5 DEF Rest

-----------------------------------------------------------------------------
(* The calls of a batch.                                                   *)

\* A batch starts when no call of the one before is left.
LEMMA StartBatchMoves ==
    ASSUME NEW r, Fit(r), ProcessFits, NEW m \in Nat, Lines(r, m),
           \/ r.pc \in {"start", "describing"}
           \/ r.pc = "batch" /\ r.left = 0,
           NEW todo \in Batches, todo # <<>>
    PROVE  Moved(r, [r EXCEPT !.pc = "batch", !.batches = todo, !.left = Head(todo).n,
                              !.running = IF Head(todo).via = "api" THEN Head(todo).n
                                          ELSE 0],
                 0, IF Head(todo).via = "api" THEN 0 ELSE Head(todo).n)
  <1> DEFINE b == Head(todo)
             running == IF b.via = "api" THEN b.n ELSE 0
             k == IF b.via = "api" THEN 0 ELSE b.n
             s == [r EXCEPT !.pc = "batch", !.batches = todo, !.left = b.n,
                            !.running = running]
  <1>1. /\ r \in Caller /\ r.running \in Nat /\ r.left \in Nat
        /\ b.n \in Nat /\ b.via \in {"pool", "api"}
    BY FitTyped, FieldsTyped, BatchTyped
  <1>2. running \in Nat /\ k \in Nat /\ b.n = running + k
        /\ (b.via = "api" => k = 0) /\ (b.via = "pool" => running = 0)
    BY <1>1
  <1>3. r.running = 0 /\ r.call = "none" /\ r.pc \notin Inside
    BY <1>1 DEF Lines, Fit, CallFits, BatchFits, Inside
  <1>4. \A n \in Nat : Lines(r, n) => n = 0
    BY <1>1, <1>3 DEF Lines
  <1> HIDE DEF b, running, k
  <1>5. s \in Caller
    <2>1. [r EXCEPT !.pc = "batch"] \in Caller
      BY <1>1, SetField, Names
    <2>2. [r EXCEPT !.pc = "batch", !.batches = todo] \in Caller
      BY <2>1, SetField
    <2>3. [r EXCEPT !.pc = "batch", !.batches = todo, !.left = b.n] \in Caller
      BY <1>1, <2>2, SetField
    <2> QED BY <1>2, <2>3, SetField
  <1>6. /\ s.call = "none" /\ s.lock = r.lock /\ s.released = r.released
        /\ s.onCancel = r.onCancel /\ s.op = r.op
        /\ s.sent = r.sent /\ s.attempt = r.attempt /\ s.done = r.done
        /\ s.own = r.own /\ s.steps = r.steps /\ s.pc = "batch" /\ s.task = r.task
    BY <1>1, <1>3, CallerIs
  <1>7. s.running = running /\ s.left = b.n /\ s.batches = todo
    BY <1>1, CallerIs
  <1> HIDE DEF s
  <1>8. CallFits(s) /\ LockFits(s) /\ BatchFits(s)
    BY <1>3, <1>6, <1>7 DEF Fit, CallFits, LockFits, BatchFits, Inside
  <1>9. StepsFit(s)
    BY <1>3, <1>6 DEF Fit, StepsFit, Inside
  <1>10. BatchHolds(r) = 0 /\ BatchHolds(s) = 0
    BY <1>1, <1>2, <1>3, <1>7 DEF BatchHolds, b
  <1>11. Holds(s) = Holds(r) + 0
    BY <1>3, <1>6, <1>10 DEF Holds, HoldsClient, HoldsJob
  <1>12. Lines(s, k)
    BY <1>2, <1>6, <1>7 DEF Lines, b
  <1>13. \A n \in Nat : n + k \in Nat /\ Lines(r, n) => Lines(s, n + k)
    BY <1>2, <1>4, <1>12
  <1>14. Moved(r, s, 0, k)
    BY <1>5, <1>6, <1>8, <1>9, <1>11, <1>13 DEF Moved, Fit
  <1> QED BY <1>14 DEF s, running, k, b

\* A call of a batch is over: its client, if it had one, is back.
LEMMA UnitMoves ==
    ASSUME NEW r, Fit(r), ProcessFits, NEW m \in Nat, Lines(r, m), r.running > 0
    PROVE  LET h == IF Head(r.batches).via = "api" THEN 0 ELSE -1
           IN  /\ Moved(r, [r EXCEPT !.running = @ - 1,
                               !.left = IF r.pc = "batch" THEN @ - 1 ELSE @], h, 0)
               /\ Moved(r, Rejected([r EXCEPT !.running = @ - 1]), h, 0)
  <1> DEFINE h == IF Head(r.batches).via = "api" THEN 0 ELSE -1
             left == IF r.pc = "batch" THEN r.left - 1 ELSE r.left
             s == [r EXCEPT !.running = r.running - 1, !.left = left]
             t == [r EXCEPT !.running = r.running - 1]
  <1>1. /\ r \in Caller /\ r.running \in Nat /\ r.left \in Nat
        /\ r.pc \in {"batch", "over"} /\ r.call = "none" /\ r.batches # <<>>
    BY FitTyped, FieldsTyped DEF Fit, CallFits, BatchFits
  <1>2. Head(r.batches).via \in {"pool", "api"}
    BY <1>1, FieldsTyped, BatchTyped
  <1>3. r.pc = "batch" => r.left >= r.running
    BY <1>1 DEF Lines
  <1>4. left \in Nat /\ r.running - 1 \in Nat
    BY <1>1, <1>3
  <1>5. s \in Caller /\ t \in Caller
    <2> HIDE DEF left
    <2>1. t \in Caller
      BY <1>1, <1>4, SetField
    <2> QED BY <1>4, <2>1, SetField
  <1>6. \A x \in {s, t} :
           /\ x.call = "none" /\ x.lock = r.lock /\ x.released = r.released
           /\ x.onCancel = r.onCancel /\ x.op = r.op /\ x.pc = r.pc
           /\ x.sent = r.sent /\ x.attempt = r.attempt /\ x.done = r.done
           /\ x.own = r.own /\ x.steps = r.steps /\ x.task = r.task
           /\ x.running = r.running - 1 /\ x.batches = r.batches
    BY <1>1, CallerIs
  <1>7. s.left = left /\ t.left = r.left
    BY <1>1, CallerIs
  <1> HIDE DEF s, t
  <1>8. ASSUME NEW x \in {s, t}
        PROVE  /\ Fit(x) /\ Holds(x) = Holds(r) + h /\ BatchHolds(x) \in Int
    <2>1. CallFits(x) /\ LockFits(x) /\ BatchFits(x)
      BY <1>1, <1>6, <1>8 DEF Fit, CallFits, LockFits, BatchFits, Inside
    <2>2. StepsFit(x)
      BY <1>6, <1>8 DEF Fit, StepsFit
    <2>3. BatchHolds(x) = BatchHolds(r) + h /\ BatchHolds(x) \in Int /\ BatchHolds(r) \in Int
      BY <1>1, <1>2, <1>6, <1>8 DEF BatchHolds
    <2>4. (HoldsClient(x) <=> HoldsClient(r)) /\ (HoldsJob(x) <=> HoldsJob(r))
      BY <1>1, <1>6, <1>8 DEF HoldsClient, HoldsJob
    <2>5. Holds(x) = Holds(r) + h
      <3>1. h \in Int
        OBVIOUS
      <3> HIDE DEF h
      <3> QED BY <2>3, <2>4, <3>1 DEF Holds
    <2> QED BY <1>5, <1>8, <2>1, <2>2, <2>3, <2>5 DEF Fit
  <1>9. \A n \in Nat : Lines(r, n) => Lines(s, n)
    BY <1>1, <1>6, <1>7 DEF Lines
  <1>10. Moved(r, s, h, 0)
    <2> HIDE DEF h
    <2> QED BY <1>6, <1>8, <1>9 DEF Moved
  <1>11. t.pc = "batch" => t.left > t.running
    BY <1>1, <1>3, <1>6, <1>7
  <1>12. Fit(Rejected(t)) /\ Rejected(t).op = r.op /\ Holds(Rejected(t)) = Holds(r) + h
    BY <1>6, <1>8, <1>11, RejectedFits
  <1>13. \A n \in Nat : Lines(r, n) => Lines(Rejected(t), n)
    <2> DEFINE x == [t EXCEPT !.left = @ - 1]
               y == [t EXCEPT !.pc = "over", !.left = 0, !.result = "FAILED"]
    <2>1. /\ x.pc = t.pc /\ x.call = "none" /\ x.left = t.left - 1
          /\ x.running = t.running /\ x.batches = t.batches
          /\ y.pc = "over" /\ y.call = "none" /\ y.batches = t.batches
      BY <1>5, <1>6, CallerIs
    <2>2. r.pc # "batch" => Rejected(t) = t
      BY <1>6 DEF Rejected
    <2>3. r.pc = "batch" => Rejected(t) \in {x, y}
      BY <1>6 DEF Rejected
    <2> HIDE DEF x, y
    <2>4. r.pc # "batch" => \A n \in Nat : Lines(r, n) => Lines(t, n)
      BY <1>1, <1>6 DEF Lines
    <2>5. r.pc = "batch" => \A n \in Nat : Lines(r, n) => Lines(x, n)
      BY <1>1, <1>6, <1>7, <2>1 DEF Lines
    <2>6. r.pc = "batch" => \A n \in Nat : Lines(r, n) => Lines(y, n)
      BY <1>1, <1>2, <1>6, <2>1 DEF Lines
    <2> QED BY <2>2, <2>3, <2>4, <2>5, <2>6
  <1>14. Moved(r, Rejected(t), h, 0)
    <2> HIDE DEF h
    <2> QED BY <1>12, <1>13 DEF Moved
  <1> QED BY <1>10, <1>14 DEF s, t

\* The last call of the last batch: the operation is over.
LEMMA BatchOverMoves ==
    ASSUME NEW r, Fit(r), ProcessFits, NEW m \in Nat, Lines(r, m),
           r.pc = "batch", r.left = 0, NEW k \in Found, NEW result \in Results
    PROVE  /\ Moved(r, [r EXCEPT !.pc = "over", !.result = result], 0, 0)
           /\ Moved(r, [r EXCEPT !.pc = "over", !.result = result, !.found = k], 0, 0)
           /\ Moved(r, [r EXCEPT !.found = k], 0, 0)
  <1> DEFINE s == [r EXCEPT !.pc = "over", !.result = result]
             t == [r EXCEPT !.pc = "over", !.result = result, !.found = k]
             u == [r EXCEPT !.found = k]
  <1>1. /\ r \in Caller /\ r.running \in Nat /\ r.left \in Nat /\ k \in Finds
        /\ r.call = "none"
    BY FitTyped, FieldsTyped DEF Finds, Fit, CallFits
  <1>2. r.running = 0 /\ \A n \in Nat : Lines(r, n) => n = 0
    BY <1>1 DEF Lines
  <1>3. s \in Caller /\ u \in Caller
    BY <1>1, SetField, Names
  <1>4. t \in Caller
    BY <1>1, <1>3, SetField
  <1> DEFINE Alike(x) ==
            /\ x.call = "none" /\ x.lock = r.lock /\ x.released = r.released
            /\ x.onCancel = r.onCancel /\ x.op = r.op
            /\ x.sent = r.sent /\ x.attempt = r.attempt /\ x.done = r.done
            /\ x.own = r.own /\ x.steps = r.steps /\ x.task = r.task
            /\ x.running = 0 /\ x.batches = r.batches /\ x.left = 0
  <1>5. Alike(s) /\ s.pc = "over"
    BY <1>1, <1>2, CallerIs
  <1>6. Alike(t) /\ t.pc = "over"
    BY <1>1, <1>2, CallerIs
  <1>7. Alike(u) /\ u.pc = "batch"
    BY <1>1, <1>2, CallerIs
  <1> HIDE DEF s, t, u
  <1>8. ASSUME NEW x \in Caller, Alike(x), x.pc \in {"batch", "over"}
        PROVE  Moved(r, x, 0, 0)
    <2>1. CallFits(x) /\ LockFits(x)
      BY <1>1, <1>8 DEF Fit, CallFits, LockFits, Inside
    <2>2. BatchFits(x) /\ StepsFit(x)
      BY <1>2, <1>8 DEF Fit, BatchFits, StepsFit
    <2>3. Holds(x) = Holds(r) + 0
      BY <1>1, <1>2, <1>8 DEF Holds, HoldsClient, HoldsJob, BatchHolds
    <2>4. \A n \in Nat : Lines(r, n) => Lines(x, n)
      BY <1>1, <1>2, <1>8 DEF Lines
    <2> QED BY <1>8, <2>1, <2>2, <2>3, <2>4 DEF Moved, Fit
  <1> QED BY <1>3, <1>4, <1>5, <1>6, <1>7, <1>8 DEF s, t, u

-----------------------------------------------------------------------------
(* The line for a client.                                                  *)

LEMMA OneToOne ==
    ASSUME NEW S, NEW T, IsFiniteSet(S), NEW f \in [S -> T],
           \A x, y \in S : f[x] = f[y] => x = y,
           \A z \in T : \E x \in S : f[x] = z
    PROVE  IsFiniteSet(T) /\ Cardinality(T) = Cardinality(S)
  <1>1. f \in Injection(S, T) /\ f \in Surjection(S, T)
    BY DEF Injection, IsInjective, Surjection
  <1>2. ExistsBijection(S, T)
    BY <1>1 DEF ExistsBijection, Bijection
  <1> QED BY <1>2, FS_Bijection

LEMMA InLineFinite ==
    ASSUME NEW q, Len(q) \in Nat, NEW a
    PROVE  IsFiniteSet(InLine(q, a)) /\ Cardinality(InLine(q, a)) \in Nat
  <1>1. IsFiniteSet(1..Len(q))
    BY FS_Interval
  <1>2. InLine(q, a) \in SUBSET (1..Len(q))
    BY DEF InLine
  <1> QED BY <1>1, <1>2, FS_Subset, FS_CardinalityType

LEMMA LineAppend ==
    ASSUME NEW q \in Seq(Callers), NEW a \in Callers
    PROVE  /\ Append(q, a) \in Seq(Callers)
           /\ \A b \in Callers :
                 Cardinality(InLine(Append(q, a), b)) =
                    Cardinality(InLine(q, b)) + (IF b = a THEN 1 ELSE 0)
  <1> DEFINE p == Append(q, a)
  <1>1. /\ p \in Seq(Callers) /\ Len(p) = Len(q) + 1 /\ Len(q) \in Nat
        /\ \A i \in 1..Len(q) : p[i] = q[i]
        /\ p[Len(q) + 1] = a
    BY AppendProperties
  <1> HIDE DEF p
  <1>2. ASSUME NEW b \in Callers
        PROVE  Cardinality(InLine(p, b)) =
                  Cardinality(InLine(q, b)) + (IF b = a THEN 1 ELSE 0)
    <2>1. IsFiniteSet(InLine(q, b)) /\ Cardinality(InLine(q, b)) \in Nat
      BY <1>1, InLineFinite
    <2>2. CASE b = a
      <3>1. InLine(p, b) = InLine(q, b) \union {Len(q) + 1}
        BY <1>1, <2>2 DEF InLine
      <3>2. Len(q) + 1 \notin InLine(q, b)
        BY <1>1 DEF InLine
      <3> QED BY <2>1, <2>2, <3>1, <3>2, FS_AddElement
    <2>3. CASE b # a
      <3>1. InLine(p, b) = InLine(q, b)
        BY <1>1, <2>3 DEF InLine
      <3> QED BY <2>1, <2>3, <3>1
    <2> QED BY <2>2, <2>3
  <1> QED BY <1>1, <1>2 DEF p

LEMMA LineTail ==
    ASSUME NEW q \in Seq(Callers), q # <<>>
    PROVE  /\ Tail(q) \in Seq(Callers) /\ Head(q) \in Callers
           /\ Cardinality(InLine(q, Head(q))) > 0
           /\ \A b \in Callers :
                 Cardinality(InLine(Tail(q), b)) =
                    Cardinality(InLine(q, b)) - (IF b = Head(q) THEN 1 ELSE 0)
  <1> DEFINE p == Tail(q)
             a == Head(q)
  <1>1. /\ p \in Seq(Callers) /\ Len(p) = Len(q) - 1 /\ a \in Callers
        /\ Len(q) \in Nat \ {0}
        /\ \A i \in 1..Len(p) : p[i] = q[i + 1]
    BY HeadTailProperties, EmptySeq
  <1>2. a = q[1]
    OBVIOUS
  <1> HIDE DEF p, a
  <1>3. 1 \in InLine(q, a) /\ \A b : 1 \in InLine(q, b) => b = a
    BY <1>1, <1>2 DEF InLine
  <1>4. Cardinality(InLine(q, a)) > 0
    <2>1. IsFiniteSet(InLine(q, a)) /\ Cardinality(InLine(q, a)) \in Nat
      BY <1>1, InLineFinite
    <2> QED BY <1>3, <2>1, FS_EmptySet
  <1>5. ASSUME NEW b \in Callers
        PROVE  Cardinality(InLine(p, b)) =
                  Cardinality(InLine(q, b)) - (IF b = a THEN 1 ELSE 0)
    <2> DEFINE S == InLine(p, b)
               T == InLine(q, b) \ {1}
               f == [i \in S |-> i + 1]
    <2>1. IsFiniteSet(InLine(q, b)) /\ Cardinality(InLine(q, b)) \in Nat
      BY <1>1, InLineFinite
    <2>2. IsFiniteSet(S)
      BY <1>1, InLineFinite
    <2>3. f \in [S -> T]
      BY <1>1 DEF InLine
    <2>4. \A x, y \in S : f[x] = f[y] => x = y
      BY DEF InLine
    <2>5. ASSUME NEW z \in T PROVE \E x \in S : f[x] = z
      <3>1. z - 1 \in 1..Len(p) /\ z \in 1..Len(q) /\ q[z] = b /\ z = (z - 1) + 1
        BY <1>1 DEF InLine
      <3>2. z - 1 \in S
        BY <1>1, <3>1 DEF InLine
      <3> QED BY <3>1, <3>2
    <2>6. Cardinality(T) = Cardinality(S)
      <3> HIDE DEF S, T, f
      <3> QED BY <2>2, <2>3, <2>4, <2>5, OneToOne
    <2>7. Cardinality(T) = IF 1 \in InLine(q, b) THEN Cardinality(InLine(q, b)) - 1
                           ELSE Cardinality(InLine(q, b))
      BY <2>1, FS_RemoveElement
    <2>8. 1 \in InLine(q, b) <=> b = a
      BY <1>3
    <2> QED BY <2>1, <2>6, <2>7, <2>8
  <1> QED BY <1>1, <1>4, <1>5 DEF p, a

LEMMA LineCopies ==
    ASSUME NEW q \in Seq(Callers), NEW a \in Callers, NEW n \in Nat
    PROVE  /\ q \o Copies(a, n) \in Seq(Callers)
           /\ \A b \in Callers :
                 Cardinality(InLine(q \o Copies(a, n), b)) =
                    Cardinality(InLine(q, b)) + (IF b = a THEN n ELSE 0)
  <1> DEFINE c == Copies(a, n)
             p == q \o c
  <1>1. c \in Seq(Callers) /\ Len(c) = n /\ \A i \in 1..n : c[i] = a
    BY DEF Copies
  <1> HIDE DEF c
  <1>2. /\ p \in Seq(Callers) /\ Len(p) = Len(q) + n /\ Len(q) \in Nat
        /\ \A i \in 1..(Len(q) + n) :
              p[i] = IF i <= Len(q) THEN q[i] ELSE c[i - Len(q)]
    BY <1>1, ConcatProperties, LenProperties
  <1> HIDE DEF p
  <1>3. /\ \A i \in 1..Len(q) : p[i] = q[i]
        /\ \A i \in (Len(q) + 1)..(Len(q) + n) : p[i] = a
    <2>1. ASSUME NEW i \in (Len(q) + 1)..(Len(q) + n) PROVE p[i] = a
      <3>1. i \in 1..(Len(q) + n) /\ ~(i <= Len(q)) /\ i - Len(q) \in 1..n
        BY <1>2
      <3> QED BY <1>1, <1>2, <3>1
    <2> QED BY <1>2, <2>1
  <1>4. ASSUME NEW b \in Callers
        PROVE  Cardinality(InLine(p, b)) =
                  Cardinality(InLine(q, b)) + (IF b = a THEN n ELSE 0)
    <2>1. IsFiniteSet(InLine(q, b)) /\ Cardinality(InLine(q, b)) \in Nat
      BY <1>2, InLineFinite
    <2>2. CASE b = a
      <3> DEFINE N == (Len(q) + 1)..(Len(q) + n)
      <3>1. IsFiniteSet(N) /\ Cardinality(N) = n
        <4>1. Len(q) + 1 \in Int /\ Len(q) + n \in Int
          BY <1>2
        <4>2. /\ IsFiniteSet(N)
              /\ Cardinality(N) = IF Len(q) + 1 > Len(q) + n THEN 0
                                  ELSE (Len(q) + n) - (Len(q) + 1) + 1
          BY <4>1, FS_Interval
        <4> QED BY <1>2, <4>2
      <3>2. InLine(p, b) = InLine(q, b) \union N
        BY <1>2, <1>3, <2>2 DEF InLine
      <3>3. InLine(q, b) \intersect N = {}
        BY <1>2 DEF InLine
      <3> HIDE DEF N
      <3>4. Cardinality(InLine(q, b) \union N) =
               Cardinality(InLine(q, b)) + Cardinality(N) - Cardinality({})
        BY <2>1, <3>1, <3>3, FS_Union
      <3> QED BY <2>1, <2>2, <3>1, <3>2, <3>4, FS_EmptySet
    <2>3. CASE b # a
      <3>1. InLine(p, b) = InLine(q, b)
        BY <1>2, <1>3, <2>3 DEF InLine
      <3> QED BY <2>1, <2>3, <3>1
    <2> QED BY <2>2, <2>3
  <1> QED BY <1>2, <1>4 DEF p, c

-----------------------------------------------------------------------------
(* From one caller to the process.                                         *)

LEMMA HoldsTyped == ASSUME NEW r, Fit(r) PROVE Holds(r) \in Nat
  <1>1. r.running \in Nat
    BY FitTyped, FieldsTyped
  <1> QED BY <1>1 DEF Holds, BatchHolds

\* What the callers f hold.
HeldBy(f) == UNION {{<<a, i>> : i \in 1..Holds(f[a])} : a \in Callers}

LEMMA HeldIs ==
    ASSUME NEW f, NEW x
    PROVE  x \in HeldBy(f) <=> \E a \in Callers : \E i \in 1..Holds(f[a]) : x = <<a, i>>
  BY DEF HeldBy

LEMMA NextCallersFit ==
    ASSUME adapter' = adapter, caller' \in [Callers -> Caller],
           \A b \in Callers : Fit(caller'[b])
    PROVE  CallersFit'
  BY DEF CallersFit, Fit, CallFits, LockFits, BatchFits, StepsFit, Caller, Found

LEMMA NextInUse ==
    ASSUME adapter' = adapter PROVE InUse = HeldBy(caller) /\ InUse' = HeldBy(caller')
  BY DEF InUse, HeldBy, Holds, HoldsClient, HoldsJob, BatchHolds

\* One caller comes to hold one client more, or one less, or as many.
LEMMA PoolMoves ==
    ASSUME CallersFit, PoolFits, NEW a \in Callers, NEW s, NEW h \in {-1, 0, 1},
           Fit(s), Holds(s) = Holds(caller[a]) + h,
           caller' = [caller EXCEPT ![a] = s], adapter' = adapter,
           leased' = leased + h, h = 1 => leased < ConnectionLimit, broken' = 0
    PROVE  PoolFits'
  <1> DEFINE g == [caller EXCEPT ![a] = s]
             old == Holds(caller[a])
  <1>1. /\ g[a] = s /\ \A b \in Callers : b # a => g[b] = caller[b]
        /\ old \in Nat /\ Holds(s) \in Nat
    BY HoldsTyped DEF CallersFit
  <1>2. HeldBy(caller) = InUse /\ HeldBy(g) = InUse'
    BY NextInUse
  <1>3. /\ IsFiniteSet(HeldBy(caller)) /\ leased = Cardinality(HeldBy(caller))
        /\ leased \in Nat /\ leased <= ConnectionLimit /\ ConnectionLimit \in Nat
    BY <1>2, FS_CardinalityType, Constants DEF PoolFits
  <1> HIDE DEF g, old
  <1>4. CASE h = 0
    <2>1. HeldBy(g) = HeldBy(caller)
      BY <1>1, <1>4 DEF HeldBy, old
    <2> QED BY <1>2, <1>3, <1>4, <2>1 DEF PoolFits
  <1>5. CASE h = 1
    <2>1. \A x : x \in HeldBy(g) <=> x \in HeldBy(caller) \/ x = <<a, old + 1>>
      <3> SUFFICES ASSUME NEW x
                   PROVE  x \in HeldBy(g) <=> x \in HeldBy(caller) \/ x = <<a, old + 1>>
        OBVIOUS
      <3>1. \A i : i \in 1..Holds(s) <=> i \in 1..old \/ i = old + 1
        BY <1>1, <1>5 DEF old
      <3> QED BY <1>1, <3>1, HeldIs DEF old
    <2>2. <<a, old + 1>> \notin HeldBy(caller)
      BY <1>1, HeldIs DEF old
    <2>3. HeldBy(g) = HeldBy(caller) \union {<<a, old + 1>>}
      BY <2>1
    <2>4. /\ IsFiniteSet(HeldBy(g))
          /\ Cardinality(HeldBy(g)) = Cardinality(HeldBy(caller)) + 1
      <3> DEFINE x == <<a, old + 1>>
      <3>1. x \notin HeldBy(caller) /\ HeldBy(g) = HeldBy(caller) \union {x}
        BY <2>2, <2>3
      <3> HIDE DEF x
      <3> QED BY <1>3, <3>1, FS_AddElement
    <2> QED BY <1>2, <1>3, <1>5, <2>4 DEF PoolFits
  <1>6. CASE h = -1
    <2>0. Holds(s) = old - 1 /\ old >= 1
      BY <1>1, <1>6 DEF old
    <2>1. \A x : x \in HeldBy(g) <=> x \in HeldBy(caller) /\ x # <<a, old>>
      <3> SUFFICES ASSUME NEW x
                   PROVE  x \in HeldBy(g) <=> x \in HeldBy(caller) /\ x # <<a, old>>
        OBVIOUS
      <3>1. \A i : i \in 1..Holds(s) <=> i \in 1..old /\ i # old
        BY <1>1, <2>0
      <3> QED BY <1>1, <3>1, HeldIs DEF old
    <2>2. <<a, old>> \in HeldBy(caller)
      BY <1>1, <2>0, HeldIs DEF old
    <2>3. HeldBy(g) = HeldBy(caller) \ {<<a, old>>}
      BY <2>1
    <2>4. /\ IsFiniteSet(HeldBy(g))
          /\ Cardinality(HeldBy(g)) = Cardinality(HeldBy(caller)) - 1
      BY <1>3, <2>2, <2>3, FS_RemoveElement
    <2> QED BY <1>2, <1>3, <1>6, <2>4 DEF PoolFits
  <1> QED BY <1>4, <1>5, <1>6

\* A step that takes no slot and waits for none.
LEMMA SlotsKept ==
    ASSUME CallersFit, SlotsFit, NEW a \in Callers, NEW s,
           caller' = [caller EXCEPT ![a] = s],
           s.op = caller[a].op, caller[a].pc = "slot" => s.pc = "slot",
           s.op = "extract" => (s.pc = "stepping" <=> caller[a].pc = "stepping"),
           UNCHANGED <<slots, waiters>>
    PROVE  SlotsFit'
  <1>1. /\ caller'[a] = s /\ \A b \in Callers : b # a => caller'[b] = caller[b]
    BY DEF CallersFit
  <1>2. AtWork' = AtWork
    BY <1>1 DEF AtWork
  <1>3. \A i \in 1..Len(waiters) : waiters[i] \in Callers
    BY ElementOfSeq DEF SlotsFit
  <1>4. \A i \in 1..Len(waiters) : caller'[waiters[i]].pc = "slot"
    BY <1>1, <1>3 DEF SlotsFit
  <1> QED BY <1>2, <1>4 DEF SlotsFit

\* The callers and the line, after a step of one caller that takes k places.
LEMMA LineMoves ==
    ASSUME CallersFit, QueueFits, NEW a \in Callers, NEW s, NEW h, NEW k \in Int,
           Moved(caller[a], s, h, k),
           caller' = [caller EXCEPT ![a] = s], adapter' = adapter,
           queue' \in Seq(Callers),
           \A b \in Callers :
              Cardinality(InLine(queue', b)) =
                 Cardinality(InLine(queue, b)) + (IF b = a THEN k ELSE 0)
    PROVE  CallersFit' /\ QueueFits'
  <1>1. /\ caller \in [Callers -> Caller] /\ \A b \in Callers : Fit(caller[b])
        /\ Fit(s) /\ s \in Caller
    BY DEF CallersFit, Moved, Fit
  <1>2. /\ caller' \in [Callers -> Caller] /\ caller'[a] = s
        /\ \A b \in Callers : b # a => caller'[b] = caller[b]
    BY <1>1
  <1>3. CallersFit'
    BY <1>1, <1>2, NextCallersFit
  <1>4. /\ \A b \in Callers : Lines(caller[b], Cardinality(InLine(queue, b)))
        /\ \A b \in Callers : Cardinality(InLine(queue, b)) \in Nat
        /\ \A b \in Callers : Cardinality(InLine(queue', b)) \in Nat
    BY InLineFinite, LenProperties DEF QueueFits
  <1>5. ASSUME NEW b \in Callers
        PROVE  Lines(caller'[b], Cardinality(InLine(queue', b)))
    <2>1. CASE b = a
      <3>1. Cardinality(InLine(queue', a)) = Cardinality(InLine(queue, a)) + k
        OBVIOUS
      <3>2. Lines(s, Cardinality(InLine(queue, a)) + k)
        BY <1>4, <3>1 DEF Moved
      <3> QED BY <1>2, <2>1, <3>1, <3>2
    <2>2. CASE b # a
      <3>1. Cardinality(InLine(queue', b)) = Cardinality(InLine(queue, b))
        BY <1>4, <2>2
      <3> QED BY <1>2, <1>4, <2>2, <3>1
    <2> QED BY <2>1, <2>2
  <1>6. QueueFits'
    BY <1>5 DEF QueueFits, Lines, InLine
  <1> QED BY <1>3, <1>6

\* A step of one caller that has nothing to do with the slots.
LEMMA OneMoves ==
    ASSUME IInv, NEW a \in Callers, NEW s, NEW h \in {-1, 0, 1}, NEW k \in Int,
           Moved(caller[a], s, h, k), caller' = [caller EXCEPT ![a] = s],
           ProcessFits', adapter' = adapter,
           queue' \in Seq(Callers),
           \A b \in Callers :
              Cardinality(InLine(queue', b)) =
                 Cardinality(InLine(queue, b)) + (IF b = a THEN k ELSE 0),
           leased' = leased + h, h = 1 => leased < ConnectionLimit, broken' = 0,
           caller[a].pc = "slot" => s.pc = "slot",
           s.op = "extract" => (s.pc = "stepping" <=> caller[a].pc = "stepping"),
           UNCHANGED <<slots, waiters>>
    PROVE  IInv'
  <1>1. CallersFit /\ QueueFits /\ PoolFits /\ SlotsFit
    BY DEF IInv
  <1>2. Fit(s) /\ s.op = caller[a].op /\ Holds(s) = Holds(caller[a]) + h
    BY DEF Moved
  <1>3. CallersFit' /\ QueueFits'
    BY <1>1, LineMoves
  <1>4. PoolFits'
    BY <1>1, <1>2, PoolMoves
  <1>5. SlotsFit'
    BY <1>1, <1>2, SlotsKept
  <1> QED BY <1>3, <1>4, <1>5 DEF IInv

\* What most steps of a caller leave alone.
Elsewhere ==
    /\ adapter' = adapter /\ executor' = executor /\ cancelled' = cancelled
    /\ slots' = slots /\ waiters' = waiters

\* A step to s that touches neither slots nor waiters.
NoSlot(r, s) ==
    /\ r.pc = "slot" => s.pc = "slot"
    /\ s.op = "extract" => (s.pc = "stepping" <=> r.pc = "stepping")

\* The same when the line stays as it is.
LEMMA OneMovesAside ==
    ASSUME IInv, NEW a \in Callers, NEW s, NEW h \in {-1, 0, 1},
           Moved(caller[a], s, h, 0), caller' = [caller EXCEPT ![a] = s],
           Elsewhere, queue' = queue,
           leased' = leased + h, h = 1 => leased < ConnectionLimit, broken' = 0,
           NoSlot(caller[a], s)
    PROVE  IInv'
  <1>1. ProcessFits' /\ adapter' = adapter
    BY DEF IInv, ProcessFits, Elsewhere
  <1>2. queue \in Seq(Callers)
    BY DEF IInv, QueueFits
  <1>3. \A b \in Callers :
            Cardinality(InLine(queue', b)) =
                Cardinality(InLine(queue, b)) + (IF b = a THEN 0 ELSE 0)
    BY <1>2, InLineFinite, LenProperties
  <1>4. queue' \in Seq(Callers) /\ UNCHANGED <<slots, waiters>> /\ 0 \in Int
    BY <1>2 DEF Elsewhere
  <1>5. /\ caller[a].pc = "slot" => s.pc = "slot"
        /\ s.op = "extract" => (s.pc = "stepping" <=> caller[a].pc = "stepping")
    BY DEF NoSlot
  <1> QED BY <1>1, <1>3, <1>4, <1>5, OneMoves

\* The same when nothing of the pool changes, and the line grows by k calls.
LEMMA OneMovesInLine ==
    ASSUME IInv, NEW a \in Callers, NEW s, NEW k \in Nat,
           Moved(caller[a], s, 0, k), caller' = [caller EXCEPT ![a] = s],
           Elsewhere, queue' = queue \o Copies(a, k),
           leased' = leased, broken' = broken, NoSlot(caller[a], s)
    PROVE  IInv'
  <1>1. ProcessFits' /\ adapter' = adapter /\ UNCHANGED <<slots, waiters>>
    BY DEF IInv, ProcessFits, Elsewhere
  <1>2. queue \in Seq(Callers) /\ leased \in Nat /\ broken = 0
    BY FS_CardinalityType DEF IInv, QueueFits, PoolFits
  <1>3. /\ queue' \in Seq(Callers)
        /\ \A b \in Callers :
            Cardinality(InLine(queue', b)) =
                Cardinality(InLine(queue, b)) + (IF b = a THEN k ELSE 0)
    BY <1>2, LineCopies
  <1>4. /\ caller[a].pc = "slot" => s.pc = "slot"
        /\ s.op = "extract" => (s.pc = "stepping" <=> caller[a].pc = "stepping")
    BY DEF NoSlot
  <1> DEFINE h == 0
  <1>5. /\ leased' = leased + h /\ broken' = 0 /\ k \in Int
        /\ h \in {-1, 0, 1} /\ h # 1 /\ Moved(caller[a], s, h, k)
    BY <1>2
  <1> HIDE DEF h
  <1> QED BY <1>1, <1>3, <1>4, <1>5, OneMoves

LEMMA AppendIsCopies ==
    ASSUME NEW q \in Seq(Callers), NEW a \in Callers
    PROVE  Append(q, a) = q \o Copies(a, 1) /\ q = q \o Copies(a, 0)
  <1>1. Copies(a, 1) = <<a>> /\ Copies(a, 0) = <<>>
    BY DEF Copies
  <1>2. Append(q, a) = q \o <<a>>
    BY AppendIsConcat
  <1>3. q \o <<>> = q
    BY ConcatEmptySeq
  <1> QED BY <1>1, <1>2, <1>3

-----------------------------------------------------------------------------
(* The steps of the process.                                               *)

LEMMA NoOneMoves ==
    ASSUME IInv, ProcessFits', UNCHANGED <<adapter, queue, leased, broken, slots,
                                          waiters, caller>>
    PROVE  IInv'
  <1>1. CallersFit'
    BY NextCallersFit DEF IInv, CallersFit
  <1>2. QueueFits'
    BY DEF IInv, QueueFits, InLine, Lines
  <1>3. PoolFits'
    BY NextInUse DEF IInv, PoolFits
  <1>4. SlotsFit'
    BY DEF IInv, SlotsFit, AtWork
  <1> QED BY <1>1, <1>2, <1>3, <1>4 DEF IInv

LEMMA CreateInv == IInv /\ (CreatePostgres \/ CreateMySql) => IInv'
  <1> SUFFICES ASSUME IInv, CreatePostgres \/ CreateMySql PROVE IInv'
    OBVIOUS
  <1>1. ProcessFits'
    BY DEF IInv, ProcessFits, CreatePostgres, CreateMySql
  <1> QED BY <1>1, NoOneMoves DEF CreatePostgres, CreateMySql

\* What is known of a caller in a state of the process.
LEMMA CallerKnown ==
    ASSUME IInv, NEW a \in Callers
    PROVE  /\ Fit(caller[a]) /\ ProcessFits /\ caller[a] \in Caller
           /\ Cardinality(InLine(queue, a)) \in Nat
           /\ Lines(caller[a], Cardinality(InLine(queue, a)))
           /\ queue \in Seq(Callers) /\ broken = 0 /\ leased \in Nat
  <1>1. queue \in Seq(Callers) /\ Cardinality(InLine(queue, a)) \in Nat
    BY InLineFinite, LenProperties DEF IInv, QueueFits
  <1>2. leased \in Nat
    BY FS_CardinalityType DEF IInv, PoolFits
  <1> QED BY <1>1, <1>2 DEF IInv, CallersFit, QueueFits, PoolFits, Fit

LEMMA AskInv == ASSUME IInv, NEW a \in Callers, Ask(a) PROVE IInv'
  <1> DEFINE r == caller[a]
             t == [r EXCEPT !.pc = "over", !.result = "CANCELLED"]
             u == [r EXCEPT !.pc = "between"]
             v == [r EXCEPT !.pc = "asking"]
  <1>1. /\ Fit(r) /\ ProcessFits /\ r \in Caller /\ queue \in Seq(Callers)
        /\ leased \in Nat /\ broken = 0 /\ r.pc = "start" /\ r.op \in RunnerOps
    BY CallerKnown DEF Ask
  <1>2. /\ Moved(r, t, 0, 0)
        /\ adapter = "bigquery" => Moved(r, u, 0, 0)
        /\ adapter # "bigquery" => Moved(r, v, 0, 1)
    BY <1>1, AskMoves
  <1>3. NoSlot(r, t) /\ NoSlot(r, u) /\ NoSlot(r, v)
    BY <1>1, CallerIs DEF NoSlot
  <1>4. Elsewhere /\ leased' = leased /\ broken' = broken
    BY DEF Ask, Elsewhere
  <1>5. queue = queue \o Copies(a, 0) /\ Append(queue, a) = queue \o Copies(a, 1)
    BY <1>1, AppendIsCopies
  <1>6. \/ caller' = [caller EXCEPT ![a] = t] /\ queue' = queue
        \/ adapter = "bigquery" /\ caller' = [caller EXCEPT ![a] = u] /\ queue' = queue
        \/ /\ adapter # "bigquery" /\ caller' = [caller EXCEPT ![a] = v]
           /\ queue' = Append(queue, a)
    BY DEF Ask
  <1> HIDE DEF t, u, v
  <1>7. \E s : \E k \in {0, 1} :
            /\ Moved(r, s, 0, k) /\ NoSlot(r, s) /\ caller' = [caller EXCEPT ![a] = s]
            /\ queue' = queue \o Copies(a, k)
    BY <1>2, <1>3, <1>5, <1>6
  <1>8. \A k \in {0, 1} : k \in Nat
    OBVIOUS
  <1> QED BY <1>4, <1>7, <1>8, OneMovesInLine

\* The head of the line.
LEMMA HeadKnown ==
    ASSUME IInv, queue # <<>>
    PROVE  /\ Head(queue) \in Callers /\ Tail(queue) \in Seq(Callers)
           /\ Fit(caller[Head(queue)]) /\ ProcessFits
           /\ \E m \in Nat : m > 0 /\ Lines(caller[Head(queue)], m)
           /\ leased \in Nat /\ broken = 0
           /\ \A b \in Callers :
                 Cardinality(InLine(Tail(queue), b)) =
                    Cardinality(InLine(queue, b))
                       + (IF b = Head(queue) THEN -1 ELSE 0)
  <1>1. queue \in Seq(Callers)
    BY DEF IInv, QueueFits
  <1>2. /\ Tail(queue) \in Seq(Callers) /\ Head(queue) \in Callers
        /\ Cardinality(InLine(queue, Head(queue))) > 0
        /\ \A b \in Callers :
              Cardinality(InLine(Tail(queue), b)) =
                 Cardinality(InLine(queue, b)) - (IF b = Head(queue) THEN 1 ELSE 0)
    BY <1>1, LineTail
  <1>3. \A b \in Callers : Cardinality(InLine(queue, b)) \in Nat
    BY <1>1, InLineFinite, LenProperties
  <1>4. \A b \in Callers :
            Cardinality(InLine(Tail(queue), b)) =
               Cardinality(InLine(queue, b)) + (IF b = Head(queue) THEN -1 ELSE 0)
    BY <1>2, <1>3
  <1>5. /\ Fit(caller[Head(queue)]) /\ ProcessFits /\ leased \in Nat /\ broken = 0
        /\ Lines(caller[Head(queue)], Cardinality(InLine(queue, Head(queue))))
    BY <1>2, CallerKnown
  <1> QED BY <1>2, <1>3, <1>4, <1>5

LEMMA ConnectInv == IInv /\ Connect => IInv'
  <1> SUFFICES ASSUME IInv, Connect PROVE IInv'
    OBVIOUS
  <1> DEFINE a == Head(queue)
             r == caller[a]
             s == IF r.pc = "asking" THEN [r EXCEPT !.pc = "between", !.lock = "whole"]
                  ELSE IF r.call = "queued"
                  THEN [r EXCEPT !.call = "creating", !.onCancel = "registered"]
                  ELSE [r EXCEPT !.running = @ + 1]
             h == 1
             k == -1
  <1>1. /\ queue' = Tail(queue) /\ leased' = leased + h /\ leased < ConnectionLimit
        /\ caller' = [caller EXCEPT ![a] = s] /\ queue # <<>>
        /\ Elsewhere /\ broken' = broken
    BY DEF Connect, Elsewhere
  <1>2. /\ a \in Callers /\ Tail(queue) \in Seq(Callers) /\ Fit(r) /\ ProcessFits
        /\ \E m \in Nat : m > 0 /\ Lines(r, m)
        /\ leased \in Nat /\ broken = 0
        /\ \A b \in Callers :
              Cardinality(InLine(queue', b)) =
                 Cardinality(InLine(queue, b)) + (IF b = a THEN k ELSE 0)
    BY <1>1, HeadKnown
  <1>3. Moved(r, s, h, k)
    BY <1>2, ConnectMoves
  <1>4. r.pc \notin {"slot", "stepping"}
    BY <1>2 DEF Lines, Fit, CallFits
  <1>5. s.pc # "stepping"
    BY <1>2, <1>4, FitTyped, CallerIs
  <1>6. ProcessFits' /\ adapter' = adapter /\ UNCHANGED <<slots, waiters>>
    BY <1>1, <1>2 DEF ProcessFits, Elsewhere
  <1>7. h \in {-1, 0, 1} /\ k \in Int
    OBVIOUS
  <1> HIDE DEF a, s, h, k
  <1> QED BY <1>1, <1>2, <1>3, <1>4, <1>5, <1>6, <1>7, OneMoves DEF r

LEMMA ConnectFailsInv == IInv /\ ConnectFails => IInv'
  <1> SUFFICES ASSUME IInv, ConnectFails PROVE IInv'
    OBVIOUS
  <1> DEFINE a == Head(queue)
             r == caller[a]
             s == IF r.pc = "asking" THEN [r EXCEPT !.pc = "over", !.result = "FAILED"]
                  ELSE Rejected(r)
             h == 0
             k == -1
  <1>1. /\ queue' = Tail(queue) /\ leased' = leased /\ adapter # "bigquery"
        /\ caller' = [caller EXCEPT ![a] = s] /\ queue # <<>>
        /\ Elsewhere /\ broken' = broken
    BY DEF ConnectFails, Elsewhere
  <1>2. /\ a \in Callers /\ Tail(queue) \in Seq(Callers) /\ Fit(r) /\ ProcessFits
        /\ \E m \in Nat : m > 0 /\ Lines(r, m)
        /\ leased \in Nat /\ broken = 0
        /\ \A b \in Callers :
              Cardinality(InLine(queue', b)) =
                 Cardinality(InLine(queue, b)) + (IF b = a THEN k ELSE 0)
    BY <1>1, HeadKnown
  <1>3. Moved(r, s, h, k)
    BY <1>1, <1>2, ConnectFailsMoves
  <1>4. r.pc \notin {"slot", "stepping"}
    BY <1>2 DEF Lines, Fit, CallFits
  <1>5. s.pc # "stepping"
    BY <1>2, <1>4, FitTyped, CallerIs DEF Rejected
  <1>6. ProcessFits' /\ adapter' = adapter /\ UNCHANGED <<slots, waiters>>
    BY <1>1, <1>2 DEF ProcessFits, Elsewhere
  <1>7. h \in {-1, 0, 1} /\ k \in Int /\ leased' = leased + h /\ h # 1
    BY <1>1, <1>2
  <1> HIDE DEF a, s, h, k
  <1> QED BY <1>1, <1>2, <1>3, <1>4, <1>5, <1>6, <1>7, OneMoves DEF r

-----------------------------------------------------------------------------
(* The steps of a caller that runs tasks.                                  *)

\* The change of the pool's count, by a client that is given back or is not.
LEMMA ReleaseOnceIs ==
    ASSUME NEW r, NEW withError, NEW isBroken, ReleaseOnce(r, withError, isBroken),
           leased \in Nat, broken = 0, r.released \/ withError \/ ~isBroken
    PROVE  leased' = leased + (IF r.released THEN 0 ELSE -1) /\ broken' = 0
  BY DEF ReleaseOnce, GiveBack

LEMMA ConnectionLostInv ==
    ASSUME IInv, NEW a \in Callers, ConnectionLost(a) PROVE IInv'
  <1> DEFINE r == caller[a]
             call == IF r.call = "running" THEN "rejected" ELSE r.call
             s == [r EXCEPT !.lock = "lost", !.released = TRUE, !.call = call]
             h == IF r.released THEN 0 ELSE -1
  <1>1. /\ Fit(r) /\ ProcessFits /\ r \in Caller /\ leased \in Nat /\ broken = 0
    BY CallerKnown
  <1>2. r.lock = "whole" /\ Elsewhere /\ queue' = queue
    BY DEF ConnectionLost, Elsewhere
  <1>3. caller' = [caller EXCEPT ![a] = s]
    BY DEF ConnectionLost
  <1>4. leased' = leased + h /\ broken' = 0
    BY <1>1, ReleaseOnceIs DEF ConnectionLost
  <1>5. /\ call \in {"rejected", r.call} /\ call # "running"
        /\ call = "rejected" => r.pc = "executing"
    BY <1>1 DEF Fit, CallFits
  <1>6. s.pc = r.pc
    BY <1>1, CallerIs
  <1>7. h \in {-1, 0, 1} /\ h # 1
    OBVIOUS
  <1> HIDE DEF call
  <1>8. Moved(r, s, h, 0)
    BY <1>1, <1>2, <1>5, GivenBackMoves
  <1>9. NoSlot(r, s)
    BY <1>6 DEF NoSlot
  <1> HIDE DEF s, h
  <1> QED BY <1>2, <1>3, <1>4, <1>7, <1>8, <1>9, OneMovesAside

LEMMA TaskInv ==
    ASSUME IInv, NEW a \in Callers, NextTask(a) \/ Settle(a) PROVE IInv'
  <1> DEFINE r == caller[a]
             q == [r EXCEPT !.attempt = 0, !.sent = 0]
             u == [r EXCEPT !.task = Tasks, !.pc = "leaving"]
             t == [r EXCEPT !.pc = "between", !.task = @ + 1, !.call = "none",
                            !.onCancel = "none",
                            !.done = IF r.call = "ended" THEN @ + 1 ELSE @,
                            !.result = IF r.call = "ended" THEN @
                                       ELSE IF cancelled THEN "CANCELLED"
                                       ELSE "FAILED"]
             k == IF adapter = "bigquery" THEN 1 ELSE 0
  <1>1. /\ Fit(r) /\ ProcessFits /\ r \in Caller /\ queue \in Seq(Callers)
    BY CallerKnown
  <1>2. Elsewhere /\ leased' = leased /\ broken' = broken
    BY DEF NextTask, Settle, Elsewhere
  <1>3. queue = queue \o Copies(a, 0) /\ Append(queue, a) = queue \o Copies(a, 1)
    BY <1>1, AppendIsCopies
  <1>4. r.pc \in {"between", "executing"}
    BY DEF NextTask, Settle
  <1>5. CASE NextTask(a)
    <2>1. \/ /\ caller' = [caller EXCEPT ![a] = Execute(q)] /\ r.task < Tasks
             /\ queue' = queue \o Copies(a, k)
          \/ caller' = [caller EXCEPT ![a] = u] /\ queue' = queue \o Copies(a, 0)
      BY <1>3, <1>5 DEF NextTask
    <2>2. r.task < Tasks => Moved(r, Execute(q), 0, k)
      BY <1>1, <1>5, NextTaskMoves DEF NextTask
    <2>3. Moved(r, u, 0, 0)
      BY <1>1, <1>5, NextTaskMoves DEF NextTask
    <2>4. NoSlot(r, u)
      BY <1>1, <1>4, CallerIs DEF NoSlot
    <2>5. NoSlot(r, Execute(q))
      <3>1. Execute(q).pc = "executing"
        BY <1>1, CallerIs DEF Execute
      <3> QED BY <1>4, <3>1 DEF NoSlot
    <2>6. k \in Nat /\ 0 \in Nat
      OBVIOUS
    <2> HIDE DEF q, u, k
    <2> QED BY <1>2, <2>1, <2>2, <2>3, <2>4, <2>5, <2>6, OneMovesInLine
  <1>6. CASE Settle(a)
    <2>1. \/ /\ caller' = [caller EXCEPT ![a] = Execute(r)] /\ Retried(r)
             /\ queue' = queue \o Copies(a, k)
          \/ caller' = [caller EXCEPT ![a] = t] /\ queue' = queue \o Copies(a, 0)
      BY <1>3, <1>6 DEF Settle
    <2>2. r.pc = "executing" /\ r.call \in {"ended", "rejected"}
      BY <1>6 DEF Settle
    <2>3. r.task < Tasks
      BY <1>1, <2>2 DEF Fit, CallFits
    <2>4. Retried(r) => Moved(r, Execute(r), 0, k)
      BY <1>1, <2>2, <2>3, ExecuteMoves DEF Retried
    <2>5. Moved(r, t, 0, 0)
      BY <1>1, <2>2, SettleMoves
    <2>6. NoSlot(r, t)
      BY <1>1, <1>4, CallerIs DEF NoSlot
    <2>7. NoSlot(r, Execute(r))
      <3>1. Execute(r).pc = "executing"
        BY <1>1, CallerIs DEF Execute
      <3> QED BY <1>4, <3>1 DEF NoSlot
    <2>8. k \in Nat /\ 0 \in Nat
      OBVIOUS
    <2> HIDE DEF t, k
    <2> QED BY <1>2, <2>1, <2>4, <2>5, <2>6, <2>7, <2>8, OneMovesInLine
  <1> QED BY <1>5, <1>6

\* The general form of CallMoves and GivenBackMoves, written as the actions do.
LEMMA SameRecord ==
    ASSUME NEW r \in Caller, NEW c, NEW n
    PROVE  /\ [r EXCEPT !.call = c, !.sent = r.sent, !.jobs = r.jobs]
                  = [r EXCEPT !.call = c]
           /\ [r EXCEPT !.call = c, !.sent = n, !.jobs = r.jobs]
                  = [r EXCEPT !.call = c, !.sent = n]
           /\ [r EXCEPT !.call = c, !.sent = r.sent, !.jobs = n]
                  = [r EXCEPT !.call = c, !.jobs = n]
           /\ [r EXCEPT !.lock = r.lock, !.released = TRUE, !.call = c]
                  = [r EXCEPT !.call = c, !.released = TRUE]
  BY CallerIs

\* A call at work moves on or settles.
LEMMA CallInv ==
    ASSUME IInv, NEW a \in Callers,
           \/ StatementEnds(a) \/ PostgresStatementFails(a) \/ MySqlStatementFails(a)
           \/ JobCreated(a) \/ JobFails(a) \/ JobStreamed(a) \/ JobSucceeds(a)
    PROVE  IInv'
  <1> DEFINE r == caller[a]
  <1>1. /\ Fit(r) /\ ProcessFits /\ r \in Caller /\ leased \in Nat /\ broken = 0
        /\ r.jobs \in JobAttempts /\ r.released \in BOOLEAN
    BY CallerKnown, FieldsTyped
  <1>2. r.call \in {"creating", "running", "checking"} /\ r.pc = "executing"
    BY <1>1 DEF StatementEnds, PostgresStatementFails, MySqlStatementFails, JobCreated,
                JobFails, JobStreamed, JobSucceeds, Fit, CallFits
  <1>3. Elsewhere /\ queue' = queue
    BY DEF StatementEnds, PostgresStatementFails, MySqlStatementFails, JobCreated,
           JobFails, JobStreamed, JobSucceeds, JobLeaves, Elsewhere
  <1>4. HoldsJob(r) <=> adapter = "bigquery"
    BY <1>2 DEF HoldsJob
  <1>5. ASSUME NEW s, NEW h \in {-1, 0}, Moved(r, s, h, 0), s.pc = r.pc,
               caller' = [caller EXCEPT ![a] = s],
               leased' = leased + h, broken' = 0
        PROVE  IInv'
    <2>1. NoSlot(r, s)
      BY <1>5 DEF NoSlot
    <2>2. h \in {-1, 0, 1} /\ h # 1
      BY <1>5
    <2> QED BY <1>3, <1>5, <2>1, <2>2, OneMovesAside
  <1>6. ASSUME NEW call \in {"creating", "running", "checking", "ended", "rejected"},
               NEW sent \in {r.sent, r.attempt}, NEW jobs \in JobAttempts,
               adapter # "bigquery" => call \in {"ended", "rejected"},
               caller' = [caller EXCEPT ![a] =
                             [r EXCEPT !.call = call, !.sent = sent, !.jobs = jobs]],
               IF adapter = "bigquery" /\ call \in {"ended", "rejected"}
               THEN JobLeaves ELSE UNCHANGED <<leased, broken>>
        PROVE  IInv'
    <2> DEFINE s == [r EXCEPT !.call = call, !.sent = sent, !.jobs = jobs]
               h == IF adapter = "bigquery" /\ call \in {"ended", "rejected"} THEN -1
                    ELSE 0
    <2>1. Moved(r, s, IF HoldsJob(r) /\ call \in {"ended", "rejected"} THEN -1
                      ELSE IF ~HoldsJob(r) /\ adapter = "bigquery"
                              /\ call \notin {"ended", "rejected"} THEN 1 ELSE 0, 0)
      BY <1>1, <1>2, <1>6, CallMoves
    <2>2. Moved(r, s, h, 0)
      BY <1>4, <2>1
    <2>3. s.pc = r.pc
      BY <1>1, CallerIs
    <2>4. leased' = leased + h /\ broken' = 0
      BY <1>1, <1>6 DEF JobLeaves
    <2>5. h \in {-1, 0}
      OBVIOUS
    <2> HIDE DEF s, h
    <2> QED BY <1>5, <1>6, <2>2, <2>3, <2>4, <2>5 DEF s
  <1>7. CASE StatementEnds(a)
    <2>1. caller' = [caller EXCEPT ![a] = [r EXCEPT !.call = "ended", !.sent = r.sent,
                                                    !.jobs = r.jobs]]
      BY <1>1, <1>7, SameRecord DEF StatementEnds
    <2> QED BY <1>1, <1>6, <1>7, <2>1 DEF StatementEnds
  <1>8. CASE MySqlStatementFails(a)
    <2>1. caller' = [caller EXCEPT ![a] = [r EXCEPT !.call = "rejected", !.sent = r.sent,
                                                    !.jobs = r.jobs]]
      BY <1>1, <1>8, SameRecord DEF MySqlStatementFails
    <2> QED BY <1>1, <1>6, <1>8, <2>1 DEF MySqlStatementFails
  <1>9. CASE JobStreamed(a)
    <2>1. caller' = [caller EXCEPT ![a] = [r EXCEPT !.call = "checking", !.sent = r.sent,
                                                    !.jobs = r.jobs]]
      BY <1>1, <1>9, SameRecord DEF JobStreamed
    <2> QED BY <1>1, <1>6, <1>9, <2>1 DEF JobStreamed
  <1>10. CASE JobSucceeds(a)
    <2>1. caller' = [caller EXCEPT ![a] = [r EXCEPT !.call = "ended", !.sent = r.sent,
                                                    !.jobs = r.jobs]]
      BY <1>1, <1>10, SameRecord DEF JobSucceeds
    <2>2. adapter = "bigquery" /\ JobLeaves
      BY <1>1, <1>10 DEF JobSucceeds, Fit, CallFits
    <2> QED BY <1>1, <1>6, <2>1, <2>2
  <1>11. CASE JobCreated(a)
    <2>1. adapter = "bigquery"
      BY <1>1, <1>11 DEF JobCreated, Fit, CallFits
    <2>2. CASE r.onCancel = "called"
      <3>1. caller' = [caller EXCEPT ![a] = [r EXCEPT !.call = "rejected",
                                               !.sent = r.sent, !.jobs = r.jobs]]
            /\ JobLeaves
        BY <1>1, <1>11, <2>2, SameRecord DEF JobCreated
      <3> QED BY <1>1, <1>6, <2>1, <3>1
    <2>3. CASE r.onCancel # "called"
      <3>1. caller' = [caller EXCEPT ![a] = [r EXCEPT !.call = "running",
                                               !.sent = r.attempt, !.jobs = r.jobs]]
            /\ UNCHANGED <<leased, broken>>
        <4>1. /\ caller' = [caller EXCEPT ![a] = [r EXCEPT !.call = "running",
                                                         !.sent = r.attempt]]
              /\ UNCHANGED <<leased, broken>>
          BY <1>11, <2>3 DEF JobCreated
        <4>2. [r EXCEPT !.call = "running", !.sent = r.attempt, !.jobs = r.jobs]
                  = [r EXCEPT !.call = "running", !.sent = r.attempt]
          BY <1>1, SameRecord
        <4> QED BY <4>1, <4>2
      <3> QED BY <1>1, <1>6, <2>1, <3>1
    <2> QED BY <2>2, <2>3
  <1>12. CASE JobFails(a)
    <2>1. adapter = "bigquery"
      BY <1>12 DEF JobFails
    <2>2. CASE caller' = [caller EXCEPT ![a].call = "rejected"] /\ JobLeaves
      <3>1. caller' = [caller EXCEPT ![a] = [r EXCEPT !.call = "rejected",
                                               !.sent = r.sent, !.jobs = r.jobs]]
        BY <1>1, <2>2, SameRecord
      <3> QED BY <1>1, <1>6, <2>1, <2>2, <3>1
    <2>3. CASE /\ r.jobs < JOB_MAX_ATTEMPTS
               /\ caller' = [caller EXCEPT ![a].call = "creating", ![a].jobs = @ + 1]
               /\ UNCHANGED <<leased, broken>>
      <3> DEFINE n == r.jobs + 1
      <3>1. n \in JobAttempts
        BY <1>1, <2>3 DEF JobAttempts, JOB_MAX_ATTEMPTS
      <3>2. caller' = [caller EXCEPT ![a] = [r EXCEPT !.call = "creating", !.jobs = n]]
        BY <1>1, <2>3
      <3> HIDE DEF n
      <3>3. caller' = [caller EXCEPT ![a] = [r EXCEPT !.call = "creating",
                                               !.sent = r.sent, !.jobs = n]]
        BY <1>1, <3>2, SameRecord
      <3> QED BY <1>1, <1>6, <2>1, <2>3, <3>1, <3>3
    <2> QED BY <1>12, <2>2, <2>3 DEF JobFails
  <1>13. CASE PostgresStatementFails(a)
    <2> DEFINE h == IF r.released THEN 0 ELSE -1
               s == [r EXCEPT !.lock = r.lock, !.released = TRUE, !.call = "rejected"]
    <2>1. adapter = "postgres" /\ r.call = "running" /\ ReleaseOnce(r, TRUE, TRUE)
      BY <1>13 DEF PostgresStatementFails
    <2>2. r.lock = "whole"
      BY <1>1, <1>2, <2>1, FieldsTyped DEF Fit, LockFits, Inside, Locks
    <2>3. caller' = [caller EXCEPT ![a] = s]
      <3>1. caller' = [caller EXCEPT ![a] = [r EXCEPT !.call = "rejected",
                                                      !.released = TRUE]]
        BY <1>13 DEF PostgresStatementFails
      <3>2. s = [r EXCEPT !.call = "rejected", !.released = TRUE]
        BY <1>1, SameRecord
      <3> QED BY <3>1, <3>2
    <2>4. Moved(r, s, h, 0)
      <3>1. "rejected" # "running" /\ "rejected" \in {"rejected", r.call}
        OBVIOUS
      <3> QED BY <1>1, <1>2, <2>1, <2>2, <3>1, GivenBackMoves
    <2>5. leased' = leased + h /\ broken' = 0
      BY <1>1, <2>1, ReleaseOnceIs
    <2>6. h \in {-1, 0} /\ s.pc = r.pc
      BY <1>1, CallerIs
    <2> HIDE DEF h, s
    <2> QED BY <1>5, <2>3, <2>4, <2>5, <2>6
  <1> QED BY <1>7, <1>8, <1>9, <1>10, <1>11, <1>12, <1>13

-----------------------------------------------------------------------------
(* Steps of several callers: a slot that is handed over, a cancellation.   *)

LEMMA ManyMove ==
    ASSUME CallersFit, QueueFits, adapter' = adapter, queue' = queue,
           DOMAIN caller' = Callers, caller' \in [Callers -> Caller],
           \A b \in Callers : \E h : Moved(caller[b], caller'[b], h, 0)
    PROVE  CallersFit' /\ QueueFits'
  <1>1. CallersFit'
    BY NextCallersFit DEF Moved
  <1>2. /\ \A b \in Callers : Lines(caller[b], Cardinality(InLine(queue, b)))
        /\ \A b \in Callers : Cardinality(InLine(queue, b)) \in Nat
    BY InLineFinite, LenProperties DEF QueueFits
  <1>3. \A b \in Callers : Lines(caller'[b], Cardinality(InLine(queue, b)))
    BY <1>2 DEF Moved
  <1>4. QueueFits'
    BY <1>3 DEF QueueFits, InLine, Lines
  <1> QED BY <1>1, <1>4

LEMMA SameHeld ==
    ASSUME PoolFits, adapter' = adapter, UNCHANGED <<leased, broken>>,
           \A b \in Callers : Holds(caller'[b]) = Holds(caller[b])
    PROVE  PoolFits'
  <1>1. HeldBy(caller') = HeldBy(caller)
    BY DEF HeldBy
  <1> QED BY <1>1, NextInUse DEF PoolFits

\* A slot that an extract leaves goes to the one that waits longest, if any.
LEMMA ReleaseInv ==
    ASSUME IInv, NEW a \in Callers, caller[a].op = "extract",
           caller[a].pc = "stepping", NEW s, s.pc = "leaving",
           Moved(caller[a], s, 0, 0), ReleaseExtractSlot([caller EXCEPT ![a] = s]),
           adapter' = adapter, executor' = executor, cancelled' = cancelled,
           queue' = queue, leased' = leased, broken' = broken
    PROVE  IInv'
  <1>1. /\ CallersFit /\ QueueFits /\ PoolFits /\ SlotsFit /\ ProcessFits
        /\ ProcessFits' /\ caller \in [Callers -> Caller]
        /\ \A b \in Callers : Fit(caller[b])
    BY DEF IInv, ProcessFits, CallersFit
  <1>2. s \in Caller /\ s.op = "extract"
    BY DEF Moved, Fit
  <1>3. \A b \in Callers : Moved(caller[b], caller[b], 0, 0)
    <2>1. \A b \in Callers : Holds(caller[b]) \in Nat
      BY <1>1, HoldsTyped
    <2> QED BY <1>1, <2>1 DEF Moved
  <1>4. a \in AtWork /\ IsFiniteSet(AtWork) /\ slots = Cardinality(AtWork)
        /\ slots <= MAX_CONCURRENT_EXTRACTS /\ MAX_CONCURRENT_EXTRACTS \in Nat
    BY <1>1, Constants DEF AtWork, SlotsFit
  <1>5. Cardinality(AtWork) \in Nat
    BY <1>4, FS_CardinalityType
  <1>6. waiters \in Seq(Callers)
    BY <1>1 DEF SlotsFit
  <1>7. CASE waiters = <<>>
    <2>1. caller' = [caller EXCEPT ![a] = s] /\ slots' = slots - 1
          /\ waiters' = waiters
      BY <1>7 DEF ReleaseExtractSlot
    <2>2. /\ caller' \in [Callers -> Caller] /\ caller'[a] = s
          /\ \A b \in Callers : b # a => caller'[b] = caller[b]
      BY <1>1, <1>2, <2>1
    <2>3. \A b \in Callers : Moved(caller[b], caller'[b], 0, 0)
      BY <1>3, <2>2
    <2>4. CallersFit' /\ QueueFits'
      BY <1>1, <2>2, <2>3, ManyMove
    <2>5. PoolFits'
      <3>1. \A b \in Callers : Holds(caller'[b]) = Holds(caller[b])
        BY <1>1, <2>3, HoldsTyped DEF Moved
      <3> QED BY <1>1, <3>1, SameHeld
    <2>6. AtWork' = AtWork \ {a}
      BY <2>2 DEF AtWork
    <2>7. SlotsFit'
      <3>1. IsFiniteSet(AtWork') /\ Cardinality(AtWork') = Cardinality(AtWork) - 1
        BY <1>4, <2>6, FS_RemoveElement
      <3>2. Len(waiters') = 0
        BY <1>7, <2>1
      <3> QED BY <1>4, <1>5, <1>6, <2>1, <3>1, <3>2 DEF SlotsFit
    <2> QED BY <1>1, <2>4, <2>5, <2>7 DEF IInv
  <1>8. CASE waiters # <<>>
    <2> DEFINE w == Head(waiters)
               t == [caller[w] EXCEPT !.pc = "stepping"]
    <2>1. /\ w = waiters[1] /\ w \in Callers /\ Len(waiters) \in Nat \ {0}
          /\ Tail(waiters) \in Seq(Callers) /\ Len(Tail(waiters)) = Len(waiters) - 1
          /\ \A i \in 1..Len(Tail(waiters)) : Tail(waiters)[i] = waiters[i + 1]
      BY <1>6, <1>8, HeadTailProperties, EmptySeq
    <2>2. caller[w].pc = "slot" /\ w # a
      BY <1>1, <2>1 DEF SlotsFit
    <2>3. caller[w].op = "extract" /\ caller[w].steps # <<>> /\ Fit(caller[w])
      BY <1>1, <2>1, <2>2 DEF Fit, StepsFit
    <2>4. Moved(caller[w], t, 0, 0)
      BY <1>1, <2>2, <2>3, AcquireMoves
    <2>5. t \in Caller /\ t.pc = "stepping" /\ t.op = "extract"
      BY <2>3, FitTyped, SetField, CallerIs, Names
    <2>6. /\ caller' = [[caller EXCEPT ![a] = s] EXCEPT ![w].pc = "stepping"]
          /\ waiters' = Tail(waiters) /\ slots' = slots
      BY <1>8 DEF ReleaseExtractSlot
    <2>7. /\ caller' \in [Callers -> Caller] /\ caller'[a] = s /\ caller'[w] = t
          /\ \A b \in Callers : b # a /\ b # w => caller'[b] = caller[b]
      <3>1. caller' = [[caller EXCEPT ![a] = s] EXCEPT ![w] = t]
        BY <1>1, <2>1, <2>2, <2>6
      <3> HIDE DEF t, w
      <3> QED BY <1>1, <1>2, <2>1, <2>2, <2>5, <3>1
    <2> HIDE DEF t, w
    <2>8. \A b \in Callers : Moved(caller[b], caller'[b], 0, 0)
      BY <1>3, <2>4, <2>7
    <2>9. CallersFit' /\ QueueFits'
      BY <1>1, <2>7, <2>8, ManyMove
    <2>10. PoolFits'
      <3>1. \A b \in Callers : Holds(caller'[b]) = Holds(caller[b])
        BY <1>1, <2>8, HoldsTyped DEF Moved
      <3> QED BY <1>1, <3>1, SameHeld
    <2>11. AtWork' = (AtWork \ {a}) \union {w}
      BY <2>1, <2>2, <2>5, <2>7 DEF AtWork
    <2>12. IsFiniteSet(AtWork') /\ Cardinality(AtWork') = Cardinality(AtWork)
      <3>1. w \notin AtWork
        BY <2>2 DEF AtWork
      <3>2. /\ IsFiniteSet(AtWork \ {a})
            /\ Cardinality(AtWork \ {a}) = Cardinality(AtWork) - 1
        BY <1>4, FS_RemoveElement
      <3>3. /\ IsFiniteSet((AtWork \ {a}) \union {w})
            /\ Cardinality((AtWork \ {a}) \union {w}) = Cardinality(AtWork \ {a}) + 1
        BY <3>1, <3>2, FS_AddElement
      <3> QED BY <1>5, <2>11, <3>2, <3>3
    <2>13. ASSUME NEW i \in 1..Len(Tail(waiters))
           PROVE  /\ i + 1 \in 1..Len(waiters) /\ waiters[i + 1] \in Callers
                  /\ caller'[waiters[i + 1]].pc = "slot"
      <3>1. i + 1 \in 1..Len(waiters) /\ 1 \in 1..Len(waiters) /\ i + 1 # 1
        BY <2>1
      <3>2. waiters[i + 1] # w /\ caller[waiters[i + 1]].pc = "slot"
        BY <1>1, <2>1, <3>1 DEF SlotsFit
      <3>3. waiters[i + 1] \in Callers /\ waiters[i + 1] # a
        BY <1>6, <3>1, <3>2, ElementOfSeq
      <3> QED BY <2>7, <3>1, <3>2, <3>3
    <2>14. \A i \in 1..Len(Tail(waiters)) : caller'[Tail(waiters)[i]].pc = "slot"
      BY <2>1, <2>13
    <2>15. \A i, j \in 1..Len(Tail(waiters)) :
              i # j => Tail(waiters)[i] # Tail(waiters)[j]
      <3> SUFFICES ASSUME NEW i \in 1..Len(Tail(waiters)),
                          NEW j \in 1..Len(Tail(waiters)), i # j
                   PROVE  Tail(waiters)[i] # Tail(waiters)[j]
        OBVIOUS
      <3>1. i + 1 # j + 1
        OBVIOUS
      <3>2. waiters[i + 1] # waiters[j + 1]
        BY <1>1, <2>13, <3>1 DEF SlotsFit
      <3> QED BY <2>1, <3>2
    <2>16. SlotsFit'
      BY <1>4, <2>1, <2>6, <2>12, <2>14, <2>15 DEF SlotsFit
    <2> QED BY <1>1, <2>9, <2>10, <2>16 DEF IInv
  <1> QED BY <1>7, <1>8

-----------------------------------------------------------------------------
(* The slots.                                                              *)

\* A step of one caller that leaves pool and line as they are.
LEMMA OneStays ==
    ASSUME IInv, NEW a \in Callers, NEW s, Moved(caller[a], s, 0, 0),
           caller' = [caller EXCEPT ![a] = s], ProcessFits', adapter' = adapter,
           queue' = queue, leased' = leased, broken' = broken
    PROVE  /\ CallersFit' /\ QueueFits' /\ PoolFits'
           /\ caller'[a] = s /\ \A b \in Callers : b # a => caller'[b] = caller[b]
  <1>1. /\ CallersFit /\ QueueFits /\ PoolFits /\ caller \in [Callers -> Caller]
        /\ \A b \in Callers : Fit(caller[b]) /\ Holds(caller[b]) \in Nat
    BY HoldsTyped DEF IInv, CallersFit
  <1>2. s \in Caller
    BY DEF Moved, Fit
  <1>3. /\ caller' \in [Callers -> Caller] /\ caller'[a] = s
        /\ \A b \in Callers : b # a => caller'[b] = caller[b]
    BY <1>1, <1>2
  <1>4. \A b \in Callers : Moved(caller[b], caller'[b], 0, 0)
    <2>1. \A b \in Callers : Moved(caller[b], caller[b], 0, 0)
      BY <1>1 DEF Moved
    <2> QED BY <1>3, <2>1
  <1>5. CallersFit' /\ QueueFits'
    BY <1>1, <1>3, <1>4, ManyMove
  <1>6. \A b \in Callers : Holds(caller'[b]) = Holds(caller[b])
    BY <1>1, <1>4 DEF Moved
  <1>7. PoolFits'
    BY <1>1, <1>6, SameHeld
  <1> QED BY <1>3, <1>5, <1>7

LEMMA AcquireInv == ASSUME IInv, NEW a \in Callers, Acquire(a) PROVE IInv'
  <1> DEFINE r == caller[a]
             t == [r EXCEPT !.pc = "stepping"]
             u == [r EXCEPT !.pc = "slot"]
             v == [r EXCEPT !.pc = "leaving"]
             h == 0
  <1>1. /\ Fit(r) /\ ProcessFits /\ r \in Caller /\ leased \in Nat /\ broken = 0
        /\ r.pc = "between" /\ SlotsFit
    BY CallerKnown DEF Acquire, IInv
  <1>2. /\ r.steps # <<>> => Moved(r, t, 0, 0)
        /\ r.op = "extract" /\ r.steps # <<>> => Moved(r, u, 0, 0)
        /\ Moved(r, v, 0, 0)
    BY <1>1, AcquireMoves
  <1>3. /\ t.pc = "stepping" /\ u.pc = "slot" /\ v.pc = "leaving"
        /\ t.op = r.op /\ u.op = r.op /\ v.op = r.op
    BY <1>1, CallerIs
  <1>4. /\ adapter' = adapter /\ executor' = executor /\ cancelled' = cancelled
        /\ queue' = queue /\ leased' = leased /\ broken' = broken
        /\ ProcessFits'
    BY <1>1 DEF Acquire, ProcessFits
  <1>5. /\ leased' = leased + h /\ broken' = 0 /\ h \in {-1, 0, 1} /\ h # 1
        /\ \A s : Moved(r, s, 0, 0) => Moved(r, s, h, 0)
    BY <1>1, <1>4
  <1>6. /\ IsFiniteSet(AtWork) /\ slots = Cardinality(AtWork)
        /\ slots <= MAX_CONCURRENT_EXTRACTS /\ MAX_CONCURRENT_EXTRACTS \in Nat
        /\ Cardinality(AtWork) \in Nat /\ waiters \in Seq(Callers) /\ a \notin AtWork
        /\ \A i \in 1..Len(waiters) : caller[waiters[i]].pc = "slot"
        /\ \A i, j \in 1..Len(waiters) : i # j => waiters[i] # waiters[j]
    BY <1>1, Constants, FS_CardinalityType DEF SlotsFit, AtWork
  <1>7. \A i \in 1..Len(waiters) : waiters[i] \in Callers /\ waiters[i] # a
    BY <1>1, <1>6, ElementOfSeq
  <1> HIDE DEF t, u, v, h
  <1>8. CASE /\ r.steps # <<>> /\ r.op # "extract"
             /\ caller' = [caller EXCEPT ![a] = t] /\ UNCHANGED <<slots, waiters>>
    <2>1. NoSlot(r, t)
      BY <1>1, <1>3, <1>8 DEF NoSlot
    <2> QED BY <1>2, <1>4, <1>5, <1>8, <2>1, OneMovesAside DEF Elsewhere
  <1>9. CASE caller' = [caller EXCEPT ![a] = v] /\ UNCHANGED <<slots, waiters>>
    <2>1. NoSlot(r, v)
      BY <1>1, <1>3 DEF NoSlot
    <2> QED BY <1>2, <1>4, <1>5, <1>9, <2>1, OneMovesAside DEF Elsewhere
  <1>10. CASE /\ r.steps # <<>> /\ r.op = "extract"
              /\ slots < MAX_CONCURRENT_EXTRACTS
              /\ caller' = [caller EXCEPT ![a] = t] /\ slots' = slots + 1
              /\ UNCHANGED waiters
    <2>1. /\ CallersFit' /\ QueueFits' /\ PoolFits' /\ caller'[a] = t
          /\ \A b \in Callers : b # a => caller'[b] = caller[b]
      BY <1>2, <1>4, <1>10, OneStays
    <2>2. AtWork' = AtWork \union {a}
      BY <1>3, <1>10, <2>1 DEF AtWork
    <2>3. IsFiniteSet(AtWork') /\ Cardinality(AtWork') = Cardinality(AtWork) + 1
      BY <1>6, <2>2, FS_AddElement
    <2>4. \A i \in 1..Len(waiters) : caller'[waiters[i]].pc = "slot"
      BY <1>6, <1>7, <2>1
    <2>5. SlotsFit'
      BY <1>6, <1>10, <2>3, <2>4 DEF SlotsFit
    <2> QED BY <1>4, <2>1, <2>5 DEF IInv
  <1>11. CASE /\ r.steps # <<>> /\ r.op = "extract"
              /\ caller' = [caller EXCEPT ![a] = u] /\ waiters' = Append(waiters, a)
              /\ UNCHANGED slots
    <2>1. /\ CallersFit' /\ QueueFits' /\ PoolFits' /\ caller'[a] = u
          /\ \A b \in Callers : b # a => caller'[b] = caller[b]
      BY <1>2, <1>4, <1>11, OneStays
    <2>2. AtWork' = AtWork
      BY <1>1, <1>3, <2>1 DEF AtWork
    <2>3. /\ waiters' \in Seq(Callers) /\ Len(waiters') = Len(waiters) + 1
          /\ Len(waiters) \in Nat /\ waiters'[Len(waiters) + 1] = a
          /\ \A i \in 1..Len(waiters) : waiters'[i] = waiters[i]
      BY <1>6, <1>11, AppendProperties
    <2>4. \A i \in 1..Len(waiters') : i = Len(waiters) + 1 \/ i \in 1..Len(waiters)
      BY <2>3
    <2>5. \A i \in 1..Len(waiters') : caller'[waiters'[i]].pc = "slot"
      BY <1>3, <1>6, <1>7, <2>1, <2>3, <2>4
    <2>6. \A i, j \in 1..Len(waiters') : i # j => waiters'[i] # waiters'[j]
      BY <1>6, <1>7, <2>3, <2>4
    <2>7. SlotsFit'
      BY <1>6, <1>11, <2>2, <2>3, <2>5, <2>6 DEF SlotsFit
    <2> QED BY <1>4, <2>1, <2>7 DEF IInv
  <1>12. \/ /\ r.steps # <<>> /\ r.op # "extract"
            /\ caller' = [caller EXCEPT ![a] = t] /\ UNCHANGED <<slots, waiters>>
         \/ caller' = [caller EXCEPT ![a] = v] /\ UNCHANGED <<slots, waiters>>
         \/ /\ r.steps # <<>> /\ r.op = "extract" /\ slots < MAX_CONCURRENT_EXTRACTS
            /\ caller' = [caller EXCEPT ![a] = t] /\ slots' = slots + 1
            /\ UNCHANGED waiters
         \/ /\ r.steps # <<>> /\ r.op = "extract"
            /\ caller' = [caller EXCEPT ![a] = u] /\ waiters' = Append(waiters, a)
            /\ UNCHANGED slots
    BY DEF Acquire, t, u, v
  <1> QED BY <1>8, <1>9, <1>10, <1>11, <1>12

LEMMA RefuseInv == ASSUME IInv, NEW a \in Callers, Refuse(a) PROVE IInv'
  <1> DEFINE r == caller[a]
             s == [r EXCEPT !.pc = "leaving", !.steps = <<>>, !.task = Tasks,
                            !.result = "FAILED"]
             h == 0
  <1>1. /\ Fit(r) /\ ProcessFits /\ r \in Caller /\ leased \in Nat /\ broken = 0
        /\ r.pc = "between"
    BY CallerKnown DEF Refuse
  <1>2. Moved(r, s, 0, 0)
    BY <1>1, AcquireMoves
  <1>3. NoSlot(r, s)
    BY <1>1, CallerIs DEF NoSlot
  <1>4. caller' = [caller EXCEPT ![a] = s] /\ Elsewhere /\ queue' = queue
    BY DEF Refuse, Elsewhere
  <1>5. /\ leased' = leased + h /\ broken' = 0 /\ h \in {-1, 0, 1} /\ h # 1
        /\ Moved(r, s, h, 0)
    BY <1>1, <1>2 DEF Refuse
  <1> HIDE DEF s, h
  <1> QED BY <1>3, <1>4, <1>5, OneMovesAside

LEMMA StepEndsInv == ASSUME IInv, NEW a \in Callers, StepEnds(a) PROVE IInv'
  <1> DEFINE r == caller[a]
             next == [r EXCEPT !.steps = Tail(@),
                               !.own = (@ \union Opens(Head(r.steps))) \ Closes(r)]
             last == [next EXCEPT !.pc = "leaving", !.task = Tasks]
             h == 0
  <1>1. /\ Fit(r) /\ ProcessFits /\ r \in Caller /\ leased \in Nat /\ broken = 0
        /\ r.pc = "stepping"
    BY CallerKnown DEF StepEnds
  <1>2. IF Len(r.steps) > 1 THEN Moved(r, next, 0, 0) ELSE Moved(r, last, 0, 0)
    BY <1>1, StepEndsMoves
  <1>3. next.pc = "stepping" /\ next.op = r.op /\ last.pc = "leaving" /\ last.op = r.op
    BY <1>1, CallerIs
  <1>4. /\ adapter' = adapter /\ executor' = executor /\ cancelled' = cancelled
        /\ queue' = queue /\ leased' = leased /\ broken' = broken
    BY DEF StepEnds
  <1>5. /\ leased' = leased + h /\ broken' = 0 /\ h \in {-1, 0, 1} /\ h # 1
        /\ \A s : Moved(r, s, 0, 0) => Moved(r, s, h, 0)
    BY <1>1, <1>4
  <1>6. \/ /\ Len(r.steps) > 1 /\ caller' = [caller EXCEPT ![a] = next]
           /\ UNCHANGED <<slots, waiters>>
        \/ /\ ~(Len(r.steps) > 1) /\ r.op = "extract"
           /\ ReleaseExtractSlot([caller EXCEPT ![a] = last])
        \/ /\ ~(Len(r.steps) > 1) /\ r.op # "extract"
           /\ caller' = [caller EXCEPT ![a] = last] /\ UNCHANGED <<slots, waiters>>
    BY DEF StepEnds
  <1> HIDE DEF next, last, h
  <1>7. NoSlot(r, next) /\ (r.op # "extract" => NoSlot(r, last))
    BY <1>1, <1>3 DEF NoSlot
  <1>8. CASE Len(r.steps) > 1
    BY <1>2, <1>4, <1>5, <1>6, <1>7, <1>8, OneMovesAside DEF Elsewhere
  <1>9. CASE ~(Len(r.steps) > 1) /\ r.op = "extract"
    BY <1>1, <1>2, <1>3, <1>4, <1>6, <1>9, ReleaseInv
  <1>10. CASE ~(Len(r.steps) > 1) /\ r.op # "extract"
    BY <1>2, <1>4, <1>5, <1>6, <1>7, <1>10, OneMovesAside DEF Elsewhere
  <1> QED BY <1>8, <1>9, <1>10

LEMMA StepFailsInv == ASSUME IInv, NEW a \in Callers, StepFails(a) PROVE IInv'
  <1> DEFINE r == caller[a]
             result == IF cancelled THEN "CANCELLED" ELSE "FAILED"
             s == [r EXCEPT !.pc = "leaving", !.steps = <<>>, !.own = LeftOpen(r),
                            !.task = Tasks, !.result = result]
             h == 0
  <1>1. /\ Fit(r) /\ ProcessFits /\ r \in Caller /\ leased \in Nat /\ broken = 0
        /\ r.pc = "stepping"
    BY CallerKnown DEF StepFails
  <1>2. result \in Results
    BY Names
  <1>3. Moved(r, s, 0, 0)
    <2> HIDE DEF result
    <2> QED BY <1>1, <1>2, StepFailsMoves
  <1>4. s.pc = "leaving" /\ s.op = r.op
    BY <1>1, CallerIs
  <1>5. /\ adapter' = adapter /\ executor' = executor /\ cancelled' = cancelled
        /\ queue' = queue /\ leased' = leased /\ broken' = broken
    BY DEF StepFails
  <1>6. /\ leased' = leased + h /\ broken' = 0 /\ h \in {-1, 0, 1} /\ h # 1
        /\ Moved(r, s, h, 0)
    BY <1>1, <1>3, <1>5
  <1>7. IF r.op = "extract" THEN ReleaseExtractSlot([caller EXCEPT ![a] = s])
        ELSE caller' = [caller EXCEPT ![a] = s] /\ UNCHANGED <<slots, waiters>>
    BY DEF StepFails
  <1> HIDE DEF s, h
  <1>8. r.op # "extract" => NoSlot(r, s)
    BY <1>1, <1>4 DEF NoSlot
  <1>9. CASE r.op = "extract"
    BY <1>1, <1>3, <1>4, <1>5, <1>7, <1>9, ReleaseInv
  <1>10. CASE r.op # "extract"
    BY <1>5, <1>6, <1>7, <1>8, <1>10, OneMovesAside DEF Elsewhere
  <1> QED BY <1>9, <1>10

-----------------------------------------------------------------------------
(* The end of the lock, and the batches.                                   *)

LEMMA LeaveInv == ASSUME IInv, NEW a \in Callers, Leave(a) PROVE IInv'
  <1> DEFINE r == caller[a]
             s == [r EXCEPT !.lock = "none", !.released = FALSE,
                            !.pc = IF r.result = "RUNNING" /\ r.op = "action"
                                   THEN "describing" ELSE "over",
                            !.result = IF @ = "RUNNING" /\ r.op # "action"
                                       THEN "SUCCESSFUL" ELSE @]
             h == IF r.lock # "none" /\ ~r.released THEN -1 ELSE 0
  <1>1. /\ Fit(r) /\ ProcessFits /\ r \in Caller /\ leased \in Nat /\ broken = 0
        /\ r.pc = "leaving" /\ r.released \in BOOLEAN
    BY CallerKnown, FieldsTyped DEF Leave
  <1>2. Moved(r, s, h, 0)
    BY <1>1, LeaveMoves
  <1>3. s.pc \in {"describing", "over"}
    BY <1>1, CallerIs
  <1>4. caller' = [caller EXCEPT ![a] = s] /\ Elsewhere /\ queue' = queue
    BY DEF Leave, Elsewhere
  <1>5. leased' = leased + h /\ broken' = 0
    <2>1. CASE r.lock = "none"
      BY <1>1, <2>1 DEF Leave
    <2>2. CASE r.lock # "none"
      <3>1. ReleaseOnce(r, FALSE, r.lock = "lost")
        BY <2>2 DEF Leave
      <3>2. r.released \/ ~(r.lock = "lost")
        BY <1>1 DEF Fit, LockFits
      <3>3. leased' = leased + (IF r.released THEN 0 ELSE -1) /\ broken' = 0
        BY <1>1, <3>1, <3>2, ReleaseOnceIs
      <3> QED BY <2>2, <3>3
    <2> QED BY <2>1, <2>2
  <1>6. h \in {-1, 0, 1} /\ h # 1
    OBVIOUS
  <1> HIDE DEF s, h
  <1>7. NoSlot(r, s)
    BY <1>1, <1>3 DEF NoSlot
  <1> QED BY <1>2, <1>4, <1>5, <1>6, <1>7, OneMovesAside

\* A batch that starts for a caller as it is in the record q.
LEMMA StartBatchInv ==
    ASSUME IInv, NEW a \in Callers, NEW q, Moved(caller[a], q, 0, 0),
           \/ q.pc \in {"start", "describing"}
           \/ q.pc = "batch" /\ q.left = 0,
           caller[a].pc \notin {"slot", "stepping"},
           NEW todo \in Batches, todo # <<>>, StartBatch(a, q, todo),
           adapter' = adapter, executor' = executor, cancelled' = cancelled,
           leased' = leased, broken' = broken, slots' = slots, waiters' = waiters
    PROVE  IInv'
  <1> DEFINE r == caller[a]
             k == IF Head(todo).via = "api" THEN 0 ELSE Head(todo).n
             s == [q EXCEPT !.pc = "batch", !.batches = todo, !.left = Head(todo).n,
                            !.running = IF Head(todo).via = "api" THEN Head(todo).n
                                        ELSE 0]
  <1>1. /\ Fit(r) /\ ProcessFits /\ Cardinality(InLine(queue, a)) \in Nat
        /\ Lines(r, Cardinality(InLine(queue, a))) /\ queue \in Seq(Callers)
    BY CallerKnown
  <1>2. Fit(q) /\ q \in Caller /\ Holds(r) \in Nat /\ Holds(q) = Holds(r) + 0
        /\ q.op = r.op
    BY <1>1, HoldsTyped DEF Moved, Fit
  <1>3. \A n \in Nat : Lines(r, n) => Lines(q, n)
    BY DEF Moved
  <1>4. Moved(q, s, 0, k)
    BY <1>1, <1>2, <1>3, StartBatchMoves
  <1>5. k \in Nat
    BY BatchTyped
  <1>6. s.pc = "batch"
    BY <1>2, CallerIs
  <1>7. caller' = [caller EXCEPT ![a] = s] /\ queue' = queue \o Copies(a, k)
    <2>1. queue \o Copies(a, 0) = queue
      BY <1>1, AppendIsCopies
    <2> QED BY <2>1 DEF StartBatch
  <1> HIDE DEF s, k
  <1>8. Moved(r, s, 0, k)
    BY <1>2, <1>3, <1>4 DEF Moved
  <1>9. NoSlot(r, s)
    BY <1>6 DEF NoSlot
  <1> QED BY <1>5, <1>7, <1>8, <1>9, OneMovesInLine DEF Elsewhere

LEMMA SelfMoves == ASSUME NEW r, Fit(r) PROVE Moved(r, r, 0, 0)
  BY HoldsTyped DEF Moved

LEMMA BeginInv == ASSUME IInv, NEW a \in Callers, Begin(a) PROVE IInv'
  <1> DEFINE r == caller[a]
  <1>1. /\ Fit(r) /\ ProcessFits /\ r \in Caller /\ r.op \in Op
        /\ r.pc \in {"start", "describing"}
    BY CallerKnown, FieldsTyped DEF Begin
  <1>2. r.op \in Op \ RunnerSide
    BY <1>1 DEF Begin, RunnerOps, RunnerSide, Fit, BatchFits
  <1>3. First(r.op) \in Batches /\ First(r.op) # <<>>
    BY <1>1, <1>2, FirstTyped
  <1>4. Moved(r, r, 0, 0)
    BY <1>1, SelfMoves
  <1>5. /\ StartBatch(a, r, First(r.op)) /\ adapter' = adapter
        /\ executor' = executor /\ cancelled' = cancelled /\ leased' = leased
        /\ broken' = broken /\ slots' = slots /\ waiters' = waiters
    BY DEF Begin
  <1>6. r.pc \notin {"slot", "stepping"}
    BY <1>1
  <1> HIDE DEF r
  <1> QED BY <1>1, <1>3, <1>4, <1>5, <1>6, StartBatchInv DEF r

LEMMA UnitInv ==
    ASSUME IInv, NEW a \in Callers, UnitEnds(a) \/ UnitFails(a) PROVE IInv'
  <1> DEFINE r == caller[a]
             t == [r EXCEPT !.running = @ - 1]
             s == [r EXCEPT !.running = @ - 1,
                            !.left = IF r.pc = "batch" THEN @ - 1 ELSE @]
             h == IF Head(r.batches).via = "api" THEN 0 ELSE -1
  <1>1. /\ Fit(r) /\ ProcessFits /\ r \in Caller /\ leased \in Nat /\ broken = 0
        /\ r.running > 0 /\ r.running \in Nat
        /\ \E m \in Nat : Lines(r, m)
    BY CallerKnown, FieldsTyped DEF UnitEnds, UnitFails
  <1>2. Moved(r, s, h, 0) /\ Moved(r, Rejected(t), h, 0)
    BY <1>1, UnitMoves
  <1>3. r.pc \in {"batch", "over"}
    BY <1>1 DEF Fit, BatchFits
  <1>4. s.pc \in {"batch", "over"} /\ Rejected(t).pc \in {"batch", "over"}
    BY <1>1, <1>3, CallerIs DEF Rejected
  <1>5. /\ Elsewhere /\ queue' = queue
        /\ \/ caller' = [caller EXCEPT ![a] = s]
           \/ caller' = [caller EXCEPT ![a] = Rejected(t)]
    <2>1. CASE UnitEnds(a)
      <3>1. caller' = [caller EXCEPT ![a] = s]
        BY <1>1, <2>1 DEF UnitEnds
      <3> QED BY <2>1, <3>1 DEF UnitEnds, Elsewhere
    <2>2. CASE UnitFails(a)
      BY <2>2 DEF UnitFails, Elsewhere
    <2> QED BY <2>1, <2>2
  <1>6. leased' = leased + h /\ broken' = 0
    <2>1. UnitReleases(r)
      BY DEF UnitEnds, UnitFails
    <2> QED BY <1>1, <2>1 DEF UnitReleases, GiveBack
  <1>7. h \in {-1, 0, 1} /\ h # 1
    OBVIOUS
  <1> HIDE DEF t, s, h
  <1>8. NoSlot(r, s) /\ NoSlot(r, Rejected(t))
    BY <1>3, <1>4 DEF NoSlot
  <1> QED BY <1>2, <1>5, <1>6, <1>7, <1>8, OneMovesAside

\* Behind a batch comes another one, when there is one.
LEMMA TailBatches ==
    ASSUME NEW q \in Batches, Len(q) > 1
    PROVE  Tail(q) \in Batches /\ Tail(q) # <<>>
  <1> DEFINE S == [n: Nat, via: {"pool", "api"}]
  <1>1. q \in Seq(S)
    BY DEF Batches
  <1> HIDE DEF S
  <1>2. q # <<>> /\ Len(q) \in Nat
    BY <1>1
  <1>3. Tail(q) \in Seq(S) /\ Len(Tail(q)) = Len(q) - 1
    BY <1>1, <1>2, HeadTailProperties
  <1> DEFINE t == Tail(q)
  <1>4. t \in Seq(S) /\ Len(t) > 0
    BY <1>2, <1>3
  <1> HIDE DEF t
  <1>5. t # <<>>
    BY <1>4, EmptyIs
  <1> QED BY <1>3, <1>5 DEF S, Batches, t

LEMMA NextBatchInv == ASSUME IInv, NEW a \in Callers, NextBatch(a) PROVE IInv'
  <1> DEFINE r == caller[a]
             Ends(result) == [r EXCEPT !.pc = "over", !.result = result]
             EndsAt(result, k) ==
                 [r EXCEPT !.pc = "over", !.result = result, !.found = k]
             At(k) == [r EXCEPT !.found = k]
             h == 0
  <1>1. /\ Fit(r) /\ ProcessFits /\ r \in Caller /\ leased \in Nat /\ broken = 0
        /\ r.pc = "batch" /\ r.left = 0 /\ r.batches \in Batches
        /\ \E m \in Nat : Lines(r, m)
    BY CallerKnown, FieldsTyped DEF NextBatch
  <1>2. ASSUME NEW result \in Results, NEW k \in Found
        PROVE  /\ Moved(r, Ends(result), 0, 0) /\ Moved(r, EndsAt(result, k), 0, 0)
               /\ Moved(r, At(k), 0, 0)
    BY <1>1, BatchOverMoves
  <1>3. "none" \in Found
    BY DEF Found
  <1>4. /\ adapter' = adapter /\ executor' = executor /\ cancelled' = cancelled
        /\ leased' = leased /\ broken' = broken /\ slots' = slots
        /\ waiters' = waiters
    BY DEF NextBatch
  <1>5. /\ leased' = leased + h /\ broken' = 0 /\ h \in {-1, 0, 1} /\ h # 1
        /\ \A s : Moved(r, s, 0, 0) => Moved(r, s, h, 0)
    BY <1>1, <1>4
  <1>6. "FAILED" \in Results /\ "SUCCESSFUL" \in Results
    BY Names
  <1> HIDE DEF h
  <1>7. ASSUME NEW s, Moved(r, s, 0, 0), s.pc = "over",
               caller' = [caller EXCEPT ![a] = s], queue' = queue
        PROVE  IInv'
    <2>1. NoSlot(r, s)
      BY <1>1, <1>7 DEF NoSlot
    <2> QED BY <1>4, <1>5, <1>7, <2>1, OneMovesAside DEF Elsewhere
  <1>8. CASE Len(r.batches) > 1
    <2>1. StartBatch(a, r, Tail(r.batches))
      BY <1>8 DEF NextBatch
    <2>2. Tail(r.batches) \in Batches /\ Tail(r.batches) # <<>>
      BY <1>1, <1>8, TailBatches
    <2>3. Moved(r, r, 0, 0) /\ r.pc \notin {"slot", "stepping"}
      BY <1>1, SelfMoves
    <2> HIDE DEF r
    <2> QED BY <1>1, <1>4, <2>1, <2>2, <2>3, StartBatchInv DEF r
  <1>9. CASE caller' = [caller EXCEPT ![a] = Ends("SUCCESSFUL")] /\ queue' = queue
    <2>1. Ends("SUCCESSFUL").pc = "over"
      BY <1>1, CallerIs
    <2>2. Moved(r, Ends("SUCCESSFUL"), 0, 0)
      BY <1>2, <1>3, <1>6
    <2> HIDE DEF Ends
    <2> QED BY <1>7, <1>9, <2>1, <2>2
  <1>10. ASSUME NEW k \in Found, NEW result \in {"FAILED", "SUCCESSFUL"},
                caller' = [caller EXCEPT ![a] = EndsAt(result, k)], queue' = queue
         PROVE  IInv'
    <2>1. EndsAt(result, k).pc = "over"
      BY <1>1, CallerIs
    <2>2. Moved(r, EndsAt(result, k), 0, 0)
      BY <1>2, <1>6, <1>10
    <2> HIDE DEF EndsAt
    <2> QED BY <1>7, <1>10, <2>1, <2>2
  <1>11. ASSUME NEW k \in Found, Rest(r.op, k) # <<>>,
                StartBatch(a, At(k), Rest(r.op, k))
         PROVE  IInv'
    <2>1. Rest(r.op, k) \in Batches
      BY <1>1, RestTyped
    <2>2. Moved(r, At(k), 0, 0)
      BY <1>2, <1>6, <1>11
    <2>3. At(k).pc = "batch" /\ At(k).left = 0 /\ r.pc \notin {"slot", "stepping"}
      BY <1>1, CallerIs
    <2> HIDE DEF At
    <2> QED BY <1>4, <1>11, <2>1, <2>2, <2>3, StartBatchInv
  <1>12. \/ Len(r.batches) > 1
         \/ caller' = [caller EXCEPT ![a] = Ends("SUCCESSFUL")] /\ queue' = queue
         \/ \E k \in Found :
               \/ \E result \in {"FAILED", "SUCCESSFUL"} :
                     /\ caller' = [caller EXCEPT ![a] = EndsAt(result, k)]
                     /\ queue' = queue
               \/ Rest(r.op, k) # <<>> /\ StartBatch(a, At(k), Rest(r.op, k))
    <2> DEFINE over == [r EXCEPT !.pc = "over", !.result = "SUCCESSFUL"]
    <2>1. ASSUME NEW k
          PROVE  /\ [over EXCEPT !.found = k, !.result = "FAILED"] = EndsAt("FAILED", k)
                 /\ [over EXCEPT !.found = k] = EndsAt("SUCCESSFUL", k)
      BY <1>1, CallerIs
    <2>2. \/ Len(r.batches) > 1
          \/ caller' = [caller EXCEPT ![a] = over] /\ queue' = queue
          \/ \E k \in Found :
                \/ /\ caller' = [caller EXCEPT ![a] =
                                    [over EXCEPT !.found = k, !.result = "FAILED"]]
                   /\ queue' = queue
                \/ /\ caller' = [caller EXCEPT ![a] = [over EXCEPT !.found = k]]
                   /\ queue' = queue
                \/ Rest(r.op, k) # <<>> /\ StartBatch(a, At(k), Rest(r.op, k))
      BY DEF NextBatch
    <2>3. over = Ends("SUCCESSFUL")
      OBVIOUS
    <2> HIDE DEF over, Ends, EndsAt, At
    <2> QED BY <2>1, <2>2, <2>3
  <1> QED BY <1>8, <1>9, <1>10, <1>11, <1>12

-----------------------------------------------------------------------------
(* The cancellation, and the whole process.                                *)

\* What the pool has behind it once the calls of `hit` are struck.
LEMMA StruckAreBack ==
    ASSUME NEW f, NEW g, NEW hit \in SUBSET Callers, IsFiniteSet(HeldBy(f)),
           \A b \in Callers : Holds(f[b]) \in Nat /\ Holds(g[b]) \in Nat,
           \A b \in hit : Holds(g[b]) = Holds(f[b]) + -1,
           \A b \in Callers \ hit : Holds(g[b]) = Holds(f[b])
    PROVE  /\ IsFiniteSet(HeldBy(g)) /\ IsFiniteSet(hit)
           /\ Cardinality(HeldBy(g)) = Cardinality(HeldBy(f)) - Cardinality(hit)
  <1> DEFINE taken == {<<b, Holds(f[b])>> : b \in hit}
             who == [x \in taken |-> x[1]]
  <1>1. \A b \in hit : Holds(f[b]) \in 1..Holds(f[b])
    <2> SUFFICES ASSUME NEW b \in hit PROVE Holds(f[b]) \in 1..Holds(f[b])
      OBVIOUS
    <2>1. Holds(f[b]) \in Nat /\ Holds(f[b]) + -1 \in Nat
      OBVIOUS
    <2> QED BY <2>1
  <1>2. taken \subseteq HeldBy(f)
    BY <1>1 DEF HeldBy
  <1>3. IsFiniteSet(taken)
    BY <1>2, FS_Subset
  <1>4. who \in [taken -> hit]
    OBVIOUS
  <1>5. \A x, y \in taken : who[x] = who[y] => x = y
    OBVIOUS
  <1>6. ASSUME NEW b \in hit PROVE \E x \in taken : who[x] = b
    <2>1. <<b, Holds(f[b])>> \in taken /\ <<b, Holds(f[b])>>[1] = b
      OBVIOUS
    <2> QED BY <2>1
  <1>7. IsFiniteSet(hit) /\ Cardinality(hit) = Cardinality(taken)
    <2> HIDE DEF taken, who
    <2> QED BY <1>3, <1>4, <1>5, <1>6, OneToOne
  <1>8. HeldBy(g) = HeldBy(f) \ taken
    <2> SUFFICES ASSUME NEW x PROVE x \in HeldBy(g) <=> x \in HeldBy(f) \ taken
      OBVIOUS
    <2>1. ASSUME NEW b \in Callers, NEW i
          PROVE  i \in 1..Holds(g[b]) <=>
                    i \in 1..Holds(f[b]) /\ ~(b \in hit /\ i = Holds(f[b]))
      <3>1. Holds(f[b]) \in Nat /\ Holds(g[b]) \in Nat
        OBVIOUS
      <3>2. CASE b \in hit
        <4>1. Holds(g[b]) = Holds(f[b]) + -1
          BY <3>2
        <4> QED BY <3>1, <3>2, <4>1
      <3>3. CASE b \notin hit
        <4>1. Holds(g[b]) = Holds(f[b])
          BY <3>3
        <4> QED BY <3>3, <4>1
      <3> QED BY <3>2, <3>3
    <2>2. ASSUME NEW b \in Callers, NEW i
          PROVE  <<b, i>> \in taken <=> b \in hit /\ i = Holds(f[b])
      OBVIOUS
    <2>3. x \in HeldBy(g) => x \in HeldBy(f) \ taken
      <3> SUFFICES ASSUME NEW b \in Callers, NEW i \in 1..Holds(g[b]), x = <<b, i>>
                   PROVE  x \in HeldBy(f) \ taken
        BY HeldIs
      <3> HIDE DEF taken
      <3> QED BY <2>1, <2>2, HeldIs
    <2>4. x \in HeldBy(f) \ taken => x \in HeldBy(g)
      <3> SUFFICES ASSUME NEW b \in Callers, NEW i \in 1..Holds(f[b]), x = <<b, i>>,
                          x \notin taken
                   PROVE  x \in HeldBy(g)
        BY HeldIs
      <3> HIDE DEF taken
      <3> QED BY <2>1, <2>2, HeldIs
    <2> QED BY <2>3, <2>4
  <1>9. HeldBy(f) \intersect taken = taken
    BY <1>2
  <1> HIDE DEF taken, who
  <1>10. /\ IsFiniteSet(HeldBy(f) \ taken)
         /\ Cardinality(HeldBy(f) \ taken) = Cardinality(HeldBy(f)) - Cardinality(taken)
    <2> DEFINE S == HeldBy(f)
    <2>1. IsFiniteSet(S) /\ S \intersect taken = taken
      BY <1>9
    <2> HIDE DEF S
    <2>2. /\ IsFiniteSet(S \ taken)
          /\ Cardinality(S \ taken) = Cardinality(S) - Cardinality(S \intersect taken)
      BY <2>1, FS_Difference
    <2> QED BY <2>1, <2>2 DEF S
  <1> QED BY <1>7, <1>8, <1>10

LEMMA CancelInv == IInv /\ Cancel => IInv'
  <1> SUFFICES ASSUME IInv, Cancel PROVE IInv'
    OBVIOUS
  <1>1. /\ caller' = [b \in Callers |-> Strike(caller[b])]
        /\ leased' = leased - Cardinality(Struck) /\ cancelled' = TRUE
        /\ UNCHANGED <<adapter, executor, queue, broken, slots, waiters>>
    BY DEF Cancel
  <1>2. /\ CallersFit /\ QueueFits /\ PoolFits /\ SlotsFit /\ ProcessFits
        /\ \A b \in Callers : Fit(caller[b]) /\ Holds(caller[b]) \in Nat
    BY HoldsTyped DEF IInv, CallersFit
  <1>3. ProcessFits'
    BY <1>1, <1>2 DEF ProcessFits
  <1>4. \A b \in Callers :
            Moved(caller[b], caller'[b], IF b \in Struck THEN -1 ELSE 0, 0)
    <2> SUFFICES ASSUME NEW b \in Callers
                 PROVE  Moved(caller[b], caller'[b], IF b \in Struck THEN -1 ELSE 0, 0)
      OBVIOUS
    <2>1. caller'[b] = Strike(caller[b])
      BY <1>1
    <2>2. b \in Struck <=> /\ caller[b].onCancel = "registered"
                           /\ caller[b].call \in {"running", "checking"}
      BY DEF Struck
    <2> QED BY <1>2, <2>1, <2>2, StrikeMoves
  <1>5. caller' \in [Callers -> Caller]
    <2>1. \A b \in Callers : Strike(caller[b]) \in Caller
      BY <1>1, <1>4 DEF Moved, Fit
    <2> QED BY <1>1, <2>1
  <1>6. CallersFit' /\ QueueFits'
    BY <1>1, <1>2, <1>4, <1>5, ManyMove
  <1>7. PoolFits'
    <2>1. HeldBy(caller) = InUse /\ HeldBy(caller') = InUse'
      BY <1>1, NextInUse
    <2>2. \A b \in Callers : Holds(caller'[b]) \in Nat
      BY <1>4, HoldsTyped DEF Moved
    <2>3. /\ Struck \in SUBSET Callers
          /\ \A b \in Struck : Holds(caller'[b]) = Holds(caller[b]) + -1
      BY <1>4 DEF Moved, Struck
    <2>4. \A b \in Callers \ Struck : Holds(caller'[b]) = Holds(caller[b])
      BY <1>2, <1>4 DEF Moved
    <2>5. IsFiniteSet(HeldBy(caller))
      BY <1>2, <2>1 DEF PoolFits
    <2> DEFINE f == caller
               g == caller'
               hit == Struck
    <2>6. /\ IsFiniteSet(HeldBy(f)) /\ hit \in SUBSET Callers
          /\ \A b \in Callers : Holds(f[b]) \in Nat /\ Holds(g[b]) \in Nat
          /\ \A b \in hit : Holds(g[b]) = Holds(f[b]) + -1
          /\ \A b \in Callers \ hit : Holds(g[b]) = Holds(f[b])
      BY <1>2, <2>2, <2>3, <2>4, <2>5
    <2> HIDE DEF f, g, hit
    <2>7. /\ IsFiniteSet(HeldBy(g)) /\ IsFiniteSet(hit)
          /\ Cardinality(HeldBy(g)) = Cardinality(HeldBy(f)) - Cardinality(hit)
      BY <2>6, StruckAreBack
    <2>8. Cardinality(hit) \in Nat
      BY <2>7, FS_CardinalityType
    <2>9. /\ leased = Cardinality(HeldBy(f)) /\ Cardinality(HeldBy(f)) \in Nat
          /\ leased <= ConnectionLimit /\ ConnectionLimit \in Nat /\ broken = 0
          /\ InUse' = HeldBy(g) /\ leased' = leased - Cardinality(hit)
      BY <1>1, <1>2, <2>1, <2>5, FS_CardinalityType, Constants DEF PoolFits, f, g, hit
    <2> QED BY <1>1, <2>7, <2>8, <2>9 DEF PoolFits
  <1>8. SlotsFit'
    <2>1. \A b \in Callers : caller'[b].op = caller[b].op /\ caller'[b].pc = caller[b].pc
      <3> SUFFICES ASSUME NEW b \in Callers
                   PROVE  Strike(caller[b]).op = caller[b].op
                          /\ Strike(caller[b]).pc = caller[b].pc
        BY <1>1
      <3> QED BY <1>2, FitTyped, CallerIs DEF Strike
    <2>2. AtWork' = AtWork
      BY <2>1 DEF AtWork
    <2>3. \A i \in 1..Len(waiters) : waiters[i] \in Callers
      BY <1>2, ElementOfSeq DEF SlotsFit
    <2>4. \A i \in 1..Len(waiters) : caller'[waiters[i]].pc = "slot"
      BY <1>2, <2>1, <2>3 DEF SlotsFit
    <2> QED BY <1>1, <1>2, <2>2, <2>4 DEF SlotsFit
  <1> QED BY <1>3, <1>6, <1>7, <1>8 DEF IInv

\* The steps an operation has before it begins.
LEMMA StepsOrdered ==
    ASSUME NEW o, NEW todo \in Steps(o)
    PROVE  /\ todo \in StepSeqs /\ Ordered(todo)
           /\ todo # <<>> => Head(todo) \in Openers
  <1>1. todo \in {MysqlExtract, BigQueryExtract, DuckdbExport, DuckdbImport, <<>>}
    BY DEF Steps
  <1>2. CASE todo = MysqlExtract
    BY <1>2 DEF MysqlExtract, StepSeqs, Step, Ordered, Follows, Openers, Closers
  <1>3. CASE todo = BigQueryExtract
    BY <1>3 DEF BigQueryExtract, StepSeqs, Step, Ordered, Follows, Openers, Closers
  <1>4. CASE todo = DuckdbExport
    BY <1>4 DEF DuckdbExport, StepSeqs, Step, Ordered, Follows, Openers, Closers
  <1>5. CASE todo = DuckdbImport
    BY <1>5 DEF DuckdbImport, StepSeqs, Step, Ordered, Follows, Openers, Closers
  <1>6. CASE todo = <<>>
    BY <1>6 DEF StepSeqs, Ordered
  <1> QED BY <1>1, <1>2, <1>3, <1>4, <1>5, <1>6

\* Nobody has asked for anything yet.
LEMMA NewFits ==
    ASSUME NEW o \in Ops, NEW todo \in Steps(o)
    PROVE  /\ Fit(New(o, todo)) /\ Holds(New(o, todo)) = 0 /\ Lines(New(o, todo), 0)
           /\ New(o, todo).pc = "start"
  <1> DEFINE r == New(o, todo)
  <1>1. o \in Op /\ todo \in StepSeqs /\ Ordered(todo)
        /\ (todo # <<>> => Head(todo) \in Openers)
    BY StepsOrdered, OpsAssumption
  <1>2. /\ r.op = o /\ r.pc = "start" /\ r.result = "RUNNING" /\ r.lock = "none"
        /\ r.released = FALSE /\ r.task = 0 /\ r.done = 0 /\ r.attempt = 0
        /\ r.sent = 0 /\ r.call = "none" /\ r.jobs = 0 /\ r.onCancel = "none"
        /\ r.left = 0 /\ r.running = 0 /\ r.batches = <<>> /\ r.steps = todo
        /\ r.own = {}
    BY DEF New
  <1>3. r \in Caller
    <2>1. /\ "start" \in Pcs /\ "RUNNING" \in Results /\ 0 \in TaskCounts
          /\ 0 \in JobAttempts /\ "unknown" \in Finds /\ <<>> \in Batches
      BY Constants DEF Pcs, Results, TaskCounts, JobAttempts, JOB_MAX_ATTEMPTS, Finds,
                       Batches
    <2> QED BY <1>1, <2>1, Names, CallerIs DEF New
  <1> HIDE DEF r
  <1>4. Fit(r)
    BY <1>1, <1>2, <1>3 DEF Fit, CallFits, LockFits, BatchFits, StepsFit, Inside
  <1>5. Holds(r) = 0 /\ Lines(r, 0)
    BY <1>2 DEF Holds, HoldsClient, HoldsJob, BatchHolds, Lines
  <1> QED BY <1>2, <1>4, <1>5 DEF r

LEMMA InitInv == Init => IInv
  <1> SUFFICES ASSUME Init PROVE IInv
    OBVIOUS
  <1>1. ProcessFits /\ broken = 0 /\ leased = 0 /\ slots = 0
        /\ queue = <<>> /\ waiters = <<>>
    BY DEF Init, ProcessFits
  <1>2. ASSUME NEW b \in Callers
        PROVE  \E o \in Ops : \E todo \in Steps(o) : caller[b] = New(o, todo)
    <2>1. PICK ops \in [Callers -> Ops] :
             caller \in [Callers -> UNION {{New(ops[a], todo) : todo \in Steps(ops[a])}
                                             : a \in Callers}]
      BY DEF Init
    <2> QED BY <2>1
  <1>3. DOMAIN caller = Callers /\ caller = [b \in Callers |-> caller[b]]
    BY DEF Init
  <1>4. \A b \in Callers : /\ Fit(caller[b]) /\ Holds(caller[b]) = 0
                           /\ Lines(caller[b], 0) /\ caller[b].pc = "start"
    BY <1>2, NewFits
  <1>5. CallersFit
    <2>1. \A b \in Callers : caller[b] \in Caller
      BY <1>4 DEF Fit
    <2> QED BY <1>3, <1>4, <2>1 DEF CallersFit
  <1>6. QueueFits
    <2>1. \A b \in Callers : InLine(queue, b) = {}
      BY <1>1 DEF InLine
    <2>2. Cardinality({}) = 0
      BY FS_EmptySet
    <2>3. queue \in Seq(Callers)
      BY <1>1
    <2>4. \A b \in Callers : Lines(caller[b], Cardinality(InLine(queue, b)))
      BY <1>4, <2>1, <2>2
    <2> QED BY <2>3, <2>4 DEF QueueFits
  <1>7. PoolFits
    <2>1. InUse = {}
      BY <1>4 DEF InUse
    <2> QED BY <1>1, <2>1, FS_EmptySet, Constants DEF PoolFits
  <1>8. SlotsFit
    <2>1. AtWork = {}
      BY <1>4 DEF AtWork
    <2> QED BY <1>1, <2>1, FS_EmptySet, Constants DEF SlotsFit
  <1> QED BY <1>1, <1>5, <1>6, <1>7, <1>8 DEF IInv

LEMMA NextInv == IInv /\ [Next]_vars => IInv'
  <1> SUFFICES ASSUME IInv, [Next]_vars PROVE IInv'
    OBVIOUS
  <1>1. CASE UNCHANGED vars
    <2>1. ProcessFits'
      BY <1>1 DEF vars, IInv, ProcessFits
    <2> QED BY <1>1, <2>1, NoOneMoves DEF vars
  <1>2. CASE CreatePostgres \/ CreateMySql \/ Connect \/ ConnectFails \/ Cancel
    BY <1>2, CreateInv, ConnectInv, ConnectFailsInv, CancelInv
  <1>3. ASSUME NEW a \in Callers, CallerStep(a) PROVE IInv'
    <2>1. CASE Ask(a) \/ NextTask(a) \/ Settle(a) \/ ConnectionLost(a)
      BY <2>1, AskInv, TaskInv, ConnectionLostInv
    <2>2. CASE \/ StatementEnds(a) \/ PostgresStatementFails(a)
               \/ MySqlStatementFails(a) \/ JobCreated(a) \/ JobFails(a)
               \/ JobStreamed(a) \/ JobSucceeds(a)
      BY <2>2, CallInv
    <2>3. CASE Acquire(a) \/ Refuse(a) \/ StepEnds(a) \/ StepFails(a)
      BY <2>3, AcquireInv, RefuseInv, StepEndsInv, StepFailsInv
    <2>4. CASE Leave(a) \/ Begin(a) \/ UnitEnds(a) \/ UnitFails(a) \/ NextBatch(a)
      BY <2>4, LeaveInv, BeginInv, UnitInv, NextBatchInv
    <2> QED BY <1>3, <2>1, <2>2, <2>3, <2>4 DEF CallerStep
  <1> QED BY <1>1, <1>2, <1>3 DEF Next

\* The state of the process fits what its callers are at, in every state.
THEOREM Inductive == Spec => []IInv
  BY InitInv, NextInv, PTL DEF Spec

\* The types of the process's state, for every number of callers, clients and
\* slots: in particular the pool never lends more than its limit, and no more
\* extracts run than may (utils/postgres.ts:69-88, run.ts's extract slots).
THEOREM TypeCorrect == Spec => []TypeOK
  <1>1. IInv => TypeOK
    <2> SUFFICES ASSUME IInv PROVE TypeOK
      OBVIOUS
    <2>1. /\ leased \in Nat /\ slots \in Nat
          /\ ConnectionLimit \in Nat /\ MAX_CONCURRENT_EXTRACTS \in Nat
      BY FS_CardinalityType, Constants DEF IInv, PoolFits, SlotsFit
    <2> QED BY <2>1 DEF IInv, ProcessFits, CallersFit, QueueFits, PoolFits, SlotsFit,
                        TypeOK
  <1> QED BY <1>1, Inductive, PTL

\* What is limited comes back, once, whoever fails, is cancelled or loses its
\* connection and in whatever order (utils/postgres.ts:69-88, 131-150).
THEOREM ClientsAlwaysComeBack == Spec => []ClientsComeBack
  <1>1. IInv => ClientsComeBack
    <2> SUFFICES ASSUME IInv PROVE ClientsComeBack
      OBVIOUS
    <2>1. \A a \in Callers : caller[a].pc \in {"leaving", "over"} => caller[a].own = {}
      BY DEF IInv, CallersFit, Fit, StepsFit
    <2> QED BY <2>1 DEF IInv, PoolFits, SlotsFit, ClientsComeBack
  <1> QED BY <1>1, Inductive, PTL

-----------------------------------------------------------------------------
(* What a cancellation does to the calls it reached.                      *)

\* The fields the argument is about are there, a call the cancellation reached
\* is refused or about to be, and nothing is registered for a call that was
\* not made yet (or it could be reached before there is anything to refuse).
Sound(r) ==
    /\ {"onCancel", "call", "done"} \subseteq DOMAIN r
    /\ r.call \in {"none", "queued", "creating", "running", "checking", "ended",
                   "rejected"}
    /\ r.onCancel = "called" => r.call \in {"creating", "rejected"}
    /\ r.call \in {"none", "queued"} => r.onCancel = "none"

ReachedAreRefused ==
    /\ DOMAIN caller = Callers
    /\ \A a \in Callers : Sound(caller[a])

\* What a step makes of one caller.
Kept(r, s) == Sound(s) /\ (r.onCancel = "called" => s.done = r.done)

AllKept ==
    /\ DOMAIN caller' = Callers
    /\ \A b \in Callers : Kept(caller[b], caller'[b])

-----------------------------------------------------------------------------
\* Every caller starts without a call.
LEMMA StartsSound == Init => ReachedAreRefused
  <1> SUFFICES ASSUME Init PROVE ReachedAreRefused
    OBVIOUS
  <1>1. PICK ops \in [Callers -> Ops] :
            caller \in [Callers -> UNION {
                             {New(ops[a], todo) : todo \in Steps(ops[a])}
                                : a \in Callers}]
    BY DEF Init
  <1>2. DOMAIN caller = Callers
    BY <1>1
  <1>3. ASSUME NEW b \in Callers PROVE Sound(caller[b])
    <2>1. caller[b] \in UNION {{New(ops[a], todo) : todo \in Steps(ops[a])}
                                  : a \in Callers}
      BY <1>1
    <2>2. PICK a \in Callers :
              caller[b] \in {New(ops[a], todo) : todo \in Steps(ops[a])}
      BY <2>1
    <2>3. PICK todo \in Steps(ops[a]) : caller[b] = New(ops[a], todo)
      BY <2>2
    <2> QED BY <2>3 DEF New, Sound
  <1> QED BY <1>2, <1>3 DEF ReachedAreRefused

\* A step that leaves the callers alone.
LEMMA Idle == ReachedAreRefused /\ UNCHANGED caller => AllKept
  BY DEF ReachedAreRefused, AllKept, Kept

\* A step of one caller keeps the others.
LEMMA OneCaller ==
    ASSUME ReachedAreRefused, NEW a, NEW s,
           caller' = [caller EXCEPT ![a] = s],
           a \in Callers => Kept(caller[a], s)
    PROVE  AllKept
  BY DEF ReachedAreRefused, AllKept, Kept

-----------------------------------------------------------------------------
(* Actions of the runner: what becomes of the call of the caller.           *)

\* An attempt starts unregistered, or registered on Postgres, whose call is
\* then under way at once.
LEMMA ExecuteSound ==
    ASSUME NEW r, Sound(r)
    PROVE  Sound(Execute(r)) /\ Execute(r).done = r.done
  BY DEF Execute, Sound

LEMMA ConnectKeeps == ReachedAreRefused /\ Connect => AllKept
  <1> SUFFICES ASSUME ReachedAreRefused, Connect PROVE AllKept
    OBVIOUS
  <1> DEFINE a == Head(queue)
             r == caller[a]
             s == IF r.pc = "asking" THEN [r EXCEPT !.pc = "between", !.lock = "whole"]
                  ELSE IF r.call = "queued"
                  THEN [r EXCEPT !.call = "creating", !.onCancel = "registered"]
                  ELSE [r EXCEPT !.running = @ + 1]
  <1>1. caller' = [caller EXCEPT ![a] = s]
    BY DEF Connect
  <1>2. a \in Callers => Kept(r, s)
    BY DEF ReachedAreRefused, Sound, Kept
  <1> HIDE DEF a, s
  <1> QED BY <1>1, <1>2, OneCaller DEF r

LEMMA SettleKeeps ==
    ASSUME NEW a \in Callers, ReachedAreRefused, Settle(a)
    PROVE  AllKept
  <1> DEFINE r == caller[a]
             t == [r EXCEPT !.pc = "between", !.task = @ + 1, !.call = "none",
                            !.onCancel = "none",
                            !.done = IF r.call = "ended" THEN @ + 1 ELSE @,
                            !.result = IF r.call = "ended" THEN @
                                       ELSE IF cancelled THEN "CANCELLED"
                                       ELSE "FAILED"]
             s == IF Retried(r) THEN Execute(r) ELSE t
  <1>1. caller' = [caller EXCEPT ![a] = s]
    BY DEF Settle
  <1>2. Sound(r)
    BY DEF ReachedAreRefused
  <1>3. Kept(r, Execute(r))
    BY <1>2, ExecuteSound DEF Kept
  <1>4. Kept(r, t)
    BY <1>2 DEF Kept, Sound
  <1>5. Kept(r, s)
    BY <1>3, <1>4
  <1> HIDE DEF s
  <1> QED BY <1>1, <1>5, OneCaller DEF r

LEMMA NextTaskKeeps ==
    ASSUME NEW a \in Callers, ReachedAreRefused, NextTask(a)
    PROVE  AllKept
  <1> DEFINE r == caller[a]
             t == [r EXCEPT !.attempt = 0, !.sent = 0]
             u == [r EXCEPT !.task = Tasks, !.pc = "leaving"]
             s == IF r.task < Tasks /\ r.result = "RUNNING" /\ ~cancelled
                  THEN Execute(t) ELSE u
  <1>1. caller' = [caller EXCEPT ![a] = s]
    BY DEF NextTask
  <1>2. Sound(r)
    BY DEF ReachedAreRefused
  <1>3. Sound(t) /\ t.done = r.done /\ Kept(r, u)
    BY <1>2 DEF Kept, Sound
  <1>4. Kept(r, Execute(t))
    BY <1>3, ExecuteSound DEF Kept
  <1>5. Kept(r, s)
    BY <1>3, <1>4
  <1> HIDE DEF s
  <1> QED BY <1>1, <1>5, OneCaller DEF r

LEMMA StrikeFields ==
    ASSUME NEW r, NEW c, NEW x, {"onCancel", "call", "done"} \subseteq DOMAIN r,
           NEW s, s = [r EXCEPT !.onCancel = "called", !.call = c, !.released = x]
    PROVE  /\ DOMAIN s = DOMAIN r
           /\ s.onCancel = "called" /\ s.call = c /\ s.done = r.done
  OBVIOUS

LEMMA StrikeKeeps == ASSUME NEW r, Sound(r) PROVE Kept(r, Strike(r))
  <1>1. CASE r.onCancel # "registered" \/ r.call \in {"ended", "rejected"}
    BY <1>1 DEF Strike, Kept
  <1>2. CASE ~(r.onCancel # "registered" \/ r.call \in {"ended", "rejected"})
    <2> DEFINE c == IF r.call \in {"running", "checking"} THEN "rejected"
                    ELSE r.call
               x == r.released \/ (adapter = "postgres" /\ r.call = "running")
    <2>1. Strike(r) = [r EXCEPT !.onCancel = "called", !.call = c, !.released = x]
      BY <1>2, Zenon DEF Strike
    <2>2. c \in {"creating", "rejected"}
      BY <1>2 DEF Sound
    <2>3. {"onCancel", "call", "done"} \subseteq DOMAIN r
      BY DEF Sound
    <2> HIDE DEF c, x
    <2>4. /\ DOMAIN Strike(r) = DOMAIN r
          /\ Strike(r).onCancel = "called" /\ Strike(r).call = c
          /\ Strike(r).done = r.done
      BY <2>1, <2>3, StrikeFields
    <2> QED BY <2>2, <2>3, <2>4 DEF Kept, Sound
  <1> QED BY <1>1, <1>2

\* The event reaches calls that are registered, and none of them has ended.
LEMMA CancelKeeps == ReachedAreRefused /\ Cancel => AllKept
  <1> SUFFICES ASSUME ReachedAreRefused, Cancel PROVE AllKept
    OBVIOUS
  <1>1. ASSUME NEW b \in Callers PROVE Kept(caller[b], Strike(caller[b]))
    BY StrikeKeeps DEF ReachedAreRefused
  <1>2. caller' = [b \in Callers |-> Strike(caller[b])]
    BY DEF Cancel
  <1> QED BY <1>1, <1>2 DEF AllKept

-----------------------------------------------------------------------------
(* The other steps of one caller: the call moves on, or something else of   *)
(* the caller does.                                                         *)

\* Two records that agree on the call.
Same(r, s) ==
    /\ DOMAIN s = DOMAIN r
    /\ s.onCancel = r.onCancel /\ s.call = r.call /\ s.done = r.done

LEMMA SameKept == ASSUME NEW r, NEW s, Sound(r), Same(r, s) PROVE Kept(r, s)
  BY DEF Sound, Same, Kept

\* A call that was reached does not end.
LEMMA CallSteps ==
    ASSUME NEW a \in Callers, ReachedAreRefused,
           \/ StatementEnds(a) \/ PostgresStatementFails(a)
           \/ MySqlStatementFails(a) \/ ConnectionLost(a)
           \/ JobCreated(a) \/ JobFails(a) \/ JobStreamed(a) \/ JobSucceeds(a)
    PROVE  AllKept
  <1> DEFINE r == caller[a]
  <1>1. Sound(r)
    BY DEF ReachedAreRefused
  <1>2. CASE StatementEnds(a)
    <2> DEFINE s == [r EXCEPT !.call = "ended"]
    <2>1. caller' = [caller EXCEPT ![a] = s] /\ r.onCancel # "called"
      BY <1>1, <1>2 DEF StatementEnds, Sound
    <2>2. Kept(r, s)
      BY <1>1, <2>1 DEF Sound, Kept
    <2> HIDE DEF s
    <2> QED BY <2>1, <2>2, OneCaller
  <1>3. CASE PostgresStatementFails(a)
    <2> DEFINE s == [r EXCEPT !.call = "rejected", !.released = TRUE]
    <2>1. caller' = [caller EXCEPT ![a] = s]
      BY <1>3 DEF PostgresStatementFails
    <2>2. Kept(r, s)
      BY <1>1, <1>3 DEF PostgresStatementFails, Sound, Kept
    <2> HIDE DEF s
    <2> QED BY <2>1, <2>2, OneCaller
  <1>4. CASE MySqlStatementFails(a)
    <2> DEFINE s == [r EXCEPT !.call = "rejected"]
    <2>1. caller' = [caller EXCEPT ![a] = s]
      BY <1>4 DEF MySqlStatementFails
    <2>2. Kept(r, s)
      BY <1>1, <1>4 DEF MySqlStatementFails, Sound, Kept
    <2> HIDE DEF s
    <2> QED BY <2>1, <2>2, OneCaller
  <1>5. CASE ConnectionLost(a)
    <2> DEFINE s == [r EXCEPT !.lock = "lost", !.released = TRUE,
                              !.call = IF @ = "running" THEN "rejected" ELSE @]
    <2>1. caller' = [caller EXCEPT ![a] = s]
      BY <1>5 DEF ConnectionLost
    <2>2. Kept(r, s)
      BY <1>1 DEF Sound, Kept
    <2> HIDE DEF s
    <2> QED BY <2>1, <2>2, OneCaller
  <1>6. CASE JobCreated(a)
    <2> DEFINE t == [r EXCEPT !.call = "rejected"]
               u == [r EXCEPT !.call = "running", !.sent = r.attempt]
    <2>1. \/ caller' = [caller EXCEPT ![a] = t]
          \/ caller' = [caller EXCEPT ![a] = u] /\ r.onCancel # "called"
      BY <1>6 DEF JobCreated
    <2>2. Kept(r, t)
      BY <1>1, <1>6 DEF Sound, Kept, JobCreated
    <2>3. r.onCancel # "called" => Kept(r, u)
      BY <1>1, <1>6 DEF Sound, Kept, JobCreated
    <2> HIDE DEF t, u
    <2> QED BY <2>1, <2>2, <2>3, OneCaller
  <1>7. CASE JobFails(a)
    <2> DEFINE t == [r EXCEPT !.call = "rejected"]
               u == [r EXCEPT !.call = "creating", !.jobs = @ + 1]
    <2>1. \/ caller' = [caller EXCEPT ![a] = t]
          \/ caller' = [caller EXCEPT ![a] = u]
      BY <1>7 DEF JobFails
    <2>2. Kept(r, t) /\ Kept(r, u)
      BY <1>1, <1>7 DEF Sound, Kept, JobFails
    <2> HIDE DEF t, u
    <2> QED BY <2>1, <2>2, OneCaller
  <1>8. CASE JobStreamed(a)
    <2> DEFINE s == [r EXCEPT !.call = "checking"]
    <2>1. caller' = [caller EXCEPT ![a] = s] /\ r.onCancel # "called"
      BY <1>1, <1>8 DEF JobStreamed, Sound
    <2>2. Kept(r, s)
      BY <1>1, <2>1 DEF Sound, Kept
    <2> HIDE DEF s
    <2> QED BY <2>1, <2>2, OneCaller
  <1>9. CASE JobSucceeds(a)
    <2> DEFINE s == [r EXCEPT !.call = "ended"]
    <2>1. caller' = [caller EXCEPT ![a] = s] /\ r.onCancel # "called"
      BY <1>1, <1>9 DEF JobSucceeds, Sound
    <2>2. Kept(r, s)
      BY <1>1, <2>1 DEF Sound, Kept
    <2> HIDE DEF s
    <2> QED BY <2>1, <2>2, OneCaller
  <1> QED BY <1>2, <1>3, <1>4, <1>5, <1>6, <1>7, <1>8, <1>9

\* What is not about the call leaves it as it is.
AllSame ==
    /\ DOMAIN caller' = Callers
    /\ \A b \in Callers : Same(caller[b], caller'[b])

LEMMA AllSameKept == ReachedAreRefused /\ AllSame => AllKept
  BY SameKept DEF ReachedAreRefused, AllSame, AllKept

LEMMA OneSame ==
    ASSUME ReachedAreRefused, NEW a, NEW s,
           caller' = [caller EXCEPT ![a] = s],
           a \in Callers => Same(caller[a], s)
    PROVE  AllSame
  BY DEF ReachedAreRefused, AllSame, Same

LEMMA RejectedSame == ASSUME NEW r PROVE Same(r, Rejected(r))
  BY DEF Rejected, Same

\* A slot that is handed over moves the caller at the head of the waiters.
LEMMA SlotSame ==
    ASSUME ReachedAreRefused, NEW a \in Callers, NEW s, Same(caller[a], s),
           ReleaseExtractSlot([caller EXCEPT ![a] = s])
    PROVE  AllSame
  <1> DEFINE f == [caller EXCEPT ![a] = s]
             w == Head(waiters)
             t == [f[w] EXCEPT !.pc = "stepping"]
  <1>1. DOMAIN f = Callers /\ \A b \in Callers : Same(caller[b], f[b])
    BY DEF ReachedAreRefused, Same
  <1>2. CASE caller' = f
    BY <1>1, <1>2 DEF AllSame
  <1>3. CASE caller' = [f EXCEPT ![w] = t]
    <2>1. w \in Callers => Same(caller[w], t)
      BY <1>1 DEF Same
    <2> HIDE DEF f, w, t
    <2> QED BY <1>1, <1>3, <2>1 DEF AllSame
  <1> QED BY <1>2, <1>3 DEF ReleaseExtractSlot

LEMMA AskSame ==
    ASSUME NEW a \in Callers, ReachedAreRefused, Ask(a) PROVE AllSame
  <1> DEFINE r == caller[a]
             t == [r EXCEPT !.pc = "over", !.result = "CANCELLED"]
             u == [r EXCEPT !.pc = "between"]
             v == [r EXCEPT !.pc = "asking"]
  <1>1. \/ caller' = [caller EXCEPT ![a] = t]
        \/ caller' = [caller EXCEPT ![a] = u]
        \/ caller' = [caller EXCEPT ![a] = v]
    BY DEF Ask
  <1>2. Same(r, t) /\ Same(r, u) /\ Same(r, v)
    BY DEF Same
  <1> HIDE DEF t, u, v
  <1> QED BY <1>1, <1>2, OneSame

LEMMA ConnectFailsSame == ReachedAreRefused /\ ConnectFails => AllSame
  <1> SUFFICES ASSUME ReachedAreRefused, ConnectFails PROVE AllSame
    OBVIOUS
  <1> DEFINE a == Head(queue)
             r == caller[a]
             t == [r EXCEPT !.pc = "over", !.result = "FAILED"]
             s == IF r.pc = "asking" THEN t ELSE Rejected(r)
  <1>1. caller' = [caller EXCEPT ![a] = s]
    BY DEF ConnectFails
  <1>2. Same(r, t)
    BY DEF Same
  <1>3. Same(r, s)
    BY <1>2, RejectedSame
  <1> HIDE DEF a, s
  <1> QED BY <1>1, <1>3, OneSame DEF r

LEMMA AcquireSame ==
    ASSUME NEW a \in Callers, ReachedAreRefused, Acquire(a) \/ Refuse(a)
    PROVE  AllSame
  <1> DEFINE r == caller[a]
             t == [r EXCEPT !.pc = "stepping"]
             u == [r EXCEPT !.pc = "slot"]
             v == [r EXCEPT !.pc = "leaving"]
             w == [r EXCEPT !.pc = "leaving", !.steps = <<>>, !.task = Tasks,
                            !.result = "FAILED"]
  <1>1. \/ caller' = [caller EXCEPT ![a] = t]
        \/ caller' = [caller EXCEPT ![a] = u]
        \/ caller' = [caller EXCEPT ![a] = v]
        \/ caller' = [caller EXCEPT ![a] = w]
    BY DEF Acquire, Refuse
  <1>2. Same(r, t) /\ Same(r, u) /\ Same(r, v) /\ Same(r, w)
    BY DEF Same
  <1> HIDE DEF t, u, v, w
  <1> QED BY <1>1, <1>2, OneSame

LEMMA StepEndsSame ==
    ASSUME NEW a \in Callers, ReachedAreRefused, StepEnds(a) PROVE AllSame
  <1> DEFINE r == caller[a]
             next == [r EXCEPT !.steps = Tail(@),
                               !.own = (@ \union Opens(Head(r.steps))) \ Closes(r)]
             last == [next EXCEPT !.pc = "leaving", !.task = Tasks]
  <1>1. \/ caller' = [caller EXCEPT ![a] = next]
        \/ caller' = [caller EXCEPT ![a] = last]
        \/ ReleaseExtractSlot([caller EXCEPT ![a] = last])
    BY DEF StepEnds
  <1>2. Same(r, next) /\ Same(r, last)
    BY DEF Same
  <1> HIDE DEF next, last
  <1> QED BY <1>1, <1>2, OneSame, SlotSame

LEMMA StepFailsSame ==
    ASSUME NEW a \in Callers, ReachedAreRefused, StepFails(a) PROVE AllSame
  <1> DEFINE r == caller[a]
             s == [r EXCEPT !.pc = "leaving", !.steps = <<>>, !.own = LeftOpen(r),
                            !.task = Tasks,
                            !.result = IF cancelled THEN "CANCELLED" ELSE "FAILED"]
  <1>1. \/ caller' = [caller EXCEPT ![a] = s]
        \/ ReleaseExtractSlot([caller EXCEPT ![a] = s])
    BY DEF StepFails
  <1>2. Same(r, s)
    BY DEF Same
  <1> HIDE DEF s
  <1> QED BY <1>1, <1>2, OneSame, SlotSame

LEMMA LeaveSame ==
    ASSUME NEW a \in Callers, ReachedAreRefused, Leave(a) PROVE AllSame
  <1> DEFINE r == caller[a]
             s == [r EXCEPT !.lock = "none", !.released = FALSE,
                            !.pc = IF r.result = "RUNNING" /\ r.op = "action"
                                   THEN "describing" ELSE "over",
                            !.result = IF @ = "RUNNING" /\ r.op # "action"
                                       THEN "SUCCESSFUL" ELSE @]
  <1>1. caller' = [caller EXCEPT ![a] = s]
    BY DEF Leave
  <1>2. Same(r, s)
    BY DEF Same
  <1> HIDE DEF s
  <1> QED BY <1>1, <1>2, OneSame

\* The calls of a batch are counted, not tracked one by one.
LEMMA StartBatchSame ==
    ASSUME NEW a \in Callers, ReachedAreRefused, NEW r, Same(caller[a], r),
           NEW todo, StartBatch(a, r, todo)
    PROVE  AllSame
  <1> DEFINE s == [r EXCEPT !.pc = "batch", !.batches = todo,
                            !.left = Head(todo).n,
                            !.running = IF Head(todo).via = "api"
                                        THEN Head(todo).n ELSE 0]
  <1>1. caller' = [caller EXCEPT ![a] = s]
    BY DEF StartBatch
  <1>2. Same(caller[a], s)
    BY DEF Same
  <1> HIDE DEF s
  <1> QED BY <1>1, <1>2, OneSame

LEMMA BatchSame ==
    ASSUME NEW a \in Callers, ReachedAreRefused,
           Begin(a) \/ UnitEnds(a) \/ UnitFails(a) \/ NextBatch(a)
    PROVE  AllSame
  <1> DEFINE r == caller[a]
  <1>0. Same(r, r)
    BY DEF Same
  <1>1. CASE Begin(a)
    <2>1. StartBatch(a, r, First(r.op))
      BY <1>1 DEF Begin
    <2> QED BY <1>0, <2>1, StartBatchSame
  <1>2. CASE UnitEnds(a)
    <2> DEFINE s == [r EXCEPT !.running = @ - 1,
                              !.left = IF r.pc = "batch" THEN @ - 1 ELSE @]
    <2>1. caller' = [caller EXCEPT ![a] = s]
      BY <1>2 DEF UnitEnds
    <2>2. Same(r, s)
      BY DEF Same
    <2> HIDE DEF s
    <2> QED BY <2>1, <2>2, OneSame
  <1>3. CASE UnitFails(a)
    <2> DEFINE t == [r EXCEPT !.running = @ - 1]
               s == Rejected(t)
    <2>1. caller' = [caller EXCEPT ![a] = s]
      BY <1>3 DEF UnitFails
    <2>2. Same(r, t)
      BY DEF Same
    <2>3. Same(t, s)
      BY RejectedSame
    <2>4. Same(r, s)
      BY <2>2, <2>3 DEF Same
    <2> HIDE DEF s
    <2> QED BY <2>1, <2>4, OneSame
  <1>4. CASE NextBatch(a)
    <2> DEFINE over == [r EXCEPT !.pc = "over", !.result = "SUCCESSFUL"]
               ended(k) == [over EXCEPT !.found = k]
               unread(k) == [over EXCEPT !.found = k, !.result = "FAILED"]
               s(k) == [r EXCEPT !.found = k]
    <2>1. \/ StartBatch(a, r, Tail(r.batches))
          \/ caller' = [caller EXCEPT ![a] = over]
          \/ \E k \in Found :
                \/ caller' = [caller EXCEPT ![a] = unread(k)]
                \/ caller' = [caller EXCEPT ![a] = ended(k)]
                \/ StartBatch(a, s(k), Rest(r.op, k))
      BY <1>4 DEF NextBatch
    <2>2. Same(r, over)
      BY DEF Same
    <2>3. \A k : Same(r, ended(k)) /\ Same(r, unread(k)) /\ Same(r, s(k))
      BY DEF Same
    <2> HIDE DEF over, ended, unread, s
    <2>4. CASE StartBatch(a, r, Tail(r.batches))
      BY <1>0, <2>4, StartBatchSame
    <2>5. CASE caller' = [caller EXCEPT ![a] = over]
      BY <2>2, <2>5, OneSame
    <2>6. ASSUME NEW k \in Found,
                 \/ caller' = [caller EXCEPT ![a] = unread(k)]
                 \/ caller' = [caller EXCEPT ![a] = ended(k)]
                 \/ StartBatch(a, s(k), Rest(r.op, k))
          PROVE  AllSame
      BY <2>3, <2>6, OneSame, StartBatchSame
    <2> QED BY <2>1, <2>4, <2>5, <2>6
  <1> QED BY <1>1, <1>2, <1>3, <1>4

-----------------------------------------------------------------------------
LEMMA EveryStepKeeps ==
    ASSUME ReachedAreRefused, [Next]_vars PROVE AllKept
  <1>1. CASE UNCHANGED vars
    BY <1>1, Idle DEF vars
  <1>2. CASE CreatePostgres \/ CreateMySql
    BY <1>2, Idle DEF CreatePostgres, CreateMySql
  <1>3. CASE Connect \/ ConnectFails \/ Cancel
    BY <1>3, ConnectKeeps, CancelKeeps, ConnectFailsSame, AllSameKept
  <1>4. ASSUME NEW a \in Callers, CallerStep(a) PROVE AllKept
    <2>1. CASE Ask(a) \/ Acquire(a) \/ Refuse(a) \/ StepEnds(a) \/ StepFails(a)
               \/ Leave(a)
      BY <2>1, AskSame, AcquireSame, StepEndsSame, StepFailsSame, LeaveSame,
         AllSameKept
    <2>2. CASE Begin(a) \/ UnitEnds(a) \/ UnitFails(a) \/ NextBatch(a)
      BY <2>2, BatchSame, AllSameKept
    <2>3. CASE NextTask(a) \/ Settle(a)
      BY <2>3, NextTaskKeeps, SettleKeeps
    <2>4. CASE \/ StatementEnds(a) \/ PostgresStatementFails(a)
               \/ MySqlStatementFails(a) \/ ConnectionLost(a)
               \/ JobCreated(a) \/ JobFails(a) \/ JobStreamed(a) \/ JobSucceeds(a)
      BY <2>4, CallSteps
    <2> QED BY <1>4, <2>1, <2>2, <2>3, <2>4 DEF CallerStep
  <1> QED BY <1>1, <1>2, <1>3, <1>4 DEF Next

\* A call that a cancellation reached is being created or refused, in every
\* state: it has no rows to resolve with.  (bigquery.ts:524-566,
\* utils/postgres.ts:116)
THEOREM ReachedCallsAreRefused == Spec => []ReachedAreRefused
  <1>1. ReachedAreRefused /\ [Next]_vars => ReachedAreRefused'
    BY EveryStepKeeps DEF AllKept, Kept, ReachedAreRefused
  <1> QED BY <1>1, StartsSound, PTL DEF Spec

\* No call that registered for the cancellation succeeds after it, for any
\* number of callers, attempts and statements, on each of the warehouses.
THEOREM CancellationIsFinal == Spec => CancelReachesEveryCall
  <1>1. ReachedAreRefused /\ [Next]_vars =>
            [\A a \in Callers :
                caller[a].onCancel = "called" => caller'[a].done = caller[a].done]_vars
    BY EveryStepKeeps DEF AllKept, Kept
  <1> QED BY <1>1, ReachedCallsAreRefused, PTL DEF Spec, CancelReachesEveryCall

=============================================================================
