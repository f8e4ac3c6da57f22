---------------------------- MODULE ValidateProofs --------------------------
(***************************************************************************)
(* Proofs about Validate, for any number of processes, every project and   *)
(* every age limit.  First its shadow schemas: none is left behind, and    *)
(* none is swept from under a young process.  Then the order of the nodes, *)
(* and from it the verdicts: every node gets one, each agrees with those   *)
(* it rests on, and one error does not become many.                        *)
(***************************************************************************)
EXTENDS Validate, Induction, SequenceTheorems

-----------------------------------------------------------------------------
(* The inductive invariant                                                 *)

\* The types of what shadows depend on.
ShadowType ==
    /\ project \in Projects
    /\ now \in Nat
    /\ pc \in [Run -> {"idle"} \cup Active \cup Over]
    /\ started \in [Run -> Nat]
    /\ left \in [Run -> SUBSET (Schema \cup (Run \X Schema))]
    /\ signalled \in [Run -> BOOLEAN]
    /\ handling \in [Run -> SUBSET Schema]
    /\ shadow \subseteq Run \X Schema
    /\ undropped \subseteq Run
    /\ \A r \in Run : handling[r] # {} => signalled[r]

\* The shadow's process started longer ago than MaxAge, and stays that old.
Old(s) ==
    /\ s \in Run \X Schema
    /\ pc[s[1]] # "idle"
    /\ now - started[s[1]] > MaxAge

\* A process has shadows only once it has started, and only of its project.
ShadowsAreOurs ==
    \A r \in Run, s \in Schema :
        <<r, s>> \in shadow => pc[r] \notin {"idle", "list", "sweep"} /\ s \in ShadowSchemas

\* What a process knows of shadows: it sweeps old ones; it has created those it
\* has not still to create; and in the end it has those left that it has still
\* to drop, or could not drop.
Knows(r) ==
    /\ pc[r] = "sweep" => \A s \in left[r] : Old(s)
    /\ pc[r] = "schemas" =>
        /\ left[r] \subseteq ShadowSchemas
        /\ Undisturbed(r) => \A s \in ShadowSchemas \ left[r] : <<r, s>> \in shadow
    /\ pc[r] \in {"node", "stub", "ops"} /\ Undisturbed(r) =>
        \A s \in ShadowSchemas : <<r, s>> \in shadow
    /\ pc[r] \in {"teardown", "unwind"} /\ ~project.keep =>
        /\ left[r] \subseteq ShadowSchemas
        /\ \A s \in ShadowSchemas \ left[r] : <<r, s>> \in shadow => r \in undropped
    /\ pc[r] \in {"done", "failed"} /\ ~project.keep =>
        \A s \in ShadowSchemas : <<r, s>> \in shadow => r \in undropped

VInv ==
    /\ ShadowType
    /\ ShadowsAreOurs
    /\ \A r \in Run : Knows(r)

-----------------------------------------------------------------------------
(* The steps of one process                                                *)

ProcessStep(r) ==
    \/ Start(r) \/ List(r) \/ Sweep(r) \/ Enter(r)
    \/ CreateSchema(r) \/ SchemasCreated(r)
    \/ Judge(r) \/ Evaluate(r) \/ CreateStub(r) \/ EvaluateOps(r)
    \/ AllJudged(r) \/ Teardown(r) \/ End(r)
    \/ Interrupt(r) \/ HandlerDrop(r) \/ Exit(r) \/ Kill(r)

\* The steps that only judge a node: they leave the shadows alone.
Judging(r) ==
    /\ pc[r] \in {"node", "stub", "ops"}
    /\ \E at \in {"node", "stub", "ops"} : Goto(r, at)
    /\ UNCHANGED <<left, shadow>> /\ Steady

LEMMA JudgingSteps ==
    ASSUME NEW r, Judge(r) \/ Evaluate(r) \/ CreateStub(r) \/ EvaluateOps(r)
    PROVE  Judging(r)
<1>1. CASE Judge(r)
  BY <1>1 DEF Judge, Judged, Judging, warehouse
<1>2. CASE Evaluate(r)
  BY <1>2 DEF Evaluate, Lost, Judged, Judging, warehouse
<1>3. CASE CreateStub(r)
  BY <1>3 DEF CreateStub, Judged, Judging
<1>4. CASE EvaluateOps(r)
  BY <1>4 DEF EvaluateOps, Lost, Judged, Judging, warehouse
<1> QED
  BY <1>1, <1>2, <1>3, <1>4

LEMMA OurSchemas ==
    ASSUME ShadowType
    PROVE  ShadowSchemas \subseteq Schema /\ project.keep \in BOOLEAN
<1>1. Project(project)
  BY ValidateAssumption DEF ShadowType
<1> QED
  BY <1>1 DEF Project, ShadowSchemas

\* A step of r is nobody else's.
Frame(r) ==
    /\ project' = project /\ now' = now
    /\ pc'[r] # "idle"
    /\ started'[r] = started[r] \/ pc[r] = "idle"
    /\ signalled[r] => signalled'[r]
    /\ undropped \subseteq undropped'
    /\ \A q \in Run \ {r} :
        /\ pc'[q] = pc[q] /\ left'[q] = left[q] /\ started'[q] = started[q]
        /\ signalled'[q] = signalled[q]
        /\ q \in undropped' => q \in undropped

LEMMA StepFrame ==
    ASSUME ShadowType, NEW r \in Run, ProcessStep(r)
    PROVE  Frame(r)
<1>0. /\ pc \in [Run -> {"idle"} \cup Active \cup Over] /\ started \in [Run -> Nat]
      /\ left \in [Run -> SUBSET (Schema \cup (Run \X Schema))] /\ signalled \in [Run -> BOOLEAN]
  BY DEF ShadowType
<1>1. ASSUME Judging(r) PROVE Frame(r)
  BY <1>0, <1>1 DEF Judging, Goto, Throws, Steady, Frame
<1>2. CASE Judge(r) \/ Evaluate(r) \/ CreateStub(r) \/ EvaluateOps(r)
  BY <1>1, <1>2, JudgingSteps
<1>3. CASE Start(r)
  BY <1>0, <1>3 DEF Start, Goto, loop, Frame
<1>4. CASE List(r) \/ Sweep(r) \/ Enter(r)
  BY <1>0, <1>4 DEF List, Sweep, Enter, Goto, Steady, Frame
<1>5. CASE CreateSchema(r) \/ SchemasCreated(r) \/ AllJudged(r)
  BY <1>0, <1>5 DEF CreateSchema, SchemasCreated, AllJudged, Throws, Goto, Steady, loop, Frame
<1>6. CASE Teardown(r) \/ End(r)
  BY <1>0, <1>6 DEF Teardown, End, Goto, Steady, loop, Frame
<1>7. CASE Interrupt(r) \/ HandlerDrop(r) \/ Exit(r) \/ Kill(r)
  BY <1>0, <1>7 DEF Interrupt, HandlerDrop, Exit, Kill, Goto, Steady, loop, Frame, Active
<1> QED
  BY <1>2, <1>3, <1>4, <1>5, <1>6, <1>7 DEF ProcessStep

LEMMA StepType ==
    ASSUME VInv, NEW r \in Run, ProcessStep(r)
    PROVE  ShadowType'
<1>0. ShadowType /\ ShadowSchemas \subseteq Schema
  BY OurSchemas DEF VInv
<1>1. ASSUME Judging(r) PROVE ShadowType'
  BY <1>0, <1>1 DEF Judging, Goto, Throws, Steady, ShadowType, Active
<1>2. CASE Judge(r) \/ Evaluate(r) \/ CreateStub(r) \/ EvaluateOps(r)
  BY <1>1, <1>2, JudgingSteps
<1>3. CASE Start(r)
  BY <1>0, <1>3 DEF Start, Goto, loop, warehouse, ShadowType, Active
<1>4. CASE List(r)
  BY <1>0, <1>4
  DEF List, ShadowSchemasToSweep, Goto, Steady, warehouse, ShadowType, Active
<1>5. CASE Sweep(r)
  BY <1>0, <1>5 DEF Sweep, Dropped, Steady, warehouse, ShadowType
<1>6. CASE Enter(r) \/ SchemasCreated(r) \/ AllJudged(r)
  BY <1>0, <1>6 DEF Enter, SchemasCreated, AllJudged, Goto, Steady, loop, warehouse, ShadowType, Active
<1>7. CASE CreateSchema(r)
  <2>1. \A s \in left[r] : s \in Schema
    BY <1>0, <1>7 DEF CreateSchema, VInv, Knows
  <2> QED
    BY <1>0, <1>7, <2>1 DEF CreateSchema, Throws, Goto, Steady, warehouse, ShadowType, Active
<1>8. CASE Teardown(r)
  BY <1>0, <1>8 DEF Teardown, Dropped, warehouse, ShadowType
<1>9. CASE End(r) \/ Exit(r) \/ Kill(r)
  BY <1>0, <1>9 DEF End, Exit, Kill, Goto, Steady, loop, warehouse, ShadowType, Over
<1>10. CASE Interrupt(r)
  BY <1>0, <1>10 DEF Interrupt, loop, warehouse, ShadowType
<1>11. CASE HandlerDrop(r)
  BY <1>0, <1>11 DEF HandlerDrop, Dropped, loop, warehouse, ShadowType
<1> QED
  BY <1>2, <1>3, <1>4, <1>5, <1>6, <1>7, <1>8, <1>9, <1>10, <1>11 DEF ProcessStep

\* Whose shadows a step may make or drop: its own, and old ones.
LEMMA StepShadows ==
    ASSUME VInv, NEW r \in Run, ProcessStep(r), NEW q \in Run, NEW s \in Schema
    PROVE  /\ <<q, s>> \in shadow' => \/ <<q, s>> \in shadow
                                      \/ q = r /\ pc[r] = "schemas" /\ s \in ShadowSchemas
           /\ <<q, s>> \in shadow => \/ <<q, s>> \in shadow'
                                     \/ Old(<<q, s>>)
                                     \/ q = r /\ (signalled[r] \/ pc[r] \in {"teardown", "unwind"})
<1>0. ShadowType /\ Knows(r)
  BY DEF VInv
<1>1. CASE UNCHANGED shadow
  BY <1>1
<1>2. CASE Sweep(r)
  BY <1>0, <1>2 DEF Sweep, Dropped, Knows, warehouse
<1>3. CASE CreateSchema(r)
  BY <1>0, <1>3 DEF CreateSchema, Knows, warehouse
<1>4. CASE Teardown(r)
  BY <1>0, <1>4 DEF Teardown, Dropped, warehouse
<1>5. CASE HandlerDrop(r)
  <2>1. signalled[r]
    BY <1>0, <1>5 DEF HandlerDrop, ShadowType
  <2> QED
    BY <1>5, <2>1 DEF HandlerDrop, Dropped, warehouse
<1>6. CASE Judge(r) \/ Evaluate(r) \/ CreateStub(r) \/ EvaluateOps(r)
  BY <1>1, <1>6, JudgingSteps DEF Judging
<1>7. CASE \/ Start(r) \/ List(r) \/ Enter(r) \/ SchemasCreated(r) \/ AllJudged(r)
           \/ End(r) \/ Interrupt(r) \/ Exit(r) \/ Kill(r)
  BY <1>1, <1>7
  DEF Start, List, Enter, SchemasCreated, AllJudged, End, Interrupt, Exit, Kill, warehouse
<1> QED
  BY <1>2, <1>3, <1>4, <1>5, <1>6, <1>7 DEF ProcessStep

LEMMA OldStays ==
    ASSUME ShadowType, NEW r \in Run, Frame(r), NEW s, Old(s)
    PROVE  Old(s)'
<1>1. s[1] \in Run /\ pc'[s[1]] # "idle" /\ started'[s[1]] = started[s[1]]
  BY DEF Old, Frame
<1> QED
  BY <1>1 DEF Old, Frame

\* An old process is disturbed.
LEMMA OldIsDisturbed ==
    ASSUME ShadowType, NEW q \in Run, NEW s, Old(<<q, s>>)
    PROVE  ~Undisturbed(q)
  BY ValidateAssumption DEF Old, Undisturbed, ShadowType

\* What the others know stays true.
LEMMA OthersKnow ==
    ASSUME VInv, NEW r \in Run, ProcessStep(r), NEW q \in Run \ {r}
    PROVE  Knows(q)'
<1>0. /\ ShadowType /\ Frame(r) /\ Knows(q) /\ ShadowSchemas \subseteq Schema
      /\ ShadowSchemas' = ShadowSchemas
  BY StepFrame, OurSchemas DEF VInv, Frame, ShadowSchemas
<1>1. Undisturbed(q)' = Undisturbed(q)
  BY <1>0 DEF Undisturbed, Frame
<1>2. \A s \in ShadowSchemas : /\ <<q, s>> \in shadow' => <<q, s>> \in shadow
                               /\ Undisturbed(q) /\ <<q, s>> \in shadow => <<q, s>> \in shadow'
  BY <1>0, StepShadows, OldIsDisturbed
<1>3. pc[q] = "sweep" => \A s \in left[q] : Old(s)'
  BY <1>0, OldStays DEF Knows
<1> QED
  BY <1>0, <1>1, <1>2, <1>3 DEF Knows, Frame

LEMMA OwnKnows ==
    ASSUME VInv, NEW r \in Run, ProcessStep(r)
    PROVE  Knows(r)'
<1>0. /\ ShadowType /\ Knows(r) /\ ShadowSchemas \subseteq Schema /\ project.keep \in BOOLEAN
      /\ pc \in [Run -> {"idle"} \cup Active \cup Over]
      /\ left \in [Run -> SUBSET (Schema \cup (Run \X Schema))]
  BY OurSchemas DEF VInv, ShadowType
<1>a. Frame(r) /\ ShadowSchemas' = ShadowSchemas
  BY <1>0, StepFrame DEF Frame, ShadowSchemas
<1>1. ASSUME Throws(r) PROVE Knows(r)'
  BY <1>0, <1>a, <1>1 DEF Throws, Goto, Knows, Frame
<1>2. ASSUME UNCHANGED <<shadow, started, signalled>>, UNCHANGED left,
             pc'[r] \in {"node", "stub", "ops"}, pc[r] \in {"node", "stub", "ops"}
      PROVE  Knows(r)'
  <2>1. Undisturbed(r)' = Undisturbed(r)
    BY <1>a, <1>2 DEF Undisturbed, Frame
  <2> QED
    BY <1>0, <1>a, <1>2, <2>1 DEF Knows
<1>3. CASE Judge(r) \/ Evaluate(r) \/ CreateStub(r) \/ EvaluateOps(r)
  <2>1. Judging(r)
    BY <1>3, JudgingSteps
  <2> QED
    BY <1>0, <1>1, <1>2, <2>1 DEF Judging, Goto, Steady
<1>4. CASE Start(r) \/ Exit(r) \/ Kill(r)
  BY <1>0, <1>4 DEF Start, Exit, Kill, Goto, Knows
<1>5. CASE List(r)
  <2>1. pc'[r] = "sweep" /\ pc[r] = "list" /\ now' = now /\ started' = started
    BY <1>0, <1>5 DEF List, Goto, Steady
  <2>2. \A s \in left'[r] : s \in shadow /\ now - started[s[1]] > MaxAge
    BY <1>0, <1>5 DEF List, ShadowSchemasToSweep
  <2>3. ASSUME NEW s \in left'[r] PROVE Old(s)'
    <3>1. s \in Run \X Schema /\ pc[s[1]] # "idle"
      BY <2>2, <2>3 DEF VInv, ShadowType, ShadowsAreOurs
    <3>2. pc'[s[1]] # "idle"
      BY <1>a, <3>1 DEF Frame
    <3> QED
      BY <2>1, <2>2, <2>3, <3>1, <3>2 DEF Old
  <2> QED
    BY <2>1, <2>3 DEF Knows
<1>6. CASE Sweep(r)
  <2>1. pc'[r] = "sweep" /\ \A s \in left'[r] : Old(s)
    BY <1>0, <1>6 DEF Sweep, Knows
  <2>2. \A s \in left'[r] : Old(s)'
    BY <1>0, <1>a, <2>1, OldStays
  <2> QED
    BY <2>1, <2>2 DEF Knows
<1>7. CASE Enter(r)
  <2>1. pc'[r] = "schemas" /\ left'[r] = ShadowSchemas
    BY <1>0, <1>7 DEF Enter, Goto
  <2> QED
    BY <1>a, <2>1 DEF Knows
<1>8. CASE CreateSchema(r)
  <2>1. CASE Throws(r)
    BY <1>1, <2>1
  <2>2. CASE /\ UNCHANGED <<pc, stub>>
             /\ \E s \in left[r] : /\ shadow' = shadow \cup {<<r, s>>}
                                   /\ left' = [left EXCEPT ![r] = @ \ {s}]
    <3>1. Undisturbed(r)' = Undisturbed(r)
      BY <1>8 DEF CreateSchema, Steady, Undisturbed
    <3> QED
      BY <1>0, <1>a, <1>8, <2>2, <3>1 DEF CreateSchema, Knows
  <2> QED
    BY <1>8, <2>1, <2>2 DEF CreateSchema
<1>9. CASE SchemasCreated(r)
  <2>1. pc'[r] = "node" /\ left[r] = {} /\ pc[r] = "schemas" /\ UNCHANGED shadow
    BY <1>0, <1>9 DEF SchemasCreated, Goto, warehouse
  <2>2. Undisturbed(r)' = Undisturbed(r)
    BY <1>9 DEF SchemasCreated, Steady, Undisturbed
  <2> QED
    BY <1>0, <1>a, <2>1, <2>2 DEF Knows
<1>10. CASE AllJudged(r)
  <2>1. pc'[r] = "teardown" /\ (~project.keep => left'[r] = ShadowSchemas)
    BY <1>0, <1>10 DEF AllJudged, Goto
  <2> QED
    BY <1>a, <2>1 DEF Knows, Frame
<1>11. CASE Teardown(r)
  <2>1. PICK s \in left[r] :
            /\ left' = [left EXCEPT ![r] = @ \ {s}]
            /\ \/ shadow' = shadow \ {<<r, s>>} /\ UNCHANGED undropped
               \/ UNCHANGED shadow /\ undropped' = undropped \cup {r}
    BY <1>11 DEF Teardown, Dropped, warehouse
  <2>2. pc'[r] = pc[r] /\ pc[r] \in {"teardown", "unwind"}
    BY <1>11 DEF Teardown
  <2> QED
    BY <1>0, <1>a, <2>1, <2>2 DEF Knows, Frame
<1>12. CASE End(r)
  <2>1. /\ pc'[r] \in {"done", "failed"} /\ left[r] = {} /\ pc[r] \in {"teardown", "unwind"}
        /\ UNCHANGED <<shadow, undropped>>
    BY <1>0, <1>12 DEF End, Goto, Steady, warehouse
  <2> QED
    BY <1>0, <1>a, <2>1 DEF Knows, Frame
<1>13. CASE Interrupt(r)
  <2>1. ~Undisturbed(r)'
    BY <1>0, <1>13 DEF Interrupt, Undisturbed, ShadowType
  <2>2. UNCHANGED <<project, now, pc, started, left, shadow, undropped>>
    BY <1>13 DEF Interrupt, loop, warehouse
  <2> QED
    BY <1>0, <1>a, <2>1, <2>2 DEF Knows, Old
<1>14. CASE HandlerDrop(r)
  <2>1. /\ UNCHANGED <<project, now, pc, started, left, signalled, undropped>>
        /\ shadow' \subseteq shadow
    BY <1>14 DEF HandlerDrop, Dropped, loop, warehouse
  <2>2. ~Undisturbed(r)'
    BY <1>0, <1>14, <2>1 DEF HandlerDrop, Undisturbed, ShadowType
  <2> QED
    BY <1>0, <1>a, <2>1, <2>2 DEF Knows, Old
<1> QED
  BY <1>3, <1>4, <1>5, <1>6, <1>7, <1>8, <1>9, <1>10, <1>11, <1>12, <1>13, <1>14 DEF ProcessStep

-----------------------------------------------------------------------------
(* The theorems                                                            *)

LEMMA InitVInv == Init => VInv
<1> SUFFICES ASSUME Init PROVE VInv
  OBVIOUS
<1>1. ShadowType
  BY DEF Init, ShadowType
<1> QED
  BY <1>1 DEF Init, VInv, ShadowsAreOurs, Knows

LEMMA StepVInv == VInv /\ [Next]_vars => VInv'
<1> SUFFICES ASSUME VInv, [Next]_vars PROVE VInv'
  OBVIOUS
<1>0. ShadowType /\ ShadowSchemas \subseteq Schema
  BY OurSchemas DEF VInv
<1>1. ASSUME NEW r \in Run, ProcessStep(r) PROVE VInv'
  <2>1. ShadowType'
    BY <1>1, StepType
  <2>2. \A q \in Run : Knows(q)'
    BY <1>1, OthersKnow, OwnKnows
  <2>3. ShadowsAreOurs'
    <3> SUFFICES ASSUME NEW q \in Run, NEW s \in Schema, <<q, s>> \in shadow'
                 PROVE  pc'[q] \notin {"idle", "list", "sweep"} /\ s \in ShadowSchemas'
      BY DEF ShadowsAreOurs
    <3>1. Frame(r) /\ ShadowSchemas' = ShadowSchemas
      BY <1>0, <1>1, StepFrame DEF Frame, ShadowSchemas
    <3>2. pc[q] \notin {"idle", "list", "sweep"} /\ s \in ShadowSchemas
      BY <1>1, StepShadows DEF VInv, ShadowsAreOurs
    <3>3. pc[r] \notin {"idle", "list", "sweep"} => pc'[r] \notin {"idle", "list", "sweep"}
      <4>1. CASE Judge(r) \/ Evaluate(r) \/ CreateStub(r) \/ EvaluateOps(r)
        BY <1>0, <4>1, JudgingSteps DEF Judging, Goto, Throws, ShadowType
      <4>2. CASE ~(Judge(r) \/ Evaluate(r) \/ CreateStub(r) \/ EvaluateOps(r))
        BY <1>0, <1>1, <4>2
        DEF ProcessStep, Start, List, Sweep, Enter, CreateSchema, SchemasCreated, AllJudged,
            Teardown, End, Interrupt, HandlerDrop, Exit, Kill, Goto, Throws, ShadowType
      <4> QED
        BY <4>1, <4>2
    <3> QED
      BY <3>1, <3>2, <3>3 DEF Frame
  <2> QED
    BY <2>1, <2>2, <2>3 DEF VInv
<1>2. CASE Tick
  <2>1. /\ now' = now + 1
        /\ UNCHANGED <<project, pc, started, left, signalled, handling, shadow, undropped>>
    BY <1>2 DEF Tick, loop, warehouse
  <2>2. ShadowType' /\ ShadowSchemas' = ShadowSchemas
    BY <1>0, <2>1 DEF ShadowType, ShadowSchemas
  <2>3. ASSUME NEW r \in Run PROVE Undisturbed(r)' => Undisturbed(r)
    BY <1>0, <2>1, ValidateAssumption DEF Undisturbed, ShadowType
  <2>4. ASSUME NEW s, Old(s) PROVE Old(s)'
    <3>1. now \in Nat /\ started[s[1]] \in Nat /\ MaxAge \in Nat
      BY <1>0, <2>4, ValidateAssumption DEF Old, ShadowType
    <3> QED
      BY <2>1, <2>4, <3>1 DEF Old
  <2>5. \A r \in Run : Knows(r)'
    BY <2>1, <2>2, <2>3, <2>4 DEF VInv, Knows
  <2> QED
    BY <2>1, <2>2, <2>5 DEF VInv, ShadowsAreOurs
<1>3. CASE UNCHANGED vars
  <2>1. UNCHANGED <<project, now, pc, started, left, signalled, handling, shadow, undropped>>
    BY <1>3 DEF vars, loop, warehouse
  <2>2. \A r \in Run : Knows(r)'
    BY <2>1 DEF VInv, Knows, Old, Undisturbed, ShadowSchemas
  <2> QED
    BY <2>1, <2>2 DEF VInv, ShadowType, ShadowsAreOurs, ShadowSchemas
<1> QED
  BY <1>1, <1>2, <1>3 DEF Next, ProcessStep

\* The invariant behind the two theorems.
THEOREM ShadowsAreKnown == Spec => []VInv
  BY InitVInv, StepVInv, PTL DEF Spec

\* However many processes validate at once, and whatever fails, a process that
\* ends without --keep-shadow, a signal or a kill leaves only shadows that it
\* could not drop.
THEOREM ShadowsAreDropped == Spec => []NothingIsLeftBehind
<1>1. VInv => NothingIsLeftBehind
  BY DEF VInv, ShadowsAreOurs, Knows, NothingIsLeftBehind
<1> QED
  BY ShadowsAreKnown, <1>1, PTL

\* No sweep takes a shadow from a process that is no older than MaxAge.
THEOREM YoungShadowsAreSafe == Spec => []YoungShadowsStay
<1>1. VInv => YoungShadowsStay
  BY DEF VInv, Knows, YoungShadowsStay
<1> QED
  BY ShadowsAreKnown, <1>1, PTL

-----------------------------------------------------------------------------
(* The order of validation                                                 *)

LEMMA MinIsLeast ==
    ASSUME NEW T, T \subseteq Nat, T # {}
    PROVE  Min(T) \in T /\ \A y \in T : Min(T) <= y
  BY LeastNumber DEF Min

\* The nodes are in an order that follows their dependencies.
InOrder(deps, nodes, s) ==
    /\ s \in Seq(nodes)
    /\ \A i, j \in 1..Len(s) : s[i] = s[j] => i = j
    /\ \A i \in 1..Len(s) : \A d \in deps[s[i]] \cap nodes : \E j \in 1..(i - 1) : s[j] = d

\* No node is in a cycle.
Acyclic(deps, nodes) ==
    \A S \in SUBSET nodes : S # {} => \E n \in S : deps[n] \cap S = {}

LEMMA MembersOfSeq ==
    ASSUME NEW S, NEW s \in Seq(S)
    PROVE  \A x : x \in ToSet(s) <=> \E i \in 1..Len(s) : s[i] = x
<1>1. DOMAIN s = 1..Len(s)
  BY LenProperties
<1> QED
  BY <1>1 DEF ToSet

\* A sequence without repetition that has as many elements as there are has all.
LEMMA AllAreOrdered ==
    ASSUME NEW deps, NEW nodes, IsFiniteSet(nodes), NEW s, InOrder(deps, nodes, s)
    PROVE  /\ Len(s) < Cardinality(nodes) => nodes \ ToSet(s) # {}
           /\ Len(s) = Cardinality(nodes) => ToSet(s) = nodes
<1> DEFINE N == Len(s)
           R == ToSet(s)
<1>1. /\ N \in Nat /\ s \in [1..N -> nodes]
      /\ \A x : x \in R <=> \E i \in 1..N : s[i] = x
      /\ R \subseteq nodes
      /\ \A i, j \in 1..N : s[i] = s[j] => i = j
  <2>1. s \in Seq(nodes) /\ \A i, j \in 1..Len(s) : s[i] = s[j] => i = j
    BY DEF InOrder
  <2>2. \A x : x \in R <=> \E i \in 1..N : s[i] = x
    BY <2>1, MembersOfSeq
  <2>3. N \in Nat /\ s \in [1..N -> nodes]
    BY <2>1, LenProperties
  <2>4. R \subseteq nodes
    BY <2>2, <2>3
  <2> QED
    BY <2>1, <2>2, <2>3, <2>4
<1> HIDE DEF N, R
<1>2. IsFiniteSet(1..N) /\ Cardinality(1..N) = N
  BY <1>1, FS_Interval
<1>3. s \in Injection(1..N, R) /\ s \in Surjection(1..N, R)
  BY <1>1 DEF Injection, IsInjective, Surjection
<1>4. IsFiniteSet(R) /\ Cardinality(R) = N
  BY <1>2, <1>3, FS_Surjection
<1>5. Cardinality(R) = Cardinality(nodes) <=> R = nodes
  BY <1>1, FS_Subset
<1>6. Cardinality(nodes) \in Nat
  BY FS_CardinalityType
<1>7. N < Cardinality(nodes) => nodes \ R # {}
  <2>1. ASSUME N < Cardinality(nodes) PROVE R # nodes
    BY <1>1, <1>4, <1>6, <2>1
  <2>2. R # nodes => nodes \ R # {}
    BY <1>1
  <2> QED
    BY <2>1, <2>2
<1> QED
  BY <1>4, <1>5, <1>7 DEF N, R

\* One more node is put in order, as long as some are left.
LEMMA EmitOrders ==
    ASSUME NEW nodes \in SUBSET Nat, IsFiniteSet(nodes), NEW deps, Acyclic(deps, nodes),
           NEW s, InOrder(deps, nodes, s), Len(s) < Cardinality(nodes)
    PROVE  /\ InOrder(deps, nodes, Emit(deps, nodes, s))
           /\ Len(Emit(deps, nodes, s)) = Len(s) + 1
<1> DEFINE done  == ToSet(s)
           ready == Ready(deps, nodes, done)
           n     == Min(ready)
           t     == Append(s, n)
<1>1. /\ nodes \ done # {} /\ s \in Seq(nodes) /\ Len(s) \in Nat
      /\ \A x : x \in done <=> \E i \in 1..Len(s) : s[i] = x
  <2>1. s \in Seq(nodes)
    BY DEF InOrder
  <2>2. nodes \ done # {}
    BY AllAreOrdered
  <2>3. \A x : x \in done <=> \E i \in 1..Len(s) : s[i] = x
    BY <2>1, MembersOfSeq
  <2>4. Len(s) \in Nat
    BY <2>1, LenProperties
  <2> QED
    BY <2>1, <2>2, <2>3, <2>4
<1>2. PICK m \in nodes \ done : deps[m] \cap (nodes \ done) = {}
  BY <1>1 DEF Acyclic
<1>3. m \in ready
  BY <1>2 DEF Ready, InGraph
<1>4. ready \subseteq nodes /\ ready # {}
  BY <1>3 DEF Ready
<1>5. n \in ready
  BY <1>4, MinIsLeast
<1>6. n \in nodes /\ n \notin done /\ (deps[n] \cap nodes) \ {n} \subseteq done
  BY <1>5 DEF Ready, InGraph
<1>7. n \notin deps[n]
  <2>1. {n} \in SUBSET nodes /\ {n} # {}
    BY <1>6
  <2>2. PICK x \in {n} : deps[x] \cap {n} = {}
    BY <2>1 DEF Acyclic
  <2> QED
    BY <2>2
<1>8. Emit(deps, nodes, s) = t
  BY <1>4 DEF Emit
<1> HIDE DEF done, ready, n
<1>9. /\ t \in Seq(nodes) /\ Len(t) = Len(s) + 1 /\ t[Len(s) + 1] = n
      /\ \A i \in 1..Len(s) : t[i] = s[i]
  BY <1>1, <1>6, AppendProperties
<1> HIDE DEF t
<1>10. \A i, j \in 1..Len(t) : t[i] = t[j] => i = j
  BY <1>1, <1>6, <1>9 DEF InOrder
<1>11. ASSUME NEW i \in 1..Len(t), NEW d \in deps[t[i]] \cap nodes
       PROVE  \E j \in 1..(i - 1) : t[j] = d
  <2>1. CASE i \in 1..Len(s)
    <3>1. d \in deps[s[i]] \cap nodes
      BY <1>9, <1>11, <2>1
    <3>2. PICK j \in 1..(i - 1) : s[j] = d
      BY <2>1, <3>1 DEF InOrder
    <3> QED
      BY <1>1, <1>9, <2>1, <3>2
  <2>2. CASE i = Len(s) + 1
    <3>1. d \in done
      BY <1>6, <1>7, <1>9, <1>11, <2>2
    <3>2. PICK j \in 1..Len(s) : s[j] = d
      BY <1>1, <3>1
    <3> QED
      BY <1>1, <1>9, <2>2, <3>2
  <2> QED
    BY <1>1, <1>9, <2>1, <2>2
<1> QED
  BY <1>8, <1>9, <1>10, <1>11 DEF InOrder

\* What the function that TopoOrder defines by recursion is.
IsKahn(deps, nodes, f, n) ==
    f = [k \in 0..n |-> IF k = 0 THEN <<>> ELSE Emit(deps, nodes, f[k - 1])]

\* There is such a function.
LEMMA KahnExists ==
    ASSUME NEW deps, NEW nodes, NEW n \in Nat
    PROVE  \E f : IsKahn(deps, nodes, f, n)
<1> DEFINE without == {k \in Nat : ~ \E f : IsKahn(deps, nodes, f, k)}
<1> SUFFICES ASSUME without # {} PROVE FALSE
  OBVIOUS
<1>1. PICK m \in without : \A k \in without : m <= k
  BY LeastNumber
<1>2. CASE m = 0
  <2> DEFINE f == [k \in 0..0 |-> <<>>]
  <2>1. IsKahn(deps, nodes, f, 0)
    BY DEF IsKahn
  <2> QED
    BY <1>2, <2>1
<1>3. CASE m # 0
  <2>1. m \in Nat /\ m - 1 \in Nat /\ m - 1 \notin without
    BY <1>1, <1>3
  <2>2. PICK f : IsKahn(deps, nodes, f, m - 1)
    BY <2>1
  <2> DEFINE g == [k \in 0..m |-> IF k = m THEN Emit(deps, nodes, f[m - 1]) ELSE f[k]]
             h == [k \in 0..m |-> IF k = 0 THEN <<>> ELSE Emit(deps, nodes, g[k - 1])]
  <2>3. ASSUME NEW k \in 0..m PROVE g[k] = h[k]
    <3>1. CASE k = m
      <4>1. g[m - 1] = f[m - 1]
        BY <2>1
      <4> QED
        BY <1>3, <3>1, <4>1
    <3>2. CASE k # m
      <4>1. k \in 0..(m - 1) /\ (k # 0 => k - 1 \in 0..(m - 1) /\ g[k - 1] = f[k - 1])
        BY <2>1, <3>2
      <4>2. f[k] = IF k = 0 THEN <<>> ELSE Emit(deps, nodes, f[k - 1])
        BY <2>2, <4>1 DEF IsKahn
      <4> QED
        BY <3>2, <4>1, <4>2
    <3> QED
      BY <3>1, <3>2
  <2>4. g = h
    BY <2>3
  <2>5. IsKahn(deps, nodes, g, m)
    BY <2>4 DEF IsKahn
  <2> HIDE DEF g
  <2> QED
    BY <2>5
<1> QED
  BY <1>2, <1>3

\* Without cycles it puts one more node in order at every step.
LEMMA KahnOrders ==
    ASSUME NEW nodes \in SUBSET Nat, IsFiniteSet(nodes), NEW deps, Acyclic(deps, nodes),
           NEW f, IsKahn(deps, nodes, f, Cardinality(nodes))
    PROVE  \A k \in 0..Cardinality(nodes) : InOrder(deps, nodes, f[k]) /\ Len(f[k]) = k
<1> DEFINE N == Cardinality(nodes)
           wrong == {k \in 0..N : ~(InOrder(deps, nodes, f[k]) /\ Len(f[k]) = k)}
<1> SUFFICES ASSUME wrong # {} PROVE FALSE
  OBVIOUS
<1>0. N \in Nat
  BY FS_CardinalityType
<1>1. PICK m \in wrong : \A k \in wrong : m <= k
  <2>1. wrong \subseteq Nat
    BY <1>0
  <2> HIDE DEF wrong
  <2> QED
    BY <2>1, LeastNumber
<1>2. CASE m = 0
  <2>1. f[0] = <<>>
    BY <1>0 DEF IsKahn
  <2>2. InOrder(deps, nodes, <<>>) /\ Len(<<>>) = 0
    BY DEF InOrder
  <2> QED
    BY <1>1, <1>2, <2>1, <2>2
<1>3. CASE m # 0
  <2>1. m \in 0..N /\ m - 1 \in 0..N /\ m - 1 \notin wrong /\ m - 1 < N
    BY <1>0, <1>1, <1>3
  <2>2. InOrder(deps, nodes, f[m - 1]) /\ Len(f[m - 1]) = m - 1
    BY <2>1
  <2>3. f[m] = Emit(deps, nodes, f[m - 1])
    BY <1>3, <2>1 DEF IsKahn
  <2>4. InOrder(deps, nodes, f[m]) /\ Len(f[m]) = (m - 1) + 1
    BY <2>1, <2>2, <2>3, EmitOrders
  <2> QED
    BY <1>1, <2>1, <2>4
<1> QED
  BY <1>2, <1>3

LEMMA NoneByKey == Cardinality({}) = 0 => ByKey({}) = <<>>
<1> SUFFICES ASSUME Cardinality({}) = 0 PROVE ByKey({}) = <<>>
  OBVIOUS
<1>1. DOMAIN ByKey({}) = {}
  BY DEF ByKey
<1>2. ByKey({}) \in [1..0 -> {}]
  BY DEF ByKey
<1>3. ByKey({}) \in Seq({}) /\ Len(ByKey({})) = 0
  BY <1>2
<1> QED
  BY <1>3, EmptySeq

\* Without cycles, every node is put in the order once, after its dependencies.
LEMMA TopoOrderIsInOrder ==
    ASSUME NEW nodes \in SUBSET Nat, IsFiniteSet(nodes), NEW deps, Acyclic(deps, nodes)
    PROVE  /\ InOrder(deps, nodes, TopoOrder(deps, nodes))
           /\ ToSet(TopoOrder(deps, nodes)) = nodes
<1> DEFINE N == Cardinality(nodes)
           kahn[k \in 0..N] == IF k = 0 THEN <<>> ELSE Emit(deps, nodes, kahn[k - 1])
           ordered == kahn[N]
<1>1. N \in Nat
  BY FS_CardinalityType
<1>2. IsKahn(deps, nodes, kahn, N)
  <2> HIDE DEF N
  <2>1. PICK f : IsKahn(deps, nodes, f, N)
    BY <1>1, KahnExists
  <2>2. f = [k \in 0..N |-> IF k = 0 THEN <<>> ELSE Emit(deps, nodes, f[k - 1])]
    BY <2>1 DEF IsKahn
  <2> QED
    BY <2>2 DEF IsKahn
<1>3. TopoOrder(deps, nodes) = ordered \o ByKey(nodes \ ToSet(ordered))
  BY DEF TopoOrder
<1> HIDE DEF kahn
<1>4. InOrder(deps, nodes, ordered) /\ Len(ordered) = N
  BY <1>1, <1>2, KahnOrders
<1>5. ToSet(ordered) = nodes
  BY <1>4, AllAreOrdered
<1> HIDE DEF ordered
<1>6. ByKey(nodes \ ToSet(ordered)) = <<>>
  <2>1. nodes \ ToSet(ordered) = {} /\ Cardinality({}) = 0
    BY <1>5, FS_EmptySet
  <2> QED
    BY <2>1, NoneByKey
<1>7. ordered \o <<>> = ordered
  BY <1>4 DEF InOrder
<1> QED
  BY <1>3, <1>4, <1>5, <1>6, <1>7

-----------------------------------------------------------------------------
(* What is judged, and how                                                 *)

\* The types of what verdicts depend on.
JudgeType ==
    /\ now \in 0..MaxTime /\ started \in [Run -> 0..MaxTime]
    /\ order \in [Run -> Seq(project.nodes)]
    /\ status \in [Run -> [project.nodes -> Verdict]]
    /\ {stubless, lost} \subseteq [Run -> SUBSET project.nodes]
    /\ stub \subseteq Run \X project.nodes
    /\ \A r \in Run, n \in project.nodes :
          <<r, n>> \in stub => <<r, project.schema[n]>> \in shadow

\* What is still to be judged is in order: once each, and after what it reads.
Lined(r) ==
    /\ pc[r] \in {"idle", "list", "sweep", "schemas"} =>
        \A n \in project.nodes : status[r][n] = "none"
    /\ pc[r] \in {"schemas", "node", "stub", "ops"} =>
        /\ \A i, j \in 1..Len(order[r]) : order[r][i] = order[r][j] => i = j
        /\ \A n \in project.nodes :
              status[r][n] = "none" <=> \E i \in 1..Len(order[r]) : order[r][i] = n
        /\ \A i \in 1..Len(order[r]) : \A d \in project.deps[order[r][i]] \cap project.nodes :
              status[r][d] # "none" \/ \E j \in 1..(i - 1) : order[r][j] = d
    /\ pc[r] \in {"teardown", "done"} => \A n \in project.nodes : status[r][n] # "none"

\* The node that gets a stub, or whose operations are tried, has passed so far.
AtHand(r) ==
    pc[r] \in {"stub", "ops"} =>
        /\ order[r] # <<>>
        /\ Node(r) \notin project.broken /\ project.kind[Node(r)] = "table"
        /\ \A d \in project.deps[Node(r)] \cap project.nodes : status[r][d] = "PASS"
        /\ ~Unmade(r, Node(r))
        /\ pc[r] = "ops" => project.ddl

\* A verdict on a node agrees with those before it.
Fits(r, n, verdict) ==
    LET selected == project.deps[n] \cap project.nodes
    IN  /\ verdict = "PASS" =>
            /\ n \notin project.broken /\ project.kind[n] \notin {"operation", "import"}
            /\ \A d \in selected : status[r][d] = "PASS"
            /\ ~Unmade(r, n)
        /\ verdict = "BLOCKED" => \E d \in selected : status[r][d] \in {"FAILURE", "BLOCKED", "SKIPPED"}
        /\ verdict = "FAILURE" /\ Undisturbed(r) =>
            \/ n \in project.broken
            \/ project.ddl /\ n \in project.badOps
            \/ n \in lost[r]
            \/ Unmade(r, n)

\* As long as nobody takes its shadows, a process has the stubs it has made.
Stubbed(r) ==
    pc[r] \in {"node", "stub", "ops"} /\ Undisturbed(r) =>
        /\ \A n \in project.nodes :
              status[r][n] = "PASS" /\ project.kind[n] = "table" =>
                  <<r, n>> \in stub \/ n \in stubless[r]
        /\ pc[r] = "ops" => <<r, Node(r)>> \in stub

\* A node has its stub made, or not made, as it is judged.
Made(r) ==
    \A n \in project.nodes :
        /\ n \in stubless[r] => status[r][n] # "none" /\ <<r, n>> \notin stub
        /\ <<r, n>> \in stub =>
            \/ status[r][n] # "none"
            \/ pc[r] = "ops" /\ n = Node(r)
            \/ pc[r] \in {"exited", "killed"}

Judgement(r) ==
    Lined(r) /\ AtHand(r) /\ Stubbed(r) /\ \A n \in project.nodes : Fits(r, n, status[r][n])

JInv == VInv /\ JudgeType /\ \A r \in Run : Judgement(r) /\ Made(r)

LEMMA OurProject ==
    ASSUME ShadowType
    PROVE  /\ Project(project)
           /\ project.nodes \in SUBSET Nat /\ IsFiniteSet(project.nodes)
           /\ Acyclic(project.deps, project.nodes)
           /\ project.nodes \subseteq project.actions
<1>1. Project(project)
  BY ValidateAssumption DEF ShadowType
<1>2. /\ project.nodes \subseteq project.actions /\ project.actions \subseteq Nat
      /\ IsFiniteSet(project.actions)
      /\ \A S \in SUBSET project.actions : S # {} => \E n \in S : project.deps[n] \cap S = {}
  BY <1>1 DEF Project
<1>3. IsFiniteSet(project.nodes)
  BY <1>2, FS_Subset
<1> QED
  BY <1>1, <1>2, <1>3 DEF Acyclic

\* The node at hand.
LEMMA HeadOfOrder ==
    ASSUME JudgeType, NEW r \in Run, order[r] # <<>>
    PROVE  /\ Node(r) \in project.nodes /\ Node(r) = order[r][1]
           /\ Len(order[r]) \in Nat \ {0}
           /\ Tail(order[r]) \in Seq(project.nodes)
           /\ Len(Tail(order[r])) = Len(order[r]) - 1
           /\ \A i \in 1..Len(Tail(order[r])) : Tail(order[r])[i] = order[r][i + 1]
<1>1. order[r] \in Seq(project.nodes)
  BY DEF JudgeType
<1>2. /\ Len(order[r]) \in Nat \ {0} /\ Head(order[r]) = order[r][1]
      /\ Tail(order[r]) \in Seq(project.nodes)
      /\ Len(Tail(order[r])) = Len(order[r]) - 1
      /\ \A i \in 1..Len(Tail(order[r])) : Tail(order[r])[i] = order[r][i + 1]
  <2> DEFINE s == order[r]
             S == project.nodes
  <2>1. s \in Seq(S) /\ s # <<>>
    BY <1>1
  <2> HIDE DEF s, S
  <2>2. Len(s) \in Nat \ {0}
    BY <2>1, EmptySeq
  <2>3. /\ Head(s) = s[1] /\ Tail(s) \in Seq(S) /\ Len(Tail(s)) = Len(s) - 1
        /\ \A i \in 1..Len(Tail(s)) : Tail(s)[i] = s[i + 1]
    BY <2>1, HeadTailProperties
  <2> QED
    BY <2>2, <2>3 DEF s, S
<1>3. order[r][1] \in project.nodes
  BY <1>1, <1>2, LenProperties
<1> QED
  BY <1>2, <1>3 DEF Node

-----------------------------------------------------------------------------
(* A step of one process, seen by its verdicts                             *)

\* The verdicts of others stay as they are, and so do the stubs of whoever is
\* undisturbed and has not got to the end.
JudgeFrame(r) ==
    /\ \A q \in Run \ {r} :
        /\ order'[q] = order[q] /\ status'[q] = status[q]
        /\ stubless'[q] = stubless[q] /\ lost'[q] = lost[q]
    /\ stubless[r] \subseteq stubless'[r] /\ lost[r] \subseteq lost'[r]
    /\ \A q \in Run, n \in project.nodes :
        <<q, n>> \in stub /\ Undisturbed(q) /\ pc[q] \notin {"teardown", "unwind"} =>
            <<q, n>> \in stub'

LEMMA DroppedStubs ==
    ASSUME JInv, NEW schemas, Dropped(schemas)
    PROVE  /\ stub' \subseteq stub
           /\ \A q \in Run, n \in project.nodes :
                 <<q, n>> \in stub /\ <<q, project.schema[n]>> \notin schemas => <<q, n>> \in stub'
           /\ \A q \in Run, n \in project.nodes :
                 <<q, n>> \in stub' => <<q, project.schema[n]>> \in shadow'
<1>1. /\ stub \subseteq Run \X project.nodes
      /\ \A q \in Run, n \in project.nodes :
            <<q, n>> \in stub => <<q, project.schema[n]>> \in shadow
  BY DEF JInv, JudgeType
<1>2. /\ shadow' = shadow \ schemas
      /\ stub' = {s \in stub : <<s[1], project.schema[s[2]]>> \notin schemas}
  BY DEF Dropped
<1> QED
  BY <1>1, <1>2

LEMMA StepJudgeFrame ==
    ASSUME JInv, NEW r \in Run, ProcessStep(r)
    PROVE  JudgeFrame(r)
<1>0. /\ order \in [Run -> Seq(project.nodes)] /\ status \in [Run -> [project.nodes -> Verdict]]
      /\ {stubless, lost} \subseteq [Run -> SUBSET project.nodes] /\ ShadowType /\ VInv
  BY DEF JInv, JudgeType, VInv
<1> DEFINE Others == \A q \in Run \ {r} :
                        /\ order'[q] = order[q] /\ status'[q] = status[q]
                        /\ stubless'[q] = stubless[q] /\ lost'[q] = lost[q]
           Grown == stubless[r] \subseteq stubless'[r] /\ lost[r] \subseteq lost'[r]
           Stubs == \A q \in Run, n \in project.nodes :
                        <<q, n>> \in stub /\ Undisturbed(q) /\ pc[q] \notin {"teardown", "unwind"} =>
                            <<q, n>> \in stub'
<1> SUFFICES Others /\ Grown /\ Stubs
  BY DEF JudgeFrame
<1>1. CASE Judge(r) \/ Evaluate(r) \/ EvaluateOps(r)
  <2>1. Others /\ Grown
    BY <1>0, <1>1 DEF Judge, Evaluate, EvaluateOps, Lost, Judged
  <2>2. stub' = stub
    BY <1>1 DEF Judge, Evaluate, EvaluateOps, warehouse
  <2> QED
    BY <2>1, <2>2
<1>2. CASE CreateStub(r)
  <2>1. Others /\ Grown
    BY <1>0, <1>2 DEF CreateStub, Judged
  <2>2. stub \subseteq stub'
    BY <1>2 DEF CreateStub
  <2> QED
    BY <2>1, <2>2
<1>3. CASE \/ Start(r) \/ List(r) \/ SchemasCreated(r) \/ AllJudged(r) \/ End(r)
           \/ Interrupt(r) \/ Exit(r) \/ Kill(r)
  BY <1>0, <1>3
  DEF Start, List, SchemasCreated, AllJudged, End, Interrupt, Exit, Kill, loop, warehouse
<1>4. CASE Enter(r)
  BY <1>0, <1>4 DEF Enter, warehouse
<1>5. CASE CreateSchema(r)
  BY <1>0, <1>5 DEF CreateSchema, warehouse
<1>6. CASE Sweep(r)
  <2>1. UNCHANGED <<order, status, stubless, lost>>
    BY <1>6 DEF Sweep
  <2>2. PICK s \in left[r] : Dropped({s}) \/ UNCHANGED warehouse
    BY <1>6 DEF Sweep
  <2>3. Old(s)
    BY <1>0, <1>6 DEF Sweep, VInv, Knows
  <2>4. ASSUME NEW q \in Run, NEW n \in project.nodes, <<q, n>> \in stub, Undisturbed(q)
        PROVE  <<q, n>> \in stub'
    <3>1. s # <<q, project.schema[n]>>
      BY <1>0, <2>3, <2>4, OldIsDisturbed
    <3>2. CASE Dropped({s})
      BY <2>4, <3>1, <3>2 DEF Dropped
    <3>3. CASE UNCHANGED warehouse
      BY <2>4, <3>3 DEF warehouse
    <3> QED
      BY <2>2, <3>2, <3>3
  <2> QED
    BY <2>1, <2>4
<1>7. CASE Teardown(r)
  <2>1. UNCHANGED <<order, status, stubless, lost>> /\ pc[r] \in {"teardown", "unwind"}
    BY <1>7 DEF Teardown
  <2>2. PICK s \in left[r] : Dropped({<<r, s>>}) \/ UNCHANGED warehouse
    BY <1>7 DEF Teardown
  <2>3. ASSUME NEW q \in Run, NEW n \in project.nodes, <<q, n>> \in stub,
               pc[q] \notin {"teardown", "unwind"}
        PROVE  <<q, n>> \in stub'
    <3>1. <<q, project.schema[n]>> # <<r, s>>
      BY <2>1, <2>3
    <3>2. CASE Dropped({<<r, s>>})
      BY <2>3, <3>1, <3>2 DEF Dropped
    <3>3. CASE UNCHANGED warehouse
      BY <2>3, <3>3 DEF warehouse
    <3> QED
      BY <2>2, <3>2, <3>3
  <2> QED
    BY <2>1, <2>3
<1>8. CASE HandlerDrop(r)
  <2>1. UNCHANGED <<order, status, stubless, lost>> /\ signalled[r]
    BY <1>0, <1>8 DEF HandlerDrop, loop, ShadowType
  <2>2. PICK s \in handling[r] : Dropped({<<r, s>>}) \/ UNCHANGED warehouse
    BY <1>8 DEF HandlerDrop
  <2>3. ASSUME NEW q \in Run, NEW n \in project.nodes, <<q, n>> \in stub, Undisturbed(q)
        PROVE  <<q, n>> \in stub'
    <3>1. <<q, project.schema[n]>> # <<r, s>>
      BY <2>1, <2>3 DEF Undisturbed
    <3>2. CASE Dropped({<<r, s>>})
      BY <2>3, <3>1, <3>2 DEF Dropped
    <3>3. CASE UNCHANGED warehouse
      BY <2>3, <3>3 DEF warehouse
    <3> QED
      BY <2>2, <3>2, <3>3
  <2> QED
    BY <2>1, <2>3
<1> QED
  BY <1>1, <1>2, <1>3, <1>4, <1>5, <1>6, <1>7, <1>8 DEF ProcessStep

LEMMA StepJudgeType ==
    ASSUME JInv, NEW r \in Run, ProcessStep(r)
    PROVE  JudgeType'
<1>0. /\ ShadowType /\ JudgeType /\ Frame(r)
  BY StepFrame DEF JInv, VInv
<1>a. /\ now \in 0..MaxTime /\ started \in [Run -> 0..MaxTime]
      /\ order \in [Run -> Seq(project.nodes)] /\ status \in [Run -> [project.nodes -> Verdict]]
      /\ {stubless, lost} \subseteq [Run -> SUBSET project.nodes] /\ stub \subseteq Run \X project.nodes
      /\ \A q \in Run, n \in project.nodes :
            <<q, n>> \in stub => <<q, project.schema[n]>> \in shadow
  BY <1>0 DEF JudgeType
<1>b. project' = project /\ now' = now
  BY <1>0 DEF Frame
<1>c. started' \in [Run -> 0..MaxTime]
  <2>1. CASE Start(r)
    BY <1>a, <2>1 DEF Start
  <2>2. CASE ~Start(r)
    <3>1. started' = started
      <4>1. CASE Judge(r) \/ Evaluate(r) \/ CreateStub(r) \/ EvaluateOps(r)
        BY <4>1, JudgingSteps DEF Judging, Steady
      <4>2. CASE ~(Judge(r) \/ Evaluate(r) \/ CreateStub(r) \/ EvaluateOps(r))
        BY <2>2, <4>2
        DEF ProcessStep, List, Sweep, Enter, CreateSchema, SchemasCreated, AllJudged,
            Teardown, End, Interrupt, HandlerDrop, Exit, Kill, Steady
      <4> QED
        BY <4>1, <4>2
    <3> QED
      BY <1>a, <3>1
  <2> QED
    BY <2>1, <2>2
<1>d. ASSUME NEW v \in Verdict, Judged(r, v), order[r] # <<>>
      PROVE  order' \in [Run -> Seq(project.nodes)] /\ status' \in [Run -> [project.nodes -> Verdict]]
  <2>1. Node(r) \in project.nodes /\ Tail(order[r]) \in Seq(project.nodes)
    BY <1>0, <1>d, HeadOfOrder
  <2> QED
    BY <1>a, <1>d, <2>1 DEF Judged
<1>e. ASSUME UNCHANGED <<order, status>>
      PROVE  order' \in [Run -> Seq(project.nodes)] /\ status' \in [Run -> [project.nodes -> Verdict]]
  BY <1>a, <1>e
<1>1. order' \in [Run -> Seq(project.nodes)] /\ status' \in [Run -> [project.nodes -> Verdict]]
  <2> USE DEF Verdict
  <2>1. CASE Judge(r)
    BY <1>d, <2>1 DEF Judge, Unevaluated
  <2>2. CASE Evaluate(r)
    BY <1>d, <1>e, <2>2 DEF Evaluate, Lost
  <2>3. CASE CreateStub(r)
    <3>1. order[r] # <<>>
      BY <2>3 DEF CreateStub, JInv, Judgement, AtHand
    <3> QED
      BY <1>d, <1>e, <2>3, <3>1 DEF CreateStub
  <2>4. CASE EvaluateOps(r)
    <3>1. order[r] # <<>>
      BY <2>4 DEF EvaluateOps, JInv, Judgement, AtHand
    <3>2. UNCHANGED <<order, status>> \/ \E v \in Verdict : Judged(r, v)
      BY <2>4 DEF EvaluateOps, Lost
    <3> QED
      BY <1>d, <1>e, <3>1, <3>2
  <2>5. CASE Enter(r)
    <3>1. TopoOrder(project.deps, project.nodes) \in Seq(project.nodes)
      BY <1>0, OurProject, TopoOrderIsInOrder DEF InOrder
    <3> QED
      BY <1>a, <2>5, <3>1 DEF Enter
  <2>6. CASE \/ Start(r) \/ List(r) \/ Sweep(r) \/ CreateSchema(r) \/ SchemasCreated(r)
             \/ AllJudged(r) \/ Teardown(r) \/ End(r)
             \/ Interrupt(r) \/ HandlerDrop(r) \/ Exit(r) \/ Kill(r)
    <3>1. UNCHANGED <<order, status>>
      BY <2>6
      DEF Start, List, Sweep, CreateSchema, SchemasCreated, AllJudged, Teardown, End,
          Interrupt, HandlerDrop, Exit, Kill, loop
    <3> QED
      BY <1>e, <3>1
  <2> QED
    BY <2>1, <2>2, <2>3, <2>4, <2>5, <2>6 DEF ProcessStep
<1> DEFINE Stubs == /\ stub' \subseteq Run \X project.nodes
                    /\ \A q \in Run, n \in project.nodes :
                          <<q, n>> \in stub' => <<q, project.schema[n]>> \in shadow'
<1>f. ASSUME NEW schemas, Dropped(schemas) \/ UNCHANGED warehouse PROVE Stubs
  BY <1>a, <1>f, DroppedStubs DEF warehouse
<1>g. lost' \in [Run -> SUBSET project.nodes]
  <2>1. CASE Lost(r) /\ order[r] # <<>>
    BY <1>0, <1>a, <2>1, HeadOfOrder DEF Lost
  <2>2. lost' = lost \/ (Lost(r) /\ order[r] # <<>>)
    <3>1. pc[r] = "ops" => order[r] # <<>>
      BY DEF JInv, Judgement, AtHand
    <3> QED
      BY <3>1
      DEF ProcessStep, Judge, Evaluate, CreateStub, EvaluateOps, Start, List, Sweep, Enter,
          CreateSchema, SchemasCreated, AllJudged, Teardown, End, Interrupt, HandlerDrop,
          Exit, Kill, loop
  <2> QED
    BY <1>a, <2>1, <2>2
<1>2. stubless' \in [Run -> SUBSET project.nodes] /\ Stubs
  <2>1. CASE CreateStub(r)
    <3>1. Node(r) \in project.nodes
      BY <1>0, <2>1, HeadOfOrder DEF CreateStub, JInv, Judgement, AtHand
    <3>2. shadow' = shadow /\ stubless' \in [Run -> SUBSET project.nodes]
      BY <1>a, <2>1, <3>1 DEF CreateStub
    <3>3. CASE stub' = stub
      BY <1>a, <3>2, <3>3
    <3>4. CASE /\ stub' = stub \cup {<<r, Node(r)>>}
               /\ <<r, project.schema[Node(r)]>> \in shadow
      <4> DEFINE n == Node(r)
      <4>1. n \in project.nodes /\ stub' = stub \cup {<<r, n>>} /\ <<r, project.schema[n]>> \in shadow
        BY <3>1, <3>4
      <4> HIDE DEF n
      <4>2. stub' \subseteq Run \X project.nodes
        BY <1>a, <4>1
      <4>3. ASSUME NEW q \in Run, NEW m \in project.nodes, <<q, m>> \in stub'
            PROVE  <<q, project.schema[m]>> \in shadow'
        <5>1. CASE <<q, m>> \in stub
          BY <1>a, <3>2, <5>1
        <5>2. CASE q = r /\ m = n
          BY <3>2, <4>1, <5>2
        <5> QED
          BY <4>1, <4>3, <5>1, <5>2
      <4> QED
        BY <3>2, <4>2, <4>3
    <3> QED
      BY <2>1, <3>2, <3>3, <3>4 DEF CreateStub
  <2>2. CASE Judge(r) \/ Evaluate(r) \/ EvaluateOps(r)
    BY <1>a, <2>2 DEF Judge, Evaluate, EvaluateOps, warehouse
  <2>3. CASE CreateSchema(r)
    BY <1>a, <2>3 DEF CreateSchema, warehouse
  <2>4. CASE Sweep(r) \/ Teardown(r) \/ HandlerDrop(r)
    <3>1. stubless' = stubless /\ \E schemas : Dropped(schemas) \/ UNCHANGED warehouse
      BY <2>4 DEF Sweep, Teardown, HandlerDrop, loop
    <3> QED
      BY <1>a, <1>f, <3>1
  <2>5. CASE \/ Start(r) \/ List(r) \/ Enter(r) \/ SchemasCreated(r) \/ AllJudged(r) \/ End(r)
             \/ Interrupt(r) \/ Exit(r) \/ Kill(r)
    BY <1>a, <2>5
    DEF Start, List, Enter, SchemasCreated, AllJudged, End, Interrupt, Exit, Kill, loop, warehouse
  <2> QED
    BY <2>1, <2>2, <2>3, <2>4, <2>5 DEF ProcessStep
<1> QED
  BY <1>a, <1>b, <1>c, <1>1, <1>2, <1>g DEF JudgeType

-----------------------------------------------------------------------------
(* A step of one process keeps what is known of verdicts                   *)

\* What is not made when it is judged is not made later, and the other way round.
LEMMA UnmadeStays ==
    ASSUME NEW q \in Run, NEW n \in project.nodes, project' = project
    PROVE  /\ stubless[q] \subseteq stubless'[q] /\ Unmade(q, n) => Unmade(q, n)'
           /\ (\A d \in project.deps[n] \cap project.nodes : d \in stubless'[q] => d \in stubless[q])
                /\ ~Unmade(q, n) => ~Unmade(q, n)'
<1>1. Named(n)' = Named(n) /\ Named(n) \subseteq project.deps[n]
  BY DEF Named
<1> HIDE DEF Named
<1> QED
  BY <1>1 DEF Unmade

LEMMA FitsStay ==
    ASSUME NEW q \in Run, NEW n \in project.nodes, NEW v, Fits(q, n, v),
           project' = project, stubless[q] \subseteq stubless'[q], lost[q] \subseteq lost'[q],
           \A d \in project.nodes : status[q][d] # "none" /\ d \in stubless'[q] => d \in stubless[q],
           v = "FAILURE" /\ Undisturbed(q)' => Undisturbed(q),
           \A d \in project.nodes : status[q][d] # "none" => status'[q][d] = status[q][d]
    PROVE  Fits(q, n, v)'
<1>1. CASE v = "PASS"
  <2>1. /\ \A d \in project.deps[n] \cap project.nodes : status[q][d] = "PASS"
        /\ ~Unmade(q, n)
    BY <1>1 DEF Fits
  <2>2. ~Unmade(q, n)'
    BY <2>1, UnmadeStays
  <2> QED
    BY <1>1, <2>2 DEF Fits
<1>2. CASE v = "BLOCKED"
  BY <1>2 DEF Fits
<1>3. CASE v = "FAILURE"
  BY <1>3, UnmadeStays DEF Fits
<1>4. CASE v \notin {"PASS", "BLOCKED", "FAILURE"}
  BY <1>4 DEF Fits
<1> QED
  BY <1>1, <1>2, <1>3, <1>4

\* Who adds a stub, or does without: the node at hand, which is yet to be judged.
Adds(r) ==
    \A q \in Run, n \in project.nodes :
        (n \in stubless'[q] /\ n \notin stubless[q]) \/ (<<q, n>> \in stub' /\ <<q, n>> \notin stub) =>
            CreateStub(r) /\ q = r /\ n = Node(r) /\ status[r][n] = "none"

LEMMA StepAdds ==
    ASSUME JInv, NEW r \in Run, ProcessStep(r)
    PROVE  Adds(r)
<1>0. /\ {stubless, lost} \subseteq [Run -> SUBSET project.nodes]
      /\ JudgeType /\ Judgement(r)
  BY DEF JInv, JudgeType
<1>1. CASE CreateStub(r)
  <2>1. pc[r] = "stub" /\ order[r] # <<>>
    BY <1>0, <1>1 DEF CreateStub, Judgement, AtHand
  <2>2. Node(r) \in project.nodes /\ status[r][Node(r)] = "none"
    <3>1. Node(r) = order[r][1] /\ Len(order[r]) \in Nat \ {0} /\ Node(r) \in project.nodes
      BY <1>0, <2>1, HeadOfOrder
    <3> QED
      BY <1>0, <2>1, <3>1 DEF Judgement, Lined
  <2>3. /\ stub' = stub \cup {<<r, Node(r)>>} \/ stub' = stub
        /\ stubless' = [stubless EXCEPT ![r] = @ \cup {Node(r)}] \/ stubless' = stubless
    BY <1>1 DEF CreateStub
  <2> QED
    BY <1>0, <1>1, <2>2, <2>3 DEF Adds
<1>2. CASE ~CreateStub(r)
  <2>1. stubless' = stubless
    BY <1>2
    DEF ProcessStep, Judge, Evaluate, EvaluateOps, Start, List, Sweep, Enter, CreateSchema,
        SchemasCreated, AllJudged, Teardown, End, Interrupt, HandlerDrop, Exit, Kill, loop
  <2>2. stub' \subseteq stub
    BY <1>2
    DEF ProcessStep, Judge, Evaluate, EvaluateOps, Start, List, Sweep, Enter, CreateSchema,
        SchemasCreated, AllJudged, Teardown, End, Interrupt, HandlerDrop, Exit, Kill,
        Dropped, warehouse
  <2> QED
    BY <2>1, <2>2 DEF Adds
<1> QED
  BY <1>1, <1>2

\* What passed with its stub made is not found without it later.
LEMMA StublessStay ==
    ASSUME JInv, NEW r \in Run, ProcessStep(r), NEW q \in Run
    PROVE  \A d \in project.nodes : status[q][d] # "none" /\ d \in stubless'[q] => d \in stubless[q]
  BY StepAdds DEF Adds

LEMMA OthersJudge ==
    ASSUME JInv, NEW r \in Run, ProcessStep(r), NEW q \in Run \ {r}
    PROVE  Judgement(q)'
<1>0. Frame(r) /\ JudgeFrame(r) /\ Judgement(q)
  BY StepFrame, StepJudgeFrame DEF JInv, VInv
<1>1. /\ project' = project /\ pc'[q] = pc[q] /\ order'[q] = order[q]
      /\ status'[q] = status[q] /\ stubless'[q] = stubless[q] /\ lost'[q] = lost[q]
      /\ Node(q)' = Node(q)
  BY <1>0 DEF Frame, JudgeFrame, Node
<1>2. Undisturbed(q)' = Undisturbed(q)
  BY <1>0 DEF Undisturbed, Frame
<1>3. Lined(q)'
  BY <1>0, <1>1 DEF Judgement, Lined
<1>4. AtHand(q)'
  BY <1>0, <1>1 DEF Judgement, AtHand, Unmade, Named
<1>5. Stubbed(q)'
  <2>1. \A n \in project.nodes : Undisturbed(q) /\ pc[q] \in {"node", "stub", "ops"} /\ <<q, n>> \in stub
                                   => <<q, n>> \in stub'
    BY <1>0 DEF JudgeFrame
  <2>2. pc[q] = "ops" => Node(q) \in project.nodes
    BY <1>0, HeadOfOrder DEF JInv, Judgement, AtHand
  <2> QED
    BY <1>0, <1>1, <1>2, <2>1, <2>2 DEF Judgement, Stubbed
<1>6. \A n \in project.nodes : Fits(q, n, status[q][n])'
  BY <1>0, <1>1, <1>2, FitsStay DEF Judgement, Fits
<1> QED
  BY <1>1, <1>3, <1>4, <1>5, <1>6 DEF Judgement

\* A step that judges nothing and changes nothing of what is to be judged.
LEMMA QuietStep ==
    ASSUME JInv, NEW r \in Run, ProcessStep(r),
           order'[r] = order[r], status'[r] = status[r],
           Undisturbed(r)' => Undisturbed(r),
           pc'[r] = pc[r] \/ pc'[r] \in {"unwind", "failed", "exited", "killed"}
    PROVE  Judgement(r)'
<1>0. Frame(r) /\ JudgeFrame(r) /\ Judgement(r)
  BY StepFrame, StepJudgeFrame DEF JInv, VInv
<1>1. /\ project' = project /\ stubless[r] \subseteq stubless'[r] /\ Node(r)' = Node(r)
      /\ lost[r] \subseteq lost'[r]
      /\ \A d \in project.nodes : status[r][d] # "none" /\ d \in stubless'[r] => d \in stubless[r]
  BY <1>0, StublessStay DEF Frame, JudgeFrame, Node
<1>2. \A n \in project.nodes : Fits(r, n, status[r][n])'
  BY <1>0, <1>1, FitsStay DEF Judgement
<1>3. CASE pc'[r] \in {"unwind", "failed", "exited", "killed"}
  <2>1. Lined(r)' /\ AtHand(r)' /\ Stubbed(r)'
    BY <1>3 DEF Lined, AtHand, Stubbed
  <2> QED
    BY <1>1, <1>2, <2>1 DEF Judgement, Fits
<1>4. CASE pc'[r] = pc[r]
  <2>1. Lined(r)'
    BY <1>0, <1>1, <1>4 DEF Judgement, Lined
  <2>2. AtHand(r)'
    <3>1. ASSUME pc[r] \in {"stub", "ops"} PROVE ~Unmade(r, Node(r))'
      <4>1. /\ ~Unmade(r, Node(r)) /\ order[r] # <<>>
            /\ \A d \in project.deps[Node(r)] \cap project.nodes : status[r][d] = "PASS"
        BY <1>0, <3>1 DEF Judgement, AtHand
      <4>2. Node(r) \in project.nodes
        BY <4>1, HeadOfOrder DEF JInv
      <4>3. \A n \in project.nodes : n = Node(r) => ~Unmade(r, n)'
        BY <1>1, <4>1, UnmadeStays
      <4> QED
        BY <1>1, <4>2, <4>3
    <3> QED
      BY <1>0, <1>1, <1>4, <3>1 DEF Judgement, AtHand
  <2>3. Stubbed(r)'
    <3>1. \A n \in project.nodes : Undisturbed(r) /\ pc[r] \in {"node", "stub", "ops"} /\ <<r, n>> \in stub
                                     => <<r, n>> \in stub'
      BY <1>0 DEF JudgeFrame
    <3>2. pc[r] = "ops" => Node(r) \in project.nodes
      BY <1>0, HeadOfOrder DEF JInv, Judgement, AtHand
    <3> QED
      BY <1>0, <1>1, <1>4, <3>1, <3>2 DEF Judgement, Stubbed
  <2> QED
    BY <1>1, <1>2, <2>1, <2>2, <2>3 DEF Judgement, Fits
<1> QED
  BY <1>3, <1>4

\* The node at hand gets a verdict that fits, or has lost a call.
LEMMA Conclude ==
    ASSUME JInv, NEW r \in Run, ProcessStep(r), NEW v \in Verdict \ {"none"}, Judged(r, v),
           pc[r] \in {"node", "stub", "ops"}, order[r] # <<>>,
           Fits(r, Node(r), v) \/ (v = "FAILURE" /\ Node(r) \in lost'[r]),
           Undisturbed(r)' => Undisturbed(r),
           v = "PASS" /\ project.kind[Node(r)] = "table" =>
               <<r, Node(r)>> \in stub' \/ Node(r) \in stubless'[r]
    PROVE  Judgement(r)'
<1> DEFINE n == Node(r)
           s == order[r]
           t == order'[r]
<1>0. /\ Frame(r) /\ JudgeFrame(r) /\ Judgement(r) /\ JudgeType /\ ShadowType
  BY StepFrame, StepJudgeFrame DEF JInv, VInv
<1>1. /\ project' = project /\ stubless[r] \subseteq stubless'[r] /\ lost[r] \subseteq lost'[r]
      /\ \A d \in project.nodes : status[r][d] # "none" /\ d \in stubless'[r] => d \in stubless[r]
  BY <1>0, StublessStay DEF Frame, JudgeFrame
<1>2. /\ pc'[r] = "node" /\ t = Tail(s)
      /\ status'[r][n] = v /\ \A d \in project.nodes \ {n} : status'[r][d] = status[r][d]
  BY <1>0, HeadOfOrder DEF Judged, Goto, ShadowType, JudgeType
<1>3. /\ n \in project.nodes /\ n = s[1] /\ Len(s) \in Nat \ {0} /\ Len(t) = Len(s) - 1
      /\ \A i \in 1..Len(t) : t[i] = s[i + 1]
  BY <1>0, <1>2, HeadOfOrder
<1>4. /\ \A i, j \in 1..Len(s) : s[i] = s[j] => i = j
      /\ \A d \in project.nodes : status[r][d] = "none" <=> \E i \in 1..Len(s) : s[i] = d
      /\ \A i \in 1..Len(s) : \A d \in project.deps[s[i]] \cap project.nodes :
            status[r][d] # "none" \/ \E j \in 1..(i - 1) : s[j] = d
  BY <1>0 DEF Judgement, Lined
<1>v. v # "none" /\ status[r][n] = "none"
  BY <1>3, <1>4
<1> HIDE DEF n, s, t
<1>5. \A i, j \in 1..Len(t) : t[i] = t[j] => i = j
  BY <1>3, <1>4
<1>6. ASSUME NEW d \in project.nodes
      PROVE  status'[r][d] = "none" <=> \E i \in 1..Len(t) : t[i] = d
  <2>1. CASE d = n
    <3>1. \A i \in 1..Len(t) : t[i] # n
      BY <1>3, <1>4
    <3> QED
      BY <1>2, <1>v, <2>1, <3>1
  <2>2. CASE d # n
    <3>1. ASSUME NEW i \in 1..Len(s), s[i] = d PROVE \E k \in 1..Len(t) : t[k] = d
      <4>1. i - 1 \in 1..Len(t) /\ t[i - 1] = s[i]
        BY <1>3, <2>2, <3>1
      <4> QED
        BY <3>1, <4>1
    <3>2. ASSUME NEW k \in 1..Len(t), t[k] = d PROVE \E i \in 1..Len(s) : s[i] = d
      <4>1. k + 1 \in 1..Len(s) /\ s[k + 1] = t[k]
        BY <1>3
      <4> QED
        BY <3>2, <4>1
    <3> QED
      BY <1>2, <1>4, <2>2, <3>1, <3>2
  <2> QED
    BY <2>1, <2>2
<1>7. ASSUME NEW i \in 1..Len(t), NEW d \in project.deps[t[i]] \cap project.nodes
      PROVE  status'[r][d] # "none" \/ \E j \in 1..(i - 1) : t[j] = d
  <2>1. i + 1 \in 1..Len(s) /\ t[i] = s[i + 1] /\ d \in project.deps[s[i + 1]] \cap project.nodes
    BY <1>3, <1>7
  <2>2. CASE status[r][d] # "none"
    BY <1>2, <1>v, <2>2
  <2>3. CASE \E j \in 1..((i + 1) - 1) : s[j] = d
    <3>1. PICK j \in 1..((i + 1) - 1) : s[j] = d
      BY <2>3
    <3>2. CASE j = 1
      BY <1>2, <1>3, <1>v, <3>1, <3>2
    <3>3. CASE j # 1
      <4>1. j - 1 \in 1..(i - 1) /\ j - 1 \in 1..Len(t) /\ t[j - 1] = s[j]
        BY <1>3, <3>1, <3>3
      <4> QED
        BY <3>1, <4>1
    <3> QED
      BY <3>2, <3>3
  <2> QED
    BY <1>4, <2>1, <2>2, <2>3
<1>8. Lined(r)'
  BY <1>1, <1>2, <1>5, <1>6, <1>7 DEF Lined, t
<1>9. AtHand(r)'
  BY <1>2 DEF AtHand
<1>10. Stubbed(r)'
  <2> SUFFICES ASSUME Undisturbed(r)', NEW d \in project.nodes, status'[r][d] = "PASS",
                      project.kind[d] = "table"
               PROVE  <<r, d>> \in stub' \/ d \in stubless'[r]
    BY <1>1, <1>2 DEF Stubbed
  <2>1. CASE d = n
    BY <1>2, <2>1 DEF n
  <2>2. CASE d # n
    <3>1. <<r, d>> \in stub \/ d \in stubless[r]
      BY <1>0, <1>2, <2>2 DEF Judgement, Stubbed
    <3>2. <<r, d>> \in stub => <<r, d>> \in stub'
      BY <1>0 DEF JudgeFrame
    <3> QED
      BY <1>1, <3>1, <3>2
  <2> QED
    BY <2>1, <2>2
<1>11. ASSUME NEW d \in project.nodes PROVE Fits(r, d, status[r][d])'
  <2>1. \A e \in project.nodes : status[r][e] # "none" => status'[r][e] = status[r][e]
    BY <1>2, <1>v
  <2>2. PICK w : w = status'[r][d]
    OBVIOUS
  <2>3. CASE Fits(r, d, w)
    <3>1. Fits(r, d, w)'
      BY <1>1, <2>1, <2>3, FitsStay
    <3> QED
      BY <2>2, <3>1 DEF Fits
  <2>4. CASE w = "FAILURE" /\ d \in lost'[r]
    BY <2>2, <2>4 DEF Fits
  <2>5. CASE d = n
    BY <1>2, <2>2, <2>3, <2>4, <2>5 DEF n
  <2>6. CASE d # n
    <3>1. w = status[r][d]
      BY <1>2, <2>2, <2>6
    <3> QED
      BY <1>0, <2>3, <3>1 DEF Judgement
  <2> QED
    BY <2>5, <2>6
<1> QED
  BY <1>1, <1>8, <1>9, <1>10, <1>11 DEF Judgement

LEMMA SameVerdicts ==
    ASSUME JInv, NEW r \in Run, ProcessStep(r), status'[r] = status[r],
           Undisturbed(r)' => Undisturbed(r)
    PROVE  \A n \in project.nodes : Fits(r, n, status[r][n])'
<1>0. Frame(r) /\ JudgeFrame(r) /\ Judgement(r)
  BY StepFrame, StepJudgeFrame DEF JInv, VInv
<1>1. /\ project' = project /\ stubless[r] \subseteq stubless'[r] /\ lost[r] \subseteq lost'[r]
      /\ \A d \in project.nodes : status[r][d] # "none" /\ d \in stubless'[r] => d \in stubless[r]
  BY <1>0, StublessStay DEF Frame, JudgeFrame
<1> QED
  BY <1>0, <1>1, FitsStay DEF Judgement

\* A process that has started does not get younger.
LEMMA StaysDisturbed ==
    ASSUME JInv, NEW r \in Run, ProcessStep(r), pc[r] # "idle"
    PROVE  Undisturbed(r)' => Undisturbed(r)
<1>1. Frame(r)
  BY StepFrame DEF JInv, VInv
<1> QED
  BY <1>1 DEF Frame, Undisturbed

\* What the node at hand waits for has been judged.
LEMMA JudgedBefore ==
    ASSUME JInv, NEW r \in Run, pc[r] = "node", order[r] # <<>>
    PROVE  /\ Unevaluated(r, Node(r)) = "none" =>
                /\ project.kind[Node(r)] \notin {"operation", "import"}
                /\ \A d \in project.deps[Node(r)] \cap project.nodes : status[r][d] = "PASS"
           /\ Unevaluated(r, Node(r)) \in {"none", "BLOCKED", "SKIPPED"}
           /\ Unevaluated(r, Node(r)) = "BLOCKED" =>
                \E d \in project.deps[Node(r)] \cap project.nodes :
                    status[r][d] \in {"FAILURE", "BLOCKED", "SKIPPED"}
<1> DEFINE n == Node(r)
           selected == project.deps[n] \cap project.nodes
<1>1. status[r] \in [project.nodes -> Verdict]
  BY DEF JInv, JudgeType
<1>2. \A d \in selected : status[r][d] # "none"
  <2>1. n = order[r][1] /\ Len(order[r]) \in Nat \ {0}
    BY HeadOfOrder DEF JInv
  <2>2. \A i \in 1..Len(order[r]) : \A d \in project.deps[order[r][i]] \cap project.nodes :
            status[r][d] # "none" \/ \E j \in 1..(i - 1) : order[r][j] = d
    BY DEF JInv, Judgement, Lined
  <2> QED
    BY <2>1, <2>2
<1>3. DependencyBlocked(project.deps[n], status[r])
        <=> \E d \in selected : status[r][d] \notin {"none", "PASS"}
  BY <1>1 DEF DependencyBlocked
<1>4. \A d \in selected : status[r][d] \in Verdict
  BY <1>1
<1> HIDE DEF n, selected
<1>5. CASE project.kind[n] \in {"operation", "import"}
  BY <1>5 DEF Unevaluated, n
<1>6. CASE project.kind[n] \notin {"operation", "import"} /\ DependencyBlocked(project.deps[n], status[r])
  BY <1>3, <1>4, <1>6 DEF Unevaluated, Verdict, n, selected
<1>7. CASE project.kind[n] \notin {"operation", "import"} /\ ~DependencyBlocked(project.deps[n], status[r])
  BY <1>2, <1>3, <1>4, <1>7 DEF Unevaluated, Verdict, n, selected
<1> QED
  BY <1>5, <1>6, <1>7

LEMMA JudgeStep ==
    ASSUME JInv, NEW r \in Run, Judge(r)
    PROVE  Judgement(r)'
<1>1. /\ pc[r] = "node" /\ order[r] # <<>>
      /\ Unevaluated(r, Node(r)) # "none" /\ Judged(r, Unevaluated(r, Node(r)))
  BY DEF Judge
<1>2. ProcessStep(r) /\ (Undisturbed(r)' => Undisturbed(r))
  BY <1>1, StaysDisturbed DEF ProcessStep
<1>3. CASE Unevaluated(r, Node(r)) = "BLOCKED"
  <2>1. Judged(r, "BLOCKED") /\ "BLOCKED" \in Verdict \ {"none"}
    BY <1>1, <1>3 DEF Verdict
  <2>2. Fits(r, Node(r), "BLOCKED")
    BY <1>1, <1>3, JudgedBefore DEF Fits
  <2> QED
    BY <1>1, <1>2, <2>1, <2>2, Conclude
<1>4. CASE Unevaluated(r, Node(r)) = "SKIPPED"
  <2>1. Judged(r, "SKIPPED") /\ "SKIPPED" \in Verdict \ {"none"}
    BY <1>1, <1>4 DEF Verdict
  <2>2. Fits(r, Node(r), "SKIPPED")
    BY DEF Fits
  <2> QED
    BY <1>1, <1>2, <2>1, <2>2, Conclude
<1> QED
  BY <1>1, <1>3, <1>4, JudgedBefore

LEMMA EvaluateStep ==
    ASSUME JInv, NEW r \in Run, Evaluate(r)
    PROVE  Judgement(r)'
<1> DEFINE n == Node(r)
           wrong == n \in project.broken \/ MissingRef(r, n)
<1>1. /\ pc[r] = "node" /\ order[r] # <<>> /\ Unevaluated(r, n) = "none"
      /\ UNCHANGED <<stubless, warehouse>>
  BY DEF Evaluate
<1>2. ProcessStep(r) /\ (Undisturbed(r)' => Undisturbed(r))
  BY <1>1, StaysDisturbed DEF ProcessStep
<1>3. /\ n \in project.nodes /\ project.kind[n] \notin {"operation", "import"}
      /\ \A d \in project.deps[n] \cap project.nodes : status[r][d] = "PASS"
  BY <1>1, HeadOfOrder, JudgedBefore DEF JInv
<1>4. Judgement(r) /\ ShadowType /\ VInv /\ JudgeType
  BY DEF JInv, VInv
<1>5. CASE wrong /\ Judged(r, "FAILURE")
  <2>1. ASSUME MissingRef(r, n), Undisturbed(r) PROVE Unmade(r, n)
    <3>1. PICK d \in Named(n) : <<r, d>> \notin stub
      BY <2>1 DEF MissingRef
    <3>2. CASE d \notin project.nodes
      BY <3>1, <3>2 DEF Unmade
    <3>3. CASE d \in project.nodes
      <4>1. d \in project.deps[n] /\ project.kind[d] \in {"table", "operation", "import"}
        BY <3>1 DEF Named
      <4>2. status[r][d] = "PASS" /\ Fits(r, d, status[r][d])
        BY <1>3, <1>4, <3>3, <4>1 DEF Judgement
      <4>3. project.kind[d] = "table"
        BY <4>1, <4>2 DEF Fits
      <4>4. d \in stubless[r]
        BY <1>1, <1>4, <2>1, <3>1, <3>3, <4>2, <4>3 DEF Judgement, Stubbed
      <4> QED
        BY <3>1, <4>4 DEF Unmade
    <3> QED
      BY <3>2, <3>3
  <2>2. Fits(r, n, "FAILURE")
    BY <1>5, <2>1 DEF Fits
  <2>3. "FAILURE" \in Verdict \ {"none"}
    BY DEF Verdict
  <2> QED
    BY <1>1, <1>2, <1>5, <2>2, <2>3, Conclude
<1>m. ASSUME ~wrong PROVE ~Unmade(r, n)
  <2>1. ASSUME NEW d \in Named(n) PROVE d \in project.nodes \ stubless[r]
    <3>1. <<r, d>> \in stub
      BY <1>m DEF MissingRef
    <3>2. d \in project.nodes
      BY <1>4, <3>1 DEF JudgeType
    <3> QED
      BY <3>1, <3>2 DEF JInv, Made
  <2> QED
    BY <2>1 DEF Unmade
<1>6. CASE ~wrong /\ project.kind[n] # "table" /\ Judged(r, "PASS")
  <2>1. Fits(r, n, "PASS") /\ "PASS" \in Verdict \ {"none"}
    BY <1>3, <1>6, <1>m DEF Fits, Verdict
  <2> QED
    BY <1>1, <1>2, <1>6, <2>1, Conclude
<1>7. CASE /\ ~wrong /\ project.kind[n] = "table" /\ Goto(r, "stub")
           /\ UNCHANGED <<left, order, status, lost>>
  <2>1. pc'[r] = "stub" /\ UNCHANGED <<order, status, stubless, stub>> /\ n' = n
    BY <1>1, <1>4, <1>7 DEF Goto, ShadowType, warehouse, Node
  <2>2. project' = project
    BY <1>2, <1>4, StepFrame DEF Frame
  <2>3. \A m \in project.nodes : Fits(r, m, status[r][m])'
    BY <1>2, <2>1, SameVerdicts
  <2>4. Lined(r)'
    BY <1>1, <1>4, <2>1, <2>2 DEF Judgement, Lined
  <2>5. AtHand(r)'
    <3>1. ~Unmade(r, n)'
      BY <1>7, <1>m, <2>1, <2>2 DEF Unmade, Named
    <3> QED
      BY <1>1, <1>3, <1>7, <2>1, <2>2, <3>1 DEF AtHand
  <2>6. Stubbed(r)'
    BY <1>1, <1>2, <1>4, <2>1, <2>2 DEF Judgement, Stubbed
  <2> QED
    BY <2>2, <2>3, <2>4, <2>5, <2>6 DEF Judgement
<1>8. CASE Lost(r)
  <2>1. n \in lost'[r] /\ "FAILURE" \in Verdict \ {"none"} /\ Judged(r, "FAILURE")
    BY <1>3, <1>4, <1>8 DEF Lost, JudgeType, Verdict
  <2> QED
    BY <1>1, <1>2, <2>1, Conclude
<1> QED
  BY <1>5, <1>6, <1>7, <1>8 DEF Evaluate

\* The node whose stub is made, or whose operations are right, passes.
LEMMA AtHandPasses ==
    ASSUME JInv, NEW r \in Run, pc[r] \in {"stub", "ops"}
    PROVE  /\ order[r] # <<>> /\ Node(r) \in project.nodes
           /\ "PASS" \in Verdict \ {"none"} /\ Fits(r, Node(r), "PASS")
<1>1. AtHand(r)
  BY DEF JInv, Judgement
<1>2. order[r] # <<>>
  BY <1>1 DEF AtHand
<1>3. Node(r) \in project.nodes
  BY <1>2, HeadOfOrder DEF JInv
<1>4. Fits(r, Node(r), "PASS")
  BY <1>1 DEF AtHand, Fits
<1> QED
  BY <1>2, <1>3, <1>4 DEF Verdict

LEMMA CreateStubStep ==
    ASSUME JInv, NEW r \in Run, CreateStub(r)
    PROVE  Judgement(r)'
<1> DEFINE n == Node(r)
<1>1. pc[r] = "stub"
  BY DEF CreateStub
<1>2. ProcessStep(r) /\ (Undisturbed(r)' => Undisturbed(r))
  BY <1>1, StaysDisturbed DEF ProcessStep
<1>3. /\ order[r] # <<>> /\ n \in project.nodes
      /\ "PASS" \in Verdict \ {"none"} /\ Fits(r, n, "PASS")
  BY <1>1, AtHandPasses
<1>4. Judgement(r) /\ ShadowType /\ VInv /\ stubless \in [Run -> SUBSET project.nodes]
  BY DEF JInv, VInv, JudgeType
<1>5. CASE stub' = stub \cup {<<r, n>>} /\ Judged(r, "PASS")
  BY <1>1, <1>2, <1>3, <1>5, Conclude
<1>6. CASE stubless' = [stubless EXCEPT ![r] = @ \cup {n}] /\ Judged(r, "PASS")
  <2>1. n \in stubless'[r]
    BY <1>4, <1>6
  <2> QED
    BY <1>1, <1>2, <1>3, <1>6, <2>1, Conclude
<1>7. CASE /\ stub' = stub \cup {<<r, n>>} /\ project.ddl /\ Goto(r, "ops")
           /\ UNCHANGED <<left, order, status>> /\ UNCHANGED stubless
  <2>1. /\ pc'[r] = "ops" /\ UNCHANGED <<order, status, stubless>> /\ n' = n
        /\ stub \subseteq stub' /\ <<r, n>> \in stub'
    BY <1>4, <1>7 DEF Goto, ShadowType, Node
  <2>2. project' = project
    BY <1>2, <1>4, StepFrame DEF Frame
  <2>3. \A m \in project.nodes : Fits(r, m, status[r][m])'
    BY <1>2, <2>1, SameVerdicts
  <2>4. Lined(r)'
    BY <1>1, <1>4, <2>1, <2>2 DEF Judgement, Lined
  <2>5. AtHand(r)'
    <3>1. ~Unmade(r, n) /\ (Unmade(r, n)' <=> Unmade(r, n))
      BY <1>1, <1>4, <2>1, <2>2 DEF Judgement, AtHand, Unmade, Named
    <3> QED
      BY <1>1, <1>4, <1>7, <2>1, <2>2, <3>1 DEF Judgement, AtHand
  <2>6. Stubbed(r)'
    BY <1>1, <1>2, <1>4, <2>1, <2>2 DEF Judgement, Stubbed
  <2> QED
    BY <2>2, <2>3, <2>4, <2>5, <2>6 DEF Judgement
<1> QED
  BY <1>5, <1>6, <1>7 DEF CreateStub

LEMMA EvaluateOpsStep ==
    ASSUME JInv, NEW r \in Run, EvaluateOps(r)
    PROVE  Judgement(r)'
<1> DEFINE n == Node(r)
<1>1. pc[r] = "ops" /\ UNCHANGED <<stubless, warehouse>>
  BY DEF EvaluateOps
<1>2. ProcessStep(r) /\ (Undisturbed(r)' => Undisturbed(r))
  BY <1>1, StaysDisturbed DEF ProcessStep
<1>3. /\ order[r] # <<>> /\ n \in project.nodes
      /\ "PASS" \in Verdict \ {"none"} /\ Fits(r, n, "PASS")
  BY <1>1, AtHandPasses
<1>4. Judgement(r) /\ ShadowType
  BY DEF JInv, VInv
<1>5. CASE (n \in project.badOps \/ <<r, n>> \notin stub) /\ Judged(r, "FAILURE")
  <2>1. Fits(r, n, "FAILURE") /\ "FAILURE" \in Verdict \ {"none"}
    BY <1>1, <1>4, <1>5 DEF Judgement, AtHand, Stubbed, Fits, Verdict
  <2> QED
    BY <1>1, <1>2, <1>3, <1>5, <2>1, Conclude
<1>6. CASE <<r, n>> \in stub /\ Judged(r, "PASS")
  <2>1. <<r, n>> \in stub'
    BY <1>1, <1>6 DEF warehouse
  <2> QED
    BY <1>1, <1>2, <1>3, <1>6, <2>1, Conclude
<1>7. CASE Lost(r)
  <2>1. n \in lost'[r] /\ "FAILURE" \in Verdict \ {"none"} /\ Judged(r, "FAILURE")
    BY <1>3, <1>7 DEF Lost, JInv, JudgeType, Verdict
  <2> QED
    BY <1>1, <1>2, <1>3, <2>1, Conclude
<1>8. \/ (n \in project.badOps \/ <<r, n>> \notin stub) /\ Judged(r, "FAILURE")
      \/ <<r, n>> \in stub /\ Judged(r, "PASS")
      \/ Lost(r)
  BY DEF EvaluateOps
<1> QED
  BY <1>5, <1>6, <1>7, <1>8

\* Before the first node is judged: everything is still to be judged.
LEMMA NothingJudged ==
    ASSUME NEW r \in Run, project' = project, \A n \in project.nodes : status'[r][n] = "none",
           pc'[r] \in {"list", "sweep", "schemas", "node"}, Lined(r)'
    PROVE  Judgement(r)'
<1>1. AtHand(r)'
  BY DEF AtHand
<1>2. Stubbed(r)'
  BY DEF Stubbed
<1>3. \A n \in project.nodes : Fits(r, n, status[r][n])'
  BY DEF Fits
<1> QED
  BY <1>1, <1>2, <1>3 DEF Judgement

LEMMA FirstSteps ==
    ASSUME JInv, NEW r \in Run, Start(r) \/ List(r) \/ Enter(r) \/ SchemasCreated(r)
    PROVE  Judgement(r)'
<1>0. /\ ShadowType /\ Lined(r)
      /\ pc \in [Run -> {"idle"} \cup Active \cup Over]
      /\ order \in [Run -> Seq(project.nodes)]
  BY DEF JInv, VInv, JudgeType, Judgement, ShadowType
<1>1. /\ pc[r] \in {"idle", "list", "sweep", "schemas"}
      /\ UNCHANGED <<project, status>>
  BY DEF Start, List, Enter, SchemasCreated, Steady, loop
<1>2. \A n \in project.nodes : status[r][n] = "none" /\ status'[r][n] = "none"
  BY <1>0, <1>1 DEF Lined
<1>3. CASE Start(r) \/ List(r)
  <2>1. pc'[r] \in {"list", "sweep"}
    BY <1>0, <1>3 DEF Start, List, Goto
  <2>2. Lined(r)'
    BY <1>1, <1>2, <2>1 DEF Lined
  <2> QED
    BY <1>1, <1>2, <2>1, <2>2, NothingJudged
<1>4. CASE Enter(r)
  <2> DEFINE s == TopoOrder(project.deps, project.nodes)
  <2>1. InOrder(project.deps, project.nodes, s) /\ ToSet(s) = project.nodes
    BY <1>0, OurProject, TopoOrderIsInOrder
  <2>2. pc'[r] = "schemas" /\ order'[r] = s
    BY <1>0, <1>4 DEF Enter, Goto
  <2> HIDE DEF s
  <2>3. /\ \A i, j \in 1..Len(s) : s[i] = s[j] => i = j
        /\ \A i \in 1..Len(s) : \A d \in project.deps[s[i]] \cap project.nodes :
              \E j \in 1..(i - 1) : s[j] = d
        /\ \A n \in project.nodes : \E i \in 1..Len(s) : s[i] = n
    BY <2>1, MembersOfSeq DEF InOrder
  <2>4. Lined(r)'
    BY <1>1, <1>2, <2>2, <2>3 DEF Lined
  <2> QED
    BY <1>1, <1>2, <2>2, <2>4, NothingJudged
<1>5. CASE SchemasCreated(r)
  <2>1. pc[r] = "schemas" /\ pc'[r] = "node" /\ order' = order
    BY <1>0, <1>5 DEF SchemasCreated, Goto, loop
  <2>2. /\ \A i, j \in 1..Len(order[r]) : order[r][i] = order[r][j] => i = j
        /\ \A n \in project.nodes :
              status[r][n] = "none" <=> \E i \in 1..Len(order[r]) : order[r][i] = n
        /\ \A i \in 1..Len(order[r]) : \A d \in project.deps[order[r][i]] \cap project.nodes :
              status[r][d] # "none" \/ \E j \in 1..(i - 1) : order[r][j] = d
    BY <1>0, <2>1 DEF Lined
  <2>3. Lined(r)'
    BY <1>1, <2>1, <2>2 DEF Lined
  <2> QED
    BY <1>1, <1>2, <2>1, <2>3, NothingJudged
<1> QED
  BY <1>3, <1>4, <1>5

\* The end of the loop, and of the process.
LEMMA LastSteps ==
    ASSUME JInv, NEW r \in Run, AllJudged(r) \/ End(r)
    PROVE  Judgement(r)'
<1>0. /\ ShadowType /\ Judgement(r) /\ pc \in [Run -> {"idle"} \cup Active \cup Over]
  BY DEF JInv, VInv, ShadowType
<1>1. /\ pc[r] \in {"node", "teardown", "unwind"}
      /\ UNCHANGED <<project, order, status>>
  BY DEF AllJudged, End, Steady, loop
<1>2. ProcessStep(r) /\ (Undisturbed(r)' => Undisturbed(r))
  BY <1>1, StaysDisturbed DEF ProcessStep
<1>3. CASE End(r) /\ pc[r] = "unwind"
  <2>1. pc'[r] = "failed"
    BY <1>0, <1>3 DEF End, Goto
  <2> QED
    BY <1>1, <1>2, <2>1, QuietStep
<1>4. CASE AllJudged(r) \/ (End(r) /\ pc[r] = "teardown")
  <2>1. pc'[r] \in {"teardown", "done"}
    BY <1>0, <1>4 DEF AllJudged, End, Goto
  <2>2. \A n \in project.nodes : status[r][n] # "none"
    <3>1. CASE AllJudged(r)
      <4>1. pc[r] = "node" /\ Len(order[r]) = 0
        BY <3>1 DEF AllJudged
      <4> QED
        BY <1>0, <4>1 DEF Judgement, Lined
    <3>2. CASE pc[r] = "teardown"
      BY <1>0, <3>2 DEF Judgement, Lined
    <3> QED
      BY <1>4, <3>1, <3>2
  <2>3. \A m \in project.nodes : Fits(r, m, status[r][m])'
    BY <1>1, <1>2, SameVerdicts
  <2>4. Lined(r)' /\ AtHand(r)' /\ Stubbed(r)'
    BY <1>1, <2>1, <2>2 DEF Lined, AtHand, Stubbed
  <2> QED
    BY <1>1, <2>3, <2>4 DEF Judgement
<1>5. End(r) => pc[r] \in {"teardown", "unwind"}
  BY DEF End
<1> QED
  BY <1>3, <1>4, <1>5

LEMMA OwnJudge ==
    ASSUME JInv, NEW r \in Run, ProcessStep(r)
    PROVE  Judgement(r)'
<1>0. pc \in [Run -> {"idle"} \cup Active \cup Over]
  BY DEF JInv, VInv, ShadowType
<1>1. CASE \/ Sweep(r) \/ CreateSchema(r) \/ Teardown(r)
           \/ Interrupt(r) \/ HandlerDrop(r) \/ Exit(r) \/ Kill(r)
  <2>1. pc[r] # "idle"
    BY <1>1 DEF Sweep, CreateSchema, Teardown, Interrupt, HandlerDrop, Exit, Kill, Active
  <2>2. UNCHANGED <<order, status>>
    BY <1>1 DEF Sweep, CreateSchema, Teardown, Interrupt, HandlerDrop, Exit, Kill, loop
  <2>3. pc'[r] = pc[r] \/ pc'[r] \in {"unwind", "failed", "exited", "killed"}
    BY <1>0, <1>1
    DEF Sweep, CreateSchema, Teardown, Interrupt, HandlerDrop, Exit, Kill, Throws, Goto
  <2> QED
    BY <2>1, <2>2, <2>3, StaysDisturbed, QuietStep
<1> QED
  BY <1>1, FirstSteps, LastSteps, JudgeStep, EvaluateStep, CreateStubStep, EvaluateOpsStep
  DEF ProcessStep

\* The step that judges a node judges one that has no verdict, for good.
LEMMA StatusStays ==
    ASSUME JInv, NEW r \in Run, ProcessStep(r), NEW q \in Run, NEW n \in project.nodes,
           status[q][n] # "none"
    PROVE  status'[q][n] = status[q][n]
<1>0. JudgeType /\ Judgement(r) /\ JudgeFrame(r)
  BY StepJudgeFrame DEF JInv
<1>1. CASE q # r
  BY <1>0, <1>1 DEF JudgeFrame
<1>2. CASE status' = status
  BY <1>2
<1>3. ASSUME NEW v, Judged(r, v), pc[r] \in {"node", "stub", "ops"}, order[r] # <<>>
      PROVE  status'[r][n] = status[r][n] \/ q # r
  <2>1. Node(r) = order[r][1] /\ Len(order[r]) \in Nat \ {0} /\ Node(r) \in project.nodes
    BY <1>0, <1>3, HeadOfOrder
  <2>2. status[r][Node(r)] = "none"
    BY <1>0, <1>3, <2>1 DEF Judgement, Lined
  <2> QED
    BY <1>0, <1>3, <2>2 DEF Judged, JudgeType
<1>4. \/ status' = status
      \/ pc[r] \in {"node", "stub", "ops"} /\ order[r] # <<>> /\ \E v : Judged(r, v)
  <2>1. pc[r] \in {"stub", "ops"} => order[r] # <<>>
    BY <1>0 DEF Judgement, AtHand
  <2>2. CASE Judge(r) \/ Evaluate(r) \/ CreateStub(r) \/ EvaluateOps(r)
    BY <2>1, <2>2 DEF Judge, Evaluate, CreateStub, EvaluateOps, Lost
  <2>3. CASE ~(Judge(r) \/ Evaluate(r) \/ CreateStub(r) \/ EvaluateOps(r))
    BY <2>3
    DEF ProcessStep, Start, List, Sweep, Enter, CreateSchema, SchemasCreated, AllJudged,
        Teardown, End, Interrupt, HandlerDrop, Exit, Kill, loop
  <2> QED
    BY <2>2, <2>3
<1> QED
  BY <1>1, <1>2, <1>3, <1>4

\* The node at hand stays at hand until it has a verdict, or the process is gone.
LEMMA AtHandStays ==
    ASSUME JInv, NEW r \in Run, ProcessStep(r), pc[r] = "ops"
    PROVE  \/ pc'[r] = "ops" /\ order'[r] = order[r]
           \/ status'[r][Node(r)] # "none"
           \/ pc'[r] \in {"exited", "killed"}
<1>0. /\ pc \in [Run -> {"idle"} \cup Active \cup Over]
      /\ status \in [Run -> [project.nodes -> Verdict]] /\ order[r] # <<>>
  BY DEF JInv, VInv, ShadowType, JudgeType, Judgement, AtHand
<1>1. CASE EvaluateOps(r)
  <2>1. Node(r) \in project.nodes /\ \E v \in {"FAILURE", "PASS"} : Judged(r, v)
    BY <1>0, <1>1, HeadOfOrder DEF JInv, EvaluateOps, Lost
  <2> QED
    BY <1>0, <2>1 DEF Judged
<1>2. CASE Interrupt(r) \/ HandlerDrop(r)
  BY <1>2 DEF Interrupt, HandlerDrop, loop
<1>3. CASE Exit(r) \/ Kill(r)
  BY <1>0, <1>3 DEF Exit, Kill, Goto
<1> QED
  BY <1>1, <1>2, <1>3
  DEF ProcessStep, Start, List, Sweep, Enter, CreateSchema, SchemasCreated, AllJudged,
      Judge, Evaluate, CreateStub, Teardown, End

\* The stub of the node at hand, and its verdict if it has one, are there together.
LEMMA CreateStubMakes ==
    ASSUME JInv, NEW r \in Run, CreateStub(r), status[r][Node(r)] = "none"
    PROVE  LET n == Node(r)
           IN  /\ n \in stubless'[r] => status'[r][n] # "none" /\ <<r, n>> \notin stub'
               /\ status'[r][n] # "none" \/ (pc'[r] = "ops" /\ n = Node(r)')
<1> DEFINE n == Node(r)
<1>1. /\ pc[r] = "stub" /\ order[r] # <<>> /\ n \in project.nodes
      /\ pc \in [Run -> {"idle"} \cup Active \cup Over]
      /\ status \in [Run -> [project.nodes -> Verdict]]
      /\ stubless \in [Run -> SUBSET project.nodes]
  BY HeadOfOrder DEF CreateStub, JInv, VInv, ShadowType, JudgeType, Judgement, AtHand
<1>2. <<r, n>> \notin stub /\ n \notin stubless[r]
  BY <1>1 DEF JInv, Made
<1>3. CASE Judged(r, "PASS")
  <2>1. status'[r][n] # "none"
    BY <1>1, <1>3 DEF Judged
  <2>2. n \in stubless'[r] => stub' = stub
    BY <1>2 DEF CreateStub
  <2> QED
    BY <1>2, <2>1, <2>2
<1>4. CASE Goto(r, "ops") /\ UNCHANGED <<left, order, status>> /\ UNCHANGED stubless
  BY <1>1, <1>2, <1>4 DEF Goto, Node
<1> QED
  BY <1>3, <1>4 DEF CreateStub

LEMMA StepMade ==
    ASSUME JInv, NEW r \in Run, ProcessStep(r), NEW q \in Run
    PROVE  Made(q)'
<1>0. /\ JudgeFrame(r) /\ Frame(r) /\ Adds(r) /\ Made(q)
  BY StepJudgeFrame, StepFrame, StepAdds DEF JInv, VInv
<1>1. project' = project
  BY <1>0 DEF Frame
<1> SUFFICES ASSUME NEW n \in project.nodes
             PROVE  /\ n \in stubless'[q] => status'[q][n] # "none" /\ <<q, n>> \notin stub'
                    /\ <<q, n>> \in stub' =>
                        \/ status'[q][n] # "none"
                        \/ pc'[q] = "ops" /\ n = Node(q)'
                        \/ pc'[q] \in {"exited", "killed"}
  BY <1>1 DEF Made
<1>2. CASE CreateStub(r) /\ q = r /\ n = Node(r) /\ status[r][n] = "none"
  BY <1>2, CreateStubMakes
<1>3. CASE ~(CreateStub(r) /\ q = r /\ n = Node(r) /\ status[r][n] = "none")
  <2>1. /\ n \in stubless'[q] => n \in stubless[q]
        /\ <<q, n>> \in stub' => <<q, n>> \in stub
    BY <1>0, <1>3 DEF Adds
  <2>2. CASE status[q][n] # "none"
    <3>1. status'[q][n] # "none"
      BY <2>2, StatusStays
    <3> QED
      BY <1>0, <2>1, <3>1 DEF Made
  <2>3. CASE status[q][n] = "none"
    <3>1. n \notin stubless'[q]
      BY <1>0, <2>1, <2>3 DEF Made
    <3>2. ASSUME <<q, n>> \in stub
          PROVE  (pc[q] = "ops" /\ n = Node(q)) \/ pc[q] \in {"exited", "killed"}
      BY <1>0, <2>3, <3>2 DEF Made
    <3>3. CASE q # r
      <4>1. pc'[q] = pc[q] /\ Node(q)' = Node(q)
        BY <1>0, <3>3 DEF Frame, JudgeFrame, Node
      <4> QED
        BY <2>1, <3>1, <3>2, <4>1
    <3>4. CASE q = r
      <4>1. pc[r] \notin {"exited", "killed"}
        BY DEF ProcessStep, Start, List, Sweep, Enter, CreateSchema, SchemasCreated, AllJudged,
               Judge, Evaluate, CreateStub, EvaluateOps, Teardown, End,
               Interrupt, HandlerDrop, Exit, Kill, Active
      <4>2. ASSUME pc[r] = "ops", n = Node(r)
            PROVE  \/ status'[r][n] # "none"
                   \/ pc'[r] = "ops" /\ n = Node(r)'
                   \/ pc'[r] \in {"exited", "killed"}
        BY <4>2, AtHandStays DEF Node
      <4> QED
        BY <2>1, <3>1, <3>2, <3>4, <4>1, <4>2
    <3> QED
      BY <3>3, <3>4
  <2> QED
    BY <2>2, <2>3
<1> QED
  BY <1>2, <1>3

LEMMA InitJInv == Init => JInv
<1> SUFFICES ASSUME Init PROVE JInv
  OBVIOUS
<1>1. VInv
  BY InitVInv
<1>2. JudgeType
  BY ValidateAssumption DEF Init, JudgeType, Verdict
<1>3. ASSUME NEW r \in Run PROVE Judgement(r)
  BY DEF Init, Judgement, Lined, AtHand, Stubbed, Fits
<1>4. ASSUME NEW r \in Run PROVE Made(r)
  BY DEF Init, Made
<1> QED
  BY <1>1, <1>2, <1>3, <1>4 DEF JInv

LEMMA StepJInv == JInv /\ [Next]_vars => JInv'
<1> SUFFICES ASSUME JInv, [Next]_vars PROVE JInv'
  OBVIOUS
<1>0. VInv' /\ JudgeType
  BY StepVInv DEF JInv
<1>1. ASSUME NEW r \in Run, ProcessStep(r) PROVE JInv'
  <2>1. ASSUME NEW q \in Run PROVE Judgement(q)'
    <3>1. CASE q = r
      BY <1>1, <3>1, OwnJudge
    <3>2. CASE q # r
      BY <1>1, <3>2, OthersJudge
    <3> QED
      BY <3>1, <3>2
  <2>2. JudgeType' /\ project' = project
    BY <1>1, StepJudgeType, StepFrame DEF JInv, VInv, Frame
  <2>3. ASSUME NEW q \in Run PROVE Made(q)'
    BY <1>1, StepMade
  <2> QED
    BY <1>0, <2>1, <2>2, <2>3 DEF JInv
<1>2. ASSUME UNCHANGED <<project, pc, started, order, status, stubless, lost, signalled, stub, shadow>>,
             now' \in {now, now + 1} \cap 0..MaxTime
      PROVE  JInv'
  <2>1. JudgeType'
    BY <1>0, <1>2, ValidateAssumption DEF JudgeType
  <2>2. ASSUME NEW r \in Run PROVE Undisturbed(r)' => Undisturbed(r)
    BY <1>0, <1>2, ValidateAssumption DEF Undisturbed, JudgeType
  <2>3. ASSUME NEW r \in Run PROVE Judgement(r)'
    <3>1. Judgement(r)
      BY DEF JInv
    <3>2. Lined(r)' /\ AtHand(r)'
      BY <1>2, <3>1 DEF Judgement, Lined, AtHand, Node, Unmade, Named
    <3>3. Stubbed(r)'
      BY <1>2, <2>2, <3>1 DEF Judgement, Stubbed, Node
    <3>4. \A n \in project.nodes : Fits(r, n, status[r][n])'
      BY <1>2, <2>2, <3>1 DEF Judgement, Fits, Unmade, Named
    <3> QED
      BY <1>2, <3>2, <3>3, <3>4 DEF Judgement
  <2>4. ASSUME NEW r \in Run PROVE Made(r)'
    BY <1>2 DEF JInv, Made, Node
  <2> QED
    BY <1>0, <2>1, <2>3, <2>4 DEF JInv
<1>3. CASE Tick
  <2>1. /\ UNCHANGED <<project, pc, started, order, status, stubless, lost, signalled, stub, shadow>>
        /\ now' \in {now, now + 1} \cap 0..MaxTime
    BY <1>0, <1>3, ValidateAssumption DEF Tick, loop, warehouse, JudgeType
  <2> QED
    BY <1>2, <2>1
<1>4. CASE UNCHANGED vars
  <2>1. /\ UNCHANGED <<project, pc, started, order, status, stubless, lost, signalled, stub, shadow>>
        /\ now' \in {now, now + 1} \cap 0..MaxTime
    BY <1>0, <1>4 DEF vars, loop, warehouse, JudgeType
  <2> QED
    BY <1>2, <2>1
<1> QED
  BY <1>1, <1>3, <1>4 DEF Next, ProcessStep

-----------------------------------------------------------------------------
(* The theorems about verdicts                                             *)

\* The invariant behind the theorems about verdicts.
THEOREM VerdictsAreKnown == Spec => []JInv
  BY InitJInv, StepJInv, PTL DEF Spec

\* Type correctness, and that each stub is in a shadow schema that is there.
THEOREM TypeCorrect == Spec => []TypeOK
<1>1. JInv => TypeOK
  <2> SUFFICES ASSUME JInv PROVE TypeOK
    OBVIOUS
  <2>1. /\ ShadowType /\ JudgeType /\ \A r \in Run : AtHand(r)
    BY DEF JInv, VInv, Judgement
  <2>2. /\ now \in 0..MaxTime /\ started \in [Run -> 0..MaxTime]
        /\ pc \in [Run -> {"idle"} \cup Active \cup Over]
        /\ signalled \in [Run -> BOOLEAN] /\ shadow \subseteq Run \X Schema
        /\ stub \subseteq Run \X project.nodes
    BY <2>1 DEF ShadowType, JudgeType
  <2>3. \A r \in Run : /\ left[r] \subseteq Schema \cup (Run \X Schema)
                       /\ order[r] \in Seq(project.nodes)
                       /\ status[r] \in [project.nodes -> Verdict]
                       /\ {stubless[r], lost[r]} \subseteq SUBSET project.nodes
                       /\ handling[r] \subseteq Schema
                       /\ pc[r] \in {"stub", "ops"} => order[r] # <<>>
    BY <2>1 DEF ShadowType, JudgeType, AtHand
  <2>4. \A s \in stub : <<s[1], project.schema[s[2]]>> \in shadow
    BY <2>1, <2>2 DEF JudgeType
  <2>5. undropped \subseteq Run
    BY <2>1 DEF ShadowType
  <2> QED
    BY <2>2, <2>3, <2>4, <2>5 DEF TypeOK
<1> QED
  BY VerdictsAreKnown, <1>1, PTL

\* Whatever the project, a validation that returns results has judged every
\* action that was selected: its order leaves none out.
THEOREM AllAreJudged == Spec => []EveryNodeIsJudged
<1>1. JInv => EveryNodeIsJudged
  BY DEF JInv, Judgement, Lined, EveryNodeIsJudged
<1> QED
  BY VerdictsAreKnown, <1>1, PTL

\* At every moment of every validation, what passed has no error, reads only
\* what passed and names only what the validation made, and what is blocked
\* waits for something that did not pass.
THEOREM VerdictsAreSound == Spec => []VerdictsAgree
<1>1. JInv => VerdictsAgree
  BY DEF JInv, Judgement, Fits, VerdictsAgree
<1> QED
  BY VerdictsAreKnown, <1>1, PTL

\* Whatever the project, whichever calls fail, and whoever else validates or
\* sweeps, a process that is young and was not interrupted FAILS only nodes with
\* an error of their own, those that lost a call of their own, and those that
\* name what was not selected or passed without a stub.
THEOREM ErrorsDoNotCascade == Spec => []OneErrorDoesNotCascade
<1>1. JInv => OneErrorDoesNotCascade
  BY DEF JInv, Judgement, Fits, OneErrorDoesNotCascade
<1> QED
  BY VerdictsAreKnown, <1>1, PTL
=============================================================================
