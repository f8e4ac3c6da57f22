------------------------------ MODULE Validate ------------------------------
(***************************************************************************)
(* `sqlanvil validate` (validate.ts, validate_graph.ts, and                *)
(* validate_command.ts): processes that walk a compiled project in         *)
(* dependency order, leaving an empty stub of each model that passes in a  *)
(* shadow schema of their own, and drop the shadows that older runs left.  *)
(*                                                                         *)
(* Every call to the warehouse may fail without effect.  The adapters'     *)
(* evaluate() and the check of a script answer an error of any kind, a     *)
(* lost connection too, with FAILURE; what else a failing call does is     *)
(* said where it is made.  Time passes in ticks; shadow names carry the    *)
(* time their run started.                                                 *)
(***************************************************************************)
EXTENDS Naturals, Sequences, FiniteSets, FiniteSetsExt, SequencesExt

CONSTANTS
    Run,        \* processes
    Schema,
    Projects,   \* projects that may be validated
    MaxAge,     \* SHADOW_MAX_AGE_MS
    MaxTime     \* bound on time

Kind == {"table", "assertion", "operation", "import", "script"}

\* nodes: the actions selected; dependencies may be left out of them.  broken:
\* their SQL (or script) is wrong; unstubbable: their stub cannot be created;
\* badOps: a pre- or post-operation is wrong; ddl: the warehouse can dry-run
\* operations (BigQuery); keep: --keep-shadow.  Keys are numbers.  What did not
\* compile is not validated, and no cycle compiles.
Project(p) ==
    /\ p.nodes \subseteq p.actions
    /\ p.actions \subseteq Nat /\ IsFiniteSet(p.actions)
    /\ p.deps \in [p.actions -> SUBSET p.actions]
    /\ \A S \in SUBSET p.actions : S # {} => \E n \in S : p.deps[n] \cap S = {}
    /\ p.kind \in [p.actions -> Kind]
    /\ p.schema \in [p.actions -> Schema]
    /\ {p.broken, p.unstubbable, p.badOps} \subseteq SUBSET p.actions
    /\ {p.ddl, p.keep} \subseteq BOOLEAN
    /\ p.runs \subseteq Run

ASSUME ValidateAssumption ==
    /\ \A p \in Projects : Project(p)
    /\ {MaxAge, MaxTime} \subseteq Nat

VARIABLES
    project,    \* what is validated
    now,
    pc,         \* where validate() of each process is
    started,    \* the time in the process's shadow names
    left,       \* schemas the process has yet to drop, or to create
    order,      \* nodes it has yet to judge
    status,     \* its statusByKey
    stubless,   \* nodes that passed though their stub could not be created
    lost,       \* history: nodes with a call that failed for no fault of theirs
    signalled,  \* the process has had SIGINT
    handling,   \* schemas its SIGINT handler has yet to drop
    shadow,     \* shadow schemas in the warehouse: <<process, schema>>
    stub,       \* stubs in them: <<process, node>>
    undropped   \* history: processes that could not drop a shadow at their end

warehouse == <<shadow, stub>>
loop == <<left, order, status, stubless, lost>>
vars == <<project, now, pc, started, loop, signalled, handling, warehouse, undropped>>

Over    == {"done", "failed", "exited", "killed"}
Active  == {"list", "sweep", "schemas", "node", "stub", "ops", "teardown", "unwind"}
Verdict == {"none", "PASS", "FAILURE", "BLOCKED", "SKIPPED"}

-----------------------------------------------------------------------------
(* validate_graph.ts                                                       *)

InGraph(deps, nodes, n) == (deps[n] \cap nodes) \ {n}

\* The nodes by key: each at the place that the nodes before it leave it.
ByKey(nodes) ==
    [i \in 1..Cardinality(nodes) |->
        CHOOSE n \in nodes : Cardinality({m \in nodes : m < n}) = i - 1]

Ready(deps, nodes, done) ==
    {n \in nodes \ done : InGraph(deps, nodes, n) \subseteq done}

\* Mutant: nodes in the order of their keys.
KeyOrder(deps, nodes) == ByKey(nodes)

\* Mutant: only what is ready at the start.
RootsOnly(deps, nodes) == ByKey(Ready(deps, nodes, {}))

\* The least key that is ready comes next.
Emit(deps, nodes, ordered) ==
    LET ready == Ready(deps, nodes, ToSet(ordered))
    IN  IF ready = {} THEN ordered ELSE Append(ordered, Min(ready))

\* Kahn's algorithm; what a cycle leaves over follows by key.
TopoOrder(deps, nodes) ==
    LET kahn[k \in 0..Cardinality(nodes)] ==
            IF k = 0 THEN <<>> ELSE Emit(deps, nodes, kahn[k - 1])
        ordered == kahn[Cardinality(nodes)]
    IN  ordered \o ByKey(nodes \ ToSet(ordered))

\* Mutant: what waits for a skipped node is not blocked.
FailureBlocks(deps, verdict) ==
    \E d \in deps \cap DOMAIN verdict : verdict[d] \in {"FAILURE", "BLOCKED"}

DependencyBlocked(deps, verdict) ==
    \E d \in deps \cap DOMAIN verdict : verdict[d] \notin {"none", "PASS"}

\* Mutant: shadows of any age.
AllShadows(time) == shadow

\* Shadows of runs that started longer ago than MaxAge.
ShadowSchemasToSweep(time) == {s \in shadow : time - started[s[1]] > MaxAge}

-----------------------------------------------------------------------------
ShadowSchemas == {project.schema[n] : n \in {m \in project.nodes : project.kind[m] = "table"}}
Node(r) == Head(order[r])

\* The relations that the node's query names: what an assertion or a script
\* makes is not named in queries.
Named(n) ==
    {d \in project.deps[n] :
        project.kind[d] \in {"table", "operation", "import"} /\ project.kind[n] # "script"}

\* One of them is not there.
MissingRef(r, n) == \E d \in Named(n) : <<r, d>> \notin stub

Init ==
    /\ project \in Projects
    /\ now = 0
    /\ pc = [r \in Run |-> "idle"]
    /\ started = [r \in Run |-> 0]
    /\ left = [r \in Run |-> {}]
    /\ order = [r \in Run |-> <<>>]
    /\ status = [r \in Run |-> [n \in project.nodes |-> "none"]]
    /\ stubless = [r \in Run |-> {}]
    /\ lost = [r \in Run |-> {}]
    /\ signalled = [r \in Run |-> FALSE]
    /\ handling = [r \in Run |-> {}]
    /\ shadow = {}
    /\ stub = {}
    /\ undropped = {}

Tick ==
    /\ now < MaxTime
    /\ now' = now + 1
    /\ UNCHANGED <<project, pc, started, loop, signalled, handling, warehouse, undropped>>

Goto(r, where) == pc' = [pc EXCEPT ![r] = where]
Steady == UNCHANGED <<project, now, started, signalled, handling, undropped>>

Start(r) ==
    /\ pc[r] = "idle"
    /\ r \in project.runs
    /\ started' = [started EXCEPT ![r] = now]
    /\ Goto(r, "list")
    /\ UNCHANGED <<project, now, loop, signalled, handling, warehouse, undropped>>

\* Mutant: the stubs in a schema survive it.
DroppedWithoutStubs(schemas) == shadow' = shadow \ schemas /\ UNCHANGED stub

Dropped(schemas) ==
    /\ shadow' = shadow \ schemas
    /\ stub' = {s \in stub : <<s[1], project.schema[s[2]]>> \notin schemas}

\* sweepOrphanShadows(): errors are ignored.  left holds what is to be swept.
List(r) ==
    /\ pc[r] = "list"
    /\ \E found \in {ShadowSchemasToSweep(now), {}} : left' = [left EXCEPT ![r] = found]
    /\ Goto(r, "sweep")
    /\ Steady /\ UNCHANGED <<order, status, stubless, lost, warehouse>>

Sweep(r) ==
    /\ pc[r] = "sweep"
    /\ \E s \in left[r] :
        /\ left' = [left EXCEPT ![r] = @ \ {s}]
        /\ Dropped({s}) \/ UNCHANGED warehouse
    /\ Steady /\ UNCHANGED <<pc, order, status, stubless, lost>>

\* validate(): the nodes are put in order.
Enter(r) ==
    /\ pc[r] = "sweep"
    /\ left[r] = {}
    /\ left' = [left EXCEPT ![r] = ShadowSchemas]
    /\ order' = [order EXCEPT ![r] = TopoOrder(project.deps, project.nodes)]
    /\ Goto(r, "schemas")
    /\ Steady /\ UNCHANGED <<status, stubless, lost, warehouse>>

\* Mutant: an error skips the teardown.
ThrowsAtOnce(r) == Goto(r, "failed") /\ UNCHANGED left

\* An error goes through `finally`.
Throws(r) ==
    /\ Goto(r, "unwind")
    /\ left' = [left EXCEPT ![r] = IF project.keep THEN {} ELSE ShadowSchemas]

CreateSchema(r) ==
    /\ pc[r] = "schemas"
    /\ \E s \in left[r] :
        \/ /\ shadow' = shadow \cup {<<r, s>>}
           /\ left' = [left EXCEPT ![r] = @ \ {s}]
           /\ UNCHANGED <<pc, stub>>
        \/ Throws(r) /\ UNCHANGED warehouse
    /\ Steady /\ UNCHANGED <<order, status, stubless, lost>>

SchemasCreated(r) ==
    /\ pc[r] = "schemas"
    /\ left[r] = {}
    /\ Goto(r, "node")
    /\ Steady /\ UNCHANGED <<loop, warehouse>>

\* The loop's end, and its `finally`.
AllJudged(r) ==
    /\ pc[r] = "node"
    /\ order[r] = <<>>
    /\ Goto(r, "teardown")
    /\ left' = [left EXCEPT ![r] = IF project.keep THEN {} ELSE ShadowSchemas]
    /\ Steady /\ UNCHANGED <<order, status, stubless, lost, warehouse>>

\* The node at hand gets its verdict.
Judged(r, verdict) ==
    /\ status' = [status EXCEPT ![r][Node(r)] = verdict]
    /\ order' = [order EXCEPT ![r] = Tail(@)]
    /\ Goto(r, "node")
    /\ UNCHANGED left

Unevaluated(r, n) ==
    IF project.kind[n] \in {"operation", "import"} THEN "SKIPPED"
    ELSE IF DependencyBlocked(project.deps[n], status[r]) THEN "BLOCKED"
    ELSE "none"

Judge(r) ==
    /\ pc[r] = "node"
    /\ order[r] # <<>>
    /\ Unevaluated(r, Node(r)) # "none"
    /\ Judged(r, Unevaluated(r, Node(r)))
    /\ Steady /\ UNCHANGED <<stubless, lost, warehouse>>

\* A call for the node at hand fails, and with it the node.
Lost(r) ==
    /\ lost' = [lost EXCEPT ![r] = @ \cup {Node(r)}]
    /\ Judged(r, "FAILURE")

Evaluate(r) ==
    /\ pc[r] = "node"
    /\ order[r] # <<>>
    /\ Unevaluated(r, Node(r)) = "none"
    /\ LET n == Node(r)
           wrong == n \in project.broken \/ MissingRef(r, n)
       IN  \/ wrong /\ Judged(r, "FAILURE") /\ UNCHANGED lost
           \/ ~wrong /\ project.kind[n] # "table" /\ Judged(r, "PASS") /\ UNCHANGED lost
           \/ ~wrong /\ project.kind[n] = "table" /\ Goto(r, "stub")
                     /\ UNCHANGED <<left, order, status, lost>>
           \/ ~wrong /\ Lost(r)
    /\ Steady /\ UNCHANGED <<stubless, warehouse>>

\* A model that passed gets its stub; that it does not is ignored.
CreateStub(r) ==
    /\ pc[r] = "stub"
    /\ LET n == Node(r)
       IN  \/ /\ n \notin project.unstubbable
              /\ ~MissingRef(r, n)
              /\ <<r, project.schema[n]>> \in shadow
              /\ stub' = stub \cup {<<r, n>>}
              /\ IF project.ddl THEN Goto(r, "ops") /\ UNCHANGED <<left, order, status>>
                                ELSE Judged(r, "PASS")
              /\ UNCHANGED stubless
           \/ /\ stubless' = [stubless EXCEPT ![r] = @ \cup {n}]
              /\ Judged(r, "PASS")
              /\ UNCHANGED stub
    /\ Steady /\ UNCHANGED <<shadow, lost>>

\* Its operations are dry-run against the stub.
EvaluateOps(r) ==
    /\ pc[r] = "ops"
    /\ LET n == Node(r)
           wrong == n \in project.badOps \/ <<r, n>> \notin stub
       IN  \/ Judged(r, IF wrong THEN "FAILURE" ELSE "PASS") /\ UNCHANGED lost
           \/ ~wrong /\ Lost(r)
    /\ Steady /\ UNCHANGED <<stubless, warehouse>>

Teardown(r) ==
    /\ pc[r] \in {"teardown", "unwind"}
    /\ \E s \in left[r] :
        /\ left' = [left EXCEPT ![r] = @ \ {s}]
        /\ \/ Dropped({<<r, s>>}) /\ UNCHANGED undropped
           \/ UNCHANGED warehouse /\ undropped' = undropped \cup {r}
    /\ UNCHANGED <<project, now, started, signalled, handling>>
    /\ UNCHANGED <<pc, order, status, stubless, lost>>

End(r) ==
    /\ pc[r] \in {"teardown", "unwind"}
    /\ left[r] = {}
    /\ Goto(r, IF pc[r] = "teardown" THEN "done" ELSE "failed")
    /\ Steady /\ UNCHANGED <<loop, warehouse>>

\* SIGINT drops the shadows, whatever --keep-shadow says, while validate() goes
\* on; then the process exits.
Interrupt(r) ==
    /\ pc[r] \in Active
    /\ ~signalled[r]
    /\ signalled' = [signalled EXCEPT ![r] = TRUE]
    /\ handling' = [handling EXCEPT ![r] = ShadowSchemas]
    /\ UNCHANGED <<project, now, pc, started, loop, warehouse, undropped>>

HandlerDrop(r) ==
    /\ pc[r] \in Active
    /\ \E s \in handling[r] :
        /\ handling' = [handling EXCEPT ![r] = @ \ {s}]
        /\ Dropped({<<r, s>>}) \/ UNCHANGED warehouse
    /\ UNCHANGED <<project, now, pc, started, loop, signalled, undropped>>

Exit(r) ==
    /\ pc[r] \in Active
    /\ signalled[r]
    /\ handling[r] = {}
    /\ Goto(r, "exited")
    /\ Steady /\ UNCHANGED <<loop, warehouse>>

Kill(r) ==
    /\ pc[r] \in Active
    /\ Goto(r, "killed")
    /\ Steady /\ UNCHANGED <<loop, warehouse>>

Next ==
    \/ Tick
    \/ \E r \in Run :
        \/ Start(r) \/ List(r) \/ Sweep(r) \/ Enter(r)
        \/ CreateSchema(r) \/ SchemasCreated(r)
        \/ Judge(r) \/ Evaluate(r) \/ CreateStub(r) \/ EvaluateOps(r)
        \/ AllJudged(r) \/ Teardown(r) \/ End(r)
        \/ Interrupt(r) \/ HandlerDrop(r) \/ Exit(r) \/ Kill(r)

Spec == Init /\ [][Next]_vars

-----------------------------------------------------------------------------
(* Properties                                                              *)

\* Type invariant.
TypeOK ==
    /\ now \in 0..MaxTime
    /\ pc \in [Run -> {"idle"} \cup Active \cup Over]
    /\ started \in [Run -> 0..MaxTime]
    /\ \A r \in Run :
        /\ left[r] \subseteq Schema \cup (Run \X Schema)
        /\ order[r] \in Seq(project.nodes)
        /\ status[r] \in [project.nodes -> Verdict]
        /\ {stubless[r], lost[r]} \subseteq SUBSET project.nodes
        /\ handling[r] \subseteq Schema
        /\ pc[r] \in {"stub", "ops"} => order[r] # <<>>
    /\ signalled \in [Run -> BOOLEAN]
    /\ shadow \subseteq Run \X Schema
    /\ stub \subseteq Run \X project.nodes
    /\ \A s \in stub : <<s[1], project.schema[s[2]]>> \in shadow
    /\ undropped \subseteq Run

\* The process's shadows are nobody's but its own: it is no older than MaxAge
\* and nobody interrupted it.
Undisturbed(r) == now - started[r] <= MaxAge /\ ~signalled[r]

\* The query names a relation that the validation has not made: it was not
\* selected, or passed without a stub.
Unmade(r, n) == Named(n) \ (project.nodes \ stubless[r]) # {}

\* README: "results classify as PASS / FAIL / BLOCKED so one real error doesn't
\* cascade".  What FAILS has an error of its own, or lost a call of its own, or
\* names itself what was not selected or passed without a stub: what reads it in
\* turn does not fail.
OneErrorDoesNotCascade ==
    \A r \in Run : Undisturbed(r) =>
        \A n \in project.nodes : status[r][n] = "FAILURE" =>
            \/ n \in project.broken
            \/ project.ddl /\ n \in project.badOps
            \/ n \in lost[r]
            \/ Unmade(r, n)

\* A verdict agrees with those it rests on, at whatever moment: what passed has
\* no error, reads only what passed, and names only what the validation made;
\* what is blocked has a selected dependency that did not pass.
VerdictsAgree ==
    \A r \in Run, n \in project.nodes :
        LET selected == project.deps[n] \cap project.nodes
        IN  /\ status[r][n] = "PASS" =>
                /\ n \notin project.broken
                /\ \A d \in selected : status[r][d] = "PASS"
                /\ ~Unmade(r, n)
            /\ status[r][n] = "BLOCKED" =>
                \E d \in selected : status[r][d] \in {"FAILURE", "BLOCKED", "SKIPPED"}

\* A validation that returns results has judged every action that was selected.
EveryNodeIsJudged ==
    \A r \in Run : pc[r] \in {"teardown", "done"} =>
        \A n \in project.nodes : status[r][n] # "none"

\* A process that has ended leaves shadows only if it was killed or interrupted,
\* was told to, or could not drop them.
NothingIsLeftBehind ==
    \A r \in Run : pc[r] \in {"done", "failed"} /\ ~project.keep /\ ~signalled[r] =>
        \A s \in Schema : <<r, s>> \in shadow => r \in undropped

\* A validation no older than MaxAge keeps its shadows, whoever sweeps.
YoungShadowsStay ==
    \A r \in Run : pc[r] \in {"node", "stub", "ops"} /\ Undisturbed(r) =>
        \A s \in ShadowSchemas : <<r, s>> \in shadow

=============================================================================
