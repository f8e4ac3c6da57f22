---------------------------- MODULE SessionProofs ----------------------------
(***************************************************************************)
(* Proofs about Session: that a graph without errors keeps its promises,   *)
(* for every project, settings and selection.                              *)
(***************************************************************************)
EXTENDS Session, ActionsProofs

-----------------------------------------------------------------------------
(* What a function leads to.                                               *)

\* next leads out of S nowhere.
Closed(S, next) == \A x \in S \cap DOMAIN next : next[x] \subseteq S
Onward(T, next) == T \cup UNION {next[x] : x \in T \cap DOMAIN next}
Everywhere(S, next) == S \cup UNION {next[x] : x \in DOMAIN next}

\* The steps by which a closure is reached.
Reaching(after, S, next, N) ==
    /\ after \in [0..N -> SUBSET Everywhere(S, next)] /\ after[0] = S
    /\ \A n \in 1..N : after[n] = Onward(after[n - 1], next)

LEMMA ClosureReached ==
    ASSUME NEW S, NEW next, IsFiniteSet(DOMAIN next)
    PROVE  LET N == Cardinality(DOMAIN next) IN
           N \in Nat /\ \E after : Reaching(after, S, next, N) /\ Closure(S, next) = after[N]
<1> DEFINE N == Cardinality(DOMAIN next)
           U == SUBSET Everywhere(S, next)
           F == [p \in (1..N) \X U |-> Onward(p[2], next)]
           with[n \in 0..N] == IF n = 0 THEN S ELSE Onward(with[n - 1], next)
<1>1. N \in Nat
  BY FS_CardinalityType
<1>2. ASSUME NEW T \in U PROVE Onward(T, next) \in U
  BY DEF Onward, Everywhere
<1>3. S \in U
  BY DEF Everywhere
<1>4. Closure(S, next) = with[N]
  BY DEF Closure, Onward
<1> HIDE DEF N, U, F, with
<1>5. F \in [(1..N) \X U -> U]
  BY <1>2 DEF F
<1>6. PICK f \in [0..N -> U] : f[0] = S /\ \A n \in 1..N : f[n] = F[<<n, f[n - 1]>>]
  <2>1. From(S, F, N, U) # {}
    BY <1>1, <1>3, <1>5, ByRecursion
  <2> QED
    BY <2>1 DEF From
<1>7. ASSUME NEW n \in 1..N
      PROVE  n - 1 \in 0..N /\ n \in 0..N /\ n # 0 /\ f[n] = Onward(f[n - 1], next)
  <2>1. n - 1 \in 0..N /\ n \in 0..N /\ n # 0
    BY <1>1
  <2>2. f[n - 1] \in U
    BY <1>6, <2>1
  <2>3. F[<<n, f[n - 1]>>] = Onward(f[n - 1], next)
    BY <2>2 DEF F
  <2> QED
    BY <1>6, <2>1, <2>3
<1>8. f = [n \in 0..N |-> IF n = 0 THEN S ELSE Onward(f[n - 1], next)]
  <2>1. ASSUME NEW n \in 0..N PROVE f[n] = IF n = 0 THEN S ELSE Onward(f[n - 1], next)
    <3>1. n = 0 \/ n \in 1..N
      BY <1>1
    <3> QED
      BY <3>1, <1>6, <1>7
  <2> QED
    BY <2>1, <1>6
<1>9. with = [n \in 0..N |-> IF n = 0 THEN S ELSE Onward(with[n - 1], next)]
  BY <1>8 DEF with
<1>10. Reaching(with, S, next, N)
  <2>1. ASSUME NEW n \in 1..N PROVE with[n] = Onward(with[n - 1], next)
    <3>1. n \in 0..N /\ n # 0
      BY <1>1
    <3> QED
      BY <1>9, <3>1
  <2>2. with[0] = S
    <3>1. 0 \in 0..N
      BY <1>1
    <3> QED
      BY <1>9, <3>1
  <2> DEFINE P == {n \in 0..N : with[n] \in U}
  <2>3. 0 \in P
    BY <1>1, <1>3, <2>2
  <2>4. ASSUME NEW n \in 1..N, n - 1 \in P PROVE n \in P
    <3>1. n \in 0..N
      BY <1>1
    <3> QED
      BY <1>2, <2>1, <2>4, <3>1
  <2> HIDE DEF P
  <2>5. \A n \in 0..N : n \in P
    BY <1>1, <2>3, <2>4, UpTo
  <2>6. \A n \in 0..N : with[n] \in U
    BY <2>5 DEF P
  <2>7. with \in [0..N -> U]
    BY <1>9, <2>6
  <2> QED
    BY <2>1, <2>2, <2>7 DEF Reaching, U
<1> QED
  BY <1>1, <1>4, <1>10 DEF N

\* It holds what it starts from, and it is the least such set that next does not leave.
LEMMA ClosureIsLeast ==
    ASSUME NEW S, NEW next, IsFiniteSet(DOMAIN next)
    PROVE  /\ S \subseteq Closure(S, next)
           /\ \A T : S \subseteq T /\ Closed(T, next) => Closure(S, next) \subseteq T
<1> DEFINE N == Cardinality(DOMAIN next)
<1>1. N \in Nat
  BY ClosureReached
<1>2. PICK after : Reaching(after, S, next, N) /\ Closure(S, next) = after[N]
  BY ClosureReached
<1> HIDE DEF N
<1>3. ASSUME NEW T, S \subseteq T, Closed(T, next) PROVE after[N] \subseteq T
  <2> DEFINE P == {n \in 0..N : after[n] \subseteq T}
  <2>1. 0 \in P
    BY <1>1, <1>2, <1>3 DEF Reaching
  <2>2. ASSUME NEW n \in 1..N, n - 1 \in P PROVE n \in P
    <3>1. n \in 0..N /\ after[n] = Onward(after[n - 1], next) /\ after[n - 1] \subseteq T
      BY <1>1, <1>2, <2>2 DEF Reaching
    <3>2. Onward(after[n - 1], next) \subseteq T
      BY <1>3, <3>1 DEF Onward, Closed
    <3> QED
      BY <3>1, <3>2
  <2> HIDE DEF P
  <2>3. \A n \in 0..N : n \in P
    BY <1>1, <2>1, <2>2, UpTo
  <2>4. N \in P
    BY <1>1, <2>3
  <2> QED
    BY <2>4 DEF P
<1>4. S \subseteq after[N]
  <2> DEFINE P == {n \in 0..N : S \subseteq after[n]}
  <2>1. 0 \in P
    BY <1>1, <1>2 DEF Reaching
  <2>2. ASSUME NEW n \in 1..N, n - 1 \in P PROVE n \in P
    <3>1. n \in 0..N /\ after[n] = Onward(after[n - 1], next) /\ S \subseteq after[n - 1]
      BY <1>1, <1>2, <2>2 DEF Reaching
    <3> QED
      BY <3>1 DEF Onward
  <2> HIDE DEF P
  <2>3. \A n \in 0..N : n \in P
    BY <1>1, <2>1, <2>2, UpTo
  <2>4. N \in P
    BY <1>1, <2>3
  <2> QED
    BY <2>4 DEF P
<1> QED
  BY <1>2, <1>3, <1>4

\* A set that grows has more elements.
LEMMA Larger ==
    ASSUME NEW S, NEW T, IsFiniteSet(T), S \subseteq T, S # T
    PROVE  /\ Cardinality(S) \in Nat /\ Cardinality(T) \in Nat
           /\ Cardinality(S) + 1 <= Cardinality(T)
<1>1. IsFiniteSet(S)
  BY FS_Subset
<1>2. Cardinality(S) \in Nat /\ Cardinality(T) \in Nat
  BY <1>1, FS_CardinalityType
<1>3. Cardinality(S) <= Cardinality(T) /\ (Cardinality(S) = Cardinality(T) => S = T)
  BY <1>1, FS_Subset
<1> QED
  BY <1>2, <1>3

\* As many steps as next has places are enough: a step that reaches none of them for the
\* first time is the last.
LEMMA ClosureIsClosed ==
    ASSUME NEW S, NEW next, IsFiniteSet(DOMAIN next)
    PROVE  Closed(Closure(S, next), next)
<1> DEFINE D == DOMAIN next
           N == Cardinality(D)
<1>1. N \in Nat
  BY ClosureReached
<1>2. PICK after : Reaching(after, S, next, N) /\ Closure(S, next) = after[N]
  BY ClosureReached
<1>3. IsFiniteSet(D)
  OBVIOUS
<1> DEFINE met(n) == after[n] \cap D
<1> HIDE DEF N, D
<1> DEFINE P == {n \in 0..N : Closed(after[n], next) \/ n + 1 <= Cardinality(met(n))}
<1>4. ASSUME NEW n \in 0..N
      PROVE  IsFiniteSet(met(n)) /\ met(n) \subseteq D /\ Cardinality(met(n)) \in Nat
  <2>1. met(n) \subseteq D
    OBVIOUS
  <2> HIDE DEF met
  <2>2. IsFiniteSet(met(n))
    BY <1>3, <2>1, FS_Subset
  <2> QED
    BY <2>1, <2>2, FS_CardinalityType
<1>5. 0 \in P
  <2>1. 0 \in 0..N
    BY <1>1
  <2>2. ASSUME ~Closed(after[0], next) PROVE 1 <= Cardinality(met(0))
    <3>1. met(0) # {}
      BY <2>2 DEF Closed, D
    <3>2. {} # met(0) /\ {} \subseteq met(0) /\ IsFiniteSet(met(0))
      BY <1>4, <2>1, <3>1
    <3> HIDE DEF met
    <3>3. Cardinality({}) + 1 <= Cardinality(met(0)) /\ Cardinality({}) = 0
      BY <3>2, Larger, FS_EmptySet
    <3> QED
      BY <3>3
  <2> HIDE DEF met
  <2> QED
    BY <2>1, <2>2
<1>6. ASSUME NEW n \in 1..N, n - 1 \in P PROVE n \in P
  <2> DEFINE m == n - 1
  <2>1. m \in 0..N /\ n \in 0..N /\ n = m + 1 /\ m \in Nat
    BY <1>1
  <2>2. after[n] = Onward(after[m], next)
    BY <1>2 DEF Reaching
  <2>3. Closed(after[m], next) \/ m + 1 <= Cardinality(met(m))
    BY <1>6
  <2> HIDE DEF m
  <2>4. CASE Closed(after[m], next)
    <3>1. Onward(after[m], next) = after[m]
      BY <2>4 DEF Closed, Onward
    <3> QED
      BY <2>1, <2>2, <2>4, <3>1
  <2>5. CASE met(n) = met(m)
    <3>1. Closed(after[n], next)
      BY <2>2, <2>5 DEF Closed, Onward, D
    <3> QED
      BY <2>1, <3>1
  <2>6. CASE m + 1 <= Cardinality(met(m)) /\ met(n) # met(m)
    <3>1. met(m) \subseteq met(n)
      BY <2>2 DEF Onward
    <3> HIDE DEF met
    <3>2. Cardinality(met(m)) + 1 <= Cardinality(met(n))
      BY <1>4, <2>1, <2>6, <3>1, Larger
    <3>3. Cardinality(met(m)) \in Nat /\ Cardinality(met(n)) \in Nat
      BY <1>4, <2>1
    <3>4. n + 1 <= Cardinality(met(n))
      BY <2>1, <2>6, <3>2, <3>3
    <3> QED
      BY <2>1, <3>4
  <2> QED
    BY <2>3, <2>4, <2>5, <2>6
<1> HIDE DEF P
<1>7. N \in P
  <2>1. \A n \in 0..N : n \in P
    BY <1>1, <1>5, <1>6, UpTo
  <2> QED
    BY <1>1, <2>1
<1>8. ~(N + 1 <= Cardinality(met(N)))
  <2>1. N \in 0..N
    BY <1>1
  <2>2. met(N) \subseteq D /\ Cardinality(met(N)) \in Nat
    BY <1>4, <2>1
  <2> HIDE DEF met
  <2>3. Cardinality(met(N)) <= Cardinality(D)
    BY <1>3, <2>2, FS_Subset
  <2> QED
    BY <1>1, <2>2, <2>3 DEF N
<1> QED
  BY <1>2, <1>7, <1>8 DEF P

-----------------------------------------------------------------------------
(* The inductive invariant.                                                *)

\* From which pass on: dependencies are targets; extracts that no action reads are
\* gone; names are final; they are unique; there is no cycle.
Resolved == {"removeExtracts", "rename", "removeDuplicates", "checkTests", "checkCircularity",
             "done", "pruned"}
Trimmed  == Resolved \ {"removeExtracts"}
Final    == Trimmed \ {"rename"}
Unique   == Final \ {"removeDuplicates"}
Ordered  == {"done", "pruned"}

Files == {project[i].file : i \in DOMAIN project}

\* Actions that the project's constructors can have made; without a fault, too.
Fit(acts, files) ==
    /\ acts \in Seq(EveryAction)
    /\ \A i \in DOMAIN acts : Sound(acts[i]) /\ acts[i].file \in files
Whole(acts, c) == Guarded(acts, c) /\ \A i \in DOMAIN acts : acts[i].faults = {}

Built ==
    /\ Fit(actions, Files) /\ Fit(tests, Files)
    /\ \A i \in DOMAIN graph : graph[i].file \in Files
    /\ errors = {} /\ phase # "threw" => Whole(actions, settings) /\ Whole(tests, settings)

Idle ==
    /\ phase = "load" => queue = {} /\ DOMAIN graph = {}
    /\ phase \notin {"load", "compile", "threw"} => queue = {}
    /\ phase # "pruned" => selected = {}

\* The actions that a dependency finds.
Found(i, k) == FindActions(actions[i].deps[k], actions, settings)

\* The relation that SQL names for the action m; a target's name in the graph.
FinalName(m) == IF actions[m].kind = "declaration" THEN actions[m].target
                ELSE FinalTarget(settings, actions[m].target)
Alias(t) == IF \E m \in DOMAIN actions : actions[m].kind # "declaration" /\ actions[m].target = t
            THEN FinalTarget(settings, t) ELSE t
Now(t)   == IF phase \in Final THEN Alias(t) ELSE t

\* All the actions with the target t are in the graph.
Present(t) == \A m \in DOMAIN actions : actions[m].target = t => m \in DOMAIN graph

\* The entry of an action in the graph has what it has.
Same(i) ==
    /\ i \notin queue
    /\ graph[i].kind = actions[i].kind /\ graph[i].chunk = Chunk(actions[i].kind)
    /\ graph[i].file = actions[i].file /\ graph[i].inline = actions[i].inline
    /\ graph[i].disabled = actions[i].disabled
    /\ graph[i].target = IF phase \in Final THEN FinalName(i) ELSE actions[i].target

\* Its SQL names what its dependencies find; an inline assertion's, its table.
Reading(i) ==
    /\ \A x \in graph[i].texts : Reads(x, actions[i], actions, settings)
    /\ graph[i].inline => \E t \in DOMAIN actions :
          /\ Guards(actions[i], actions[t], settings)
          /\ graph[i].texts = {TextOf(actions[t], settings)}
          /\ \E k \in DOMAIN actions[i].deps :
                Found(i, k) = {t} /\ TargetOf(actions[i].deps[k]) = actions[t].target

\* It waits for what its dependencies find, and for nothing that is not an action.
Waiting(i) ==
    /\ actions[i].kind \in {"declaration", "extract"} => graph[i].deps = {}
    /\ phase \notin Resolved => Range(actions[i].deps) \subseteq graph[i].deps
    /\ phase \in Resolved =>
        /\ \A t \in graph[i].deps : \E k \in DOMAIN actions :
              t = Now(actions[k].target) /\ (phase \in Trimmed => Present(actions[k].target))
        /\ \A k \in DOMAIN actions[i].deps :
              /\ \E m \in DOMAIN actions :
                    Found(i, k) = {m} /\ Now(actions[m].target) \in graph[i].deps
              /\ actions[i].deps[k].assertions = "yes" =>
                    \A x \in AssertionsOf(actions[i].deps[k]) :
                        Now(actions[x].target) \in graph[i].deps

\* An extract that nothing finds.
Unwanted(i) ==
    /\ phase \in Trimmed /\ actions[i].kind = "extract"
    /\ \A j \in DOMAIN actions : \A k \in DOMAIN actions[j].deps : i \notin Found(j, k)

Compiling ==
    errors = {} /\ phase \notin {"load", "threw"} =>
        /\ \A i \in DOMAIN graph : Same(i) /\ Reading(i) /\ Waiting(i)
        /\ \A i \in DOMAIN actions \ DOMAIN graph : i \in queue \/ Unwanted(i)
        /\ phase \in Unique => Duplicates = {}
        /\ phase \in Ordered => Circular = {}

Selecting == phase = "pruned" => selected = IncludedActionNames(selection)

IInv == TypeOK /\ Built /\ Idle /\ Compiling /\ Selecting

-----------------------------------------------------------------------------
(* Loading.                                                                *)

LEMMA SettingsAreSensible == \A c \in Settings : Sensible(c)
BY SessionAssumption DEF Sensible, NamesOf

LEMMA FitJoined ==
    ASSUME NEW files, NEW a, Fit(a, files), NEW b, Fit(b, files)
    PROVE  Fit(a \o b, files)
<1> DEFINE T == {x \in EveryAction : Sound(x) /\ x.file \in files}
<1>1. a \in Seq(T) /\ b \in Seq(T)
  <2>1. \A i \in DOMAIN a : a[i] \in T
    BY Elements DEF Fit
  <2>2. \A i \in DOMAIN b : b[i] \in T
    BY Elements DEF Fit
  <2>3. a \in Seq(EveryAction) /\ b \in Seq(EveryAction)
    BY DEF Fit
  <2> HIDE DEF T
  <2> QED
    BY <2>1, <2>2, <2>3, Narrowed
<1>2. T \subseteq EveryAction
  OBVIOUS
<1> DEFINE ab == a \o b
<1>3. ab \in Seq(T)
  <2> HIDE DEF T
  <2> QED
    BY <1>1, ConcatProperties
<1> HIDE DEF ab
<1>4. ab \in Seq(EveryAction) /\ \A i \in DOMAIN ab : ab[i] \in T
  <2> HIDE DEF T
  <2> QED
    BY <1>2, <1>3, Elements
<1> QED
  BY <1>4 DEF Fit, ab

LEMMA WholeJoined ==
    ASSUME NEW c, NEW a \in Seq(EveryAction), Whole(a, c), NEW b \in Seq(EveryAction), Whole(b, c)
    PROVE  Whole(a \o b, c)
<1> DEFINE ab == a \o b
<1>1. /\ \A i \in DOMAIN a : i \in DOMAIN ab /\ ab[i] = a[i]
      /\ \A i \in DOMAIN b : Len(a) + i \in DOMAIN ab /\ ab[Len(a) + i] = b[i]
      /\ \A i \in DOMAIN ab : i \in Nat /\ (i \in DOMAIN a \/ i - Len(a) \in DOMAIN b)
      /\ Len(a) \in Nat
  BY Concatenated
<1> HIDE DEF ab
<1>2. ASSUME NEW i \in DOMAIN ab
      PROVE  \/ i \in DOMAIN a /\ ab[i] = a[i]
             \/ \E j \in DOMAIN b : ab[i] = b[j]
  <2>1. CASE i \in DOMAIN a
    BY <1>1, <2>1
  <2>2. CASE i - Len(a) \in DOMAIN b
    <3> DEFINE n == Len(a)
               j == i - n
    <3>1. i \in Nat /\ n \in Nat
      BY <1>1
    <3>2. j \in DOMAIN b
      BY <2>2
    <3> HIDE DEF n
    <3>3. n + j = i
      BY <3>1
    <3> HIDE DEF j
    <3>4. ab[n + j] = b[j]
      BY <1>1, <3>2 DEF n
    <3> QED
      BY <3>2, <3>3, <3>4
  <2> QED
    BY <1>1, <2>1, <2>2
<1>3. \A i \in DOMAIN ab : ab[i].faults = {}
  BY <1>2 DEF Whole
<1>4. ASSUME NEW i \in DOMAIN ab, ab[i].inline PROVE \E k \in DOMAIN ab : Guards(ab[i], ab[k], c)
  <2>1. CASE ab[i] = a[i] /\ i \in DOMAIN a
    <3>1. PICK k \in DOMAIN a : Guards(a[i], a[k], c)
      BY <1>4, <2>1 DEF Whole, Guarded
    <3> QED
      BY <1>1, <2>1, <3>1
  <2>2. ASSUME NEW j \in DOMAIN b, ab[i] = b[j] PROVE \E k \in DOMAIN ab : Guards(ab[i], ab[k], c)
    <3>1. PICK k \in DOMAIN b : Guards(b[j], b[k], c)
      BY <1>4, <2>2 DEF Whole, Guarded
    <3>2. Len(a) + k \in DOMAIN ab /\ ab[Len(a) + k] = b[k]
      BY <1>1
    <3> QED
      BY <2>2, <3>1, <3>2
  <2> QED
    BY <1>2, <2>1, <2>2
<1> QED
  BY <1>3, <1>4 DEF Whole, Guarded, ab

LEMMA Starts == Init => IInv
<1> SUFFICES ASSUME Init PROVE IInv
  OBVIOUS
<1>1. /\ phase = "load" /\ loaded = 0 /\ actions = << >> /\ tests = << >> /\ servers = {}
      /\ queue = {} /\ graph = << >> /\ errors = {} /\ targets = {} /\ selection = Everything
      /\ selected = {} /\ settings \in Settings /\ project \in Projects
  BY DEF Init
<1>2. project \in Seq(EveryDefinition)
  BY <1>1, SessionAssumption
<1>3. << >> \in Seq(EveryAction) /\ DOMAIN << >> = {} /\ Len(project) \in Nat
  BY <1>2
<1>4. TypeOK
  BY <1>1, <1>2, <1>3 DEF TypeOK
<1>5. Built
  BY <1>1, <1>3 DEF Built, Fit, Whole, Guarded
<1>6. Idle /\ Compiling /\ Selecting
  BY <1>1, <1>3 DEF Idle, Compiling, Selecting
<1> QED
  BY <1>4, <1>5, <1>6 DEF IInv

\* What errors a compilation reports: those of the faults of actions, at least.
LEMMA FaultsAreErrors ==
    ASSUME NEW files, NEW acts, Fit(acts, files)
    PROVE  /\ \A e \in FaultsOf(acts) : e.file \in files
           /\ FaultsOf(acts) = {} => \A i \in DOMAIN acts : acts[i].faults = {}
<1>1. ASSUME NEW e \in FaultsOf(acts) PROVE e.file \in files
  <2>1. PICK i \in DOMAIN acts : \E w \in acts[i].faults : e = Error(w, acts[i].file)
    BY DEF FaultsOf
  <2> QED
    BY <2>1 DEF Error, Fit
<1>2. ASSUME FaultsOf(acts) = {}, NEW i \in DOMAIN acts PROVE acts[i].faults = {}
  <2> SUFFICES ASSUME NEW w \in acts[i].faults PROVE FALSE
    OBVIOUS
  <2>1. Error(w, acts[i].file) \in FaultsOf(acts)
    BY DEF FaultsOf
  <2> QED
    BY <1>2, <2>1
<1> QED
  BY <1>1, <1>2

LEMMA LoadKeeps ==
    ASSUME IInv, Load
    PROVE  IInv'
<1> DEFINE d == project[loaded + 1]
           made == New(d, settings, servers)
           new == made.actions
<1>1. /\ phase = "load" /\ loaded < Len(project) /\ loaded' = loaded + 1
      /\ UNCHANGED <<project, settings, queue, graph, targets, selection, selected>>
  BY DEF Load
<1>2. /\ project \in Seq(EveryDefinition) /\ settings \in Settings /\ loaded \in 0..Len(project)
      /\ actions \in Seq(EveryAction) /\ tests \in Seq(EveryAction)
      /\ servers \subseteq {project[i].connection : i \in DOMAIN project}
      /\ DOMAIN graph = {} /\ graph \in [DOMAIN graph -> EveryEntry] /\ queue = {}
      /\ \A e \in errors : e.file \in Files
      /\ targets \subseteq {actions[i].target : i \in DOMAIN actions}
      /\ selection \in Selections \cup {Everything} /\ selected = {}
  BY <1>1 DEF IInv, TypeOK, Idle, Files
<1>3. loaded + 1 \in DOMAIN project /\ loaded' \in 0..Len(project)
  BY <1>1, <1>2
<1>4. d \in EveryDefinition /\ d.file \in Files /\ d.connection \in {project[i].connection : i \in DOMAIN project}
  BY <1>2, <1>3 DEF Files
<1> HIDE DEF d
<1>5. Made(made, d) /\ (~made.threw => Guarded(new, settings))
  BY <1>2, <1>4, SettingsAreSensible, NewIsSound
<1> HIDE DEF made
<1>6. Fit(new, Files)
  BY <1>4, <1>5 DEF Fit, Made, Good
<1> HIDE DEF new
<1>7. Fit(actions, Files) /\ Fit(tests, Files)
  BY DEF IInv, Built
<1>8. \/ /\ errors' = errors \cup {Error("refused", d.file)}
         /\ UNCHANGED <<phase, actions, tests, servers>>
      \/ /\ phase' \in {"load", "threw"}
         /\ \/ actions' = actions /\ tests' = tests \o new
            \/ actions' = actions \o new /\ tests' = tests
         /\ servers' \in {servers, servers \cup {d.connection}}
         /\ errors' = errors \cup FaultsOf(new)
                        \cup (IF d.source = "sqlx" THEN SqlxErrors(d) ELSE {})
                        \cup (IF made.threw THEN {Error(d.flaw, d.file)} ELSE {})
  BY <1>1 DEF Load, d, made, new
<1>9. Fit(actions', Files) /\ Fit(tests', Files)
  BY <1>6, <1>7, <1>8, FitJoined
<1>10. actions' \in Seq(EveryAction) /\ tests' \in Seq(EveryAction)
  BY <1>9 DEF Fit
<1>11. \A i \in DOMAIN actions : i \in DOMAIN actions' /\ actions'[i] = actions[i]
  <2>1. new \in Seq(EveryAction)
    BY <1>6 DEF Fit
  <2> DEFINE ab == actions \o new
  <2>2. \A i \in DOMAIN actions : i \in DOMAIN ab /\ ab[i] = actions[i]
    BY <1>2, <2>1, Concatenated
  <2>3. actions' = actions \/ actions' = ab
    BY <1>8
  <2> HIDE DEF ab
  <2> QED
    BY <2>2, <2>3
<1>12. \A e \in errors' : e.file \in Files
  <2>1. \A e \in SqlxErrors(d) : e.file = d.file
    BY DEF SqlxErrors, Error
  <2>2. \A what : Error(what, d.file).file = d.file
    BY DEF Error
  <2>3. \A e \in FaultsOf(new) : e.file \in Files
    BY <1>6, FaultsAreErrors
  <2> QED
    BY <1>2, <1>4, <1>8, <2>1, <2>2, <2>3
<1>13. ASSUME errors' = {}, phase' # "threw" PROVE Whole(actions', settings) /\ Whole(tests', settings)
  <2>1. errors = {} /\ FaultsOf(new) = {} /\ ~made.threw
    BY <1>8, <1>13
  <2>2. Whole(actions, settings) /\ Whole(tests, settings)
    BY <1>1, <2>1 DEF IInv, Built
  <2>3. \A i \in DOMAIN new : new[i].faults = {}
    BY <1>6, <2>1, FaultsAreErrors
  <2>4. Whole(new, settings) /\ new \in Seq(EveryAction)
    BY <1>5, <1>6, <2>1, <2>3 DEF Whole, Fit
  <2>5. Whole(actions \o new, settings) /\ Whole(tests \o new, settings)
    BY <1>2, <2>2, <2>4, WholeJoined
  <2>6. errors' # errors \cup {Error("refused", d.file)}
    BY <1>13
  <2> QED
    BY <1>8, <2>2, <2>5, <2>6
<1>14. Built'
  BY <1>1, <1>2, <1>9, <1>13 DEF Built, Files
<1>15. TypeOK'
  <2>1. phase' \in {"load", "threw"}
    BY <1>1, <1>8
  <2>2. servers' \subseteq {project[i].connection : i \in DOMAIN project}
    BY <1>2, <1>4, <1>8
  <2>3. targets \subseteq {actions'[i].target : i \in DOMAIN actions'}
    BY <1>2, <1>11
  <2> QED
    BY <1>1, <1>2, <1>3, <1>10, <1>12, <2>1, <2>2, <2>3 DEF TypeOK, Files
<1>16. Idle' /\ Compiling' /\ Selecting'
  BY <1>1, <1>2, <1>8 DEF Idle, Compiling, Selecting
<1> QED
  BY <1>14, <1>15, <1>16 DEF IInv

-----------------------------------------------------------------------------
(* Compiling.                                                              *)

LEMMA StartCompileKeeps ==
    ASSUME IInv, StartCompile
    PROVE  IInv'
<1>1. /\ phase = "load" /\ actions' = actions \o tests /\ queue' = DOMAIN actions'
      /\ phase' \in {"compile", "threw"}
      /\ UNCHANGED <<project, settings, loaded, tests, servers, graph, errors, targets, selection,
                     selected>>
  BY DEF StartCompile
<1>2. /\ TypeOK /\ DOMAIN graph = {} /\ selected = {}
      /\ actions \in Seq(EveryAction) /\ tests \in Seq(EveryAction)
  BY <1>1 DEF IInv, Idle, TypeOK
<1>3. Fit(actions', Files) /\ Fit(tests', Files) /\ actions' \in Seq(EveryAction)
  <2>1. Fit(actions, Files) /\ Fit(tests, Files)
    BY DEF IInv, Built
  <2>2. Fit(actions', Files)
    BY <1>1, <2>1, FitJoined
  <2> QED
    BY <1>1, <2>1, <2>2 DEF Fit
<1>4. errors' = {} => Whole(actions', settings) /\ Whole(tests', settings)
  <2>1. errors = {} => Whole(actions, settings) /\ Whole(tests, settings)
    BY <1>1 DEF IInv, Built
  <2> QED
    BY <1>1, <1>2, <2>1, WholeJoined
<1>5. Built'
  BY <1>1, <1>2, <1>3, <1>4 DEF Built, Files
<1>6. TypeOK'
  <2>1. targets' \subseteq {actions'[i].target : i \in DOMAIN actions'}
    <3> DEFINE ab == actions \o tests
    <3>1. \A i \in DOMAIN actions : i \in DOMAIN ab /\ ab[i] = actions[i]
      BY <1>2, Concatenated
    <3>2. actions' = ab
      BY <1>1
    <3> HIDE DEF ab
    <3> QED
      BY <1>1, <1>2, <3>1, <3>2 DEF TypeOK
  <2>2. DOMAIN graph' \subseteq DOMAIN actions'
    BY <1>1, <1>2
  <2> QED
    BY <1>1, <1>2, <1>3, <2>1, <2>2 DEF TypeOK
<1>7. Idle' /\ Selecting'
  BY <1>1, <1>2 DEF Idle, Selecting
<1>8. Compiling'
  BY <1>1, <1>2 DEF Compiling, Unique, Final, Trimmed, Resolved, Ordered
<1> QED
  BY <1>5, <1>6, <1>7, <1>8 DEF IInv

\* Lookups, names and guards do not depend on what compile() changes.
Similar(acts, bs) == DOMAIN acts = DOMAIN bs /\ \A m \in DOMAIN acts : Alike(acts[m], bs[m])

LEMMA SimilarlyRead ==
    ASSUME NEW c, NEW acts, NEW bs, Similar(acts, bs)
    PROVE  /\ \A ref : FindActions(ref, acts, c) = FindActions(ref, bs, c)
           /\ \A m \in DOMAIN acts : TextOf(acts[m], c) = TextOf(bs[m], c)
           /\ \A x, a : Reads(x, a, acts, c) => Reads(x, a, bs, c)
           /\ \A a : \A m \in DOMAIN acts : Guards(a, acts[m], c) => Guards(a, bs[m], c)
<1>1. DOMAIN acts = DOMAIN bs /\ \A m \in DOMAIN acts : Alike(acts[m], bs[m])
  BY DEF Similar
<1>2. \A m \in DOMAIN acts : acts[m].target = bs[m].target /\ acts[m].kind = bs[m].kind
                             /\ acts[m].file = bs[m].file /\ acts[m].disabled = bs[m].disabled
  BY <1>1 DEF Alike
<1>3. \A ref : FindActions(ref, acts, c) = FindActions(ref, bs, c)
  BY <1>1, <1>2, FoundByTarget
<1>4. \A m \in DOMAIN acts : TextOf(acts[m], c) = TextOf(bs[m], c)
  BY <1>2 DEF TextOf
<1>5. \A x, a : Reads(x, a, acts, c) => Reads(x, a, bs, c)
  BY <1>1, <1>3, <1>4 DEF Reads
<1>6. \A a : \A m \in DOMAIN acts : Guards(a, acts[m], c) => Guards(a, bs[m], c)
  BY <1>2 DEF Guards
<1> QED
  BY <1>3, <1>4, <1>5, <1>6

LEMMA SimilarlyGuarded ==
    ASSUME NEW c, NEW acts, NEW bs, Similar(acts, bs), Guarded(acts, c)
    PROVE  Guarded(bs, c)
<1> SUFFICES ASSUME NEW i \in DOMAIN bs, bs[i].inline
             PROVE  \E j \in DOMAIN bs : Guards(bs[i], bs[j], c)
  BY DEF Guarded
<1>1. DOMAIN acts = DOMAIN bs /\ Alike(acts[i], bs[i])
  BY DEF Similar
<1>2. acts[i].inline /\ bs[i].file = acts[i].file /\ bs[i].disabled = acts[i].disabled
      /\ bs[i].reads = acts[i].reads
  BY <1>1 DEF Alike
<1>3. PICK j \in DOMAIN acts : Guards(acts[i], acts[j], c)
  BY <1>1, <1>2 DEF Guarded
<1>4. Guards(acts[i], bs[j], c)
  BY <1>3, SimilarlyRead
<1> QED
  BY <1>1, <1>2, <1>4 DEF Guards

\* What compile() makes of the action i.
LEMMA OneCompiled ==
    ASSUME NEW c, Sensible(c), NEW files, NEW acts, Fit(acts, files), NEW i \in DOMAIN acts,
           NEW done, done = Compile(acts[i], acts, c), NEW bs, bs = [acts EXCEPT ![i] = done.action]
    PROVE  /\ Result(done, acts[i], acts, c) /\ Fit(bs, files) /\ Similar(acts, bs)
           /\ bs[i] = done.action /\ DOMAIN bs = DOMAIN acts
           /\ \A j \in DOMAIN acts : j # i => bs[j] = acts[j]
<1>1. acts \in Seq(EveryAction) /\ acts[i] \in EveryAction /\ Sound(acts[i]) /\ acts[i].file \in files
  <2>1. acts \in Seq(EveryAction)
    BY DEF Fit
  <2> QED
    BY <2>1, Elements DEF Fit
<1>2. Result(done, acts[i], acts, c)
  BY <1>1, CompileIsSound
<1>3. done.action \in EveryAction /\ Sound(done.action) /\ Alike(acts[i], done.action)
  BY <1>2 DEF Result
<1>4. /\ bs[i] = done.action /\ DOMAIN bs = DOMAIN acts
      /\ \A j \in DOMAIN acts : j # i => bs[j] = acts[j]
  BY <1>1
<1>5. bs \in Seq(EveryAction)
  BY <1>1, <1>3
<1>6. \A m \in DOMAIN acts : Alike(acts[m], bs[m])
  <2>1. \A a : Alike(a, a)
    BY DEF Alike
  <2> QED
    BY <1>3, <1>4, <2>1
<1>7. \A m \in DOMAIN bs : Sound(bs[m]) /\ bs[m].file \in files
  <2>1. done.action.file = acts[i].file
    BY <1>3 DEF Alike
  <2> QED
    BY <1>1, <1>3, <1>4, <2>1 DEF Fit
<1> QED
  BY <1>2, <1>4, <1>5, <1>6, <1>7 DEF Fit, Similar

\* What compile() made of an inline assertion names its table.
ReadsItsTable(done, t, acts, c) ==
    /\ done.texts = {TextOf(acts[t], c)}
    /\ \E k \in DOMAIN done.action.deps :
          /\ FindActions(done.action.deps[k], acts, c) = {t}
          /\ TargetOf(done.action.deps[k]) = acts[t].target

LEMMA GuardIsReadWhenDone ==
    ASSUME NEW c, Sensible(c), NEW acts \in Seq(EveryAction), NEW a \in EveryAction, Sound(a),
           a.inline, NEW t \in DOMAIN acts, Guards(a, acts[t], c),
           NEW done, done = Compile(a, acts, c), done.action.faults = {}
    PROVE  ReadsItsTable(done, t, acts, c)
<1>1. Compile(a, acts, c).action.faults = {}
  OBVIOUS
<1> QED
  BY <1>1, GuardIsRead DEF ReadsItsTable

LEMMA ChunkOfKind == \A kind \in Kinds : Chunk(kind) \in Range(Chunks)
<1>1. Range(Chunks) = {"tables", "operations", "assertions", "declarations", "tests", "notebooks",
                       "dataPreparations", "exports", "imports", "extracts", "scripts"}
  <2>1. DOMAIN Chunks = 1..11
    BY DEF Chunks
  <2>2. 1..11 = {1, 2, 3, 4, 5, 6, 7, 8, 9, 10, 11}
    OBVIOUS
  <2> QED
    BY <2>1, <2>2 DEF Range, Chunks
<1>2. ASSUME NEW kind \in Kinds PROVE Chunk(kind) \in Range(Chunks)
  <2>1. \/ kind \in Datasets \/ kind \in Statements
        \/ kind \in {"assertion", "declaration", "test", "notebook", "dataPreparation", "export",
                     "import", "script", "extract"}
    BY DEF Kinds, Definable, Statements
  <2>2. CASE kind \in Datasets
    <3>1. Chunk(kind) = "tables"
      BY <2>2 DEF Chunk, Datasets, Statements
    <3> QED
      BY <1>1, <3>1
  <2>3. CASE kind \in Statements
    <3>1. Chunk(kind) = "operations"
      BY <2>3 DEF Chunk, Datasets, Statements
    <3> QED
      BY <1>1, <3>1
  <2>4. CASE kind \in {"assertion", "declaration", "test", "notebook", "dataPreparation", "export",
                       "import", "script", "extract"}
    <3>1. Chunk(kind) \in {"assertions", "declarations", "tests", "notebooks", "dataPreparations",
                           "exports", "imports", "extracts", "scripts"}
      BY <2>4 DEF Chunk, Datasets, Statements
    <3> HIDE <2>4
    <3> QED
      BY <1>1, <3>1
  <2> QED
    BY <2>1, <2>2, <2>3, <2>4
<1> QED
  BY <1>2

LEMMA ChunkTells ==
    \A kind \in Kinds :
        /\ Chunk(kind) = "declarations" <=> kind = "declaration"
        /\ Chunk(kind) = "extracts" <=> kind = "extract"
        /\ kind \in Datasets <=> Chunk(kind) = "tables"
        /\ kind = "assertion" => Chunk(kind) = "assertions"
<1>1. ASSUME NEW kind \in Kinds
      PROVE  /\ Chunk(kind) = "declarations" <=> kind = "declaration"
             /\ Chunk(kind) = "extracts" <=> kind = "extract"
             /\ kind \in Datasets <=> Chunk(kind) = "tables"
             /\ kind = "assertion" => Chunk(kind) = "assertions"
  <2>1. \/ kind \in Datasets \/ kind \in Statements
        \/ kind \in {"assertion", "declaration", "test", "notebook", "dataPreparation", "export",
                     "import", "script", "extract"}
    BY DEF Kinds, Definable, Statements
  <2>2. CASE kind \in Datasets
    BY <2>2 DEF Chunk, Datasets, Statements
  <2>3. CASE kind \in Statements
    BY <2>3 DEF Chunk, Datasets, Statements
  <2>4. CASE kind \in {"assertion", "declaration", "test", "notebook", "dataPreparation", "export",
                       "import", "script", "extract"}
    BY <2>4 DEF Chunk, Datasets, Statements
  <2> QED
    BY <2>1, <2>2, <2>3, <2>4
<1> QED
  BY <1>1

LEMMA EntryIsTyped ==
    ASSUME NEW a \in EveryAction, NEW done,
           done.texts \subseteq EveryTarget, done.names \subseteq EveryTarget
    PROVE  LET g == Entry(a, done) IN
           /\ g \in EveryEntry /\ g.kind = a.kind /\ g.chunk = Chunk(a.kind) /\ g.file = a.file
           /\ g.inline = a.inline /\ g.disabled = a.disabled /\ g.target = a.target
           /\ g.deps = Range(a.deps) /\ g.texts = done.texts
<1> DEFINE deps == Range(a.deps)
<1>1. /\ a.kind \in Kinds /\ a.file \in Words /\ a.target \in EveryTarget /\ a.canonical \in EveryTarget
      /\ a.parent \in EveryTarget /\ a.inline \in BOOLEAN /\ a.disabled \in BOOLEAN
      /\ a.tags \in SUBSET Words /\ a.deps \in Seq(EveryRef)
  BY DEF EveryAction
<1>2. Chunk(a.kind) \in Range(Chunks)
  BY <1>1, ChunkOfKind
<1>3. deps \in SUBSET (EveryRef \cup EveryTarget)
  BY <1>1 DEF Range
<1> DEFINE chunks == Range(Chunks)
           chunk == Chunk(a.kind)
<1> HIDE DEF deps, chunk, chunks
<1>4. Entry(a, done) =
        [chunk |-> chunk, kind |-> a.kind, file |-> a.file, target |-> a.target,
         canonical |-> a.canonical, deps |-> deps, parent |-> a.parent, inline |-> a.inline,
         disabled |-> a.disabled, tags |-> a.tags, texts |-> done.texts, names |-> done.names]
  BY DEF Entry, deps, chunk
<1>5. chunk \in chunks
  BY <1>2 DEF chunk, chunks
<1>6. Entry(a, done) \in EveryEntry
  BY <1>1, <1>3, <1>4, <1>5 DEF EveryEntry, chunks
<1> QED
  BY <1>4, <1>6 DEF deps, chunk

LEMMA CompileNextKeeps ==
    ASSUME IInv, CompileNext
    PROVE  IInv'
<1>1. PICK i \in queue :
        LET done == Compile(actions[i], actions, settings) IN
        /\ actions' = [actions EXCEPT ![i] = done.action]
        /\ graph' = IF done.dropped THEN graph
                    ELSE [j \in DOMAIN graph \cup {i} |->
                            IF j = i THEN Entry(done.action, done) ELSE graph[j]]
        /\ errors' = errors \cup FaultsOf(<<done.action>>)
        /\ queue' = queue \ {i}
  BY DEF CompileNext
<1> DEFINE done == Compile(actions[i], actions, settings)
           a == done.action
           entry == Entry(a, done)
<1>2. /\ phase = "compile"
      /\ UNCHANGED <<project, settings, phase, loaded, tests, servers, targets, selection, selected>>
  BY DEF CompileNext
<1>3. /\ actions' = [actions EXCEPT ![i] = a]
      /\ graph' = graph \/ graph' = [j \in DOMAIN graph \cup {i} |-> IF j = i THEN entry ELSE graph[j]]
      /\ done.dropped \/ graph' = [j \in DOMAIN graph \cup {i} |-> IF j = i THEN entry ELSE graph[j]]
      /\ errors' = errors \cup FaultsOf(<<a>>)
      /\ queue' = queue \ {i}
  BY <1>1
<1>4. /\ TypeOK /\ selected = {} /\ Sensible(settings) /\ Fit(actions, Files) /\ Fit(tests, Files)
      /\ i \in DOMAIN actions /\ queue \subseteq DOMAIN actions
      /\ DOMAIN graph \subseteq DOMAIN actions /\ graph \in [DOMAIN graph -> EveryEntry]
      /\ actions \in Seq(EveryAction)
  BY <1>2, SettingsAreSensible DEF IInv, Idle, TypeOK, Built
<1>5. done = Compile(actions[i], actions, settings)
  OBVIOUS
<1> HIDE DEF done, entry
<1>6. /\ Result(done, actions[i], actions, settings) /\ Fit(actions', Files)
      /\ Similar(actions, actions') /\ actions'[i] = a /\ DOMAIN actions' = DOMAIN actions
      /\ \A j \in DOMAIN actions : j # i => actions'[j] = actions[j]
  <2> DEFINE bs == [actions EXCEPT ![i] = done.action]
  <2>1. /\ Result(done, actions[i], actions, settings) /\ Fit(bs, Files)
        /\ Similar(actions, bs) /\ bs[i] = done.action /\ DOMAIN bs = DOMAIN actions
        /\ \A j \in DOMAIN actions : j # i => bs[j] = actions[j]
    <3> HIDE <1>3
    <3> QED
      BY <1>4, <1>5, OneCompiled
  <2>2. actions' = bs
    BY <1>3
  <2> HIDE DEF bs
  <2> QED
    BY <2>1, <2>2
<1>7. /\ a \in EveryAction /\ Sound(a) /\ Alike(actions[i], a) /\ a.file \in Files
      /\ done.texts \subseteq EveryTarget /\ done.names \subseteq EveryTarget
      /\ done.dropped => a.faults # {}
  <2>1. actions[i].file \in Files
    BY <1>4 DEF Fit
  <2> QED
    BY <1>6, <2>1 DEF Result, Alike
<1>8. /\ entry \in EveryEntry /\ entry.kind = a.kind /\ entry.chunk = Chunk(a.kind)
      /\ entry.file = a.file /\ entry.inline = a.inline /\ entry.disabled = a.disabled
      /\ entry.target = a.target /\ entry.deps = Range(a.deps) /\ entry.texts = done.texts
  BY <1>7, EntryIsTyped DEF entry
<1> DEFINE one == <<a>>
<1> HIDE DEF a
<1>9. Fit(one, Files) /\ one[1] = a /\ DOMAIN one = {1}
  BY <1>7 DEF Fit
<1> HIDE DEF one
<1>10. /\ \A e \in errors' : e.file \in Files
       /\ errors' = {} => errors = {} /\ a.faults = {}
  <2>1. /\ \A e \in FaultsOf(one) : e.file \in Files
        /\ FaultsOf(one) = {} => \A k \in DOMAIN one : one[k].faults = {}
    BY <1>9, FaultsAreErrors
  <2>2. \A e \in errors : e.file \in Files
    BY <1>4 DEF TypeOK, Files
  <2>3. errors' = errors \cup FaultsOf(one)
    BY <1>3 DEF one
  <2> QED
    BY <2>1, <2>2, <2>3, <1>9
<1>11. DOMAIN graph' \subseteq DOMAIN actions /\ graph' \in [DOMAIN graph' -> EveryEntry]
  <2> DEFINE f == [j \in DOMAIN graph \cup {i} |-> IF j = i THEN entry ELSE graph[j]]
  <2>1. f \in [DOMAIN graph \cup {i} -> EveryEntry] /\ DOMAIN f = DOMAIN graph \cup {i}
    BY <1>4, <1>8
  <2>2. graph' = graph \/ graph' = f
    BY <1>3
  <2> HIDE DEF f
  <2> QED
    BY <1>4, <2>1, <2>2
<1>12. TypeOK'
  <2>1. actions' \in Seq(EveryAction) /\ queue' \subseteq DOMAIN actions'
    BY <1>3, <1>4, <1>6 DEF Fit
  <2>2. {actions'[k].target : k \in DOMAIN actions'} = {actions[k].target : k \in DOMAIN actions}
    <3>1. \A k \in DOMAIN actions : actions'[k].target = actions[k].target
      BY <1>6 DEF Similar, Alike
    <3> QED
      BY <3>1, <1>6
  <2> QED
    BY <1>2, <1>4, <1>6, <1>10, <1>11, <2>1, <2>2 DEF TypeOK, Files
<1>13. Built'
  <2>1. ASSUME errors' = {} PROVE Whole(actions', settings) /\ Whole(tests, settings)
    <3>1. Whole(actions, settings) /\ Whole(tests, settings)
      BY <1>2, <1>10, <2>1 DEF IInv, Built
    <3>2. Guarded(actions', settings)
      BY <1>6, <3>1, SimilarlyGuarded DEF Whole
    <3>3. \A k \in DOMAIN actions' : actions'[k].faults = {}
      BY <1>6, <1>10, <2>1, <3>1 DEF Whole
    <3> QED
      BY <3>1, <3>2, <3>3 DEF Whole
  <2>2. \A j \in DOMAIN graph' : graph'[j].file \in Files
    <3>1. \A j \in DOMAIN graph : graph[j].file \in Files
      BY DEF IInv, Built
    <3>2. entry.file \in Files
      BY <1>7, <1>8
    <3> QED
      BY <1>3, <3>1, <3>2
  <2> QED
    BY <1>2, <1>4, <1>6, <2>1, <2>2 DEF Built, Files
<1>14. Idle' /\ Selecting'
  BY <1>2, <1>4 DEF Idle, Selecting
<1>15. Compiling'
  <2> SUFFICES ASSUME errors' = {} PROVE Compiling'
    BY DEF Compiling
  <2>1. /\ \A j \in DOMAIN graph : Same(j) /\ Reading(j) /\ Waiting(j)
        /\ \A j \in DOMAIN actions \ DOMAIN graph : j \in queue \/ Unwanted(j)
    BY <1>2, <1>10 DEF IInv, Compiling
  <2>2. phase \notin Resolved /\ phase \notin Final /\ phase \notin Trimmed /\ phase' = phase
        /\ phase \notin Unique /\ phase \notin Ordered
    BY <1>2 DEF Resolved, Trimmed, Final, Unique, Ordered
  <2>3. a.faults = {} /\ ~done.dropped
    BY <1>7, <1>10
  <2>4. /\ DOMAIN graph' = DOMAIN graph \cup {i} /\ graph'[i] = entry
        /\ \A j \in DOMAIN graph : j # i => graph'[j] = graph[j]
    BY <1>3, <2>3
  <2>5. ASSUME NEW j \in DOMAIN graph, j # i PROVE (Same(j) /\ Reading(j) /\ Waiting(j))'
    <3>1. graph'[j] = graph[j] /\ actions'[j] = actions[j] /\ j \in DOMAIN actions
      BY <1>4, <1>6, <2>4, <2>5
    <3>2. Same(j)'
      BY <1>3, <2>1, <2>2, <3>1 DEF Same
    <3>3. Reading(j)'
      <4>1. \A x \in graph[j].texts : Reads(x, actions[j], actions, settings)
        BY <2>1 DEF Reading
      <4>2. \A x \in graph[j].texts : Reads(x, actions[j], actions', settings)
        BY <1>6, <4>1, SimilarlyRead
      <4>3. ASSUME graph[j].inline
            PROVE  \E t \in DOMAIN actions' :
                     /\ Guards(actions[j], actions'[t], settings)
                     /\ graph[j].texts = {TextOf(actions'[t], settings)}
                     /\ \E k \in DOMAIN actions[j].deps :
                          /\ FindActions(actions[j].deps[k], actions', settings) = {t}
                          /\ TargetOf(actions[j].deps[k]) = actions'[t].target
        <5>1. PICK t \in DOMAIN actions :
                /\ Guards(actions[j], actions[t], settings)
                /\ graph[j].texts = {TextOf(actions[t], settings)}
                /\ \E k \in DOMAIN actions[j].deps :
                     Found(j, k) = {t} /\ TargetOf(actions[j].deps[k]) = actions[t].target
          BY <2>1, <4>3 DEF Reading
        <5>2. actions'[t].target = actions[t].target
          BY <1>6 DEF Similar, Alike
        <5> QED
          BY <1>6, <5>1, <5>2, SimilarlyRead DEF Found
      <4> QED
        BY <1>2, <3>1, <4>2, <4>3 DEF Reading, Found
    <3>4. Waiting(j)'
      BY <2>1, <2>2, <3>1 DEF Waiting
    <3> QED
      BY <3>2, <3>3, <3>4
  <2>6. (Same(i) /\ Reading(i) /\ Waiting(i))'
    <3>1. actions'[i] = a /\ graph'[i] = entry
      BY <1>6, <2>4
    <3>2. Same(i)'
      BY <1>3, <1>8, <2>2, <3>1 DEF Same
    <3>3. \A x \in done.texts : Reads(x, a, actions', settings)
      <4>1. \A x \in done.texts : Reads(x, a, actions, settings)
        BY <1>6, <2>3 DEF Result, a
      <4> QED
        BY <1>6, <4>1, SimilarlyRead
    <3>4. ASSUME a.inline
          PROVE  \E t \in DOMAIN actions' :
                   /\ Guards(a, actions'[t], settings)
                   /\ done.texts = {TextOf(actions'[t], settings)}
                   /\ \E k \in DOMAIN a.deps :
                        /\ FindActions(a.deps[k], actions', settings) = {t}
                        /\ TargetOf(a.deps[k]) = actions'[t].target
      <4>1. /\ actions[i].inline /\ a.reads = actions[i].reads /\ a.file = actions[i].file
            /\ a.disabled = actions[i].disabled
        BY <1>7, <3>4 DEF Alike
      <4>2. PICK t \in DOMAIN actions : Guards(actions[i], actions[t], settings)
        <5>1. Guarded(actions, settings)
          BY <1>2, <1>10 DEF IInv, Built, Whole
        <5> QED
          BY <1>4, <4>1, <5>1 DEF Guarded
      <4>3. actions[i] \in EveryAction /\ Sound(actions[i])
        BY <1>4, Elements DEF Fit
      <4>4. done.action.faults = {}
        BY <2>3 DEF a
      <4>5. /\ done.texts = {TextOf(actions[t], settings)}
            /\ \E k \in DOMAIN a.deps :
                 /\ FindActions(a.deps[k], actions, settings) = {t}
                 /\ TargetOf(a.deps[k]) = actions[t].target
        <5>1. actions \in Seq(EveryAction) /\ Sensible(settings)
          BY <1>4
        <5>2. /\ actions[i] \in EveryAction /\ Sound(actions[i]) /\ actions[i].inline
              /\ Guards(actions[i], actions[t], settings) /\ t \in DOMAIN actions
          BY <4>1, <4>2, <4>3
        <5>3. ReadsItsTable(done, t, actions, settings)
          BY <1>5, <4>4, <5>1, <5>2, GuardIsReadWhenDone
        <5> QED
          BY <5>3 DEF ReadsItsTable, a
      <4>6. actions'[t].target = actions[t].target
        BY <1>6 DEF Similar, Alike
      <4>7. Guards(a, actions[t], settings)
        BY <4>1, <4>2 DEF Guards
      <4>8. /\ Guards(a, actions'[t], settings) /\ TextOf(actions[t], settings) = TextOf(actions'[t], settings)
            /\ \A ref : FindActions(ref, actions, settings) = FindActions(ref, actions', settings)
        BY <1>6, <4>7, SimilarlyRead
      <4> QED
        BY <1>6, <4>5, <4>6, <4>8
    <3>5. Reading(i)'
      BY <1>2, <1>8, <3>1, <3>3, <3>4 DEF Reading, Found
    <3>6. Waiting(i)'
      <4>1. a.kind \in {"declaration", "extract"} => Range(a.deps) = {}
        BY <1>7 DEF Sound, Range
      <4> QED
        BY <1>8, <2>2, <3>1, <4>1 DEF Waiting
    <3> QED
      BY <3>2, <3>5, <3>6
  <2>7. \A j \in DOMAIN graph' : (Same(j) /\ Reading(j) /\ Waiting(j))'
    BY <2>4, <2>5, <2>6
  <2>8. \A j \in DOMAIN actions' \ DOMAIN graph' : j \in queue'
    <3>1. \A j \in DOMAIN actions \ DOMAIN graph : j \in queue
      BY <2>1, <2>2 DEF Unwanted
    <3> QED
      BY <1>3, <1>6, <2>4, <3>1
  <2> QED
    BY <2>2, <2>7, <2>8 DEF Compiling
<1> QED
  BY <1>12, <1>13, <1>14, <1>15 DEF IInv

LEMMA EndChunksKeeps ==
    ASSUME IInv, EndChunks
    PROVE  IInv'
<1>1. /\ phase = "compile" /\ queue = {} /\ phase' = "addTests"
      /\ targets' = {actions[i].target : i \in DOMAIN actions}
      /\ UNCHANGED <<project, settings, loaded, actions, tests, servers, queue, graph, errors,
                     selection, selected>>
  BY DEF EndChunks, Passes
<1>2. TypeOK /\ Built /\ Idle /\ Compiling /\ Selecting
  BY DEF IInv
<1>3. "addTests" \in Range(Passes)
  <2>1. 1 \in DOMAIN Passes /\ Passes[1] = "addTests"
    BY DEF Passes
  <2> QED
    BY <2>1 DEF Range
<1>4. TypeOK'
  BY <1>1, <1>2, <1>3 DEF TypeOK
<1>5. Built'
  BY <1>1, <1>2 DEF Built, Files
<1>6. Idle' /\ Selecting'
  BY <1>1, <1>2 DEF Idle, Selecting
<1>7. Compiling'
  <2> SUFFICES ASSUME errors' = {} PROVE Compiling'
    BY DEF Compiling
  <2>1. /\ phase \notin Resolved /\ phase \notin Final /\ phase \notin Trimmed
        /\ phase' \notin Resolved /\ phase' \notin Final /\ phase' \notin Trimmed
        /\ phase' \notin Unique /\ phase' \notin Ordered
    BY <1>1 DEF Resolved, Trimmed, Final, Unique, Ordered
  <2>2. /\ \A i \in DOMAIN graph : Same(i) /\ Reading(i) /\ Waiting(i)
        /\ \A i \in DOMAIN actions \ DOMAIN graph : i \in queue \/ Unwanted(i)
    BY <1>1, <1>2 DEF Compiling
  <2>3. \A i \in DOMAIN graph : Same(i)'
    BY <1>1, <2>1, <2>2 DEF Same
  <2>4. \A i \in DOMAIN graph : Reading(i)'
    BY <1>1, <2>2 DEF Reading, Found
  <2>5. \A i \in DOMAIN graph : Waiting(i)'
    BY <1>1, <2>1, <2>2 DEF Waiting
  <2>6. \A i \in DOMAIN actions \ DOMAIN graph : FALSE
    BY <1>1, <2>1, <2>2 DEF Unwanted
  <2> QED
    BY <1>1, <2>1, <2>3, <2>4, <2>5, <2>6 DEF Compiling
<1> QED
  BY <1>4, <1>5, <1>6, <1>7 DEF IInv

-----------------------------------------------------------------------------
(* The passes.                                                             *)

LEMMA PassesAre ==
    /\ \A name \in Range(Passes) \ {"done"} :
          LET next == Passes[1 + CHOOSE i \in DOMAIN Passes : Passes[i] = name] IN
          /\ next \in Range(Passes)
          /\ name = "addTests" => next = "qualify"
          /\ name = "qualify" => next = "removeExtracts"
          /\ name = "removeExtracts" => next = "rename"
          /\ name = "rename" => next = "removeDuplicates"
          /\ name = "removeDuplicates" => next = "checkTests"
          /\ name = "checkTests" => next = "checkCircularity"
          /\ name = "checkCircularity" => next = "done"
    /\ Range(Passes) = {"addTests", "qualify", "removeExtracts", "rename", "removeDuplicates",
                        "checkTests", "checkCircularity", "done"}
<1>1. DOMAIN Passes = 1..8 /\ 1..8 = {1, 2, 3, 4, 5, 6, 7, 8}
  BY DEF Passes
<1>2. /\ Passes[1] = "addTests" /\ Passes[2] = "qualify" /\ Passes[3] = "removeExtracts"
      /\ Passes[4] = "rename" /\ Passes[5] = "removeDuplicates" /\ Passes[6] = "checkTests"
      /\ Passes[7] = "checkCircularity" /\ Passes[8] = "done"
  BY DEF Passes
<1>3. Range(Passes) = {"addTests", "qualify", "removeExtracts", "rename", "removeDuplicates",
                        "checkTests", "checkCircularity", "done"}
  BY <1>1, <1>2 DEF Range
<1>4. ASSUME NEW n \in 1..8 PROVE (CHOOSE i \in DOMAIN Passes : Passes[i] = Passes[n]) = n
  <2>1. \A i \in DOMAIN Passes : Passes[i] = Passes[n] => i = n
    BY <1>1, <1>2
  <2>2. n \in DOMAIN Passes
    BY <1>1
  <2> QED
    BY <2>1, <2>2
<1>5. ASSUME NEW n \in 1..7
      PROVE  Passes[1 + CHOOSE i \in DOMAIN Passes : Passes[i] = Passes[n]] = Passes[n + 1]
  <2>1. n \in 1..8 /\ 1 + n = n + 1
    OBVIOUS
  <2>2. (CHOOSE i \in DOMAIN Passes : Passes[i] = Passes[n]) = n
    BY <1>4, <2>1
  <2> QED
    BY <2>1, <2>2
<1>6. ASSUME NEW name \in Range(Passes) \ {"done"} PROVE \E n \in 1..7 : Passes[n] = name
  BY <1>2, <1>3
<1>7. ASSUME NEW name \in Range(Passes) \ {"done"}
      PROVE  LET next == Passes[1 + CHOOSE i \in DOMAIN Passes : Passes[i] = name] IN
             \E n \in 1..7 : Passes[n] = name /\ next = Passes[n + 1]
  <2>1. PICK n \in 1..7 : Passes[n] = name
    BY <1>6
  <2>2. Passes[1 + CHOOSE i \in DOMAIN Passes : Passes[i] = Passes[n]] = Passes[n + 1]
    BY <1>5
  <2> QED
    BY <2>1, <2>2
<1>8. ASSUME NEW name \in Range(Passes) \ {"done"}, NEW next, NEW n \in 1..7,
             Passes[n] = name, next = Passes[n + 1]
      PROVE  /\ next \in Range(Passes)
             /\ name = "addTests" => next = "qualify"
             /\ name = "qualify" => next = "removeExtracts"
             /\ name = "removeExtracts" => next = "rename"
             /\ name = "rename" => next = "removeDuplicates"
             /\ name = "removeDuplicates" => next = "checkTests"
             /\ name = "checkTests" => next = "checkCircularity"
             /\ name = "checkCircularity" => next = "done"
  <2>1. n \in {1, 2, 3, 4, 5, 6, 7}
    OBVIOUS
  <2>2. CASE n = 1
    BY <1>2, <1>3, <1>8, <2>2
  <2>3. CASE n = 2
    BY <1>2, <1>3, <1>8, <2>3
  <2>4. CASE n = 3
    BY <1>2, <1>3, <1>8, <2>4
  <2>5. CASE n = 4
    BY <1>2, <1>3, <1>8, <2>5
  <2>6. CASE n = 5
    BY <1>2, <1>3, <1>8, <2>6
  <2>7. CASE n = 6
    BY <1>2, <1>3, <1>8, <2>7
  <2>8. CASE n = 7
    BY <1>2, <1>3, <1>8, <2>8
  <2> QED
    BY <2>1, <2>2, <2>3, <2>4, <2>5, <2>6, <2>7, <2>8
<1> QED
  BY <1>3, <1>7, <1>8

\* A pass changes the graph and the errors only.
LEMMA PassKeepsTheRest ==
    ASSUME IInv, NEW name \in Range(Passes) \ {"done"}, NEW g, NEW e, NEW gone,
           PassWithout(name, g, e, gone),
           g \in [DOMAIN g -> EveryEntry], DOMAIN g \subseteq DOMAIN graph,
           \A i \in DOMAIN g : g[i].file \in Files, \A x \in e : x.file \in Files
    PROVE  /\ TypeOK' /\ Built' /\ Idle' /\ Selecting' /\ phase = name /\ queue = {}
           /\ graph' = g /\ errors' = errors \cup e
           /\ UNCHANGED <<project, settings, loaded, actions, tests, servers, queue, selection,
                          selected>>
<1> DEFINE next == Passes[1 + CHOOSE i \in DOMAIN Passes : Passes[i] = name]
<1>1. /\ phase = name /\ phase' = next /\ graph' = g /\ errors' = errors \cup e
      /\ targets' = targets \ gone
      /\ UNCHANGED <<project, settings, loaded, actions, tests, servers, queue, selection, selected>>
  BY DEF PassWithout
<1>2. next \in Range(Passes)
  BY PassesAre
<1> HIDE DEF next
<1>3. /\ phase \notin {"load", "compile", "threw", "pruned"}
      /\ phase' \notin {"load", "compile", "threw", "pruned"}
  BY <1>1, <1>2, PassesAre
<1>4. TypeOK /\ Built /\ Idle /\ queue = {} /\ selected = {}
  BY <1>3 DEF IInv, Idle
<1>5. TypeOK'
  <2>1. \A x \in errors' : x.file \in Files
    BY <1>1, <1>4 DEF TypeOK, Files
  <2>2. targets' \subseteq targets
    BY <1>1
  <2> QED
    BY <1>1, <1>2, <1>4, <2>1, <2>2 DEF TypeOK, Files
<1>6. Built'
  BY <1>1, <1>3, <1>4 DEF Built, Files
<1>7. Idle' /\ Selecting'
  BY <1>1, <1>3, <1>4 DEF Idle, Selecting
<1> QED
  BY <1>1, <1>4, <1>5, <1>6, <1>7

\* What the entries of a graph without errors are, between two passes.
LEMMA Between ==
    ASSUME IInv, errors = {}, phase \in Range(Passes)
    PROVE  /\ \A i \in DOMAIN graph : Same(i) /\ Reading(i) /\ Waiting(i)
           /\ \A i \in DOMAIN actions \ DOMAIN graph : Unwanted(i)
           /\ phase \in Unique => Duplicates = {}
           /\ phase \in Ordered => Circular = {}
           /\ DOMAIN graph \subseteq DOMAIN actions /\ queue = {}
<1>1. phase \notin {"load", "compile", "threw", "pruned"}
  BY PassesAre
<1>2. queue = {}
  BY <1>1 DEF IInv, Idle
<1> QED
  BY <1>1, <1>2 DEF IInv, Compiling, TypeOK

LEMMA KindsAreKnown ==
    ASSUME IInv, NEW i \in DOMAIN graph
    PROVE  /\ i \in DOMAIN actions /\ actions[i] \in EveryAction /\ actions[i].kind \in Kinds
           /\ graph[i] \in EveryEntry /\ graph[i].file \in Files
<1>1. i \in DOMAIN actions /\ actions \in Seq(EveryAction) /\ graph[i] \in EveryEntry
  BY DEF IInv, TypeOK
<1>2. actions[i] \in EveryAction
  BY <1>1, Elements
<1> QED
  BY <1>1, <1>2 DEF EveryAction, IInv, Built

LEMMA ReadingKept ==
    ASSUME NEW i, Reading(i), UNCHANGED <<actions, settings>>,
           graph'[i].texts = graph[i].texts, graph'[i].inline = graph[i].inline
    PROVE  Reading(i)'
BY DEF Reading, Found

LEMMA AddTestsKeeps ==
    ASSUME IInv, AddTests
    PROVE  IInv'
<1> DEFINE tested == {i \in DOMAIN graph : TestsOf(graph[i]) # {}}
           more(i) == {Ref(actions[t].target, "no") : t \in TestsOf(graph[i])}
           g == IF settings.includeTests
                THEN [i \in DOMAIN graph |-> IF i \in tested /\ graph[i].chunk = "tables"
                        THEN [graph[i] EXCEPT !.deps = @ \cup more(i)] ELSE graph[i]]
                ELSE graph
           e == IF settings.includeTests
                THEN {Error("notTestable", graph[i].file) :
                        i \in {j \in tested : graph[j].kind \notin {"table", "view"}}}
                ELSE {}
<1>1. PassWithout("addTests", g, e, {})
  BY DEF AddTests, Pass
<1>2. "addTests" \in Range(Passes) \ {"done"}
  BY PassesAre
<1>3. ASSUME NEW i \in DOMAIN graph
      PROVE  /\ \/ g[i] = graph[i]
                \/ graph[i].chunk = "tables" /\ g[i] = [graph[i] EXCEPT !.deps = @ \cup more(i)]
             /\ more(i) \subseteq EveryRef
  <2>1. more(i) \subseteq EveryRef
    <3>1. ASSUME NEW t \in TestsOf(graph[i]) PROVE Ref(actions[t].target, "no") \in EveryRef
      <4>1. actions \in Seq(EveryAction) /\ t \in DOMAIN actions
        BY DEF IInv, TypeOK, TestsOf
      <4>2. actions[t] \in EveryAction
        BY <4>1, Elements
      <4>3. actions[t].target \in EveryTarget
        BY <4>2 DEF EveryAction
      <4> QED
        BY <4>3 DEF Ref, EveryTarget, EveryRef
    <3> QED
      BY <3>1
  <2>2. g[i] = graph[i] \/ (graph[i].chunk = "tables" /\ g[i] = [graph[i] EXCEPT !.deps = @ \cup more(i)])
    <3> HIDE DEF more
    <3> QED
      OBVIOUS
  <2> HIDE DEF more, g
  <2> QED
    BY <2>1, <2>2
<1>4. DOMAIN g = DOMAIN graph
  OBVIOUS
<1>5. \A x \in e : x.file \in Files
  BY KindsAreKnown DEF Error
<1> HIDE DEF g, e, more, tested
<1>6. ASSUME NEW i \in DOMAIN graph
      PROVE  /\ g[i] \in EveryEntry /\ g[i].file = graph[i].file /\ g[i].kind = graph[i].kind
             /\ g[i].chunk = graph[i].chunk /\ g[i].inline = graph[i].inline
             /\ g[i].disabled = graph[i].disabled /\ g[i].target = graph[i].target
             /\ g[i].texts = graph[i].texts /\ graph[i].deps \subseteq g[i].deps
             /\ graph[i].chunk # "tables" => g[i] = graph[i]
  <2>1. graph[i] \in EveryEntry
    BY KindsAreKnown
  <2> DEFINE deps == graph[i].deps \cup more(i)
  <2>2. deps \subseteq EveryRef \cup EveryTarget
    BY <1>3, <2>1 DEF EveryEntry
  <2>3. g[i] = graph[i] \/ (graph[i].chunk = "tables" /\ g[i] = [graph[i] EXCEPT !.deps = deps])
    BY <1>3
  <2>4. graph[i].deps \subseteq deps
    OBVIOUS
  <2> HIDE DEF deps
  <2> QED
    BY <2>1, <2>2, <2>3, <2>4 DEF EveryEntry
<1>7. g \in [DOMAIN g -> EveryEntry]
  <2>1. g = [i \in DOMAIN graph |-> g[i]]
    <3>1. graph = [i \in DOMAIN graph |-> graph[i]]
      BY DEF IInv, TypeOK
    <3> QED
      BY <3>1 DEF g
  <2> QED
    BY <1>4, <1>6, <2>1
<1>8. /\ TypeOK' /\ Built' /\ Idle' /\ Selecting' /\ phase = "addTests" /\ graph' = g
      /\ errors' = errors \cup e
      /\ UNCHANGED <<project, settings, loaded, actions, tests, servers, queue, selection, selected>>
  <2>1. DOMAIN g \subseteq DOMAIN graph
    BY <1>4
  <2>2. \A i \in DOMAIN g : g[i].file \in Files
    BY <1>4, <1>6, KindsAreKnown
  <2> QED
    BY <1>1, <1>2, <1>5, <1>7, <2>1, <2>2, PassKeepsTheRest
<1>9. Compiling'
  <2> SUFFICES ASSUME errors' = {} PROVE Compiling'
    BY DEF Compiling
  <2>1. phase' = "qualify"
    BY <1>1, <1>2, PassesAre DEF PassWithout
  <2>2. /\ phase \notin Resolved /\ phase \notin Final /\ phase \notin Trimmed
        /\ phase' \notin Resolved /\ phase' \notin Final /\ phase' \notin Trimmed
        /\ phase' \notin Unique /\ phase' \notin Ordered
    BY <1>8, <2>1 DEF Resolved, Trimmed, Final, Unique, Ordered
  <2>3. /\ \A i \in DOMAIN graph : Same(i) /\ Reading(i) /\ Waiting(i)
        /\ \A i \in DOMAIN actions \ DOMAIN graph : Unwanted(i)
    BY <1>2, <1>8, Between
  <2>4. ASSUME NEW i \in DOMAIN graph PROVE Same(i)' /\ Reading(i)' /\ Waiting(i)'
    <3>1. Same(i)'
      BY <1>6, <1>8, <2>2, <2>3 DEF Same
    <3>2. Reading(i)'
      BY <1>6, <1>8, <2>3, ReadingKept
    <3>3. actions[i].kind \in {"declaration", "extract"} => g[i].deps = {}
      <4>1. actions[i].kind \in {"declaration", "extract"} => graph[i].chunk # "tables"
        BY <2>3, KindsAreKnown, ChunkTells DEF Same, Datasets
      <4> QED
        BY <1>6, <2>3, <4>1 DEF Waiting
    <3>4. Range(actions[i].deps) \subseteq g[i].deps
      BY <1>6, <2>2, <2>3 DEF Waiting
    <3>5. Waiting(i)'
      BY <1>8, <2>2, <3>3, <3>4 DEF Waiting
    <3> QED
      BY <3>1, <3>2, <3>5
  <2>5. \A i \in DOMAIN actions \ DOMAIN graph : FALSE
    BY <2>2, <2>3 DEF Unwanted
  <2> QED
    BY <1>4, <1>8, <2>2, <2>4, <2>5 DEF Compiling
<1> QED
  BY <1>8, <1>9 DEF IInv

\* What a dependency that finds one action becomes.
LEMMA QualifiedIs ==
    ASSUME actions \in Seq(EveryAction), NEW ref
    PROVE  /\ Qualified(ref) \subseteq {actions[m].target : m \in DOMAIN actions}
           /\ Cardinality(FindActions(ref, actions, settings)) = 1 =>
                 \E m \in DOMAIN actions :
                    /\ FindActions(ref, actions, settings) = {m} /\ actions[m].target \in Qualified(ref)
                    /\ ref.assertions = "yes" =>
                          \A x \in AssertionsOf(ref) : actions[x].target \in Qualified(ref)
<1> DEFINE found == FindActions(ref, actions, settings)
<1>1. found \subseteq DOMAIN actions
  BY FoundTogether
<1>2. IsFiniteSet(found)
  BY <1>1, SessionIsFinite
<1>3. Cardinality(found) = 1 => \E x : found = {x}
  BY <1>2, OnlyOne
<1>4. AssertionsOf(ref) \subseteq DOMAIN actions
  BY DEF AssertionsOf
<1>5. Qualified(ref) = IF Cardinality(found) # 1 THEN {}
         ELSE {actions[i].target : i \in found}
                \cup IF ref.assertions = "yes" THEN {actions[i].target : i \in AssertionsOf(ref)} ELSE {}
  BY DEF Qualified
<1> HIDE DEF found
<1>6. Qualified(ref) \subseteq {actions[m].target : m \in DOMAIN actions}
  BY <1>1, <1>4, <1>5
<1>7. ASSUME Cardinality(found) = 1
      PROVE  \E m \in DOMAIN actions :
                    /\ found = {m} /\ actions[m].target \in Qualified(ref)
                    /\ ref.assertions = "yes" =>
                          \A x \in AssertionsOf(ref) : actions[x].target \in Qualified(ref)
  <2>1. PICK m : found = {m}
    BY <1>3, <1>7
  <2>2. m \in DOMAIN actions
    BY <1>1, <2>1
  <2> QED
    BY <1>5, <1>7, <2>1, <2>2
<1> QED
  BY <1>6, <1>7 DEF found

LEMMA FullyQualifyDependenciesKeeps ==
    ASSUME IInv, FullyQualifyDependencies
    PROVE  IInv'
<1> DEFINE deps(i) == UNION {Qualified(r) : r \in graph[i].deps}
           g == [i \in DOMAIN graph |-> IF graph[i].chunk = "declarations" THEN graph[i]
                                        ELSE [graph[i] EXCEPT !.deps = deps(i)]]
           e == UNION {QualifyErrors(graph[i]) : i \in DOMAIN graph}
<1>1. PassWithout("qualify", g, e, {})
  BY DEF FullyQualifyDependencies, Pass
<1>2. "qualify" \in Range(Passes) \ {"done"}
  BY PassesAre
<1>3. actions \in Seq(EveryAction)
  BY DEF IInv, TypeOK
<1>4. ASSUME NEW i \in DOMAIN graph
      PROVE  /\ g[i] = IF graph[i].chunk = "declarations" THEN graph[i]
                       ELSE [graph[i] EXCEPT !.deps = deps(i)]
             /\ \A t \in deps(i) : \E m \in DOMAIN actions : t = actions[m].target
             /\ \A r \in graph[i].deps : Qualified(r) \subseteq deps(i)
             /\ graph[i].deps = {} => deps(i) = {}
  <2>1. \A r : Qualified(r) \subseteq {actions[m].target : m \in DOMAIN actions}
    BY <1>3, QualifiedIs
  <2> QED
    BY <2>1
<1>5. DOMAIN g = DOMAIN graph /\ g = [i \in DOMAIN g |-> g[i]]
  OBVIOUS
<1>6. \A x \in e : x.file \in Files
  <2>1. ASSUME NEW i \in DOMAIN graph, NEW x \in QualifyErrors(graph[i]) PROVE x.file \in Files
    <3>1. x.file = graph[i].file
      BY <2>1 DEF QualifyErrors, Error
    <3> QED
      BY <3>1, KindsAreKnown
  <2> QED
    BY <2>1
<1>7. ASSUME e = {}, NEW i \in DOMAIN graph, NEW r \in graph[i].deps
      PROVE  Cardinality(FindActions(r, actions, settings)) = 1
  <2>1. QualifyErrors(graph[i]) = {}
    BY <1>7
  <2> QED
    BY <1>7, <2>1 DEF QualifyErrors
<1> HIDE DEF g, e, deps
<1>8. ASSUME NEW i \in DOMAIN graph
      PROVE  /\ g[i] \in EveryEntry /\ g[i].file = graph[i].file /\ g[i].kind = graph[i].kind
             /\ g[i].chunk = graph[i].chunk /\ g[i].inline = graph[i].inline
             /\ g[i].disabled = graph[i].disabled /\ g[i].target = graph[i].target
             /\ g[i].texts = graph[i].texts
             /\ graph[i].chunk = "declarations" => g[i] = graph[i]
             /\ graph[i].chunk # "declarations" => g[i].deps = deps(i)
  <2>1. graph[i] \in EveryEntry
    BY KindsAreKnown
  <2>2. deps(i) \subseteq EveryRef \cup EveryTarget
    <3>1. \A m \in DOMAIN actions : actions[m].target \in EveryTarget
      <4>1. \A m \in DOMAIN actions : actions[m] \in EveryAction
        BY <1>3, Elements
      <4> QED
        BY <4>1 DEF EveryAction
    <3>2. \A t \in deps(i) : \E m \in DOMAIN actions : t = actions[m].target
      BY <1>4
    <3> QED
      BY <3>1, <3>2
  <2> DEFINE d == deps(i)
  <2>3. g[i] = IF graph[i].chunk = "declarations" THEN graph[i] ELSE [graph[i] EXCEPT !.deps = d]
    BY <1>4
  <2> HIDE DEF d
  <2> QED
    BY <2>1, <2>2, <2>3 DEF EveryEntry, d
<1>9. g \in [DOMAIN g -> EveryEntry]
  BY <1>5, <1>8
<1>10. /\ TypeOK' /\ Built' /\ Idle' /\ Selecting' /\ phase = "qualify" /\ graph' = g
       /\ errors' = errors \cup e
       /\ UNCHANGED <<project, settings, loaded, actions, tests, servers, queue, selection, selected>>
  <2>1. DOMAIN g \subseteq DOMAIN graph
    BY <1>5
  <2>2. \A i \in DOMAIN g : g[i].file \in Files
    BY <1>5, <1>8, KindsAreKnown
  <2> QED
    BY <1>1, <1>2, <1>6, <1>9, <2>1, <2>2, PassKeepsTheRest
<1>11. Compiling'
  <2> SUFFICES ASSUME errors' = {} PROVE Compiling'
    BY DEF Compiling
  <2>1. phase' = "removeExtracts"
    BY <1>1, <1>2, PassesAre DEF PassWithout
  <2>2. /\ phase \notin Resolved /\ phase \notin Final /\ phase \notin Trimmed
        /\ phase' \in Resolved /\ phase' \notin Final /\ phase' \notin Trimmed
        /\ phase' \notin Unique /\ phase' \notin Ordered
    BY <1>10, <2>1 DEF Resolved, Trimmed, Final, Unique, Ordered
  <2>3. /\ \A i \in DOMAIN graph : Same(i) /\ Reading(i) /\ Waiting(i)
        /\ \A i \in DOMAIN actions \ DOMAIN graph : Unwanted(i)
        /\ e = {}
    BY <1>2, <1>10, Between
  <2>4. \A t : Now(t)' = t
    BY <2>2 DEF Now
  <2>5. ASSUME NEW i \in DOMAIN graph PROVE Same(i)' /\ Reading(i)' /\ Waiting(i)'
    <3>1. Same(i)'
      BY <1>8, <1>10, <2>2, <2>3 DEF Same
    <3>2. Reading(i)'
      BY <1>8, <1>10, <2>3, ReadingKept
    <3>3. graph[i].chunk = "declarations" => graph[i].deps = {}
      BY <2>3, KindsAreKnown, ChunkTells DEF Same, Waiting
    <3>4. actions[i].kind \in {"declaration", "extract"} => g[i].deps = {}
      BY <1>4, <1>8, <2>3 DEF Waiting
    <3>5. \A t \in g[i].deps : \E m \in DOMAIN actions : t = actions[m].target
      <4>1. \A t \in deps(i) : \E m \in DOMAIN actions : t = actions[m].target
        BY <1>4
      <4>2. g[i].deps = {} \/ g[i].deps = deps(i)
        BY <1>8, <3>3
      <4> QED
        BY <4>1, <4>2
    <3>6. ASSUME NEW k \in DOMAIN actions[i].deps
          PROVE  /\ \E m \in DOMAIN actions : Found(i, k) = {m} /\ actions[m].target \in g[i].deps
                 /\ actions[i].deps[k].assertions = "yes" =>
                       \A x \in AssertionsOf(actions[i].deps[k]) : actions[x].target \in g[i].deps
      <4> DEFINE ref == actions[i].deps[k]
      <4>1. ref \in graph[i].deps
        BY <2>2, <2>3 DEF Waiting, Range
      <4>2. Found(i, k) = FindActions(ref, actions, settings)
        BY DEF Found
      <4> HIDE DEF ref
      <4>3. Cardinality(FindActions(ref, actions, settings)) = 1
        BY <1>7, <2>3, <4>1
      <4>4. Qualified(ref) \subseteq g[i].deps
        BY <1>4, <1>8, <3>3, <4>1
      <4>5. PICK m \in DOMAIN actions :
                    /\ FindActions(ref, actions, settings) = {m} /\ actions[m].target \in Qualified(ref)
                    /\ ref.assertions = "yes" =>
                          \A x \in AssertionsOf(ref) : actions[x].target \in Qualified(ref)
        BY <1>3, <4>3, QualifiedIs
      <4> QED
        BY <4>2, <4>4, <4>5 DEF ref
    <3>7. actions' = actions /\ Found(i, 0)' = Found(i, 0) /\ \A k : Found(i, k)' = Found(i, k)
      BY <1>10 DEF Found
    <3>8. \A ref : AssertionsOf(ref)' = AssertionsOf(ref)
      BY <1>10 DEF AssertionsOf
    <3>9. Waiting(i)'
      BY <1>10, <2>2, <2>4, <3>4, <3>5, <3>6, <3>7, <3>8 DEF Waiting
    <3> QED
      BY <3>1, <3>2, <3>9
  <2>6. \A i \in DOMAIN actions \ DOMAIN graph : FALSE
    BY <2>2, <2>3 DEF Unwanted
  <2> QED
    BY <1>5, <1>10, <2>2, <2>5, <2>6 DEF Compiling
<1> QED
  BY <1>10, <1>11 DEF IInv

\* An extract is only taken away when no dependency found it, and then no action
\* waits for its target.
LEMMA RemoveUnreferencedExtractsKeeps ==
    ASSUME IInv, RemoveUnreferencedExtracts
    PROVE  IInv'
<1> DEFINE referenced == UNION {graph[i].deps : i \in {j \in DOMAIN graph : graph[j].chunk # "extracts"}}
           gone == {i \in DOMAIN graph : graph[i].chunk = "extracts" /\ graph[i].target \notin referenced}
           g == Keep(DOMAIN graph \ gone)
           lost == {graph[i].target : i \in gone}
<1>1. PassWithout("removeExtracts", g, {}, lost)
  BY DEF RemoveUnreferencedExtracts
<1>2. "removeExtracts" \in Range(Passes) \ {"done"}
  BY PassesAre
<1>3. DOMAIN g = DOMAIN graph \ gone /\ g = [i \in DOMAIN g |-> g[i]] /\ \A i \in DOMAIN g : g[i] = graph[i]
  BY DEF Keep
<1>4. ASSUME NEW i \in DOMAIN graph
      PROVE  /\ i \in gone <=> graph[i].chunk = "extracts" /\ graph[i].target \notin referenced
             /\ graph[i].chunk # "extracts" => graph[i].deps \subseteq referenced
  OBVIOUS
<1> HIDE DEF g, gone, referenced, lost
<1>5. g \in [DOMAIN g -> EveryEntry]
  BY <1>3, KindsAreKnown
<1>6. /\ TypeOK' /\ Built' /\ Idle' /\ Selecting' /\ phase = "removeExtracts" /\ graph' = g
      /\ errors' = errors
      /\ UNCHANGED <<project, settings, loaded, actions, tests, servers, queue, selection, selected>>
  <2>1. DOMAIN g \subseteq DOMAIN graph
    BY <1>3
  <2>2. \A i \in DOMAIN g : g[i].file \in Files
    BY <1>3, KindsAreKnown
  <2> DEFINE e == {}
  <2>3. (\A x \in e : x.file \in Files) /\ errors \cup e = errors
    OBVIOUS
  <2>4. PassWithout("removeExtracts", g, e, lost)
    BY <1>1
  <2> HIDE DEF e
  <2>5. /\ TypeOK' /\ Built' /\ Idle' /\ Selecting' /\ phase = "removeExtracts" /\ graph' = g
        /\ errors' = errors \cup e
        /\ UNCHANGED <<project, settings, loaded, actions, tests, servers, queue, selection, selected>>
    BY <1>2, <1>5, <2>1, <2>2, <2>3, <2>4, PassKeepsTheRest
  <2> QED
    BY <2>3, <2>5
<1>7. Compiling'
  <2> SUFFICES ASSUME errors' = {} PROVE Compiling'
    BY DEF Compiling
  <2>1. phase' = "rename"
    BY <1>1, <1>2, PassesAre DEF PassWithout
  <2>2. /\ phase \in Resolved /\ phase \notin Final /\ phase \notin Trimmed
        /\ phase' \in Resolved /\ phase' \notin Final /\ phase' \in Trimmed
        /\ phase' \notin Unique /\ phase' \notin Ordered
    BY <1>6, <2>1 DEF Resolved, Trimmed, Final, Unique, Ordered
  <2>3. /\ \A i \in DOMAIN graph : Same(i) /\ Reading(i) /\ Waiting(i)
        /\ DOMAIN graph = DOMAIN actions
    <3>1. /\ \A i \in DOMAIN graph : Same(i) /\ Reading(i) /\ Waiting(i)
          /\ \A i \in DOMAIN actions \ DOMAIN graph : Unwanted(i)
          /\ DOMAIN graph \subseteq DOMAIN actions
      BY <1>2, <1>6, Between
    <3> QED
      BY <2>2, <3>1 DEF Unwanted
  <2>4. \A t : Now(t) = t /\ Now(t)' = t
    BY <2>2 DEF Now
  <2>5. /\ \A i, k : Found(i, k)' = Found(i, k)
        /\ \A ref : AssertionsOf(ref)' = AssertionsOf(ref)
    BY <1>6 DEF Found, AssertionsOf
  <2>6. ASSUME NEW i \in DOMAIN graph
        PROVE  /\ graph[i].target = actions[i].target
               /\ graph[i].chunk = "extracts" <=> actions[i].kind = "extract"
               /\ graph[i].chunk = "extracts" => graph[i].deps = {}
    <3>1. graph[i].chunk = Chunk(actions[i].kind) /\ graph[i].target = actions[i].target
      BY <2>2, <2>3 DEF Same
    <3>2. graph[i].chunk = "extracts" <=> actions[i].kind = "extract"
      BY <3>1, KindsAreKnown, ChunkTells
    <3> QED
      BY <2>3, <3>1, <3>2 DEF Waiting
  <2>7. ASSUME NEW i \in DOMAIN graph, NEW t \in graph[i].deps PROVE t \in referenced
    <3>1. graph[i].chunk # "extracts"
      BY <2>6, <2>7
    <3> QED
      BY <1>4, <2>7, <3>1
  <2>8. ASSUME NEW i \in DOMAIN g PROVE Same(i)' /\ Reading(i)' /\ Waiting(i)'
    <3>1. i \in DOMAIN graph /\ g[i] = graph[i]
      BY <1>3
    <3>2. Same(i)'
      BY <1>6, <2>2, <2>3, <3>1 DEF Same
    <3>3. Reading(i)'
      BY <1>6, <2>3, <3>1, ReadingKept
    <3>4. ASSUME NEW t \in graph[i].deps
          PROVE  \E k \in DOMAIN actions : t = actions[k].target /\ Present(actions[k].target)'
      <4>1. PICK k \in DOMAIN actions : t = actions[k].target
        BY <2>2, <2>3, <2>4, <3>1 DEF Waiting
      <4>2. ASSUME NEW m \in DOMAIN actions, actions[m].target = t PROVE m \in DOMAIN g
        <5>1. m \in DOMAIN graph /\ graph[m].target = t
          BY <2>3, <2>6, <4>2
        <5>2. t \in referenced
          BY <2>7, <3>1
        <5> QED
          BY <1>3, <1>4, <5>1, <5>2
      <4>3. Present(actions[k].target)'
        BY <1>6, <4>1, <4>2 DEF Present
      <4> QED
        BY <4>1, <4>3
    <3>5. Waiting(i)
      BY <2>3, <3>1
    <3>6. Waiting(i)'
      BY <1>6, <2>2, <2>4, <2>5, <3>1, <3>4, <3>5 DEF Waiting
    <3> QED
      BY <3>2, <3>3, <3>6
  <2>9. ASSUME NEW i \in DOMAIN actions \ DOMAIN g PROVE Unwanted(i)'
    <3>1. i \in DOMAIN graph /\ i \in gone
      BY <1>3, <2>3, <2>9
    <3>2. graph[i].chunk = "extracts" /\ actions[i].target \notin referenced
      BY <1>4, <2>6, <3>1
    <3>3. ASSUME NEW j \in DOMAIN actions, NEW k \in DOMAIN actions[j].deps, i \in Found(j, k)
          PROVE  FALSE
      <4>1. j \in DOMAIN graph /\ Waiting(j)
        BY <2>3
      <4>2. PICK m \in DOMAIN actions : Found(j, k) = {m} /\ Now(actions[m].target) \in graph[j].deps
        BY <2>2, <4>1 DEF Waiting
      <4>3. m = i
        BY <3>3, <4>2
      <4> QED
        BY <2>4, <2>7, <3>2, <4>1, <4>2, <4>3
    <3>4. actions[i].kind = "extract"
      BY <2>6, <3>1, <3>2
    <3> QED
      BY <1>6, <2>2, <2>5, <3>3, <3>4 DEF Unwanted
  <2> QED
    BY <1>6, <2>2, <2>8, <2>9 DEF Compiling
<1> QED
  BY <1>6, <1>7 DEF IInv

\* Whatever waits for an action waits for it under its final name.
LEMMA AlterActionNameKeeps ==
    ASSUME IInv, AlterActionName
    PROVE  IInv'
<1> DEFINE deps(i) == {Renamed(t) : t \in graph[i].deps}
           parent(i) == IF graph[i].parent = Nothing THEN graph[i].parent ELSE Renamed(graph[i].parent)
           target(i) == Renamed(graph[i].target)
           g == [i \in DOMAIN graph |-> IF graph[i].chunk = "declarations" THEN graph[i]
                    ELSE [graph[i] EXCEPT !.target = target(i), !.deps = deps(i), !.parent = parent(i)]]
<1>1. PassWithout("rename", g, {}, {})
  BY DEF AlterActionName, Pass
<1>2. "rename" \in Range(Passes) \ {"done"}
  BY PassesAre
<1>3. DOMAIN g = DOMAIN graph /\ g = [i \in DOMAIN g |-> g[i]]
  OBVIOUS
<1>4. ASSUME NEW i \in DOMAIN graph
      PROVE  /\ g[i] = IF graph[i].chunk = "declarations" THEN graph[i]
                       ELSE [graph[i] EXCEPT !.target = target(i), !.deps = deps(i), !.parent = parent(i)]
             /\ \A t \in graph[i].deps : Renamed(t) \in deps(i)
             /\ \A t \in deps(i) : \E x \in graph[i].deps : t = Renamed(x)
  <2> HIDE DEF target, parent
  <2> QED
    OBVIOUS
<1>5. ASSUME NEW t PROVE Renamed(t) = t \/ Renamed(t) \in EveryTarget
  <2>1. Sensible(settings)
    BY SettingsAreSensible DEF IInv, TypeOK
  <2>2. CASE \E i \in DOMAIN graph : graph[i].chunk # "declarations" /\ graph[i].target = t
    <3>1. PICK i \in DOMAIN graph : graph[i].chunk # "declarations" /\ graph[i].target = t
      BY <2>2
    <3>2. graph[i] \in EveryEntry
      BY KindsAreKnown
    <3>3. t \in EveryTarget
      BY <3>1, <3>2 DEF EveryEntry
    <3>4. settings.schema \in EveryName
      BY <2>1 DEF Sensible, NamesOf
    <3>5. FinalTarget(settings, t) \in EveryTarget
      BY <2>1, <3>3, <3>4, Named
    <3> QED
      BY <2>2, <3>5 DEF Renamed
  <2>3. CASE ~ \E i \in DOMAIN graph : graph[i].chunk # "declarations" /\ graph[i].target = t
    BY <2>3 DEF Renamed
  <2> QED
    BY <2>2, <2>3
<1>6. ASSUME NEW i \in DOMAIN graph
      PROVE  target(i) \in EveryTarget /\ parent(i) \in EveryTarget /\ target(i) = Renamed(graph[i].target)
  <2>1. graph[i] \in EveryEntry
    BY KindsAreKnown
  <2>2. graph[i].target \in EveryTarget /\ graph[i].parent \in EveryTarget
    BY <2>1 DEF EveryEntry
  <2> QED
    BY <1>5, <2>2
<1> HIDE DEF g, deps, parent, target
<1>7. ASSUME NEW i \in DOMAIN graph
      PROVE  /\ g[i] \in EveryEntry /\ g[i].file = graph[i].file /\ g[i].kind = graph[i].kind
             /\ g[i].chunk = graph[i].chunk /\ g[i].inline = graph[i].inline
             /\ g[i].disabled = graph[i].disabled /\ g[i].texts = graph[i].texts
             /\ graph[i].chunk = "declarations" => g[i] = graph[i]
             /\ graph[i].chunk # "declarations" =>
                    g[i].deps = deps(i) /\ g[i].target = Renamed(graph[i].target)
  <2>1. graph[i] \in EveryEntry
    BY KindsAreKnown
  <2>2. graph[i].deps \subseteq EveryRef \cup EveryTarget
    BY <2>1 DEF EveryEntry
  <2>3. deps(i) \subseteq EveryRef \cup EveryTarget
    <3>1. ASSUME NEW t \in deps(i) PROVE t \in EveryRef \cup EveryTarget
      <4>1. PICK x \in graph[i].deps : t = Renamed(x)
        BY <1>4
      <4> QED
        BY <1>5, <2>2, <4>1
    <3> QED
      BY <3>1
  <2> DEFINE d == deps(i)
             q == parent(i)
             u == target(i)
  <2>4. g[i] = IF graph[i].chunk = "declarations" THEN graph[i]
               ELSE [graph[i] EXCEPT !.target = u, !.deps = d, !.parent = q]
    BY <1>4
  <2>5. u \in EveryTarget /\ q \in EveryTarget /\ u = Renamed(graph[i].target)
        /\ d \subseteq EveryRef \cup EveryTarget /\ deps(i) = d
    BY <1>6, <2>3
  <2> HIDE DEF d, q, u
  <2> QED
    BY <2>1, <2>4, <2>5 DEF EveryEntry
<1>8. g \in [DOMAIN g -> EveryEntry]
  BY <1>3, <1>7
<1>9. /\ TypeOK' /\ Built' /\ Idle' /\ Selecting' /\ phase = "rename" /\ graph' = g /\ errors' = errors
      /\ UNCHANGED <<project, settings, loaded, actions, tests, servers, queue, selection, selected>>
  <2>1. DOMAIN g \subseteq DOMAIN graph
    BY <1>3
  <2>2. \A i \in DOMAIN g : g[i].file \in Files
    BY <1>3, <1>7, KindsAreKnown
  <2> DEFINE e == {}
  <2>3. (\A x \in e : x.file \in Files) /\ errors \cup e = errors
    OBVIOUS
  <2>4. PassWithout("rename", g, e, {})
    BY <1>1
  <2> HIDE DEF e
  <2>5. /\ TypeOK' /\ Built' /\ Idle' /\ Selecting' /\ phase = "rename" /\ graph' = g
        /\ errors' = errors \cup e
        /\ UNCHANGED <<project, settings, loaded, actions, tests, servers, queue, selection, selected>>
    BY <1>2, <1>8, <2>1, <2>2, <2>3, <2>4, PassKeepsTheRest
  <2> QED
    BY <2>3, <2>5
<1>10. Compiling'
  <2> SUFFICES ASSUME errors' = {} PROVE Compiling'
    BY DEF Compiling
  <2>1. phase' = "removeDuplicates"
    BY <1>1, <1>2, PassesAre DEF PassWithout
  <2>2. /\ phase \in Resolved /\ phase \notin Final /\ phase \in Trimmed
        /\ phase' \in Resolved /\ phase' \in Final /\ phase' \in Trimmed
        /\ phase' \notin Unique /\ phase' \notin Ordered
    BY <1>9, <2>1 DEF Resolved, Trimmed, Final, Unique, Ordered
  <2>3. /\ \A i \in DOMAIN graph : Same(i) /\ Reading(i) /\ Waiting(i)
        /\ \A i \in DOMAIN actions \ DOMAIN graph : Unwanted(i)
        /\ DOMAIN graph \subseteq DOMAIN actions
    BY <1>2, <1>9, Between
  <2>4. \A t : Now(t) = t /\ Now(t)' = Alias(t)
    BY <1>9, <2>2 DEF Now, Alias
  <2>5. /\ \A i, k : Found(i, k)' = Found(i, k)
        /\ \A ref : AssertionsOf(ref)' = AssertionsOf(ref)
        /\ \A t : Present(t)' <=> Present(t)
    BY <1>3, <1>9 DEF Found, AssertionsOf, Present
  <2>6. ASSUME NEW i \in DOMAIN graph
        PROVE  /\ graph[i].target = actions[i].target
               /\ graph[i].chunk = "declarations" <=> actions[i].kind = "declaration"
               /\ graph[i].chunk = "declarations" => graph[i].deps = {}
    <3>1. graph[i].chunk = Chunk(actions[i].kind) /\ graph[i].target = actions[i].target
      BY <2>2, <2>3 DEF Same
    <3>2. graph[i].chunk = "declarations" <=> actions[i].kind = "declaration"
      BY <3>1, KindsAreKnown, ChunkTells
    <3> QED
      BY <2>3, <3>1, <3>2 DEF Waiting
  <2>7. ASSUME NEW t, Present(t) PROVE Renamed(t) = Alias(t)
    <3>1. (\E i \in DOMAIN graph : graph[i].chunk # "declarations" /\ graph[i].target = t)
            <=> \E m \in DOMAIN actions : actions[m].kind # "declaration" /\ actions[m].target = t
      BY <2>3, <2>6, <2>7 DEF Present
    <3> QED
      BY <3>1 DEF Renamed, Alias
  <2>8. ASSUME NEW i \in DOMAIN graph PROVE Same(i)' /\ Reading(i)' /\ Waiting(i)'
    <3>1. Same(i) /\ Reading(i) /\ Waiting(i)
      BY <2>3
    <3>2. g[i].target = FinalName(i)
      <4>1. CASE graph[i].chunk = "declarations"
        BY <1>7, <2>6, <4>1 DEF FinalName
      <4>2. CASE graph[i].chunk # "declarations"
        <5>1. Renamed(graph[i].target) = FinalTarget(settings, graph[i].target)
          BY <4>2 DEF Renamed
        <5> QED
          BY <1>7, <2>6, <4>2, <5>1 DEF FinalName
      <4> QED
        BY <4>1, <4>2
    <3>3. Same(i)'
      BY <1>7, <1>9, <2>2, <3>1, <3>2 DEF Same, FinalName
    <3>4. Reading(i)'
      BY <1>7, <1>9, <3>1, ReadingKept
    <3>5. ASSUME NEW t \in g[i].deps
          PROVE  \E k \in DOMAIN actions : t = Alias(actions[k].target) /\ Present(actions[k].target)
      <4>1. graph[i].chunk # "declarations"
        BY <1>7, <2>6, <3>5
      <4>2. PICK x \in graph[i].deps : t = Renamed(x)
        <5>1. t \in deps(i)
          BY <1>7, <3>5, <4>1
        <5>2. \A y \in deps(i) : \E x \in graph[i].deps : y = Renamed(x)
          BY <1>4
        <5> QED
          BY <5>1, <5>2
      <4>3. PICK k \in DOMAIN actions : x = actions[k].target /\ Present(actions[k].target)
        BY <2>2, <2>4, <3>1, <4>2 DEF Waiting
      <4> QED
        BY <2>7, <4>2, <4>3
    <3>6. ASSUME NEW x \in graph[i].deps PROVE Alias(x) \in g[i].deps
      <4>1. graph[i].chunk # "declarations"
        BY <2>6, <3>6
      <4>2. PICK k \in DOMAIN actions : x = actions[k].target /\ Present(actions[k].target)
        BY <2>2, <2>4, <3>1, <3>6 DEF Waiting
      <4>3. Renamed(x) \in g[i].deps
        BY <1>4, <1>7, <3>6, <4>1
      <4> QED
        BY <2>7, <4>2, <4>3
    <3>7. actions[i].kind \in {"declaration", "extract"} => g[i].deps = {}
      <4>1. actions[i].kind \in {"declaration", "extract"} => graph[i].deps = {}
        BY <3>1 DEF Waiting
      <4>2. graph[i].deps = {} => g[i].deps = {}
        BY <1>4, <1>7
      <4> QED
        BY <4>1, <4>2
    <3>8. ASSUME NEW k \in DOMAIN actions[i].deps
          PROVE  /\ \E m \in DOMAIN actions :
                       Found(i, k) = {m} /\ Alias(actions[m].target) \in g[i].deps
                 /\ actions[i].deps[k].assertions = "yes" =>
                       \A x \in AssertionsOf(actions[i].deps[k]) : Alias(actions[x].target) \in g[i].deps
      BY <2>2, <2>4, <3>1, <3>6 DEF Waiting
    <3>9. Waiting(i)'
      BY <1>9, <2>2, <2>4, <2>5, <3>5, <3>7, <3>8 DEF Waiting
    <3> QED
      BY <3>3, <3>4, <3>9
  <2>9. ASSUME NEW i \in DOMAIN actions \ DOMAIN g PROVE Unwanted(i)'
    BY <1>3, <1>9, <2>2, <2>3, <2>5 DEF Unwanted
  <2> QED
    BY <1>3, <1>9, <2>2, <2>8, <2>9 DEF Compiling
<1> QED
  BY <1>9, <1>10 DEF IInv

\* Once names are final, what entries have does not depend on the pass.
LEMMA FinalPassKeeps ==
    ASSUME IInv, phase \in Final, phase' \in Final,
           \A i \in DOMAIN graph : Same(i) /\ Reading(i) /\ Waiting(i),
           \A i \in DOMAIN actions \ DOMAIN graph : Unwanted(i),
           UNCHANGED <<settings, actions, queue, graph>>
    PROVE  /\ \A i \in DOMAIN graph : Same(i)' /\ Reading(i)' /\ Waiting(i)'
           /\ \A i \in DOMAIN actions \ DOMAIN graph : Unwanted(i)'
<1>1. phase \in Trimmed /\ phase' \in Trimmed /\ phase \in Resolved /\ phase' \in Resolved
  BY DEF Resolved, Trimmed, Final
<1>2. /\ \A t : Now(t)' = Now(t)
      /\ \A i, k : Found(i, k)' = Found(i, k)
      /\ \A ref : AssertionsOf(ref)' = AssertionsOf(ref)
      /\ \A t : Present(t)' <=> Present(t)
      /\ \A i : FinalName(i)' = FinalName(i)
  BY DEF Now, Alias, Found, AssertionsOf, Present, FinalName
<1>3. ASSUME NEW i \in DOMAIN graph PROVE Same(i)' /\ Reading(i)' /\ Waiting(i)'
  <2>1. Same(i) /\ Reading(i) /\ Waiting(i)
    OBVIOUS
  <2>2. Same(i)'
    BY <1>2, <2>1 DEF Same
  <2>3. Reading(i)'
    BY <2>1, ReadingKept
  <2>4. Waiting(i)'
    BY <1>1, <1>2, <2>1 DEF Waiting
  <2> QED
    BY <2>2, <2>3, <2>4
<1>4. \A i \in DOMAIN actions \ DOMAIN graph : Unwanted(i)'
  BY <1>1, <1>2 DEF Unwanted
<1> QED
  BY <1>3, <1>4

LEMMA RemoveNonUniqueActionsKeeps ==
    ASSUME IInv, RemoveNonUniqueActions
    PROVE  IInv'
<1> DEFINE g == Keep(DOMAIN graph \ Duplicates)
           e == {Error("duplicate", graph[i].file) : i \in Duplicates}
<1>1. PassWithout("removeDuplicates", g, e, {})
  BY DEF RemoveNonUniqueActions, Pass
<1>2. "removeDuplicates" \in Range(Passes) \ {"done"}
  BY PassesAre
<1>3. /\ DOMAIN g = DOMAIN graph \ Duplicates /\ g = [i \in DOMAIN g |-> g[i]]
      /\ \A i \in DOMAIN g : g[i] = graph[i]
      /\ \A x \in e : x.file \in Files
      /\ e = {} => Duplicates = {}
  <2>1. Duplicates \subseteq DOMAIN graph
    BY DEF Duplicates
  <2>2. \A x \in e : x.file \in Files
    BY <2>1, KindsAreKnown DEF Error
  <2> QED
    BY <2>2 DEF Keep
<1>4. Duplicates = {} => g = graph
  <2>1. graph = [i \in DOMAIN graph |-> graph[i]]
    BY DEF IInv, TypeOK
  <2> QED
    BY <1>3, <2>1
<1> HIDE DEF g, e
<1>5. /\ TypeOK' /\ Built' /\ Idle' /\ Selecting' /\ phase = "removeDuplicates" /\ graph' = g
      /\ errors' = errors \cup e
      /\ UNCHANGED <<project, settings, loaded, actions, tests, servers, queue, selection, selected>>
  <2>1. g \in [DOMAIN g -> EveryEntry] /\ DOMAIN g \subseteq DOMAIN graph
    BY <1>3, KindsAreKnown
  <2>2. \A i \in DOMAIN g : g[i].file \in Files
    BY <1>3, KindsAreKnown
  <2> QED
    BY <1>1, <1>2, <1>3, <2>1, <2>2, PassKeepsTheRest
<1>6. Compiling'
  <2> SUFFICES ASSUME errors' = {} PROVE Compiling'
    BY DEF Compiling
  <2>1. phase' = "checkTests"
    BY <1>1, <1>2, PassesAre DEF PassWithout
  <2>2. /\ phase \in Final /\ phase' \in Final /\ phase' \notin Ordered
    BY <1>5, <2>1 DEF Resolved, Trimmed, Final, Unique, Ordered
  <2>3. Duplicates = {} /\ graph' = graph
    BY <1>3, <1>4, <1>5
  <2> QED
    BY <1>2, <1>5, <2>2, <2>3, Between, FinalPassKeeps DEF Compiling, Duplicates
<1> QED
  BY <1>5, <1>6 DEF IInv

LEMMA CheckTestNameUniquenessKeeps ==
    ASSUME IInv, CheckTestNameUniqueness
    PROVE  IInv'
<1> DEFINE testEntries == {i \in DOMAIN graph : graph[i].chunk = "tests"}
           same == {k \in testEntries : \E j \in testEntries : j < k
                                     /\ graph[j].target.name = graph[k].target.name}
           e == {Error("duplicateTest", graph[i].file) : i \in same}
<1>1. PassWithout("checkTests", graph, e, {})
  BY DEF CheckTestNameUniqueness, Pass
<1>2. "checkTests" \in Range(Passes) \ {"done"}
  BY PassesAre
<1>3. \A x \in e : x.file \in Files
  BY KindsAreKnown DEF Error
<1> HIDE DEF e
<1>4. /\ TypeOK' /\ Built' /\ Idle' /\ Selecting' /\ phase = "checkTests" /\ graph' = graph
      /\ errors' = errors \cup e
      /\ UNCHANGED <<project, settings, loaded, actions, tests, servers, queue, selection, selected>>
  <2>1. graph \in [DOMAIN graph -> EveryEntry]
    BY DEF IInv, TypeOK
  <2>2. \A i \in DOMAIN graph : graph[i].file \in Files
    BY KindsAreKnown
  <2> QED
    BY <1>1, <1>2, <1>3, <2>1, <2>2, PassKeepsTheRest
<1>5. Compiling'
  <2> SUFFICES ASSUME errors' = {} PROVE Compiling'
    BY DEF Compiling
  <2>1. phase' = "checkCircularity"
    BY <1>1, <1>2, PassesAre DEF PassWithout
  <2>2. phase \in Unique /\ phase \in Final /\ phase' \in Final /\ phase' \notin Ordered
    BY <1>4, <2>1 DEF Resolved, Trimmed, Final, Unique, Ordered
  <2>3. Duplicates' = {}
    BY <1>2, <1>4, <2>2, Between DEF Duplicates
  <2> QED
    BY <1>2, <1>4, <2>2, <2>3, Between, FinalPassKeeps DEF Compiling
<1> QED
  BY <1>4, <1>5 DEF IInv

LEMMA CheckCircularityKeeps ==
    ASSUME IInv, CheckCircularity
    PROVE  IInv'
<1> DEFINE e == {Error("circular", graph[i].file) : i \in Circular}
<1>1. PassWithout("checkCircularity", graph, e, {})
  BY DEF CheckCircularity, Pass
<1>2. "checkCircularity" \in Range(Passes) \ {"done"}
  BY PassesAre
<1>3. (\A x \in e : x.file \in Files) /\ (e = {} => Circular = {})
  <2>1. Circular \subseteq DOMAIN graph
    BY DEF Circular
  <2>2. ASSUME NEW i \in Circular PROVE Error("circular", graph[i].file).file \in Files
    BY <2>1, KindsAreKnown DEF Error
  <2> QED
    BY <2>2
<1> HIDE DEF e
<1>4. /\ TypeOK' /\ Built' /\ Idle' /\ Selecting' /\ phase = "checkCircularity" /\ graph' = graph
      /\ errors' = errors \cup e
      /\ UNCHANGED <<project, settings, loaded, actions, tests, servers, queue, selection, selected>>
  <2>1. graph \in [DOMAIN graph -> EveryEntry]
    BY DEF IInv, TypeOK
  <2>2. \A i \in DOMAIN graph : graph[i].file \in Files
    BY KindsAreKnown
  <2> QED
    BY <1>1, <1>2, <1>3, <2>1, <2>2, PassKeepsTheRest
<1>5. Compiling'
  <2> SUFFICES ASSUME errors' = {} PROVE Compiling'
    BY DEF Compiling
  <2>1. phase' = "done"
    BY <1>1, <1>2, PassesAre DEF PassWithout
  <2>2. phase \in Unique /\ phase \in Final /\ phase' \in Final
    BY <1>4, <2>1 DEF Resolved, Trimmed, Final, Unique
  <2>3. Duplicates' = {}
    BY <1>2, <1>4, <2>2, Between DEF Duplicates
  <2>4. Circular' = {}
    BY <1>3, <1>4 DEF Circular, Successors
  <2> QED
    BY <1>2, <1>4, <2>2, <2>3, <2>4, Between, FinalPassKeeps DEF Compiling
<1> QED
  BY <1>4, <1>5 DEF IInv

-----------------------------------------------------------------------------
(* Selecting.                                                              *)

\* The names of a graph are finitely many, and a selection is of some of them.
LEMMA NamesAreFinite ==
    ASSUME TypeOK
    PROVE  /\ IsFiniteSet(DOMAIN graph) /\ IsFiniteSet(AllNames)
           /\ AllNames \subseteq {ReadableName(graph[i].target) : i \in DOMAIN graph}
           /\ DOMAIN Dependencies = AllNames /\ DOMAIN Dependents = AllNames
           /\ \A name \in AllNames : Dependencies[name] \subseteq AllNames
           /\ \A name \in AllNames : Dependents[name] \subseteq AllNames
           /\ \A sel : Matched(sel) \subseteq AllNames
<1>1. IsFiniteSet(DOMAIN graph)
  BY SessionIsFinite DEF TypeOK
<1>2. PrunableActions \subseteq DOMAIN graph
  BY DEF PrunableActions
<1>3. IsFiniteSet(PrunableActions)
  BY <1>1, <1>2, FS_Subset
<1> DEFINE names == {Name(i) : i \in PrunableActions}
<1>4. IsFiniteSet(names)
  <2> DEFINE f == [i \in PrunableActions |-> Name(i)]
  <2>1. f \in Surjection(PrunableActions, names)
    BY DEF Surjection
  <2> HIDE DEF f, names
  <2> QED
    BY <1>3, <2>1, FS_Surjection
<1>5. AllNames = names
  BY DEF AllNames
<1>6. /\ names \subseteq {ReadableName(graph[i].target) : i \in DOMAIN graph}
      /\ DOMAIN Dependencies = names /\ DOMAIN Dependents = names
      /\ \A name \in names : Dependencies[name] \subseteq names
      /\ \A name \in names : Dependents[name] \subseteq names
  BY <1>2, <1>5 DEF Dependencies, Dependents, Name
<1>7. ASSUME NEW sel PROVE Matched(sel) \subseteq AllNames
  <2>1. \A pattern : MatchPattern(pattern, AllNames) \subseteq AllNames
    BY DEF MatchPattern
  <2> SUFFICES ASSUME NEW x \in Matched(sel) PROVE x \in AllNames
    OBVIOUS
  <2>2. \/ \E p \in sel.patterns : x \in MatchPattern(p, AllNames)
        \/ \E i \in PrunableActions : x = Name(i)
    BY DEF Matched
  <2> QED
    BY <2>1, <2>2 DEF AllNames
<1> HIDE DEF names
<1> QED
  BY <1>1, <1>4, <1>5, <1>6, <1>7

\* A closure within a set that its function does not leave.
LEMMA ClosureWithin ==
    ASSUME NEW S, NEW next, IsFiniteSet(DOMAIN next), S \subseteq DOMAIN next,
           \A x \in DOMAIN next : next[x] \subseteq DOMAIN next
    PROVE  /\ S \subseteq Closure(S, next) /\ Closure(S, next) \subseteq DOMAIN next
           /\ \A x \in Closure(S, next) : next[x] \subseteq Closure(S, next)
           /\ \A T : S \subseteq T /\ Closed(T, next) => Closure(S, next) \subseteq T
<1>1. /\ S \subseteq Closure(S, next) /\ Closed(Closure(S, next), next)
      /\ \A T : S \subseteq T /\ Closed(T, next) => Closure(S, next) \subseteq T
  BY ClosureIsLeast, ClosureIsClosed
<1>2. Closed(DOMAIN next, next)
  BY DEF Closed
<1>3. Closure(S, next) \subseteq DOMAIN next
  BY <1>1, <1>2
<1>4. \A x \in Closure(S, next) : next[x] \subseteq Closure(S, next)
  BY <1>1, <1>3 DEF Closed
<1> QED
  BY <1>1, <1>3, <1>4

LEMMA IncludedAreNames ==
    ASSUME TypeOK, NEW sel
    PROVE  IncludedActionNames(sel) \subseteq AllNames
<1> DEFINE upstream == IF sel.includeDependencies THEN Closure(Matched(sel), Dependencies)
                       ELSE Matched(sel)
<1>1. /\ IsFiniteSet(AllNames) /\ DOMAIN Dependencies = AllNames /\ DOMAIN Dependents = AllNames
      /\ \A name \in AllNames : Dependencies[name] \subseteq AllNames
      /\ \A name \in AllNames : Dependents[name] \subseteq AllNames
      /\ Matched(sel) \subseteq AllNames
  BY NamesAreFinite
<1>2. Closure(Matched(sel), Dependencies) \subseteq AllNames
  BY <1>1, ClosureWithin
<1>3. upstream \subseteq AllNames
  BY <1>1, <1>2
<1>4. IncludedActionNames(sel) = IF NoSelector(sel) THEN AllNames
        ELSE IF sel.includeDependents THEN Closure(upstream, Dependents) ELSE upstream
  BY DEF IncludedActionNames
<1> HIDE DEF upstream
<1>5. Closure(upstream, Dependents) \subseteq AllNames
  BY <1>1, <1>3, ClosureWithin
<1> QED
  BY <1>3, <1>4, <1>5

\* What can be selected is the graph's.
LEMMA NamesKept ==
    ASSUME graph' = graph, actions' = actions
    PROVE  /\ PrunableActions' = PrunableActions /\ AllNames' = AllNames
           /\ Dependencies' = Dependencies /\ Dependents' = Dependents
<1>1. PrunableActions' = PrunableActions
  BY DEF PrunableActions
<1>2. \A i : Name(i)' = Name(i)
  BY DEF Name
<1>3. AllNames' = AllNames
  BY <1>1 DEF AllNames, Name
<1>4. \A name : LastOf(name)' = LastOf(name)
  BY <1>1 DEF LastOf, Name, InChunkOrder
<1>5. Dependencies' = Dependencies
  BY <1>3, <1>4 DEF Dependencies
<1>6. Dependents' = Dependents
  BY <1>1, <1>3 DEF Dependents, Name
<1> QED
  BY <1>1, <1>3, <1>5, <1>6

LEMMA PruneKeeps ==
    ASSUME IInv, Prune
    PROVE  IInv'
<1>1. PICK sel \in Selections :
        /\ selection' = sel
        /\ \/ /\ phase' = "threw"
              /\ UNCHANGED <<targets, selected>>
           \/ /\ phase' = "pruned"
              /\ selected' = IncludedActionNames(sel)
              /\ targets' = {t \in targets : ReadableName(t) \in selected'}
  BY DEF Prune
<1>2. /\ phase = "done" /\ errors = {}
      /\ UNCHANGED <<project, settings, loaded, actions, tests, servers, queue, graph, errors>>
  BY DEF Prune
<1>3. TypeOK /\ Built /\ Idle /\ selected = {} /\ queue = {}
  BY <1>2 DEF IInv, Idle
<1>4. "done" \in Range(Passes)
  BY PassesAre
<1>5. TypeOK'
  <2>1. selected' \subseteq {ReadableName(graph[i].target) : i \in DOMAIN graph}
    BY <1>1, <1>3, IncludedAreNames, NamesAreFinite
  <2>2. targets' \subseteq targets
    BY <1>1
  <2> QED
    BY <1>1, <1>2, <1>3, <2>1, <2>2 DEF TypeOK
<1>6. Built'
  BY <1>1, <1>2, <1>3 DEF Built, Files
<1>7. Idle'
  BY <1>1, <1>2, <1>3 DEF Idle
<1>8. Selecting'
  <2>1. /\ PrunableActions' = PrunableActions /\ AllNames' = AllNames
        /\ Dependencies' = Dependencies /\ Dependents' = Dependents
    BY <1>2, NamesKept
  <2>2. NoSelector(selection)' = NoSelector(sel) /\ Matched(selection)' = Matched(sel)
    BY <1>1, <1>2, <2>1 DEF NoSelector, Matched, Name
  <2>3. IncludedActionNames(selection)' = IncludedActionNames(sel)
    BY <1>1, <2>1, <2>2 DEF IncludedActionNames
  <2>4. phase' = "pruned" => selected' = IncludedActionNames(sel)
    BY <1>1
  <2> QED
    BY <2>3, <2>4 DEF Selecting
<1>9. Compiling'
  <2> SUFFICES ASSUME phase' = "pruned" PROVE Compiling'
    BY <1>1 DEF Compiling
  <2>1. /\ phase \in Final /\ phase' \in Final /\ phase \in Unique /\ phase \in Ordered
    BY <1>2 DEF Resolved, Trimmed, Final, Unique, Ordered
  <2>2. /\ \A i \in DOMAIN graph : Same(i) /\ Reading(i) /\ Waiting(i)
        /\ \A i \in DOMAIN actions \ DOMAIN graph : Unwanted(i)
        /\ Duplicates = {} /\ Circular = {}
    BY <1>2, <1>4, <2>1, Between
  <2>3. /\ \A i \in DOMAIN graph : Same(i)' /\ Reading(i)' /\ Waiting(i)'
        /\ \A i \in DOMAIN actions \ DOMAIN graph : Unwanted(i)'
    BY <1>2, <2>1, <2>2, FinalPassKeeps
  <2>4. Duplicates' = {} /\ Circular' = {}
    BY <1>2, <2>2 DEF Duplicates, Circular, Successors
  <2> QED
    BY <1>2, <2>3, <2>4 DEF Compiling
<1> QED
  BY <1>5, <1>6, <1>7, <1>8, <1>9 DEF IInv

LEMMA StutterKeeps ==
    ASSUME IInv, UNCHANGED vars
    PROVE  IInv'
<1>1. UNCHANGED vars /\ Files' = Files
  BY DEF vars, Files
<1>2. TypeOK'
  BY <1>1 DEF vars, IInv, TypeOK
<1>3. Built' /\ Idle'
  BY <1>1 DEF vars, IInv, Built, Idle
<1>4. Compiling'
  <2> SUFFICES ASSUME errors = {}, phase \notin {"load", "threw"} PROVE Compiling'
    BY <1>1 DEF vars, Compiling
  <2>1. ASSUME NEW i \in DOMAIN graph PROVE Same(i)' /\ Reading(i)' /\ Waiting(i)'
    <3>1. Same(i) /\ Reading(i) /\ Waiting(i)
      BY DEF IInv, Compiling
    <3>2. Same(i)'
      BY <1>1, <3>1 DEF vars, Same, FinalName
    <3>3. Reading(i)'
      BY <1>1, <3>1, ReadingKept DEF vars
    <3>4. Waiting(i)'
      <4>1. /\ \A t : Now(t)' = Now(t)
            /\ \A j, k : Found(j, k)' = Found(j, k)
            /\ \A ref : AssertionsOf(ref)' = AssertionsOf(ref)
            /\ \A t : Present(t)' <=> Present(t)
        BY <1>1 DEF vars, Now, Alias, Found, AssertionsOf, Present
      <4> QED
        BY <1>1, <3>1, <4>1 DEF vars, Waiting
    <3> QED
      BY <3>2, <3>3, <3>4
  <2>2. ASSUME NEW i \in DOMAIN actions \ DOMAIN graph PROVE i \in queue \/ Unwanted(i)'
    BY <1>1 DEF vars, IInv, Compiling, Unwanted, Found
  <2>3. /\ (phase \in Unique => Duplicates = {}) /\ (phase \in Ordered => Circular = {})
        /\ Duplicates' = Duplicates /\ Circular' = Circular
    BY <1>1 DEF vars, IInv, Compiling, Duplicates, Circular, Successors
  <2> QED
    BY <1>1, <2>1, <2>2, <2>3 DEF vars, Compiling
<1>5. Selecting'
  <2>1. graph' = graph /\ actions' = actions
    BY <1>1 DEF vars
  <2>2. /\ PrunableActions' = PrunableActions /\ AllNames' = AllNames
        /\ Dependencies' = Dependencies /\ Dependents' = Dependents
    BY <2>1, NamesKept
  <2>3. NoSelector(selection)' = NoSelector(selection) /\ Matched(selection)' = Matched(selection)
    BY <1>1, <2>2 DEF vars, NoSelector, Matched, Name
  <2>4. IncludedActionNames(selection)' = IncludedActionNames(selection)
    BY <1>1, <2>2, <2>3 DEF vars, IncludedActionNames
  <2> QED
    BY <1>1, <2>4 DEF vars, IInv, Selecting
<1> QED
  BY <1>2, <1>3, <1>4, <1>5 DEF IInv

\* The invariant, of every session.
THEOREM Invariant == Spec => []IInv
<1>1. IInv /\ [Next]_vars => IInv'
  <2> SUFFICES ASSUME IInv, [Next]_vars PROVE IInv'
    OBVIOUS
  <2>1. CASE Load
    BY <2>1, LoadKeeps
  <2>2. CASE StartCompile
    BY <2>2, StartCompileKeeps
  <2>3. CASE CompileNext
    BY <2>3, CompileNextKeeps
  <2>4. CASE EndChunks
    BY <2>4, EndChunksKeeps
  <2>5. CASE AddTests
    BY <2>5, AddTestsKeeps
  <2>6. CASE FullyQualifyDependencies
    BY <2>6, FullyQualifyDependenciesKeeps
  <2>7. CASE RemoveUnreferencedExtracts
    BY <2>7, RemoveUnreferencedExtractsKeeps
  <2>8. CASE AlterActionName
    BY <2>8, AlterActionNameKeeps
  <2>9. CASE RemoveNonUniqueActions
    BY <2>9, RemoveNonUniqueActionsKeeps
  <2>10. CASE CheckTestNameUniqueness
    BY <2>10, CheckTestNameUniquenessKeeps
  <2>11. CASE CheckCircularity
    BY <2>11, CheckCircularityKeeps
  <2>12. CASE Prune
    BY <2>12, PruneKeeps
  <2>13. CASE UNCHANGED vars
    BY <2>13, StutterKeeps
  <2> QED
    BY <2>1, <2>2, <2>3, <2>4, <2>5, <2>6, <2>7, <2>8, <2>9, <2>10, <2>11, <2>12, <2>13 DEF Next
<1> QED
  BY <1>1, Starts, PTL DEF Spec

-----------------------------------------------------------------------------
(* What a graph without errors promises.                                   *)

\* Entries are under their final names, and wait for final names of present actions.
LEMMA CleanGraph ==
    ASSUME IInv, Clean
    PROVE  /\ \A i \in DOMAIN graph : Same(i) /\ Reading(i) /\ Waiting(i)
           /\ \A i \in DOMAIN actions \ DOMAIN graph : Unwanted(i)
           /\ Duplicates = {} /\ Circular = {}
           /\ DOMAIN graph \subseteq DOMAIN actions
           /\ phase \in Resolved /\ phase \in Trimmed /\ phase \in Final
           /\ \A t : Now(t) = Alias(t)
           /\ \A i \in DOMAIN graph : graph[i].target = FinalName(i)
<1>1. /\ phase \in Resolved /\ phase \in Trimmed /\ phase \in Final /\ phase \in Unique
      /\ phase \in Ordered /\ phase \notin {"load", "threw", "compile"} /\ errors = {}
  BY DEF Clean, Resolved, Trimmed, Final, Unique, Ordered
<1>2. queue = {}
  BY <1>1 DEF IInv, Idle
<1>3. /\ \A i \in DOMAIN graph : Same(i) /\ Reading(i) /\ Waiting(i)
      /\ \A i \in DOMAIN actions \ DOMAIN graph : Unwanted(i)
      /\ Duplicates = {} /\ Circular = {}
  BY <1>1, <1>2 DEF IInv, Compiling
<1>4. DOMAIN graph \subseteq DOMAIN actions
  BY DEF IInv, TypeOK
<1>5. \A i \in DOMAIN graph : graph[i].target = FinalName(i)
  BY <1>1, <1>3 DEF Same
<1> QED
  BY <1>1, <1>3, <1>4, <1>5 DEF Now

\* The alias of the target of the one action that a reference finds is its name.
LEMMA AliasOfFound ==
    ASSUME NEW ref, NEW m \in DOMAIN actions, FindActions(ref, actions, settings) = {m}
    PROVE  Alias(actions[m].target) = FinalName(m)
<1>1. \A j \in DOMAIN actions : actions[j].target = actions[m].target => j = m
  <2>1. m \in FindActions(ref, actions, settings)
    OBVIOUS
  <2> QED
    BY <2>1, FoundTogether
<1> QED
  BY <1>1 DEF Alias, FinalName

LEMMA DependenciesAreBuilt == IInv => EveryDependencyIsBuilt
<1> SUFFICES ASSUME IInv, Clean, NEW i \in DOMAIN graph, NEW t \in graph[i].deps
             PROVE  /\ InGraph(t) # {}
                    /\ Cardinality({j \in InGraph(t) : graph[j].chunk \in Deduplicated}) <= 1
  BY DEF EveryDependencyIsBuilt
<1>1. InGraph(t) # {}
  <2>1. PICK k \in DOMAIN actions : t = Alias(actions[k].target) /\ Present(actions[k].target)
    BY CleanGraph DEF Waiting
  <2>2. ASSUME NEW m \in DOMAIN graph, graph[m].target = t PROVE InGraph(t) # {}
    BY <2>2 DEF InGraph
  <2>3. CASE \E m \in DOMAIN actions : actions[m].kind # "declaration" /\ actions[m].target = actions[k].target
    <3>1. PICK m \in DOMAIN actions : actions[m].kind # "declaration" /\ actions[m].target = actions[k].target
      BY <2>3
    <3>2. m \in DOMAIN graph
      BY <2>1, <3>1 DEF Present
    <3>3. graph[m].target = t
      BY <2>1, <2>3, <3>1, <3>2, CleanGraph DEF FinalName, Alias
    <3> QED
      BY <2>2, <3>2, <3>3
  <2>4. CASE ~ \E m \in DOMAIN actions : actions[m].kind # "declaration" /\ actions[m].target = actions[k].target
    <3>1. k \in DOMAIN graph
      BY <2>1 DEF Present
    <3>2. graph[k].target = t
      BY <2>1, <2>4, <3>1, CleanGraph DEF FinalName, Alias
    <3> QED
      BY <2>2, <3>1, <3>2
  <2> QED
    BY <2>3, <2>4
<1>2. Cardinality({j \in InGraph(t) : graph[j].chunk \in Deduplicated}) <= 1
  <2> DEFINE S == {j \in InGraph(t) : graph[j].chunk \in Deduplicated}
  <2>1. \A j, k \in S : j = k
    <3>1. ASSUME NEW j \in S, NEW k \in S, j # k PROVE FALSE
      <4>1. j \in Duplicates
        BY <3>1 DEF Duplicates, InGraph
      <4> QED
        BY <4>1, CleanGraph
    <3> QED
      BY <3>1
  <2>2. S = {} \/ \E x : S = {x}
    <3> HIDE DEF S
    <3> QED
      BY <2>1
  <2> HIDE DEF S
  <2>3. Cardinality(S) = 0 \/ Cardinality(S) = 1
    <3>1. Cardinality({}) = 0
      BY FS_EmptySet
    <3>2. \A x : Cardinality({x}) = 1
      BY FS_Singleton
    <3> QED
      BY <2>2, <3>1, <3>2
  <2>4. Cardinality(S) <= 1
    BY <2>3
  <2> QED
    BY <2>4 DEF S
<1> QED
  BY <1>1, <1>2

LEMMA ReadsAreWaitedFor == IInv => ReadsAreDependencies
<1> SUFFICES ASSUME IInv, Clean, NEW i \in DOMAIN graph, NEW x \in graph[i].texts
             PROVE  x \in {ResolveTarget(settings, t) : t \in graph[i].deps}
  BY DEF ReadsAreDependencies
<1>1. PICK k \in DOMAIN actions[i].deps, m \in DOMAIN actions :
        FindActions(actions[i].deps[k], actions, settings) = {m} /\ x = TextOf(actions[m], settings)
  BY CleanGraph DEF Reading, Reads
<1>2. Alias(actions[m].target) \in graph[i].deps
  <2>1. PICK n \in DOMAIN actions : Found(i, k) = {n} /\ Alias(actions[n].target) \in graph[i].deps
    BY CleanGraph DEF Waiting
  <2>2. n = m
    BY <1>1, <2>1 DEF Found
  <2> QED
    BY <2>1, <2>2
<1>3. Alias(actions[m].target) = FinalName(m)
  BY <1>1, AliasOfFound
<1>4. x = ResolveTarget(settings, FinalName(m))
  BY <1>1 DEF TextOf, FinalName
<1> QED
  BY <1>2, <1>3, <1>4

\* Were there a set of actions that wait for each other, one of them would have the
\* fewest targets ahead; but what it waits for has fewer.
LEMMA NoneWaitsForItself == IInv => CleanGraphIsAcyclic
<1> SUFFICES ASSUME IInv, Clean, NEW S \in SUBSET DOMAIN graph, S # {},
                    \A i \in S : \E j \in S : graph[j].target \in graph[i].deps
             PROVE  FALSE
  BY DEF CleanGraphIsAcyclic
<1> DEFINE D == DOMAIN Successors
           C(i) == Closure(graph[i].deps, Successors)
           ahead(i) == C(i) \cap D
<1>1. IsFiniteSet(D)
  <2> DEFINE f == [i \in DOMAIN graph |-> graph[i].target]
  <2>1. f \in Surjection(DOMAIN graph, D)
    BY DEF Surjection, Successors
  <2>2. IsFiniteSet(DOMAIN graph)
    BY NamesAreFinite DEF IInv
  <2> HIDE DEF f, D
  <2> QED
    BY <2>1, <2>2, FS_Surjection
<1>2. ASSUME NEW j \in DOMAIN graph
      PROVE  graph[j].target \in D /\ graph[j].deps \subseteq Successors[graph[j].target]
  BY DEF Successors
<1>3. ASSUME NEW i \in DOMAIN graph
      PROVE  /\ graph[i].deps \subseteq C(i) /\ Closed(C(i), Successors)
             /\ \A T : graph[i].deps \subseteq T /\ Closed(T, Successors) => C(i) \subseteq T
  BY <1>1, ClosureIsLeast, ClosureIsClosed
<1>4. \A i \in DOMAIN graph : graph[i].target \notin C(i)
  BY CleanGraph DEF Circular
<1> HIDE DEF C, D
<1>5. ASSUME NEW i \in DOMAIN graph
      PROVE  IsFiniteSet(ahead(i)) /\ Cardinality(ahead(i)) \in Nat
  <2>1. ahead(i) \subseteq D
    OBVIOUS
  <2> HIDE DEF ahead
  <2>2. IsFiniteSet(ahead(i))
    BY <1>1, <2>1, FS_Subset
  <2> QED
    BY <2>2, FS_CardinalityType
<1>6. ASSUME NEW i \in DOMAIN graph, NEW j \in DOMAIN graph, graph[j].target \in graph[i].deps
      PROVE  Cardinality(ahead(j)) + 1 <= Cardinality(ahead(i))
  <2>1. graph[j].target \in C(i) /\ graph[j].target \in D
    BY <1>2, <1>3, <1>6
  <2>2. graph[j].deps \subseteq C(i)
    BY <1>2, <1>3, <2>1 DEF Closed, D
  <2>3. C(j) \subseteq C(i)
    BY <1>3, <2>2
  <2>4. ahead(j) \subseteq ahead(i) /\ ahead(j) # ahead(i)
    BY <1>4, <2>1, <2>3
  <2> HIDE DEF ahead
  <2> QED
    BY <1>5, <2>4, Larger
<1> DEFINE sizes == {Cardinality(ahead(i)) : i \in S}
<1> HIDE DEF ahead
<1>7. sizes \subseteq Nat /\ sizes # {}
  BY <1>5
<1> HIDE DEF sizes
<1>8. PICK n \in sizes : \A m \in sizes : n <= m
  BY <1>7, LeastNumber
<1>9. PICK i \in S : n = Cardinality(ahead(i))
  BY <1>8 DEF sizes
<1>10. PICK j \in S : graph[j].target \in graph[i].deps
  BY <1>9
<1>11. Cardinality(ahead(j)) \in sizes
  BY <1>10 DEF sizes
<1>12. i \in DOMAIN graph /\ j \in DOMAIN graph
  BY <1>9, <1>10
<1>13. Cardinality(ahead(j)) \in Nat /\ Cardinality(ahead(i)) \in Nat
       /\ Cardinality(ahead(j)) + 1 <= Cardinality(ahead(i))
       /\ Cardinality(ahead(i)) <= Cardinality(ahead(j))
  BY <1>5, <1>6, <1>8, <1>9, <1>10, <1>11, <1>12
<1> QED
  BY <1>13

LEMMA OnlyExtractsAreLeftOut == IInv => NothingIsLost
<1> SUFFICES ASSUME IInv, Clean, NEW i \in DOMAIN actions \ DOMAIN graph
             PROVE  /\ actions[i].kind = "extract"
                    /\ \A j \in DOMAIN actions : \A k \in DOMAIN actions[j].deps :
                          i \notin FindActions(actions[j].deps[k], actions, settings)
  BY DEF NothingIsLost
<1> QED
  BY CleanGraph DEF Unwanted, Found

LEMMA InlineAssertionsGuard == IInv => InlineAssertionsGuardTheirTable
<1> SUFFICES ASSUME IInv, Clean, NEW i \in DOMAIN graph, graph[i].inline
             PROVE  \E j \in DOMAIN graph :
                      /\ graph[j].file = graph[i].file /\ graph[j].kind \in Datasets
                      /\ graph[j].target \in graph[i].deps
                      /\ graph[i].texts = {ResolveTarget(settings, graph[j].target)}
                      /\ graph[j].disabled => graph[i].disabled
  BY DEF InlineAssertionsGuardTheirTable
<1>1. PICK t \in DOMAIN actions :
        /\ Guards(actions[i], actions[t], settings)
        /\ graph[i].texts = {TextOf(actions[t], settings)}
        /\ \E k \in DOMAIN actions[i].deps :
              Found(i, k) = {t} /\ TargetOf(actions[i].deps[k]) = actions[t].target
  BY CleanGraph DEF Reading
<1>2. PICK k \in DOMAIN actions[i].deps : Found(i, k) = {t}
  BY <1>1
<1>3. actions[t].kind \in Datasets /\ actions[t].kind # "extract" /\ actions[t].kind # "declaration"
  BY <1>1 DEF Guards, Datasets
<1>4. t \in DOMAIN graph
  BY <1>3, CleanGraph DEF Unwanted
<1>5. Same(t) /\ Same(i) /\ Waiting(i) /\ graph[t].target = FinalName(t)
  BY <1>4, CleanGraph
<1>6. /\ graph[t].file = graph[i].file /\ graph[t].kind \in Datasets
      /\ graph[t].disabled => graph[i].disabled
  BY <1>1, <1>3, <1>5 DEF Same, Guards
<1>7. graph[t].target \in graph[i].deps
  <2>1. PICK n \in DOMAIN actions : Found(i, k) = {n} /\ Alias(actions[n].target) \in graph[i].deps
    BY <1>5, CleanGraph DEF Waiting
  <2>2. n = t
    BY <1>2, <2>1
  <2>3. Alias(actions[t].target) = FinalName(t)
    BY <1>2, AliasOfFound DEF Found
  <2> QED
    BY <1>5, <2>1, <2>2, <2>3
<1>8. graph[i].texts = {ResolveTarget(settings, graph[t].target)}
  BY <1>1, <1>5 DEF TextOf, FinalName
<1> QED
  BY <1>4, <1>6, <1>7, <1>8

LEMMA GatesWait == IInv => GatesWaitForInlineAssertions
<1> SUFFICES ASSUME IInv, Clean, NEW a \in DOMAIN graph, NEW k \in DOMAIN actions[a].deps,
                    actions[a].deps[k].assertions = "yes", NEW g \in DOMAIN graph, graph[g].inline,
                    NEW t \in FindActions(actions[a].deps[k], actions, settings),
                    TargetOf(actions[g].reads[1]) = actions[t].target
             PROVE  graph[g].target \in graph[a].deps
  BY DEF GatesWaitForInlineAssertions
<1> DEFINE ref == actions[a].deps[k]
<1>1. actions \in Seq(EveryAction) /\ g \in DOMAIN actions /\ Sound(actions[g]) /\ actions[g].inline
  BY CleanGraph DEF IInv, TypeOK, Built, Fit, Same
<1>2. actions[g].kind = "assertion"
  BY <1>1 DEF Sound
<1>3. PICK u \in DOMAIN actions :
        /\ Guards(actions[g], actions[u], settings)
        /\ \E n \in DOMAIN actions[g].deps : TargetOf(actions[g].deps[n]) = actions[u].target
  BY CleanGraph DEF Reading
<1>4. PICK n \in DOMAIN actions[g].deps : TargetOf(actions[g].deps[n]) = actions[u].target
  BY <1>3
<1>5. TargetOf(actions[g].reads[1]) = actions[u].target
  <2>1. actions[u] \in EveryAction
    BY <1>1, Elements
  <2>2. actions[u].target \in EveryTarget
    BY <2>1 DEF EveryAction
  <2>3. actions[g].reads[1] = Ref(actions[u].target, "unset")
    BY <1>3 DEF Guards
  <2> QED
    BY <2>2, <2>3 DEF TargetOf, Ref, Target, EveryTarget
<1>6. Denotes(ref, actions[u].target)
  BY <1>5, FoundTogether
<1>7. Denotes(ref, actions[g].deps[n])
  BY <1>4, <1>6 DEF Denotes, TargetOf, Target
<1>8. g \in AssertionsOf(ref)
  BY <1>1, <1>2, <1>7 DEF AssertionsOf
<1>9. Alias(actions[g].target) \in graph[a].deps
  BY <1>8, CleanGraph DEF Waiting
<1>10. Alias(actions[g].target) = FinalName(g)
  BY <1>1, <1>2 DEF Alias, FinalName
<1> QED
  BY <1>9, <1>10, CleanGraph

LEMMA SelectionIsAsAsked == IInv => SelectionIsWhatWasAsked
<1> DEFINE Connected == [name \in AllNames |->
                (IF selection.includeDependencies THEN Dependencies[name] ELSE {})
                \cup (IF selection.includeDependents THEN Dependents[name] ELSE {})]
           asked == Matched(selection)
           upstream == IF selection.includeDependencies THEN Closure(asked, Dependencies) ELSE asked
<1> SUFFICES ASSUME IInv, phase = "pruned", ~NoSelector(selection)
             PROVE  /\ asked \subseteq selected
                    /\ selected \subseteq Closure(asked, Connected)
                    /\ selection.includeDependencies /\ ~selection.includeDependents =>
                          \A i \in {LastOf(name) : name \in selected} :
                              \A t \in graph[i].deps : \A j \in InGraph(t) :
                                  j \in PrunableActions => Name(j) \in selected
                    /\ selection.includeDependents =>
                          \A i \in PrunableActions :
                              {ReadableName(t) : t \in graph[i].deps} \cap selected # {}
                                => Name(i) \in selected
  BY DEF SelectionIsWhatWasAsked
<1>1. /\ IsFiniteSet(AllNames) /\ DOMAIN Dependencies = AllNames /\ DOMAIN Dependents = AllNames
      /\ \A name \in AllNames : Dependencies[name] \subseteq AllNames
      /\ \A name \in AllNames : Dependents[name] \subseteq AllNames
      /\ asked \subseteq AllNames
  BY NamesAreFinite DEF IInv
<1>2. selected = IF selection.includeDependents THEN Closure(upstream, Dependents) ELSE upstream
  BY DEF IInv, Selecting, IncludedActionNames
<1>3. DOMAIN Connected = AllNames
  OBVIOUS
<1>4. ASSUME NEW name \in AllNames
      PROVE  /\ selection.includeDependencies => Dependencies[name] \subseteq Connected[name]
             /\ selection.includeDependents => Dependents[name] \subseteq Connected[name]
             /\ Connected[name] \subseteq AllNames
  BY <1>1
<1> HIDE DEF Connected, asked
<1> DEFINE C == Closure(asked, Connected)
<1>5. asked \subseteq C /\ C \subseteq AllNames /\ \A name \in C : Connected[name] \subseteq C
  BY <1>1, <1>3, <1>4, ClosureWithin
<1>6. /\ asked \subseteq Closure(asked, Dependencies) /\ Closure(asked, Dependencies) \subseteq AllNames
      /\ \A name \in Closure(asked, Dependencies) : Dependencies[name] \subseteq Closure(asked, Dependencies)
      /\ \A T : asked \subseteq T /\ Closed(T, Dependencies) => Closure(asked, Dependencies) \subseteq T
  BY <1>1, ClosureWithin
<1> HIDE DEF C
<1>7. asked \subseteq upstream /\ upstream \subseteq AllNames /\ upstream \subseteq C
  <2>1. selection.includeDependencies => Closed(C, Dependencies)
    BY <1>1, <1>4, <1>5 DEF Closed
  <2> QED
    BY <1>1, <1>5, <1>6, <2>1
<1>8. selection.includeDependencies => upstream = Closure(asked, Dependencies)
  OBVIOUS
<1> HIDE DEF upstream
<1>9. /\ upstream \subseteq Closure(upstream, Dependents) /\ Closure(upstream, Dependents) \subseteq AllNames
      /\ \A name \in Closure(upstream, Dependents) : Dependents[name] \subseteq Closure(upstream, Dependents)
      /\ \A T : upstream \subseteq T /\ Closed(T, Dependents) => Closure(upstream, Dependents) \subseteq T
  BY <1>1, <1>7, ClosureWithin
<1>10. asked \subseteq selected /\ selected \subseteq AllNames /\ selected \subseteq C
  <2>1. selection.includeDependents => Closed(C, Dependents)
    BY <1>1, <1>4, <1>5 DEF Closed
  <2> QED
    BY <1>2, <1>7, <1>9, <2>1
<1>11. ASSUME selection.includeDependencies, ~selection.includeDependents, NEW name \in selected,
              NEW t \in graph[LastOf(name)].deps, NEW j \in InGraph(t), j \in PrunableActions
       PROVE  Name(j) \in selected
  <2>1. selected = Closure(asked, Dependencies) /\ name \in AllNames
    BY <1>2, <1>8, <1>10, <1>11
  <2>2. Name(j) = ReadableName(t) /\ Name(j) \in AllNames
    BY <1>11 DEF InGraph, Name, AllNames
  <2>3. Name(j) \in Dependencies[name]
    BY <1>11, <2>1, <2>2 DEF Dependencies
  <2> QED
    BY <1>6, <1>11, <2>1, <2>3
<1>12. ASSUME selection.includeDependents, NEW i \in PrunableActions, NEW t \in graph[i].deps,
              ReadableName(t) \in selected
       PROVE  Name(i) \in selected
  <2>1. selected = Closure(upstream, Dependents) /\ ReadableName(t) \in AllNames
    BY <1>2, <1>10, <1>12
  <2>2. Name(i) \in Dependents[ReadableName(t)]
    BY <1>12, <2>1 DEF Dependents
  <2> QED
    BY <1>9, <1>12, <2>1, <2>2
<1> QED
  BY <1>10, <1>11, <1>12 DEF C

-----------------------------------------------------------------------------
(* The theorems.                                                           *)

\* The state of a session keeps its types: names of what is selected are names of
\* actions of the graph, and every error is about a file of the project.
THEOREM TypeCorrect == Spec => []TypeOK
<1>1. IInv => TypeOK
  BY DEF IInv
<1> QED
  BY <1>1, Invariant, PTL

\* After fullyQualifyDependencies, alterActionName and removeNonUniqueActionsFromCompiledGraph,
\* every dependency is the final name of an action that the graph has.
THEOREM DependenciesExist == Spec => []EveryDependencyIsBuilt
BY Invariant, DependenciesAreBuilt, PTL

\* What Session.resolve() put into an action's SQL is what the action waits for: names are
\* made twice, in resolve() and in alterActionName(), and agree.
THEOREM ReadsAndDependenciesAgree == Spec => []ReadsAreDependencies
BY Invariant, ReadsAreWaitedFor, PTL

\* checkCircularity() finds every cycle: of any set of actions of a clean graph, one waits
\* for none of the set.
THEOREM CleanGraphsAreAcyclic == Spec => []CleanGraphIsAcyclic
BY Invariant, NoneWaitsForItself, PTL

\* Between the constructors and the graph no action is lost silently, except the extracts
\* that nothing finds.
THEOREM NothingGetsLost == Spec => []NothingIsLost
BY Invariant, OnlyExtractsAreLeftOut, PTL

\* Builder calls, lookups and renaming keep a table's inline assertions on their table.
THEOREM InlineAssertionsGuardTables == Spec => []InlineAssertionsGuardTheirTable
BY Invariant, InlineAssertionsGuard, PTL

\* A reference with its assertions waits for every inline assertion of what it finds,
\* whatever parts of the name it leaves out: the actionAssertionMap is not narrower than
\* findActions().
THEOREM GatesAreComplete == Spec => []GatesWaitForInlineAssertions
BY Invariant, GatesWait, PTL

\* prune() keeps what was asked for, what that needs, and nothing unconnected.
THEOREM SelectionsAreExact == Spec => []SelectionIsWhatWasAsked
BY Invariant, SelectionIsAsAsked, PTL
=============================================================================
