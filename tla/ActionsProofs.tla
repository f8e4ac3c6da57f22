---------------------------- MODULE ActionsProofs ----------------------------
(***************************************************************************)
(* What the constructors, the builder calls and compile() of Actions       *)
(* promise, for every definition and settings.                             *)
(***************************************************************************)
EXTENDS Actions, Induction, SequenceTheorems

NamesOf(c) == {c.database, c.schema, c.assertionSchema, c.prefix, c.schemaSuffix,
               c.databaseSuffix, c.builtinPrefix}
Sensible(c) == NamesOf(c) \subseteq EveryName /\ c.disableAssertions \in BOOLEAN

-----------------------------------------------------------------------------
(* Sequences.                                                              *)

LEMMA Concatenated ==
    ASSUME NEW S, NEW s \in Seq(S), NEW t \in Seq(S)
    PROVE  LET u == s \o t IN
           /\ u \in Seq(S) /\ Len(s) \in Nat /\ Len(t) \in Nat /\ Len(u) = Len(s) + Len(t)
           /\ \A i \in DOMAIN s : i \in DOMAIN u /\ u[i] = s[i]
           /\ \A i \in DOMAIN t : Len(s) + i \in DOMAIN u /\ u[Len(s) + i] = t[i]
           /\ \A i \in DOMAIN u : i \in Nat /\ (i \in DOMAIN s \/ i - Len(s) \in DOMAIN t)
<1> DEFINE u == s \o t
<1>1. /\ u \in Seq(S) /\ Len(u) = Len(s) + Len(t) /\ Len(s) \in Nat /\ Len(t) \in Nat
      /\ \A i \in 1..Len(u) : u[i] = IF i <= Len(s) THEN s[i] ELSE t[i - Len(s)]
  BY ConcatProperties
<1>2. DOMAIN u = 1..Len(u) /\ DOMAIN s = 1..Len(s) /\ DOMAIN t = 1..Len(t)
  BY <1>1
<1> HIDE DEF u
<1>3. \A i \in DOMAIN s : i \in DOMAIN u /\ u[i] = s[i]
  BY <1>1, <1>2
<1>4. ASSUME NEW i \in DOMAIN t PROVE Len(s) + i \in DOMAIN u /\ u[Len(s) + i] = t[i]
  <2>1. Len(s) + i \in 1..Len(u) /\ ~(Len(s) + i <= Len(s)) /\ Len(s) + i - Len(s) = i
    BY <1>1, <1>2
  <2> QED
    BY <2>1, <1>1, <1>2
<1>5. \A i \in DOMAIN u : i \in Nat /\ (i \in DOMAIN s \/ i - Len(s) \in DOMAIN t)
  BY <1>1, <1>2
<1> QED
  BY <1>1, <1>3, <1>4, <1>5 DEF u

LEMMA Elements ==
    ASSUME NEW S, NEW T, T \subseteq S, NEW s \in Seq(T)
    PROVE  s \in Seq(S) /\ \A i \in DOMAIN s : s[i] \in T
<1>1. DOMAIN s = 1..Len(s) /\ Len(s) \in Nat /\ \A i \in 1..Len(s) : s[i] \in T
  OBVIOUS
<1>2. s = [i \in 1..Len(s) |-> s[i]]
  BY <1>1
<1> QED
  BY <1>1, <1>2

LEMMA Narrowed ==
    ASSUME NEW S, NEW T, NEW s \in Seq(S), \A i \in DOMAIN s : s[i] \in T
    PROVE  s \in Seq(T)
<1>1. DOMAIN s = 1..Len(s) /\ Len(s) \in Nat /\ \A i \in 1..Len(s) : s[i] \in T
  OBVIOUS
<1>2. s = [i \in 1..Len(s) |-> s[i]]
  BY <1>1
<1> QED
  BY <1>1, <1>2

-----------------------------------------------------------------------------
(* Names and targets.                                                      *)

LEMMA Joined ==
    ASSUME NEW a \in EveryName, NEW b \in EveryName
    PROVE  a \o b \in EveryName
BY ConcatProperties DEF EveryName

LEMMA UnsetIsAName == Unset \in EveryName
BY DEF Unset, EveryName

LEMMA Targeted ==
    ASSUME NEW a \in EveryName, NEW b \in EveryName, NEW n \in EveryName
    PROVE  /\ Target(a, b, n) \in EveryTarget /\ Bare(n) \in EveryTarget
           /\ OrElse(a, b) \in EveryName
BY UnsetIsAName DEF Target, Bare, EveryTarget, OrElse

LEMMA Referring ==
    ASSUME NEW t \in EveryTarget, NEW said \in {"unset", "yes", "no"}
    PROVE  Ref(t, said) \in EveryRef /\ TargetOf(Ref(t, said)) = t /\ TargetOf(t) = t
BY DEF EveryTarget, EveryRef, Ref, TargetOf, Target

LEMMA References ==
    ASSUME NEW r \in EveryRef
    PROVE  /\ TargetOf(r) \in EveryTarget
           /\ \A said \in {"unset", "yes", "no"} :
                 /\ [r EXCEPT !.assertions = said] \in EveryRef
                 /\ TargetOf([r EXCEPT !.assertions = said]) = TargetOf(r)
BY DEF EveryTarget, EveryRef, TargetOf, Target

\* The names that settings make are names.
LEMMA Named ==
    ASSUME NEW c, Sensible(c), NEW t \in EveryTarget, NEW schema \in EveryName
    PROVE  /\ ApplySessionToTarget(t, c, schema) \in EveryTarget
           /\ FinalTarget(c, t) \in EveryTarget /\ FinalizeTarget(c, t) \in EveryTarget
           /\ ResolveTarget(c, t) \in EveryTarget /\ AssertionSchema(c) \in EveryName
<1>1. t.database \in EveryName /\ t.schema \in EveryName /\ t.name \in EveryName
  BY DEF EveryTarget
<1>2. /\ c.database \in EveryName /\ c.schema \in EveryName /\ c.assertionSchema \in EveryName
      /\ c.prefix \in EveryName /\ c.schemaSuffix \in EveryName
      /\ c.databaseSuffix \in EveryName
  BY DEF Sensible, NamesOf
<1>3. ApplySessionToTarget(t, c, schema) \in EveryTarget
  BY <1>1, <1>2, Targeted DEF ApplySessionToTarget
<1>4. ResolveTarget(c, t) \in EveryTarget /\ AssertionSchema(c) \in EveryName
  BY <1>1, <1>2, Targeted DEF ResolveTarget, AssertionSchema
<1>5. /\ FinalizeDatabase(c, t.database) \in EveryName
      /\ FinalizeSchema(c, t.schema) \in EveryName /\ FinalizeName(c, t.name) \in EveryName
  BY <1>1, <1>2, Joined, UnsetIsAName DEF FinalizeDatabase, FinalizeSchema, FinalizeName
<1>6. FinalTarget(c, t) \in EveryTarget
  BY <1>5, Targeted DEF FinalTarget
<1>7. FinalizeTarget(c, t) \in EveryTarget
  BY <1>5, <1>6, UnsetIsAName DEF FinalizeTarget, EveryTarget
<1> QED
  BY <1>3, <1>4, <1>6, <1>7

-----------------------------------------------------------------------------
(* Dependencies.                                                           *)

\* b is a with more dependencies, or with a fault for one.
Grown(a, b) ==
    /\ b.kind = a.kind /\ b.file = a.file /\ b.target = a.target /\ b.canonical = a.canonical
    /\ b.reads = a.reads /\ b.gate = a.gate /\ b.disabled = a.disabled /\ b.output = a.output
    /\ b.tags = a.tags /\ b.parent = a.parent /\ b.inline = a.inline /\ b.flaw = a.flaw
    /\ b.of = a.of
    /\ a.faults \subseteq b.faults
    /\ b.broken => a.broken \/ b.faults # {}

\* a depends on the relation that ref names.
DependsOn(a, ref) == \E k \in DOMAIN a.deps : TargetOf(a.deps[k]) = TargetOf(ref)

LEMMA GrowsOn ==
    ASSUME NEW a, NEW b, NEW e, Grown(a, b), Grown(b, e)
    PROVE  Grown(a, e)
BY DEF Grown

\* One dependency more.
LEMMA Adds ==
    ASSUME NEW c, Sensible(c), NEW a \in EveryAction, NEW ref \in EveryRef
    PROVE  /\ Add(a, ref, c) \in EveryAction /\ Grown(a, Add(a, ref, c))
           /\ Add(a, ref, c).faults = {} => DependsOn(Add(a, ref, c), ref)
           /\ \A r : DependsOn(a, r) => DependsOn(Add(a, ref, c), r)
<1> DEFINE b == Add(a, ref, c)
<1>1. a.deps \in Seq(EveryRef) /\ a.faults \in SUBSET Words /\ a.broken \in BOOLEAN
      /\ a.seen \in SUBSET (EveryTarget \X {"yes", "no"})
  BY DEF EveryAction
<1>2. ASSUME NEW r \in EveryRef, NEW seen \in SUBSET (EveryTarget \X {"yes", "no"}),
             TargetOf(r) = TargetOf(ref),
             b = [a EXCEPT !.deps = Append(@, r), !.seen = seen]
      PROVE  /\ b \in EveryAction /\ Grown(a, b) /\ DependsOn(b, ref)
             /\ \A x : DependsOn(a, x) => DependsOn(b, x)
  <2> DEFINE deps == Append(a.deps, r)
  <2>1. /\ deps \in Seq(EveryRef) /\ Len(deps) = Len(a.deps) + 1
        /\ deps[Len(deps)] = r /\ \A k \in DOMAIN a.deps : deps[k] = a.deps[k]
        /\ DOMAIN deps = 1..Len(deps) /\ DOMAIN a.deps = 1..Len(a.deps)
        /\ Len(a.deps) \in Nat
    BY <1>1, <1>2
  <2>2. Len(deps) \in DOMAIN deps /\ DOMAIN a.deps \subseteq DOMAIN deps
    BY <2>1
  <2> HIDE DEF deps, b
  <2>3. b = [a EXCEPT !.deps = deps, !.seen = seen]
    BY <1>2 DEF deps
  <2>4. b \in EveryAction /\ Grown(a, b) /\ b.deps = deps
    BY <2>1, <2>3 DEF EveryAction, Grown
  <2> QED
    BY <2>1, <2>2, <2>4, <1>2 DEF DependsOn
<1>3. CASE a.kind = "assertion"
  <2>1. b = [a EXCEPT !.deps = Append(@, ref), !.seen = a.seen]
    BY <1>3, <1>1 DEF Add, AddAssertionDependency, EveryAction
  <2> HIDE DEF b
  <2> QED
    BY <2>1, <1>1, <1>2 DEF b
<1>4. CASE a.kind # "assertion"
  <2> DEFINE asked == IF ref.assertions # "unset" THEN ref.assertions
                      ELSE IF a.gate /\ a.kind # "dataPreparation" THEN "yes" ELSE "no"
             relation == ResolveTarget(c, TargetOf(ref))
             conflict == \E pair \in a.seen : pair[1] = relation /\ pair[2] # asked
  <2>0. asked \in {"yes", "no"}
    BY DEF EveryRef
  <2>1. relation \in EveryTarget
    <3>1. TargetOf(ref) \in EveryTarget
      BY References
    <3> QED
      BY <3>1, Named, UnsetIsAName
  <2>2. CASE conflict
    <3>1. b = [a EXCEPT !.faults = @ \cup {"conflict"},
                        !.broken = @ \/ a.kind \in {"incremental", "dataPreparation"}]
      BY <1>4, <2>2 DEF Add, AddDependency
    <3> DEFINE faults == a.faults \cup {"conflict"}
               broken == a.broken \/ a.kind \in {"incremental", "dataPreparation"}
    <3>2. faults \in SUBSET Words /\ faults # {} /\ a.faults \subseteq faults
      BY <1>1, WordsAssumption DEF Messages
    <3>3. broken \in BOOLEAN
      BY <1>1
    <3>4. b = [a EXCEPT !.faults = faults, !.broken = broken]
      BY <3>1
    <3> HIDE DEF b, faults, broken
    <3>5. b \in EveryAction /\ b.faults = faults /\ b.deps = a.deps
      BY <3>2, <3>3, <3>4 DEF EveryAction
    <3>6. Grown(a, b)
      BY <3>2, <3>4, <3>5 DEF EveryAction, Grown
    <3> QED
      BY <3>2, <3>5, <3>6 DEF DependsOn, b
  <2>3. CASE ~conflict
    <3> DEFINE r == [ref EXCEPT !.assertions = asked]
               seen == a.seen \cup {<<relation, asked>>}
    <3>1. b = [a EXCEPT !.deps = Append(@, r), !.seen = seen]
      BY <1>4, <2>3 DEF Add, AddDependency
    <3>2. r \in EveryRef /\ TargetOf(r) = TargetOf(ref)
      <4> HIDE DEF asked
      <4> QED
        BY <2>0, References
    <3>3. seen \in SUBSET (EveryTarget \X {"yes", "no"})
      <4> HIDE DEF asked, relation
      <4> QED
        BY <1>1, <2>0, <2>1
    <3> HIDE DEF r, seen, b
    <3>4. /\ b \in EveryAction /\ Grown(a, b) /\ DependsOn(b, ref)
          /\ \A x : DependsOn(a, x) => DependsOn(b, x)
      BY <1>2, <3>1, <3>2, <3>3
    <3> QED
      BY <3>4 DEF b
  <2> QED
    BY <2>2, <2>3
<1> QED
  BY <1>3, <1>4

\* All the dependencies of refs, or a fault.
LEMMA AddsAll ==
    ASSUME NEW c, Sensible(c), NEW a \in EveryAction, NEW refs \in Seq(EveryRef)
    PROVE  LET b == AddDependencies(a, refs, c) IN
           /\ b \in EveryAction /\ Grown(a, b)
           /\ b.faults = {} => \A k \in DOMAIN refs : DependsOn(b, refs[k])
<1> DEFINE N == Len(refs)
           F == [x \in (1..N) \X EveryAction |-> Add(x[2], refs[x[1]], c)]
           with[n \in 0..N] == IF n = 0 THEN a ELSE Add(with[n - 1], refs[n], c)
<1>1. N \in Nat /\ DOMAIN refs = 1..N /\ \A n \in 1..N : refs[n] \in EveryRef
  OBVIOUS
<1>2. F \in [(1..N) \X EveryAction -> EveryAction]
  <2>1. ASSUME NEW n \in 1..N, NEW b \in EveryAction PROVE Add(b, refs[n], c) \in EveryAction
    BY <1>1, Adds
  <2> HIDE DEF N
  <2> QED
    BY <2>1
<1>3. AddDependencies(a, refs, c) = with[N]
  BY DEF AddDependencies
<1> HIDE DEF N, F, with
<1>4. PICK f \in [0..N -> EveryAction] :
          f[0] = a /\ \A n \in 1..N : f[n] = F[<<n, f[n - 1]>>]
  <2>1. From(a, F, N, EveryAction) # {}
    BY <1>1, <1>2, ByRecursion
  <2> QED
    BY <2>1 DEF From
<1>5. ASSUME NEW n \in 1..N
      PROVE  n - 1 \in 0..N /\ n \in 0..N /\ n # 0 /\ f[n] = Add(f[n - 1], refs[n], c)
  <2>1. n - 1 \in 0..N /\ n \in 0..N /\ n # 0
    BY <1>1
  <2>2. f[n - 1] \in EveryAction
    BY <1>4, <2>1
  <2>3. F[<<n, f[n - 1]>>] = Add(f[n - 1], refs[n], c)
    BY <2>2 DEF F
  <2> QED
    BY <1>4, <2>1, <2>3
<1>6. f = [n \in 0..N |-> IF n = 0 THEN a ELSE Add(f[n - 1], refs[n], c)]
  <2>1. ASSUME NEW n \in 0..N
        PROVE  f[n] = IF n = 0 THEN a ELSE Add(f[n - 1], refs[n], c)
    <3>1. n = 0 \/ n \in 1..N
      BY <1>1
    <3> QED
      BY <3>1, <1>4, <1>5
  <2> QED
    BY <2>1, <1>4
<1>7. with = [n \in 0..N |-> IF n = 0 THEN a ELSE Add(with[n - 1], refs[n], c)]
  BY <1>6 DEF with
<1> DEFINE P == {n \in 0..N :
                   /\ with[n] \in EveryAction /\ Grown(a, with[n])
                   /\ with[n].faults = {} => \A k \in 1..n : DependsOn(with[n], refs[k])}
<1>8. 0 \in P
  <2>1. with[0] = a
    BY <1>7, <1>1
  <2>2. Grown(a, a)
    BY DEF Grown
  <2> QED
    BY <1>1, <2>1, <2>2
<1>9. ASSUME NEW n \in 1..N, n - 1 \in P PROVE n \in P
  <2> DEFINE b == with[n - 1]
             e == Add(b, refs[n], c)
  <2>1. n \in 0..N /\ n # 0 /\ refs[n] \in EveryRef /\ n - 1 \in 0..N
    BY <1>1
  <2>2. with[n] = e
    BY <1>7, <2>1
  <2>3. b \in EveryAction /\ Grown(a, b)
        /\ (b.faults = {} => \A k \in 1..(n - 1) : DependsOn(b, refs[k]))
    BY <1>9
  <2> HIDE DEF b, P
  <2>4. /\ e \in EveryAction /\ Grown(b, e)
        /\ e.faults = {} => DependsOn(e, refs[n])
        /\ \A r : DependsOn(b, r) => DependsOn(e, r)
    BY <2>1, <2>3, Adds
  <2> HIDE DEF e
  <2>5. Grown(a, e)
    BY <2>3, <2>4, GrowsOn
  <2>6. ASSUME e.faults = {}, NEW k \in 1..n PROVE DependsOn(e, refs[k])
    <3>1. b.faults = {}
      BY <2>4, <2>6 DEF Grown
    <3>2. k = n \/ k \in 1..(n - 1)
      BY <1>1
    <3> QED
      BY <3>1, <3>2, <2>3, <2>4, <2>6
  <2> QED
    BY <2>1, <2>2, <2>4, <2>5, <2>6 DEF P
<1> HIDE DEF P
<1>10. N \in P
  <2>1. \A n \in 0..N : n \in P
    BY <1>1, <1>8, <1>9, UpTo
  <2> QED
    BY <2>1, <1>1
<1> QED
  BY <1>1, <1>3, <1>10 DEF P

-----------------------------------------------------------------------------
(* Constructors.                                                           *)

\* What every action of the session is like.
Sound(a) ==
    /\ a.broken => a.faults # {}
    /\ a.kind \in {"declaration", "extract"} => a.deps = << >>
    /\ a.inline => a.kind = "assertion" /\ a.flaw = "none"

\* g is an assertion of the config of t.
Guards(g, t, c) ==
    /\ g.file = t.file /\ t.kind \in Datasets /\ (t.disabled => g.disabled)
    /\ g.reads = <<Ref(t.target, "unset")>>
    /\ t.target.database = Unset => c.database = Unset
    /\ t.target.schema = Unset => c.schema = Unset

Guarded(acts, c) == \A i \in DOMAIN acts : acts[i].inline => \E j \in DOMAIN acts : Guards(acts[i], acts[j], c)

\* An action of the definition d; what d's constructor and builder calls make.
Good(a, d) == a \in EveryAction /\ Sound(a) /\ a.file = d.file
Made(m, d) ==
    /\ m = [actions |-> m.actions, threw |-> m.threw]
    /\ m.actions \in Seq(EveryAction) /\ m.threw \in BOOLEAN
    /\ \A i \in DOMAIN m.actions : Good(m.actions[i], d)
Plainly(m, kinds) == \A i \in DOMAIN m.actions : ~m.actions[i].inline /\ m.actions[i].kind \in kinds

LEMMA WordsUsed == OwnNames \subseteq Words /\ Messages \subseteq Words /\ "added" \in Words
BY WordsAssumption

LEMMA BlankIsGood ==
    ASSUME NEW c, Sensible(c), NEW d \in EveryDefinition, NEW t \in EveryTarget,
           NEW schema \in EveryName
    PROVE  LET a == Blank(d, c, t, schema) IN
           /\ Good(a, d) /\ a.kind = d.kind /\ a.deps = << >> /\ a.reads = d.reads
           /\ ~a.inline /\ ~a.broken /\ a.disabled = d.disabled /\ a.flaw = d.flaw
           /\ a.target = ApplySessionToTarget(t, c, schema)
<1> DEFINE u == ApplySessionToTarget(t, c, schema)
           faults == IF InvalidTarget(t) THEN {"dots"} ELSE {}
           nothing == Bare(Unset)
<1>1. u \in EveryTarget
  BY Named
<1>2. faults \in SUBSET Words
  BY WordsUsed DEF Messages
<1>3. nothing \in EveryTarget
  BY UnsetIsAName, Targeted
<1>4. << >> \in Seq(EveryRef)
  OBVIOUS
<1>5. d.kind \in Kinds
  BY DEF EveryDefinition, Kinds
<1> HIDE DEF u, faults, nothing
<1>6. Blank(d, c, t, schema) =
        [kind |-> d.kind, file |-> d.file, target |-> u, canonical |-> u, deps |-> << >>,
         seen |-> {}, reads |-> d.reads, gate |-> d.gate, disabled |-> d.disabled,
         output |-> d.output, tags |-> d.tags, parent |-> nothing, inline |-> FALSE,
         flaw |-> d.flaw, of |-> d.of, broken |-> FALSE, faults |-> faults]
  BY DEF Blank, u, faults, nothing
<1>7. Blank(d, c, t, schema) \in EveryAction
  BY <1>1, <1>2, <1>3, <1>4, <1>5, <1>6 DEF EveryAction, EveryDefinition
<1> QED
  BY <1>6, <1>7 DEF Good, Sound, u

\* What m has is inline, and a with a fault or as it is.
EndsWith(m, a, d, inline) ==
    \E b : Good(b, d) /\ Grown(a, b) /\ b.deps = a.deps /\ m.actions = Append(inline, b)

\* What is appended to the assertions that a constructor has made.
LEMMA Constructed ==
    ASSUME NEW c, NEW d \in EveryDefinition, NEW a, Good(a, d), NEW inline \in Seq(EveryAction),
           \A i \in DOMAIN inline : Good(inline[i], d)
    PROVE  LET m == Construct(d, c, a, inline) IN
           /\ Made(m, d) /\ (Len(inline) = 0 /\ ~a.inline => Plainly(m, {a.kind}))
           /\ ~m.threw => EndsWith(m, a, d, inline)
<1> DEFINE m == Construct(d, c, a, inline)
           effect == EffectOf(ConstructorChecks(d.kind), d.flaw)
<1>1. d.flaw \in Words /\ a \in EveryAction /\ a.faults \in SUBSET Words
  BY DEF EveryDefinition, Good, EveryAction
<1>2. ASSUME NEW b, Good(b, d), Grown(a, b), b.deps = a.deps, m = Pushed(Append(inline, b))
      PROVE  /\ Made(m, d) /\ (Len(inline) = 0 /\ ~a.inline => Plainly(m, {a.kind})) /\ ~m.threw
             /\ EndsWith(m, a, d, inline)
  <2>1. b \in EveryAction /\ b.inline = a.inline /\ b.kind = a.kind
    BY <1>2 DEF Good, Grown
  <2> DEFINE acts == Append(inline, b)
  <2>2. /\ acts \in Seq(EveryAction) /\ DOMAIN acts = 1..(Len(inline) + 1) /\ Len(inline) \in Nat
        /\ DOMAIN inline = 1..Len(inline)
        /\ \A i \in DOMAIN acts : acts[i] = IF i \in DOMAIN inline THEN inline[i] ELSE b
        /\ Len(inline) = 0 => \A i \in DOMAIN acts : acts[i] = b
    BY <2>1
  <2> HIDE DEF acts, m
  <2>3. m = [actions |-> acts, threw |-> FALSE]
    BY <1>2 DEF Pushed, acts
  <2>4. Made(m, d)
    <3>1. m.actions = acts /\ m.threw = FALSE /\ m = [actions |-> m.actions, threw |-> m.threw]
      BY <2>3
    <3>2. ASSUME NEW i \in DOMAIN acts PROVE Good(acts[i], d)
      <4>1. i \in DOMAIN inline => Good(inline[i], d)
        OBVIOUS
      <4> QED
        BY <4>1, <2>2, <1>2
    <3> QED
      BY <2>2, <3>1, <3>2 DEF Made
  <2>5. Len(inline) = 0 /\ ~a.inline => Plainly(m, {a.kind})
    BY <2>1, <2>2, <2>3 DEF Plainly
  <2> QED
    BY <1>2, <2>3, <2>4, <2>5 DEF acts, EndsWith
<1>3. CASE effect = "reject"
  <2>1. m = [actions |-> << >>, threw |-> TRUE]
    BY <1>3 DEF Construct, Threw
  <2> QED
    BY <2>1 DEF Made, Plainly
<1>4. CASE effect = "late"
  <2>1. m = [actions |-> inline, threw |-> TRUE]
    BY <1>4 DEF Construct, Threw
  <2>2. Len(inline) = 0 => DOMAIN inline = {}
    OBVIOUS
  <2> HIDE DEF m
  <2>3. Made(m, d) /\ m.threw /\ (Len(inline) = 0 => Plainly(m, {a.kind}))
    BY <2>1, <2>2 DEF Made, Plainly
  <2> QED
    BY <2>3 DEF m
<1>5. CASE effect = "report"
  <2> DEFINE b == [a EXCEPT !.faults = @ \cup {d.flaw}]
             faults == a.faults \cup {d.flaw}
  <2>1. m = Pushed(Append(inline, b))
    BY <1>5 DEF Construct
  <2>2. faults \in SUBSET Words /\ faults # {} /\ a.faults \subseteq faults
    BY <1>1
  <2>3. b = [a EXCEPT !.faults = faults]
    OBVIOUS
  <2> HIDE DEF b, faults, m
  <2>4. b \in EveryAction /\ Grown(a, b) /\ b.deps = a.deps /\ b.faults = faults
    BY <1>1, <2>2, <2>3 DEF EveryAction, Grown
  <2>5. Good(b, d)
    BY <2>2, <2>4 DEF Good, Grown, Sound
  <2> QED
    BY <1>2, <2>1, <2>4, <2>5 DEF m
<1>6. CASE effect \notin {"reject", "late", "report"}
  <2>1. m = Pushed(Append(inline, a))
    BY <1>6 DEF Construct
  <2>2. Grown(a, a)
    BY DEF Grown
  <2> HIDE DEF m
  <2> QED
    BY <1>2, <2>1, <2>2 DEF m
<1> QED
  BY <1>3, <1>4, <1>5, <1>6

\* A constructor that makes one action, or throws.
LEMMA ConstructedAlone ==
    ASSUME NEW c, NEW d \in EveryDefinition, NEW a, Good(a, d), ~a.inline
    PROVE  LET m == Construct(d, c, a, << >>) IN Made(m, d) /\ Plainly(m, {a.kind})
<1>1. << >> \in Seq(EveryAction) /\ Len(<< >>) = 0 /\ DOMAIN << >> = {}
  OBVIOUS
<1> QED
  BY <1>1, Constructed

\* Growing keeps an action good; a declaration or an extract does not grow.
LEMMA GrownIsGood ==
    ASSUME NEW d, NEW a, NEW b \in EveryAction, Good(a, d), Grown(a, b),
           a.kind \in {"declaration", "extract"} => b.deps = << >>
    PROVE  Good(b, d)
BY DEF Good, Sound, Grown

LEMMA AddsGoodly ==
    ASSUME NEW c, Sensible(c), NEW d, NEW a, Good(a, d), NEW refs \in Seq(EveryRef),
           a.kind \notin {"declaration", "extract"} \/ refs = << >>
    PROVE  LET b == AddDependencies(a, refs, c) IN Good(b, d) /\ Grown(a, b)
<1> DEFINE b == AddDependencies(a, refs, c)
<1>1. b \in EveryAction /\ Grown(a, b)
  BY AddsAll DEF Good
<1>2. ASSUME refs = << >> PROVE b = a
  <2> DEFINE with[n \in 0..Len(refs)] == IF n = 0 THEN a ELSE Add(with[n - 1], refs[n], c)
  <2>1. b = with[Len(refs)] /\ Len(refs) = 0
    BY <1>2 DEF AddDependencies
  <2> HIDE DEF b
  <2>2. with[0] = a
    <3> DEFINE f == [n \in 0..Len(refs) |-> a]
    <3>1. 0..Len(refs) = {0}
      BY <1>2
    <3>2. f = [n \in 0..Len(refs) |-> IF n = 0 THEN a ELSE Add(f[n - 1], refs[n], c)]
      BY <3>1
    <3> HIDE DEF f, with
    <3>3. with = [n \in 0..Len(refs) |-> IF n = 0 THEN a ELSE Add(with[n - 1], refs[n], c)]
      BY <3>2 DEF with
    <3> QED
      BY <3>1, <3>3
  <2> QED
    BY <2>1, <2>2
<1> QED
  BY <1>1, <1>2, GrownIsGood DEF Good, Sound

\* The constructors of an action that has no assertions of its own.
LEMMA PlainIsSound ==
    ASSUME NEW c, Sensible(c), NEW d \in EveryDefinition, d.kind # "declaration" \/ d.deps = << >>
    PROVE  Made(NewPlain(d, c), d) /\ Plainly(NewPlain(d, c), {d.kind})
<1> DEFINE a == Blank(d, c, d.target, c.schema)
           b == AddDependencies(a, d.deps, c)
<1>1. /\ d.target \in EveryTarget /\ d.deps \in Seq(EveryRef) /\ d.kind # "extract"
      /\ c.schema \in EveryName
  BY DEF EveryDefinition, Definable, Datasets, Statements, Sensible, NamesOf
<1>2. Good(a, d) /\ a.kind = d.kind /\ ~a.inline
  BY <1>1, BlankIsGood
<1>3. NewPlain(d, c) = Construct(d, c, b, << >>)
  BY DEF NewPlain
<1> HIDE DEF a
<1>4. Good(b, d) /\ Grown(a, b)
  BY <1>1, <1>2, AddsGoodly
<1> HIDE DEF b
<1>5. ~b.inline /\ b.kind = d.kind
  BY <1>2, <1>4 DEF Grown
<1> QED
  BY <1>3, <1>4, <1>5, ConstructedAlone

LEMMA PlainKindsAreSound ==
    ASSUME NEW c, Sensible(c), NEW d \in EveryDefinition, d.kind \notin {"declaration"}
    PROVE  /\ Made(NewOperation(d, c), d) /\ Plainly(NewOperation(d, c), {d.kind})
           /\ Made(NewExport(d, c), d) /\ Plainly(NewExport(d, c), {d.kind})
           /\ Made(NewImport(d, c), d) /\ Plainly(NewImport(d, c), {d.kind})
           /\ Made(NewNotebook(d, c), d) /\ Plainly(NewNotebook(d, c), {d.kind})
           /\ Made(NewScript(d, c), d) /\ Plainly(NewScript(d, c), {d.kind})
<1> DEFINE export == [d EXCEPT !.gate = FALSE]
           import == [d EXCEPT !.reads = << >>, !.gate = FALSE]
           notebook == [d EXCEPT !.reads = << >>]
<1>1. << >> \in Seq(EveryRef)
  OBVIOUS
<1>2. /\ export \in EveryDefinition /\ import \in EveryDefinition
      /\ notebook \in EveryDefinition
  BY <1>1 DEF EveryDefinition
<1>3. /\ export.kind = d.kind /\ import.kind = d.kind /\ notebook.kind = d.kind
      /\ export.file = d.file /\ import.file = d.file /\ notebook.file = d.file
  BY DEF EveryDefinition
<1> HIDE DEF export, import, notebook
<1>4. ASSUME NEW e \in EveryDefinition, e.kind = d.kind, e.file = d.file
      PROVE  Made(NewPlain(e, c), d) /\ Plainly(NewPlain(e, c), {d.kind})
  <2>1. Made(NewPlain(e, c), e) /\ Plainly(NewPlain(e, c), {e.kind})
    BY <1>4, PlainIsSound
  <2> QED
    BY <2>1, <1>4 DEF Made, Good
<1> QED
  BY <1>2, <1>3, <1>4 DEF NewOperation, NewExport, NewImport, NewNotebook, NewScript,
                          export, import, notebook

LEMMA DeclarationIsSound ==
    ASSUME NEW c, Sensible(c), NEW d \in EveryDefinition
    PROVE  Made(NewDeclaration(d, c), d) /\ Plainly(NewDeclaration(d, c), {d.kind})
<1> DEFINE e == [d EXCEPT !.deps = << >>, !.disabled = FALSE]
<1>1. << >> \in Seq(EveryRef)
  OBVIOUS
<1>2. e \in EveryDefinition /\ e.kind = d.kind /\ e.file = d.file /\ e.deps = << >>
  BY <1>1 DEF EveryDefinition
<1>3. NewDeclaration(d, c) = NewPlain(e, c)
  BY DEF NewDeclaration
<1> HIDE DEF e
<1>4. Made(NewPlain(e, c), e) /\ Plainly(NewPlain(e, c), {e.kind})
  BY <1>2, PlainIsSound
<1> QED
  BY <1>2, <1>3, <1>4 DEF Made, Good

LEMMA AssertionIsSound ==
    ASSUME NEW c, Sensible(c), NEW d \in EveryDefinition, d.kind = "assertion"
    PROVE  Made(NewAssertion(d, c), d) /\ Plainly(NewAssertion(d, c), {d.kind})
<1> DEFINE a == Blank(d, c, d.target, AssertionSchema(c))
           b == AddDependencies(a, d.deps, c)
           e == [b EXCEPT !.disabled = @ \/ c.disableAssertions]
<1>1. /\ d.target \in EveryTarget /\ d.deps \in Seq(EveryRef) /\ d.disabled \in BOOLEAN
      /\ AssertionSchema(c) \in EveryName /\ c.disableAssertions \in BOOLEAN
  <2>1. d.target \in EveryTarget /\ d.deps \in Seq(EveryRef) /\ d.disabled \in BOOLEAN
    BY DEF EveryDefinition
  <2> QED
    BY <2>1, Named, UnsetIsAName DEF Sensible
<1>2. Good(a, d) /\ a.kind = d.kind /\ ~a.inline
  BY <1>1, BlankIsGood
<1>3. NewAssertion(d, c) = Construct(d, c, e, << >>)
  BY DEF NewAssertion
<1> HIDE DEF a
<1>4. Good(b, d) /\ Grown(a, b)
  BY <1>1, <1>2, AddsGoodly
<1> DEFINE disabled == b.disabled \/ c.disableAssertions
<1>5. e = [b EXCEPT !.disabled = disabled] /\ b \in EveryAction /\ disabled \in BOOLEAN
  BY <1>1, <1>4 DEF Good, EveryAction
<1> HIDE DEF b, e, disabled
<1>6. e \in EveryAction /\ e.kind = b.kind /\ e.inline = b.inline /\ e.file = b.file
      /\ e.broken = b.broken /\ e.faults = b.faults /\ e.deps = b.deps /\ e.flaw = b.flaw
  BY <1>5 DEF EveryAction
<1>7. Good(e, d) /\ ~e.inline /\ e.kind = d.kind
  BY <1>2, <1>4, <1>6 DEF Good, Sound, Grown
<1> QED
  BY <1>3, <1>7, ConstructedAlone

LEMMA DataPreparationIsSound ==
    ASSUME NEW c, Sensible(c), NEW d \in EveryDefinition, d.kind = "dataPreparation"
    PROVE  Made(NewDataPreparation(d, c), d) /\ Plainly(NewDataPreparation(d, c), {d.kind})
<1> DEFINE a == Blank(d, c, d.target, c.schema)
           b == AddDependencies(a, d.deps, c)
           e == [b EXCEPT !.target = FinalizeTarget(c, @)]
<1>1. d.target \in EveryTarget /\ d.deps \in Seq(EveryRef) /\ c.schema \in EveryName
  BY DEF EveryDefinition, Sensible, NamesOf
<1>2. Good(a, d) /\ a.kind = d.kind /\ ~a.inline
  BY <1>1, BlankIsGood
<1>3. \/ NewDataPreparation(d, c) = Construct(d, c, b, << >>)
      \/ NewDataPreparation(d, c) = Construct(d, c, e, << >>)
  BY DEF NewDataPreparation
<1> HIDE DEF a
<1>4. Good(b, d) /\ Grown(a, b)
  BY <1>1, <1>2, AddsGoodly
<1>5. b \in EveryAction /\ b.target \in EveryTarget
  BY <1>4 DEF Good, EveryAction
<1> DEFINE target == FinalizeTarget(c, b.target)
<1>6. target \in EveryTarget /\ e = [b EXCEPT !.target = target]
  BY <1>1, <1>5, Named
<1> HIDE DEF b, e, target
<1>7. e \in EveryAction /\ e.kind = b.kind /\ e.inline = b.inline /\ e.file = b.file
      /\ e.broken = b.broken /\ e.faults = b.faults /\ e.deps = b.deps /\ e.flaw = b.flaw
  BY <1>5, <1>6 DEF EveryAction
<1>8. Good(e, d) /\ ~e.inline /\ e.kind = d.kind /\ ~b.inline /\ b.kind = d.kind
  BY <1>2, <1>4, <1>7 DEF Good, Sound, Grown
<1> QED
  BY <1>3, <1>4, <1>8, ConstructedAlone

LEMMA OnTableIsSound ==
    ASSUME NEW c, Sensible(c), NEW d \in EveryDefinition, d.kind # "declaration",
           NEW word \in EveryName
    PROVE  Made(NewOnTable(d, c, word), d) /\ Plainly(NewOnTable(d, c, word), {d.kind})
<1> DEFINE name == d.of.name \o word \o d.target.name
           a == Blank(d, c, Bare(name), c.schema)
           table == Ref(ApplySessionToTarget(d.of, c, c.schema), "unset")
           deps == <<table>> \o d.deps
           b == [a EXCEPT !.deps = deps]
<1>1. /\ d.of \in EveryTarget /\ d.target \in EveryTarget /\ d.deps \in Seq(EveryRef)
      /\ c.schema \in EveryName /\ d.kind # "extract"
  BY DEF EveryDefinition, Definable, Datasets, Statements, Sensible, NamesOf
<1>2. Bare(name) \in EveryTarget
  <2>1. d.of.name \in EveryName /\ d.target.name \in EveryName
    BY <1>1 DEF EveryTarget
  <2>2. name \in EveryName
    BY <2>1, Joined
  <2> QED
    BY <2>2, Targeted
<1>3. deps \in Seq(EveryRef)
  <2>1. table \in EveryRef
    BY <1>1, Named, Referring
  <2> HIDE DEF table
  <2>2. <<table>> \in Seq(EveryRef)
    BY <2>1
  <2> QED
    BY <1>1, <2>2, ConcatProperties
<1>4. Good(a, d) /\ a.kind = d.kind /\ ~a.inline
  BY <1>1, <1>2, BlankIsGood
<1>5. NewOnTable(d, c, word) = Construct(d, c, b, << >>)
  BY DEF NewOnTable
<1>6. a \in EveryAction
  BY <1>4 DEF Good
<1> HIDE DEF a, deps, name
<1>7. b \in EveryAction /\ b.kind = a.kind /\ b.inline = a.inline /\ b.file = a.file
      /\ b.broken = a.broken /\ b.faults = a.faults /\ b.flaw = a.flaw
  BY <1>3, <1>6 DEF EveryAction
<1> HIDE DEF b
<1>8. Good(b, d)
  BY <1>1, <1>4, <1>7 DEF Good, Sound
<1> QED
  BY <1>4, <1>5, <1>7, <1>8, ConstructedAlone

LEMMA OwnNamesAreNames == \A w \in OwnNames : <<w>> \in EveryName
BY WordsUsed DEF EveryName

LEMMA OnTablesAreSound ==
    ASSUME NEW c, Sensible(c), NEW d \in EveryDefinition, d.kind # "declaration"
    PROVE  /\ Made(NewRlsPolicy(d, c), d) /\ Plainly(NewRlsPolicy(d, c), {d.kind})
           /\ Made(NewRealtimePublication(d, c), d)
           /\ Plainly(NewRealtimePublication(d, c), {d.kind})
           /\ Made(NewVectorIndex(d, c), d) /\ Plainly(NewVectorIndex(d, c), {d.kind})
<1>1. <<"policy">> \in EveryName /\ <<"realtime">> \in EveryName /\ <<"idx">> \in EveryName
  BY OwnNamesAreNames DEF OwnNames
<1> QED
  BY <1>1, OnTableIsSound DEF NewRlsPolicy, NewRealtimePublication, NewVectorIndex

LEMMA TestIsSound ==
    ASSUME NEW c, Sensible(c), NEW d \in EveryDefinition, d.kind = "test"
    PROVE  Made(NewTest(d, c), d) /\ Plainly(NewTest(d, c), {d.kind})
<1> DEFINE target == [d.of EXCEPT !.name = d.target.name]
           a == Blank(d, c, target, c.schema)
           of == ApplySessionToTarget(d.of, c, c.schema)
           b == [a EXCEPT !.of = of]
<1>1. d.of \in EveryTarget /\ d.target \in EveryTarget /\ c.schema \in EveryName
  BY DEF EveryDefinition, Sensible, NamesOf
<1>2. target \in EveryTarget
  BY <1>1 DEF EveryTarget
<1>3. of \in EveryTarget
  BY <1>1, Named
<1>4. Good(a, d) /\ a.kind = d.kind /\ ~a.inline
  BY <1>1, <1>2, BlankIsGood
<1>5. NewTest(d, c) = Construct(d, c, b, << >>)
  BY DEF NewTest
<1>6. a \in EveryAction
  BY <1>4 DEF Good
<1> HIDE DEF a, of, target
<1>7. b \in EveryAction /\ b.kind = a.kind /\ b.inline = a.inline /\ b.file = a.file
      /\ b.broken = a.broken /\ b.faults = a.faults /\ b.flaw = a.flaw /\ b.deps = a.deps
  BY <1>3, <1>6 DEF EveryAction
<1> HIDE DEF b
<1>8. Good(b, d)
  BY <1>4, <1>7 DEF Good, Sound
<1> QED
  BY <1>4, <1>5, <1>7, <1>8, ConstructedAlone

\* Stand-ins for a source.
LEMMA StandInsAreGood ==
    ASSUME NEW c, Sensible(c), NEW d \in EveryDefinition, NEW server \in EveryName,
           NEW t \in EveryTarget
    PROVE  /\ Good(NewWrapper(d, c, server), d) /\ ~NewWrapper(d, c, server).inline
           /\ Good(NewForeignTable(d, c, t, server), d)
           /\ ~NewForeignTable(d, c, t, server).inline
           /\ Good(NewExtract(d, c, server), d) /\ ~NewExtract(d, c, server).inline
<1> DEFINE bare == Bare(server)
           wrapper == Blank(d, c, bare, c.schema)
           table == Blank(d, c, t, c.schema)
           deps == <<Ref(bare, "unset")>>
           target == [d.target EXCEPT !.database = Unset, !.schema = OrElse(@, server)]
           extract == Blank(d, c, target, c.schema)
<1>1. c.schema \in EveryName /\ d.target \in EveryTarget /\ << >> \in Seq(EveryRef)
  BY DEF EveryDefinition, Sensible, NamesOf
<1>2. bare \in EveryTarget
  BY Targeted
<1>3. deps \in Seq(EveryRef)
  BY <1>2, Referring
<1>4. target \in EveryTarget
  BY <1>1, UnsetIsAName DEF EveryTarget, OrElse
<1>5. /\ "wrapper" \in Kinds /\ "foreignTable" \in Kinds /\ "extract" \in Kinds
      /\ "wrapper" \notin {"declaration", "extract"}
      /\ "foreignTable" \notin {"declaration", "extract"}
  BY DEF Kinds, Definable, Statements
<1>6. /\ NewWrapper(d, c, server) = [wrapper EXCEPT !.kind = "wrapper", !.reads = << >>]
      /\ NewForeignTable(d, c, t, server) =
            [table EXCEPT !.kind = "foreignTable", !.output = TRUE, !.of = t, !.reads = << >>,
                          !.deps = deps]
      /\ NewExtract(d, c, server) = [extract EXCEPT !.kind = "extract", !.reads = << >>]
  BY DEF NewWrapper, NewForeignTable, NewExtract
<1>7. /\ Good(wrapper, d) /\ ~wrapper.inline /\ ~wrapper.broken
      /\ Good(table, d) /\ ~table.inline /\ ~table.broken
      /\ Good(extract, d) /\ ~extract.inline /\ ~extract.broken /\ extract.deps = << >>
  <2> HIDE DEF bare, target
  <2> QED
    BY <1>1, <1>2, <1>4, BlankIsGood
<1> HIDE DEF wrapper, table, extract, deps, bare, target
<1> DEFINE w == NewWrapper(d, c, server)
           f == NewForeignTable(d, c, t, server)
           e == NewExtract(d, c, server)
<1>8. w \in EveryAction /\ w.file = d.file /\ ~w.inline /\ ~w.broken /\ w.kind = "wrapper"
  BY <1>1, <1>5, <1>6, <1>7 DEF Good, EveryAction
<1>9. f \in EveryAction /\ f.file = d.file /\ ~f.inline /\ ~f.broken /\ f.kind = "foreignTable"
  <2> DEFINE g == [table EXCEPT !.kind = "foreignTable", !.of = t]
             h == [g EXCEPT !.reads = << >>, !.deps = deps]
  <2>1. table \in EveryAction /\ table.file = d.file
    BY <1>7 DEF Good
  <2>2. /\ g \in EveryAction /\ g.file = d.file /\ g.inline = table.inline
        /\ g.broken = table.broken /\ g.kind = "foreignTable"
    BY <1>5, <2>1 DEF EveryAction
  <2>3. f = [h EXCEPT !.output = TRUE]
    BY <1>6, <2>1 DEF EveryAction
  <2> HIDE DEF g, f
  <2>4. /\ h \in EveryAction /\ h.file = d.file /\ h.inline = table.inline
        /\ h.broken = table.broken /\ h.kind = "foreignTable"
    BY <1>1, <1>3, <2>2 DEF EveryAction
  <2> HIDE DEF h
  <2>5. /\ f \in EveryAction /\ f.file = d.file /\ f.inline = table.inline
        /\ f.broken = table.broken /\ f.kind = "foreignTable"
    BY <2>3, <2>4 DEF EveryAction
  <2> QED
    BY <2>5, <1>7 DEF f
<1>10. e \in EveryAction /\ e.file = d.file /\ ~e.inline /\ ~e.broken /\ e.deps = << >>
  BY <1>1, <1>5, <1>6, <1>7 DEF Good, EveryAction
<1> QED
  BY <1>5, <1>8, <1>9, <1>10 DEF Good, Sound

LEMMA PushedIsMade ==
    ASSUME NEW d, NEW acts \in Seq(EveryAction),
           \A i \in DOMAIN acts : Good(acts[i], d) /\ ~acts[i].inline
    PROVE  Made(Pushed(acts), d) /\ Plainly(Pushed(acts), Kinds)
<1>1. \A i \in DOMAIN acts : acts[i].kind \in Kinds
  BY DEF Good, EveryAction
<1> QED
  BY <1>1 DEF Made, Plainly, Pushed

\* A declaration with a fault.
LEMMA DeclaredWithFault ==
    ASSUME NEW d, NEW m, Made(m, d), Plainly(m, Kinds), NEW fault \in SUBSET Words
    PROVE  LET n == [m EXCEPT !.actions = WithFaults(@, fault)] IN
           Made(n, d) /\ Plainly(n, Kinds)
<1> DEFINE acts == [i \in DOMAIN m.actions |->
                    [m.actions[i] EXCEPT !.faults = m.actions[i].faults \cup fault]]
           n == [m EXCEPT !.actions = WithFaults(@, fault)]
<1>1. m.actions \in Seq(EveryAction) /\ m = [actions |-> m.actions, threw |-> m.threw]
      /\ m.threw \in BOOLEAN
  BY DEF Made
<1>2. n = [actions |-> acts, threw |-> m.threw]
  <2>1. n = [m EXCEPT !.actions = acts]
    BY DEF WithFaults
  <2> HIDE DEF n, acts
  <2> QED
    BY <1>1, <2>1
<1>3. ASSUME NEW i \in DOMAIN m.actions PROVE Good(acts[i], d) /\ ~acts[i].inline
  <2> DEFINE a == m.actions[i]
             faults == a.faults \cup fault
  <2>1. Good(a, d) /\ ~a.inline
    BY DEF Made, Plainly
  <2>2. faults \in SUBSET Words /\ a.faults \subseteq faults /\ a \in EveryAction
    BY <2>1 DEF Good, EveryAction
  <2>3. acts[i] = [a EXCEPT !.faults = faults]
    OBVIOUS
  <2> HIDE DEF acts, a, faults
  <2> DEFINE b == acts[i]
  <2>4. b \in EveryAction /\ b.file = a.file /\ b.broken = a.broken /\ b.faults = faults
        /\ b.kind = a.kind /\ b.deps = a.deps /\ b.inline = a.inline
    BY <2>2, <2>3 DEF EveryAction
  <2> HIDE DEF b
  <2>5. Good(b, d) /\ ~b.inline
    BY <2>1, <2>2, <2>4 DEF Good, Sound
  <2> QED
    BY <2>5 DEF b
<1>4. acts \in Seq(EveryAction) /\ DOMAIN acts = DOMAIN m.actions
  <2>1. \E k \in Nat : DOMAIN m.actions = 1..k
    BY <1>1
  <2>2. \A i \in DOMAIN m.actions : acts[i] \in EveryAction
    BY <1>3 DEF Good
  <2> QED
    BY <2>1, <2>2
<1> HIDE DEF acts, n
<1>5. \A i \in DOMAIN acts : acts[i].kind \in Kinds
  BY <1>4, <1>3 DEF Good, EveryAction
<1>6. Made(n, d) /\ Plainly(n, Kinds)
  BY <1>1, <1>2, <1>3, <1>4, <1>5 DEF Made, Plainly
<1> QED
  BY <1>6 DEF n

LEMMA DeclareIsSound ==
    ASSUME NEW c, Sensible(c), NEW d \in EveryDefinition, NEW servers
    PROVE  Made(Declare(d, c, servers), d) /\ Plainly(Declare(d, c, servers), Kinds)
<1> DEFINE plain(faults) == [NewDeclaration(d, c) EXCEPT !.actions = WithFaults(@, faults)]
           external == <<d.connection, "ext">>
           server == <<d.connection, "srv">>
           target == Target(Unset, external, d.target.name)
           table == NewForeignTable(d, c, target, server)
           wrapper == NewWrapper(d, c, server)
           extract == NewExtract(d, c, external)
           m == Declare(d, c, servers)
<1>1. /\ d.connection \in Words /\ d.target.name \in EveryName /\ d.kind \in Kinds
      /\ "ext" \in Words /\ "srv" \in Words
  BY WordsUsed DEF EveryDefinition, EveryTarget, OwnNames, Kinds
<1>2. external \in EveryName /\ server \in EveryName
  BY <1>1 DEF EveryName
<1>3. target \in EveryTarget
  <2> HIDE DEF external
  <2> QED
    BY <1>1, <1>2, UnsetIsAName, Targeted
<1>4. ASSUME NEW faults \in SUBSET Words
      PROVE  Made(plain(faults), d) /\ Plainly(plain(faults), Kinds)
  <2>1. Made(NewDeclaration(d, c), d) /\ Plainly(NewDeclaration(d, c), {d.kind})
    BY DeclarationIsSound
  <2>2. Plainly(NewDeclaration(d, c), Kinds)
    BY <1>1, <2>1 DEF Plainly
  <2> QED
    BY <2>1, <2>2, DeclaredWithFault
<1>5. /\ Good(table, d) /\ ~table.inline /\ Good(wrapper, d) /\ ~wrapper.inline
      /\ Good(extract, d) /\ ~extract.inline
  <2> HIDE DEF external, server, target
  <2> QED
    BY <1>2, <1>3, StandInsAreGood
<1>6. \/ \E faults \in {{}, {"unknownConnection"}, {"warehouse"}, {"mode"}, {"noColumnTypes"}} :
            m = plain(faults)
      \/ m = Pushed(<<extract>>) \/ m = Pushed(<< >> \o <<table>>)
      \/ m = Pushed(<<wrapper>> \o <<table>>)
  <2> DEFINE connection == c.connections[d.connection]
             mode       == IF connection.mode # "unset" THEN connection.mode
                           ELSE IF connection.platform = "mysql" THEN "runner-extract" ELSE "fdw"
             A == plain({}).threw \/ d.connection \in {"none", c.warehouseConnection}
             B == d.connection \notin DOMAIN c.connections
             C == c.warehouse \notin {"postgres", "supabase"}
             D == connection.platform = "mysql" /\ mode # "runner-extract"
             E == mode = "runner-extract" /\ connection.platform \in {"bigquery", "mysql"}
             G == d.flaw = "noColumnTypes"
             H == d.connection \in servers
  <2>1. m = IF A THEN plain({}) ELSE IF B THEN plain({"unknownConnection"})
            ELSE IF C THEN plain({"warehouse"}) ELSE IF D THEN plain({"mode"})
            ELSE IF E THEN Pushed(<<extract>>) ELSE IF G THEN plain({"noColumnTypes"})
            ELSE Pushed((IF H THEN << >> ELSE <<wrapper>>) \o <<table>>)
    BY DEF Declare
  <2> HIDE DEF A, B, C, D, E, G, H, plain, m, extract, table, wrapper
  <2> QED
    BY <2>1
<1>7. \A faults \in {{}, {"unknownConnection"}, {"warehouse"}, {"mode"}, {"noColumnTypes"}} :
          faults \in SUBSET Words
  BY WordsUsed DEF Messages
<1> HIDE DEF plain, extract, table, wrapper, m
<1>8. ASSUME NEW a, Good(a, d), ~a.inline
      PROVE  Made(Pushed(<<a>>), d) /\ Plainly(Pushed(<<a>>), Kinds)
  <2>1. <<a>> \in Seq(EveryAction) /\ DOMAIN <<a>> = {1} /\ <<a>>[1] = a
    BY <1>8 DEF Good
  <2> QED
    BY <2>1, <1>8, PushedIsMade
<1>9. Made(Pushed(<<wrapper>> \o <<table>>), d) /\ Plainly(Pushed(<<wrapper>> \o <<table>>), Kinds)
  <2> DEFINE acts == <<wrapper>> \o <<table>>
             T == {a \in EveryAction : Good(a, d) /\ ~a.inline}
  <2>1. wrapper \in T /\ table \in T
    BY <1>5 DEF Good
  <2>2. <<wrapper>> \in Seq(T) /\ <<table>> \in Seq(T)
    BY <2>1
  <2> HIDE DEF T
  <2>3. acts \in Seq(T)
    BY <2>2, ConcatProperties
  <2> HIDE DEF acts
  <2>4. acts \in Seq(EveryAction) /\ \A i \in DOMAIN acts : Good(acts[i], d) /\ ~acts[i].inline
    <3>1. T \subseteq EveryAction
      BY DEF T
    <3>2. acts \in Seq(EveryAction) /\ \A i \in DOMAIN acts : acts[i] \in T
      BY <2>3, <3>1, Elements
    <3> QED
      BY <3>2 DEF T
  <2>5. Made(Pushed(acts), d) /\ Plainly(Pushed(acts), Kinds)
    BY <2>4, PushedIsMade
  <2> QED
    BY <2>5 DEF acts
<1>10. << >> \o <<table>> = <<table>>
  OBVIOUS
<1> QED
  BY <1>4, <1>5, <1>6, <1>7, <1>8, <1>9, <1>10 DEF m

LEMMA DeclareWrapperIsSound ==
    ASSUME NEW c, Sensible(c), NEW d \in EveryDefinition
    PROVE  Made(DeclareWrapper(d, c), d) /\ Plainly(DeclareWrapper(d, c), Kinds)
<1> DEFINE wrapper == NewWrapper(d, c, d.target.name)
           table(i) == NewForeignTable(d, c, TargetOf(d.reads[i]), d.target.name)
           tables == [i \in DOMAIN d.reads |-> table(i)]
           acts == <<wrapper>> \o tables
<1>1. d.target.name \in EveryName /\ d.reads \in Seq(EveryRef) /\ d.target \in EveryTarget
  BY DEF EveryDefinition, EveryTarget
<1>2. Good(wrapper, d) /\ ~wrapper.inline
  BY <1>1, StandInsAreGood
<1>3. ASSUME NEW i \in DOMAIN d.reads PROVE Good(table(i), d) /\ ~table(i).inline
  <2>1. d.reads[i] \in EveryRef
    BY <1>1
  <2>2. TargetOf(d.reads[i]) \in EveryTarget
    BY <2>1, References
  <2> QED
    BY <1>1, <2>2, StandInsAreGood
<1> DEFINE T == {a \in EveryAction : Good(a, d) /\ ~a.inline}
<1>4. wrapper \in T
  BY <1>2 DEF Good
<1> HIDE DEF wrapper, table
<1>5. tables \in Seq(T)
  <2>1. \E k \in Nat : DOMAIN d.reads = 1..k
    BY <1>1
  <2>2. \A i \in DOMAIN d.reads : table(i) \in T
    BY <1>3 DEF Good
  <2> HIDE DEF T
  <2> QED
    BY <2>1, <2>2
<1> HIDE DEF T, tables
<1>6. <<wrapper>> \in Seq(T)
  BY <1>4
<1>7. acts \in Seq(T)
  BY <1>5, <1>6, ConcatProperties
<1>8. DeclareWrapper(d, c) = Pushed(acts)
  BY DEF DeclareWrapper, wrapper, table, tables
<1> HIDE DEF acts
<1>9. acts \in Seq(EveryAction) /\ \A i \in DOMAIN acts : Good(acts[i], d) /\ ~acts[i].inline
  <2>1. T \subseteq EveryAction
    BY DEF T
  <2>2. acts \in Seq(EveryAction) /\ \A i \in DOMAIN acts : acts[i] \in T
    BY <1>7, <2>1, Elements
  <2> QED
    BY <2>2 DEF T
<1> QED
  BY <1>8, <1>9, PushedIsMade

-----------------------------------------------------------------------------
(* Datasets and their assertions.                                          *)

\* An assertion of a config, made for a table.
MadeFor(g, table) ==
    /\ g.inline /\ g.reads = <<Ref(table.target, "unset")>> /\ (table.disabled => g.disabled)

LEMMA InlineIsSound ==
    ASSUME NEW c, Sensible(c), NEW d \in EveryDefinition, NEW table \in EveryAction
    PROVE  LET acts == InlineAssertions(d, c, table) IN
           /\ acts \in Seq(EveryAction)
           /\ \A i \in DOMAIN acts : Good(acts[i], d) /\ MadeFor(acts[i], table)
<1> DEFINE two == << <<"assertions_uniqueKey_0">>, <<"assertions_uniqueKey_1">> >>
           names == SubSeq(two, 1, d.uniqueKeys)
                       \o IF d.rowConditions THEN << <<"assertions_rowConditions">> >> ELSE << >>
           e == [d EXCEPT !.kind = "assertion", !.reads = <<Ref(table.target, "unset")>>,
                          !.gate = FALSE, !.flaw = "none"]
           prefix == c.builtinPrefix \o table.target.schema \o table.target.name
           blank(i) == Blank(e, c, Bare(prefix \o names[i]), AssertionSchema(c))
           g(i) == [blank(i) EXCEPT !.parent = table.target, !.inline = TRUE,
                                    !.disabled = table.disabled \/ c.disableAssertions]
           acts == [i \in DOMAIN names |-> g(i)]
<1>1. InlineAssertions(d, c, table) = acts
  BY DEF InlineAssertions
<1>2. /\ table.target \in EveryTarget /\ table.disabled \in BOOLEAN /\ d.uniqueKeys \in 0..2
      /\ c.disableAssertions \in BOOLEAN /\ c.builtinPrefix \in EveryName
      /\ AssertionSchema(c) \in EveryName
  <2>1. table.target \in EveryTarget /\ table.disabled \in BOOLEAN
    BY DEF EveryAction
  <2>2. d.uniqueKeys \in 0..2
    BY DEF EveryDefinition
  <2>3. c.disableAssertions \in BOOLEAN /\ c.builtinPrefix \in EveryName
    BY DEF Sensible, NamesOf
  <2> QED
    BY <2>1, <2>2, <2>3, Named, UnsetIsAName
<1>3. names \in Seq(EveryName)
  <2>1. /\ <<"assertions_uniqueKey_0">> \in EveryName /\ <<"assertions_uniqueKey_1">> \in EveryName
        /\ <<"assertions_rowConditions">> \in EveryName
    BY OwnNamesAreNames DEF OwnNames
  <2>2. \A i \in 1..2 : two[i] \in EveryName
    <3>1. two[1] \in EveryName /\ two[2] \in EveryName
      BY <2>1
    <3> HIDE DEF two
    <3> QED
      BY <3>1
  <2> HIDE DEF two
  <2>3. SubSeq(two, 1, d.uniqueKeys) \in Seq(EveryName)
    <3>1. \A i \in 1..d.uniqueKeys : two[i] \in EveryName
      BY <1>2, <2>2
    <3>2. d.uniqueKeys \in Int /\ 1 \in Int
      BY <1>2
    <3> HIDE DEF two
    <3> QED
      BY <3>1, <3>2, SubSeqProperties
  <2>4. << <<"assertions_rowConditions">> >> \in Seq(EveryName) /\ << >> \in Seq(EveryName)
    BY <2>1
  <2> QED
    BY <2>3, <2>4, ConcatProperties
<1>4. e \in EveryDefinition /\ e.kind = "assertion" /\ e.flaw = "none" /\ e.file = d.file
      /\ e.reads = <<Ref(table.target, "unset")>>
  <2>1. <<Ref(table.target, "unset")>> \in Seq(EveryRef)
    BY <1>2, Referring
  <2>2. "assertion" \in Definable /\ "none" \in Words
    BY WordsUsed DEF Definable, Messages
  <2> QED
    BY <2>1, <2>2 DEF EveryDefinition
<1>5. prefix \in EveryName
  <2>1. table.target.schema \in EveryName /\ table.target.name \in EveryName
    BY <1>2 DEF EveryTarget
  <2> QED
    BY <1>2, <2>1, Joined
<1> DEFINE disabled == table.disabled \/ c.disableAssertions
<1> HIDE DEF names, e, prefix
<1>6. ASSUME NEW i \in DOMAIN names PROVE Good(g(i), d) /\ MadeFor(g(i), table)
  <2> DEFINE b == blank(i)
             h == g(i)
  <2>1. Bare(prefix \o names[i]) \in EveryTarget
    <3>1. names[i] \in EveryName
      BY <1>3
    <3> QED
      BY <1>5, <3>1, Joined, Targeted
  <2>2. /\ Good(b, e) /\ b.kind = "assertion" /\ b.deps = << >> /\ b.reads = e.reads
        /\ ~b.broken /\ b.flaw = "none"
    BY <2>1, <1>2, <1>4, BlankIsGood
  <2>3. b \in EveryAction /\ b.file = d.file
    BY <2>2, <1>4 DEF Good
  <2>4. h = [b EXCEPT !.parent = table.target, !.inline = TRUE, !.disabled = disabled]
    OBVIOUS
  <2>5. disabled \in BOOLEAN
    BY <1>2
  <2> HIDE DEF b, disabled, h
  <2>6. /\ h \in EveryAction /\ h.file = d.file /\ h.kind = b.kind /\ h.deps = b.deps
        /\ h.reads = b.reads /\ h.broken = b.broken /\ h.flaw = b.flaw /\ h.inline = TRUE
        /\ h.disabled = disabled
    BY <1>2, <2>3, <2>4, <2>5 DEF EveryAction
  <2>7. Good(h, d) /\ MadeFor(h, table)
    BY <1>4, <2>2, <2>6 DEF Good, Sound, MadeFor, disabled
  <2> QED
    BY <2>7 DEF h
<1> HIDE DEF g
<1>7. acts \in Seq(EveryAction) /\ DOMAIN acts = DOMAIN names
  <2>1. \E k \in Nat : DOMAIN names = 1..k
    BY <1>3
  <2>2. \A i \in DOMAIN names : g(i) \in EveryAction
    BY <1>6 DEF Good
  <2> QED
    BY <2>1, <2>2
<1>8. \A i \in DOMAIN acts : Good(acts[i], d) /\ MadeFor(acts[i], table)
  BY <1>6, <1>7
<1> HIDE DEF acts
<1> QED
  BY <1>1, <1>7, <1>8

\* What a dataset's constructor leaves: its assertions and then the table.
Dataset(m, d, c) ==
    LET n == Len(m.actions)
        t == m.actions[n]
    IN  /\ n \in Nat \ {0} /\ t.kind = d.kind /\ ~t.inline /\ t.disabled = d.disabled
        /\ t.target = ApplySessionToTarget(d.target, c, c.schema)
        /\ \A i \in 1..n : i # n => MadeFor(m.actions[i], t)

LEMMA DatasetIsSound ==
    ASSUME NEW c, Sensible(c), NEW d \in EveryDefinition, d.kind \in Datasets,
           NEW deps \in Seq(EveryRef)
    PROVE  LET m == NewDataset(d, c, deps) IN
           Made(m, d) /\ (~m.threw => Dataset(m, d, c))
<1> DEFINE blank == Blank(d, c, d.target, c.schema)
           a == AddDependencies(blank, deps, c)
           inline == IF d.call = "assertions" THEN << >> ELSE InlineAssertions(d, c, a)
           m == NewDataset(d, c, deps)
<1>1. d.target \in EveryTarget /\ c.schema \in EveryName /\ d.kind \notin {"declaration", "extract"}
  BY DEF EveryDefinition, Sensible, NamesOf, Datasets
<1>2. /\ Good(blank, d) /\ blank.kind = d.kind /\ ~blank.inline /\ blank.disabled = d.disabled
      /\ blank.target = ApplySessionToTarget(d.target, c, c.schema)
  BY <1>1, BlankIsGood
<1>3. m = Construct(d, c, a, inline)
  BY DEF NewDataset
<1> HIDE DEF blank
<1>4. Good(a, d) /\ Grown(blank, a)
  BY <1>1, <1>2, AddsGoodly
<1> HIDE DEF a
<1>5. /\ inline \in Seq(EveryAction)
      /\ \A i \in DOMAIN inline : Good(inline[i], d) /\ MadeFor(inline[i], a)
  <2>1. a \in EveryAction
    BY <1>4 DEF Good
  <2>2. << >> \in Seq(EveryAction) /\ DOMAIN << >> = {}
    OBVIOUS
  <2> QED
    BY <2>1, <2>2, InlineIsSound
<1> HIDE DEF m, inline
<1>6. Made(m, d)
  BY <1>3, <1>4, <1>5, Constructed
<1>7. ASSUME ~m.threw PROVE Dataset(m, d, c)
  <2>1. PICK b : Good(b, d) /\ Grown(a, b) /\ b.deps = a.deps /\ m.actions = Append(inline, b)
    <3>1. ~Construct(d, c, a, inline).threw
      BY <1>3, <1>7
    <3>2. \A i \in DOMAIN inline : Good(inline[i], d)
      BY <1>5
    <3>3. EndsWith(Construct(d, c, a, inline), a, d, inline)
      BY <3>1, <3>2, <1>4, <1>5, Constructed
    <3> QED
      BY <3>3, <1>3 DEF EndsWith
  <2>2. /\ Len(inline) \in Nat /\ Len(m.actions) = Len(inline) + 1
        /\ m.actions[Len(m.actions)] = b /\ DOMAIN inline = 1..Len(inline)
        /\ \A i \in 1..Len(inline) : m.actions[i] = inline[i]
    BY <2>1, <1>5 DEF Good
  <2>3. /\ b.kind = d.kind /\ ~b.inline /\ b.disabled = d.disabled
        /\ b.target = ApplySessionToTarget(d.target, c, c.schema)
        /\ b.target = a.target /\ b.disabled = a.disabled
    BY <1>2, <1>4, <2>1 DEF Grown
  <2>4. \A i \in 1..Len(m.actions) : i # Len(m.actions) => MadeFor(m.actions[i], b)
    <3>1. ASSUME NEW i \in 1..Len(m.actions), i # Len(m.actions) PROVE MadeFor(m.actions[i], b)
      <4>1. i \in 1..Len(inline) /\ i \in DOMAIN inline /\ m.actions[i] = inline[i]
        BY <2>2, <3>1
      <4>2. MadeFor(inline[i], a)
        BY <1>5, <4>1
      <4> QED
        BY <4>1, <4>2, <2>3 DEF MadeFor
    <3> QED
      BY <3>1
  <2> QED
    BY <2>2, <2>3, <2>4 DEF Dataset
<1> QED
  BY <1>6, <1>7 DEF m

\* What guards a dataset's table is made for it, in the same file.
LEMMA MadeForGuards ==
    ASSUME NEW c, NEW d, NEW g, NEW t, Good(g, d), Good(t, d), MadeFor(g, t), t.kind \in Datasets,
           t.target.database = Unset => c.database = Unset,
           t.target.schema = Unset => c.schema = Unset
    PROVE  Guards(g, t, c)
BY DEF Guards, MadeFor, Good

\* A part that is absent from a target is absent from the settings.
LEMMA Defaults ==
    ASSUME NEW c, NEW t, NEW u, u = ApplySessionToTarget(t, c, c.schema)
    PROVE  /\ u.database = Unset => c.database = Unset
           /\ u.schema = Unset => c.schema = Unset
BY DEF ApplySessionToTarget, OrElse, Target

LEMMA DatasetIsGuarded ==
    ASSUME NEW c, NEW d \in EveryDefinition, d.kind \in Datasets, NEW m, Made(m, d),
           Dataset(m, d, c)
    PROVE  Guarded(m.actions, c)
<1> DEFINE n == Len(m.actions)
           t == m.actions[n]
<1>1. /\ m.actions \in Seq(EveryAction) /\ DOMAIN m.actions = 1..n /\ n \in 1..n
      /\ \A i \in DOMAIN m.actions : Good(m.actions[i], d)
  BY DEF Made, Dataset
<1>2. /\ t.kind \in Datasets /\ ~t.inline
      /\ t.target.database = Unset => c.database = Unset
      /\ t.target.schema = Unset => c.schema = Unset
      /\ \A i \in 1..n : i # n => MadeFor(m.actions[i], t)
  <2>1. t.target = ApplySessionToTarget(d.target, c, c.schema)
    BY DEF Dataset
  <2> QED
    BY <2>1, Defaults DEF Dataset
<1> HIDE DEF n
<1>3. ASSUME NEW i \in DOMAIN m.actions, m.actions[i].inline PROVE Guards(m.actions[i], t, c)
  BY <1>1, <1>2, <1>3, MadeForGuards
<1> QED
  BY <1>1, <1>3 DEF Guarded

\* The actions of d's file, all assertions among them made for t.
Around(t, d) == {a \in EveryAction : Good(a, d) /\ (a.inline => MadeFor(a, t))}
Settled(t, c) ==
    /\ t.target.database = Unset => c.database = Unset
    /\ t.target.schema = Unset => c.schema = Unset

LEMMA AroundIsGuarded ==
    ASSUME NEW c, NEW d, NEW t, Good(t, d), t.kind \in Datasets, Settled(t, c),
           NEW acts \in Seq(Around(t, d)), NEW j \in DOMAIN acts, acts[j] = t,
           NEW m, NEW threw \in BOOLEAN, m = [actions |-> acts, threw |-> threw]
    PROVE  Made(m, d) /\ Guarded(m.actions, c)
<1>1. Around(t, d) \subseteq EveryAction
  BY DEF Around
<1>2. acts \in Seq(EveryAction) /\ \A i \in DOMAIN acts : acts[i] \in Around(t, d)
  BY <1>1, Elements
<1>3. \A i \in DOMAIN acts : Good(acts[i], d) /\ (acts[i].inline => Guards(acts[i], t, c))
  BY <1>2, MadeForGuards DEF Around, Settled
<1> QED
  BY <1>2, <1>3 DEF Made, Guarded

LEMMA DatasetIsAround ==
    ASSUME NEW c, NEW d \in EveryDefinition, d.kind \in Datasets, NEW m, Made(m, d),
           Dataset(m, d, c)
    PROVE  LET n == Len(m.actions)
               t == m.actions[n]
           IN  /\ m.actions \in Seq(Around(t, d)) /\ n \in DOMAIN m.actions /\ n \in Nat
               /\ DOMAIN m.actions = 1..n /\ Good(t, d) /\ Settled(t, c) /\ t.kind \in Datasets
               /\ m.actions \in Seq(EveryAction)
<1> DEFINE acts == m.actions
           n == Len(acts)
           t == acts[n]
<1>1. /\ acts \in Seq(EveryAction) /\ DOMAIN acts = 1..n /\ n \in DOMAIN acts /\ n \in Nat
      /\ \A i \in DOMAIN acts : Good(acts[i], d)
  BY DEF Made, Dataset
<1>2. /\ t.target = ApplySessionToTarget(d.target, c, c.schema) /\ t.kind \in Datasets
      /\ ~t.inline /\ \A i \in 1..n : i # n => MadeFor(acts[i], t)
  BY DEF Dataset
<1>3. Settled(t, c)
  BY <1>2, Defaults DEF Settled
<1> HIDE DEF n, acts
<1>4. \A i \in 1..n : acts[i] \in Around(t, d)
  BY <1>1, <1>2 DEF Around, Good
<1>5. acts \in Seq(Around(t, d))
  <2>1. \A i \in DOMAIN acts : acts[i] \in Around(t, d)
    BY <1>1, <1>4
  <2> QED
    BY <1>1, <2>1, Narrowed
<1> QED
  BY <1>1, <1>2, <1>3, <1>5 DEF acts, n

\* A builder call keeps an action what it is.
LEMMA AmendedIsGood ==
    ASSUME NEW c, Sensible(c), NEW d \in EveryDefinition, NEW a, Good(a, d),
           a.kind \notin {"declaration", "extract"}
    PROVE  LET b == Amend(a, d, c) IN
           /\ Good(b, d) /\ b.kind = a.kind /\ b.inline = a.inline
           /\ Settled(a, c) => Settled(b, c)
           /\ b.disabled => a.disabled \/ d.call = "disabled"
<1> DEFINE b == Amend(a, d, c)
           moved == <<"moved">>
           elsewhere == <<"elsewhere">>
<1>1. a \in EveryAction /\ a.target \in EveryTarget /\ a.tags \in SUBSET Words
  BY DEF Good, EveryAction
<1>2. moved \in EveryName /\ elsewhere \in EveryName /\ moved # Unset /\ elsewhere # Unset
  BY OwnNamesAreNames DEF OwnNames, Unset
<1> HIDE DEF moved, elsewhere
<1>3. CASE d.call = "schema"
  <2> DEFINE target == [a.target EXCEPT !.schema = moved]
  <2>1. /\ target \in EveryTarget /\ target.schema = moved
        /\ target.database = a.target.database
    BY <1>1, <1>2 DEF EveryTarget
  <2>2. b = [a EXCEPT !.target = target]
    BY <1>3 DEF Amend, moved
  <2> HIDE DEF b, target
  <2>3. b \in EveryAction /\ b.file = a.file /\ b.kind = a.kind /\ b.inline = a.inline
        /\ b.broken = a.broken /\ b.faults = a.faults /\ b.deps = a.deps /\ b.flaw = a.flaw
        /\ b.disabled = a.disabled /\ b.target = target
    BY <1>1, <2>1, <2>2 DEF EveryAction
  <2>4. Good(b, d) /\ (Settled(a, c) => Settled(b, c))
    BY <1>2, <2>1, <2>3 DEF Good, Sound, Settled
  <2> QED
    BY <2>3, <2>4 DEF b
<1>4. CASE d.call = "database"
  <2> DEFINE target == [a.target EXCEPT !.database = elsewhere]
  <2>1. /\ target \in EveryTarget /\ target.database = elsewhere
        /\ target.schema = a.target.schema
    BY <1>1, <1>2 DEF EveryTarget
  <2>2. b = [a EXCEPT !.target = target]
    BY <1>4 DEF Amend, elsewhere
  <2> HIDE DEF b, target
  <2>3. b \in EveryAction /\ b.file = a.file /\ b.kind = a.kind /\ b.inline = a.inline
        /\ b.broken = a.broken /\ b.faults = a.faults /\ b.deps = a.deps /\ b.flaw = a.flaw
        /\ b.disabled = a.disabled /\ b.target = target
    BY <1>1, <2>1, <2>2 DEF EveryAction
  <2>4. Good(b, d) /\ (Settled(a, c) => Settled(b, c))
    BY <1>2, <2>1, <2>3 DEF Good, Sound, Settled
  <2> QED
    BY <2>3, <2>4 DEF b
<1>5. CASE d.call \in {"tags", "disabled", "gate"}
  <2> DEFINE tags == a.tags \cup {"added"}
  <2>1. tags \in SUBSET Words
    BY <1>1, WordsUsed
  <2>2. b = [a EXCEPT !.tags = tags] \/ b = [a EXCEPT !.gate = TRUE]
        \/ (b = [a EXCEPT !.disabled = TRUE] /\ d.call = "disabled")
    BY <1>5 DEF Amend
  <2> HIDE DEF b, tags
  <2>3. b \in EveryAction /\ b.file = a.file /\ b.kind = a.kind /\ b.inline = a.inline
        /\ b.broken = a.broken /\ b.faults = a.faults /\ b.deps = a.deps /\ b.flaw = a.flaw
        /\ b.target = a.target
    BY <1>1, <2>1, <2>2 DEF EveryAction
  <2>4. b.disabled => a.disabled \/ d.call = "disabled"
    BY <1>1, <2>2 DEF EveryAction
  <2>5. Good(b, d) /\ (Settled(a, c) => Settled(b, c))
    BY <2>3 DEF Good, Sound, Settled
  <2> QED
    BY <2>3, <2>4, <2>5 DEF b
<1>6. CASE d.call = "dependencies"
  <2>1. b = AddDependencies(a, <<Ref(d.of, "yes")>>, c)
    BY <1>6 DEF Amend
  <2>2. <<Ref(d.of, "yes")>> \in Seq(EveryRef)
    BY Referring DEF EveryDefinition
  <2>3. Good(b, d) /\ Grown(a, b)
    BY <2>1, <2>2, AddsGoodly
  <2> HIDE DEF b
  <2>4. b.kind = a.kind /\ b.inline = a.inline /\ b.disabled = a.disabled /\ b.target = a.target
    BY <2>3 DEF Grown
  <2> QED
    BY <2>3, <2>4 DEF b, Settled
<1>7. CASE d.call \notin {"schema", "database", "tags", "disabled", "gate", "dependencies"}
  <2>1. b = a
    BY <1>7 DEF Amend
  <2> QED
    BY <2>1
<1> QED
  BY <1>3, <1>4, <1>5, <1>6, <1>7

\* A builder call is about the last action a constructor has made.
LEMMA AmendedIsSound ==
    ASSUME NEW c, Sensible(c), NEW d \in EveryDefinition, NEW m, Made(m, d),
           Plainly(m, Kinds \ {"declaration", "extract"})
    PROVE  Made(Amended(d, c, m), d) /\ Plainly(Amended(d, c, m), Kinds)
<1> DEFINE was == m.actions
           acts == [i \in DOMAIN was |-> IF i = Len(was) THEN Amend(was[i], d, c) ELSE was[i]]
           T == {a \in EveryAction : Good(a, d) /\ ~a.inline}
<1>1. /\ was \in Seq(EveryAction) /\ m = [actions |-> was, threw |-> m.threw]
      /\ m.threw \in BOOLEAN
  BY DEF Made
<1>2. Amended(d, c, m) = [actions |-> acts, threw |-> m.threw]
  <2>1. Amended(d, c, m) = [m EXCEPT !.actions = acts]
    BY DEF Amended
  <2> HIDE DEF acts
  <2> QED
    BY <1>1, <2>1
<1>3. ASSUME NEW i \in DOMAIN was PROVE acts[i] \in T
  <2> DEFINE a == was[i]
  <2>1. Good(a, d) /\ ~a.inline /\ a.kind \notin {"declaration", "extract"}
    BY DEF Made, Plainly
  <2>2. acts[i] = Amend(a, d, c) \/ acts[i] = a
    OBVIOUS
  <2> HIDE DEF a, acts
  <2>3. Good(Amend(a, d, c), d) /\ Amend(a, d, c).inline = a.inline
    BY <2>1, AmendedIsGood
  <2> QED
    BY <2>1, <2>2, <2>3 DEF Good
<1>4. acts \in Seq(T)
  <2>1. \E k \in Nat : DOMAIN was = 1..k
    BY <1>1
  <2> DEFINE value(i) == IF i = Len(was) THEN Amend(was[i], d, c) ELSE was[i]
  <2>2. \A i \in DOMAIN was : value(i) \in T
    BY <1>3
  <2>3. acts = [i \in DOMAIN was |-> value(i)]
    OBVIOUS
  <2> HIDE DEF T, acts, value, was
  <2> QED
    BY <2>1, <2>2, <2>3
<1>5. acts \in Seq(EveryAction) /\ \A i \in DOMAIN acts : Good(acts[i], d) /\ ~acts[i].inline
  <2>1. T \subseteq EveryAction
    OBVIOUS
  <2> HIDE DEF acts, T
  <2>2. acts \in Seq(EveryAction) /\ \A i \in DOMAIN acts : acts[i] \in T
    BY <1>4, <2>1, Elements
  <2> QED
    BY <2>2 DEF T
<1> HIDE DEF acts
<1>6. \A i \in DOMAIN acts : acts[i].kind \in Kinds
  BY <1>5 DEF Good, EveryAction
<1> DEFINE b == Amended(d, c, m)
<1> HIDE DEF was, b
<1>7. b.actions = acts /\ b.threw = m.threw /\ b = [actions |-> b.actions, threw |-> b.threw]
  BY <1>2 DEF b
<1>8. Made(b, d) /\ Plainly(b, Kinds)
  BY <1>1, <1>5, <1>6, <1>7 DEF Made, Plainly
<1> QED
  BY <1>8 DEF b

\* Its assertions follow a table.
LEMMA TakenAlongIsGood ==
    ASSUME NEW d \in EveryDefinition, NEW a, Good(a, d), NEW table \in EveryAction,
           NEW t, MadeFor(a, t), table.disabled => t.disabled \/ d.call = "disabled"
    PROVE  LET g == TakenAlong(a, d, table) IN Good(g, d) /\ MadeFor(g, table)
<1> DEFINE g == TakenAlong(a, d, table)
           reads == <<Ref(table.target, "unset")>>
           disabled == a.disabled \/ d.call = "disabled"
           tags == IF d.call = "tags" THEN a.tags \cup {"added"} ELSE a.tags
<1>1. a \in EveryAction /\ a.disabled \in BOOLEAN /\ a.tags \in SUBSET Words
      /\ table.target \in EveryTarget
  BY DEF Good, EveryAction
<1>2. reads \in Seq(EveryRef)
  BY <1>1, Referring
<1>3. disabled \in BOOLEAN /\ tags \in SUBSET Words
  BY <1>1, WordsUsed
<1>4. g = [a EXCEPT !.reads = reads, !.disabled = disabled, !.tags = tags]
  BY DEF TakenAlong
<1>5. (table.disabled => disabled) /\ a.inline
  BY DEF MadeFor
<1> HIDE DEF g, disabled, tags
<1>6. /\ g \in EveryAction /\ g.file = a.file /\ g.kind = a.kind /\ g.inline = a.inline
      /\ g.broken = a.broken /\ g.faults = a.faults /\ g.deps = a.deps /\ g.flaw = a.flaw
      /\ g.reads = reads /\ g.disabled = disabled
  BY <1>1, <1>2, <1>3, <1>4 DEF EveryAction
<1>7. Good(g, d) /\ MadeFor(g, table)
  BY <1>5, <1>6 DEF Good, Sound, MadeFor
<1> QED
  BY <1>7 DEF g

\* A builder call on a dataset is about its assertions too.
LEMMA AmendedTableIsSound ==
    ASSUME NEW c, Sensible(c), NEW d \in EveryDefinition, d.kind \in Datasets, NEW m, Made(m, d),
           ~m.threw, Dataset(m, d, c)
    PROVE  LET b == AmendedWithAssertions(d, c, m) IN Made(b, d) /\ Guarded(b.actions, c)
<1> DEFINE was == m.actions
           n == Len(was)
           t == was[n]
           table == Amend(t, d, c)
           acts == [i \in 1..n |-> IF i = n THEN table ELSE TakenAlong(was[i], d, table)]
           b == AmendedWithAssertions(d, c, m)
           T == Around(table, d)
<1>1. /\ was \in Seq(EveryAction) /\ DOMAIN was = 1..n /\ n \in Nat /\ n \in 1..n
      /\ m = [actions |-> was, threw |-> FALSE] /\ Good(t, d) /\ Settled(t, c)
      /\ t.kind \in Datasets /\ ~t.inline
      /\ \A i \in 1..n : Good(was[i], d) /\ (i # n => MadeFor(was[i], t))
  BY DatasetIsAround DEF Made, Dataset
<1>2. b = [actions |-> acts, threw |-> FALSE]
  <2>1. b = [m EXCEPT !.actions = acts]
    BY DEF AmendedWithAssertions
  <2> HIDE DEF acts, b, was, t, n
  <2>2. m = [actions |-> was, threw |-> FALSE]
    BY <1>1
  <2> QED
    BY <2>1, <2>2
<1>3. /\ Good(table, d) /\ table.kind = t.kind /\ table.inline = t.inline /\ Settled(table, c)
      /\ table.disabled => t.disabled \/ d.call = "disabled"
  <2>1. t.kind \notin {"declaration", "extract"}
    BY <1>1 DEF Datasets
  <2> HIDE DEF t
  <2> QED
    BY <1>1, <2>1, AmendedIsGood
<1>4. ASSUME NEW i \in 1..n PROVE acts[i] \in T
  <2> HIDE DEF t, was, n
  <2>1. CASE i = n
    BY <1>1, <1>3, <2>1 DEF Around, Good
  <2>2. CASE i # n
    <3> DEFINE g == TakenAlong(was[i], d, table)
    <3>1. Good(was[i], d) /\ MadeFor(was[i], t) /\ table \in EveryAction
      BY <1>1, <1>3, <2>2 DEF Good
    <3> HIDE DEF table
    <3>2. Good(g, d) /\ MadeFor(g, table)
      BY <1>3, <3>1, TakenAlongIsGood
    <3>3. acts[i] = g
      BY <2>2
    <3> HIDE DEF g, acts
    <3> QED
      BY <3>2, <3>3 DEF Around, Good
  <2> QED
    BY <2>1, <2>2
<1>5. acts \in Seq(T) /\ n \in DOMAIN acts /\ acts[n] = table
  <2> HIDE DEF T, n
  <2> DEFINE value(i) == IF i = n THEN table ELSE TakenAlong(was[i], d, table)
  <2>1. \A i \in 1..n : value(i) \in T
    BY <1>4
  <2>2. acts = [i \in 1..n |-> value(i)] /\ value(n) = table
    OBVIOUS
  <2> HIDE DEF acts, value
  <2> QED
    BY <1>1, <2>1, <2>2
<1> HIDE DEF table, acts, b, n, t, was
<1>6. Made(b, d) /\ Guarded(b.actions, c)
  BY <1>1, <1>2, <1>3, <1>5, AroundIsGuarded DEF T
<1> QED
  BY <1>6 DEF b

\* The assertions a config asks for by a builder call.
LEMMA AssertedIsSound ==
    ASSUME NEW c, Sensible(c), NEW d \in EveryDefinition, d.kind \in Datasets, NEW m, Made(m, d),
           ~m.threw, Dataset(m, d, c)
    PROVE  LET b == [m EXCEPT !.actions = @ \o InlineAssertions(d, c, @[Len(@)])]
           IN  Made(b, d) /\ Guarded(b.actions, c)
<1> DEFINE was == m.actions
           n == Len(was)
           t == was[n]
           inline == InlineAssertions(d, c, t)
           acts == was \o inline
           T == Around(t, d)
           b == [m EXCEPT !.actions = @ \o InlineAssertions(d, c, @[Len(@)])]
<1>1. /\ was \in Seq(T) /\ n \in DOMAIN was /\ Good(t, d) /\ Settled(t, c) /\ t.kind \in Datasets
      /\ t \in EveryAction
      /\ m = [actions |-> was, threw |-> FALSE]
  BY DatasetIsAround DEF Made, Dataset, Good
<1>2. b = [actions |-> acts, threw |-> FALSE]
  <2>1. b = [m EXCEPT !.actions = acts]
    OBVIOUS
  <2> HIDE DEF acts, b, was, t, n
  <2>2. m = [actions |-> was, threw |-> FALSE]
    BY <1>1
  <2> QED
    BY <2>1, <2>2
<1> HIDE DEF t, b
<1>3. inline \in Seq(T)
  <2>1. inline \in Seq(EveryAction) /\ \A i \in DOMAIN inline : Good(inline[i], d) /\ MadeFor(inline[i], t)
    BY <1>1, InlineIsSound
  <2> HIDE DEF inline
  <2>2. \A i \in DOMAIN inline : inline[i] \in T
    BY <2>1 DEF Around, Good
  <2> HIDE DEF T
  <2> QED
    BY <2>1, <2>2, Narrowed
<1> HIDE DEF inline, was, T, n
<1>4. acts \in Seq(T) /\ n \in DOMAIN acts /\ acts[n] = t
  <2>1. acts \in Seq(T) /\ \A i \in DOMAIN was : i \in DOMAIN acts /\ acts[i] = was[i]
    BY <1>1, <1>3, Concatenated
  <2> QED
    BY <1>1, <2>1 DEF t
<1> HIDE DEF acts
<1>5. Made(b, d) /\ Guarded(b.actions, c)
  BY <1>1, <1>2, <1>4, AroundIsGuarded DEF T
<1> QED
  BY <1>5 DEF b

LEMMA ConstructorsOfDatasets ==
    ASSUME NEW c, Sensible(c), NEW d \in EveryDefinition, d.kind \in Datasets,
           NEW m \in {NewTable(d, c), NewView(d, c), NewIncrementalTable(d, c)}
    PROVE  Made(m, d) /\ (~m.threw => Dataset(m, d, c))
<1> DEFINE refs == [i \in DOMAIN d.deps |-> ResolvableAsTarget(d.deps[i], d.source = "yaml")]
<1>1. d.deps \in Seq(EveryRef)
  BY DEF EveryDefinition
<1>2. refs \in Seq(EveryRef)
  <2>1. \A r \in EveryRef : \A said \in BOOLEAN : ResolvableAsTarget(r, said) \in EveryRef
    BY References DEF ResolvableAsTarget
  <2>2. \A i \in DOMAIN d.deps : ResolvableAsTarget(d.deps[i], d.source = "yaml") \in EveryRef
    <3> DEFINE said == d.source = "yaml"
    <3>1. said \in BOOLEAN /\ \A i \in DOMAIN d.deps : d.deps[i] \in EveryRef
      BY <1>1
    <3> HIDE DEF said
    <3>2. \A i \in DOMAIN d.deps : ResolvableAsTarget(d.deps[i], said) \in EveryRef
      BY <2>1, <3>1
    <3> QED
      BY <3>2 DEF said
  <2>3. \E k \in Nat : DOMAIN d.deps = 1..k
    BY <1>1
  <2> QED
    BY <2>2, <2>3
<1>3. m = NewDataset(d, c, refs) \/ m = NewDataset(d, c, d.deps)
  BY DEF NewTable, NewView, NewIncrementalTable
<1> HIDE DEF refs
<1> QED
  BY <1>1, <1>2, <1>3, DatasetIsSound

\* The other class reads the same target; what the first one made stays or is made for
\* the same table.
LEMMA RetypedIsSound ==
    ASSUME NEW c, Sensible(c), NEW d \in EveryDefinition, d.kind \in Datasets, NEW m, Made(m, d),
           ~m.threw, Dataset(m, d, c)
    PROVE  LET b == Retype(d, c, m) IN Made(b, d) /\ (~b.threw => Guarded(b.actions, c))
<1> DEFINE was == m.actions
           n == Len(was)
           other == [d EXCEPT !.kind = IF d.kind = "view" THEN "table" ELSE "view", !.reads = << >>]
           again == IF other.kind = "view" THEN NewView(other, c) ELSE NewTable(other, c)
           kept == IF again.threw THEN n ELSE n - 1
           rest == SubSeq(was, 1, kept)
           acts == rest \o again.actions
           b == Retype(d, c, m)
<1>1. /\ other \in EveryDefinition /\ other.kind \in Datasets /\ other.file = d.file
      /\ other.target = d.target /\ other.disabled = d.disabled
  <2>1. << >> \in Seq(EveryRef) /\ {"table", "view"} \subseteq Definable /\ {"table", "view"} \subseteq Datasets
    BY DEF Definable, Datasets
  <2> QED
    BY <2>1 DEF EveryDefinition
<1>2. b = [again EXCEPT !.actions = rest \o @]
  BY DEF Retype
<1> HIDE DEF other
<1>3. Made(again, d) /\ (~again.threw => Dataset(again, other, c))
  <2>1. again \in {NewTable(other, c), NewView(other, c), NewIncrementalTable(other, c)}
    OBVIOUS
  <2> HIDE DEF again
  <2>2. Made(again, other) /\ (~again.threw => Dataset(again, other, c))
    BY <1>1, <2>1, ConstructorsOfDatasets
  <2> QED
    BY <1>1, <2>2 DEF Made, Good
<1> HIDE DEF again, b
<1>4. b = [actions |-> acts, threw |-> again.threw] /\ again.threw \in BOOLEAN
  <2>1. again = [actions |-> again.actions, threw |-> again.threw] /\ again.threw \in BOOLEAN
    BY <1>3 DEF Made
  <2>2. b = [again EXCEPT !.actions = acts]
    BY <1>2
  <2> HIDE DEF acts
  <2> QED
    BY <2>1, <2>2
<1>5. /\ was \in Seq(EveryAction) /\ DOMAIN was = 1..n /\ n \in Nat \ {0}
      /\ \A i \in 1..n : Good(was[i], d)
  BY DatasetIsAround DEF Made, Dataset
<1>6. /\ rest \in Seq(EveryAction) /\ DOMAIN rest = 1..kept /\ kept \in 0..n
      /\ \A i \in 1..kept : rest[i] = was[i] /\ i \in 1..n
  <2>1. kept \in 0..n
    BY <1>5
  <2> HIDE DEF was, n, kept
  <2>2. \A i \in 1..kept : was[i] \in EveryAction /\ i \in 1..n
    BY <1>5, <2>1
  <2>3. kept \in Int /\ 1 \in Int
    BY <1>5, <2>1
  <2>4. rest \in Seq(EveryAction) /\ Len(rest) = IF 1 <= kept THEN kept - 1 + 1 ELSE 0
    BY <2>2, <2>3, SubSeqProperties
  <2>5. \A i \in 1..Len(rest) : rest[i] = was[1 + i - 1]
    BY <2>2, <2>3, SubSeqProperties
  <2>6. Len(rest) = kept
    BY <1>5, <2>1, <2>4
  <2>7. DOMAIN rest = 1..Len(rest)
    BY <2>4
  <2>8. \A i \in 1..kept : 1 + i - 1 = i
    BY <2>3
  <2> QED
    BY <2>1, <2>2, <2>4, <2>5, <2>6, <2>7, <2>8
<1>7. again.actions \in Seq(EveryAction) /\ \A i \in DOMAIN again.actions : Good(again.actions[i], d)
  BY <1>3 DEF Made
<1>8. /\ acts \in Seq(EveryAction)
      /\ \A i \in DOMAIN acts : i \in Nat /\ (i \in DOMAIN rest \/ i - Len(rest) \in DOMAIN again.actions)
      /\ \A i \in DOMAIN rest : acts[i] = rest[i]
      /\ \A i \in DOMAIN again.actions : acts[Len(rest) + i] = again.actions[i]
      /\ \A i \in DOMAIN again.actions : Len(rest) + i \in DOMAIN acts
      /\ Len(rest) \in Nat
  <2> DEFINE more == again.actions
  <2>1. rest \in Seq(EveryAction) /\ more \in Seq(EveryAction) /\ acts = rest \o more
    BY <1>6, <1>7
  <2> HIDE DEF rest, more, acts
  <2>2. /\ acts \in Seq(EveryAction)
        /\ \A i \in DOMAIN acts : i \in Nat /\ (i \in DOMAIN rest \/ i - Len(rest) \in DOMAIN more)
        /\ \A i \in DOMAIN rest : acts[i] = rest[i]
        /\ \A i \in DOMAIN more : acts[Len(rest) + i] = more[i]
        /\ \A i \in DOMAIN more : Len(rest) + i \in DOMAIN acts
        /\ Len(rest) \in Nat
    BY <2>1, Concatenated
  <2> QED
    BY <2>2 DEF more
<1> HIDE DEF rest, acts, kept, was, n
<1>9. ASSUME NEW T, \A i \in DOMAIN rest : rest[i] \in T,
             \A i \in DOMAIN again.actions : again.actions[i] \in T
      PROVE  \A i \in DOMAIN acts : acts[i] \in T
  <2> SUFFICES ASSUME NEW i \in DOMAIN acts PROVE acts[i] \in T
    OBVIOUS
  <2>1. CASE i \in DOMAIN rest
    BY <1>8, <1>9, <2>1
  <2>2. CASE i - Len(rest) \in DOMAIN again.actions
    <3>1. Len(rest) + (i - Len(rest)) = i
      <4>1. i \in Nat /\ Len(rest) \in Nat
        BY <1>8
      <4> QED
        BY <4>1
    <3>2. acts[i] = again.actions[i - Len(rest)]
      BY <1>8, <2>2, <3>1
    <3> QED
      BY <3>2, <1>9, <2>2
  <2> QED
    BY <1>8, <2>1, <2>2
<1>10. Made(b, d)
  <2> DEFINE T == {a \in EveryAction : Good(a, d)}
  <2>1. (\A i \in DOMAIN rest : rest[i] \in T) /\ \A i \in DOMAIN again.actions : again.actions[i] \in T
    BY <1>5, <1>6, <1>7 DEF Good
  <2> HIDE DEF T
  <2>2. \A i \in DOMAIN acts : acts[i] \in T
    BY <2>1, <1>9
  <2> QED
    BY <2>2, <1>4, <1>8 DEF Made, T
<1>11. ASSUME ~b.threw PROVE Guarded(b.actions, c)
  <2>0. ~again.threw
    BY <1>4, <1>11
  <2> DEFINE k == Len(again.actions)
             table == again.actions[k]
             T == Around(table, d)
  <2>1. /\ again.actions \in Seq(T) /\ k \in DOMAIN again.actions
        /\ Good(table, d) /\ Settled(table, c) /\ table.kind \in Datasets
        /\ table.target = ApplySessionToTarget(d.target, c, c.schema)
        /\ table.disabled = d.disabled
    <3>1. Made(again, other)
      BY <1>1, <1>3 DEF Made, Good
    <3>2. again.actions \in Seq(Around(table, other)) /\ Good(table, other)
      BY <1>1, <1>3, <2>0, <3>1, DatasetIsAround
    <3>3. Around(table, other) = T
      BY <1>1 DEF Around, Good
    <3>4. k \in DOMAIN again.actions /\ Settled(table, c) /\ table.kind \in Datasets
      BY <1>1, <1>3, <2>0, <3>1, DatasetIsAround
    <3>5. table.target = ApplySessionToTarget(other.target, c, c.schema) /\ table.disabled = other.disabled
      BY <1>3, <2>0 DEF Dataset
    <3> HIDE DEF T, k, table
    <3> QED
      BY <1>1, <3>2, <3>3, <3>4, <3>5 DEF Good
  <2>2. /\ was[n].target = ApplySessionToTarget(d.target, c, c.schema) /\ was[n].disabled = d.disabled
        /\ \A i \in 1..n : i # n => MadeFor(was[i], was[n])
    BY DEF Dataset, was, n
  <2> HIDE DEF k, table
  <2>3. ASSUME NEW i \in DOMAIN rest PROVE rest[i] \in T
    <3>1. i \in 1..n /\ i # n /\ rest[i] = was[i]
      BY <1>5, <1>6, <2>0, <2>3 DEF kept
    <3>2. MadeFor(was[i], was[n]) /\ Good(was[i], d)
      BY <1>5, <2>2, <3>1
    <3>3. MadeFor(was[i], table)
      BY <2>1, <2>2, <3>2 DEF MadeFor
    <3> QED
      BY <3>1, <3>2, <3>3 DEF Around, Good
  <2> HIDE DEF T
  <2>4. \A i \in DOMAIN again.actions : again.actions[i] \in T
    BY <2>1, Elements
  <2>5. acts \in Seq(T)
    BY <1>8, <1>9, <2>3, <2>4, Narrowed
  <2>6. Len(rest) + k \in DOMAIN acts /\ acts[Len(rest) + k] = table
    BY <1>8, <2>1 DEF table
  <2> QED
    BY <1>4, <2>1, <2>5, <2>6, AroundIsGuarded DEF T
<1> QED
  BY <1>10, <1>11 DEF b

LEMMA CalledOnDatasetIsSound ==
    ASSUME NEW c, Sensible(c), NEW d \in EveryDefinition, d.kind \in Datasets,
           NEW m \in {NewTable(d, c), NewView(d, c), NewIncrementalTable(d, c)}
    PROVE  /\ m.threw \/ d.call = "none" => Made(m, d) /\ (~m.threw => Guarded(m.actions, c))
           /\ ~m.threw => LET b == CalledOnDataset(d, c, m) IN
                          Made(b, d) /\ (~b.threw => Guarded(b.actions, c))
<1>1. Made(m, d) /\ (~m.threw => Dataset(m, d, c))
  BY ConstructorsOfDatasets
<1>2. ~m.threw => Guarded(m.actions, c)
  BY <1>1, DatasetIsGuarded
<1>3. ASSUME ~m.threw
      PROVE  LET b == CalledOnDataset(d, c, m) IN Made(b, d) /\ (~b.threw => Guarded(b.actions, c))
  <2>1. CASE d.call = "type"
    BY <2>1, <1>1, <1>3, RetypedIsSound DEF CalledOnDataset
  <2>2. CASE d.call = "assertions"
    BY <2>2, <1>1, <1>3, AssertedIsSound DEF CalledOnDataset
  <2>3. CASE d.call \notin {"type", "assertions"}
    BY <2>3, <1>1, <1>3, AmendedTableIsSound DEF CalledOnDataset
  <2> QED
    BY <2>1, <2>2, <2>3
<1> QED
  BY <1>1, <1>2, <1>3

LEMMA PlainlyIsGuarded ==
    ASSUME NEW c, NEW m, Plainly(m, Kinds)
    PROVE  Guarded(m.actions, c)
BY DEF Plainly, Guarded

\* Calls on what has no assertions of its own.
LEMMA CalledPlainlyIsSound ==
    ASSUME NEW c, Sensible(c), NEW d \in EveryDefinition, d.kind \notin {"declaration"},
           NEW m, Made(m, d), Plainly(m, {d.kind}), NEW b \in {m, Amended(d, c, m)}
    PROVE  Made(b, d) /\ Guarded(b.actions, c)
<1>1. d.kind \in Kinds \ {"declaration", "extract"}
  BY DEF EveryDefinition, Kinds, Definable, Datasets, Statements
<1>2. Plainly(m, Kinds \ {"declaration", "extract"}) /\ Plainly(m, Kinds)
  BY <1>1 DEF Plainly
<1>3. Made(Amended(d, c, m), d) /\ Plainly(Amended(d, c, m), Kinds)
  BY <1>2, AmendedIsSound
<1> QED
  BY <1>2, <1>3, PlainlyIsGuarded

\* What a definition puts in the session: actions of its file, of which the inline
\* assertions guard one.
LEMMA NewIsSound ==
    ASSUME NEW c, Sensible(c), NEW d \in EveryDefinition, NEW servers
    PROVE  LET m == New(d, c, servers) IN
           Made(m, d) /\ (~m.threw => Guarded(m.actions, c))
<1> DEFINE m == New(d, c, servers)
           G(x) == Made(x, d) /\ (~x.threw => Guarded(x.actions, c))
<1> HIDE DEF m, G
<1> SUFFICES G(m)
  BY DEF G, m
<1>1. CASE d.kind \in Datasets
  <2> DEFINE x == CASE d.kind = "table" -> NewTable(d, c) [] d.kind = "view" -> NewView(d, c)
                    [] d.kind = "incremental" -> NewIncrementalTable(d, c)
  <2>1. x \in {NewTable(d, c), NewView(d, c), NewIncrementalTable(d, c)}
    BY <1>1 DEF Datasets
  <2>2. m = IF x.threw \/ d.call = "none" THEN x ELSE CalledOnDataset(d, c, x)
    <3>1. CASE d.kind = "table"
      BY <3>1 DEF m, New, Called, TableBuilder
    <3>2. CASE d.kind = "view"
      BY <3>2 DEF m, New, Called, ViewBuilder
    <3>3. CASE d.kind = "incremental"
      BY <3>3 DEF m, New, Called, IncrementalTableBuilder
    <3> QED
      BY <1>1, <3>1, <3>2, <3>3 DEF Datasets
  <2> HIDE DEF x
  <2>3. (x.threw \/ d.call = "none" => G(x)) /\ (~x.threw => G(CalledOnDataset(d, c, x)))
    BY <1>1, <2>1, CalledOnDatasetIsSound DEF G
  <2> QED
    BY <2>2, <2>3
<1>2. ASSUME NEW x, d.kind # "declaration", Made(x, d), Plainly(x, {d.kind}),
             m = x \/ m = Amended(d, c, x)
      PROVE  G(m)
  <2>1. m \in {x, Amended(d, c, x)}
    BY <1>2
  <2> QED
    BY <1>2, <2>1, CalledPlainlyIsSound DEF G
<1>3. ASSUME NEW x, Made(x, d), Plainly(x, Kinds), m = x PROVE G(m)
  <2> QED
    BY <1>3, PlainlyIsGuarded DEF G
<1>4. CASE d.kind = "operations"
  <2>1. m = NewOperation(d, c) \/ m = Amended(d, c, NewOperation(d, c))
    BY <1>4 DEF m, New, Called, OperationBuilder
  <2> QED
    BY <1>2, <1>4, <2>1, PlainKindsAreSound
<1>5. CASE d.kind = "assertion"
  <2>1. m = NewAssertion(d, c) \/ m = Amended(d, c, NewAssertion(d, c))
    BY <1>5 DEF m, New, Called, AssertionBuilder
  <2> QED
    BY <1>2, <1>5, <2>1, AssertionIsSound
<1>6. CASE d.kind = "declaration"
  <2>1. m = Declare(d, c, servers)
    BY <1>6 DEF m, New, Called
  <2> QED
    BY <1>3, <2>1, DeclareIsSound
<1>7. CASE d.kind = "wrapper"
  <2>1. m = DeclareWrapper(d, c)
    BY <1>7 DEF m, New, Called
  <2> QED
    BY <1>3, <2>1, DeclareWrapperIsSound
<1>8. CASE d.kind \in {"rlsPolicy", "realtime", "vectorIndex"}
  <2>1. \E x \in {NewRlsPolicy(d, c), NewRealtimePublication(d, c), NewVectorIndex(d, c)} : m = x
    <3>1. CASE d.kind = "rlsPolicy"
      BY <3>1 DEF m, New, Called
    <3>2. CASE d.kind = "realtime"
      BY <3>2 DEF m, New, Called
    <3>3. CASE d.kind = "vectorIndex"
      BY <3>3 DEF m, New, Called
    <3> QED
      BY <1>8, <3>1, <3>2, <3>3
  <2> QED
    BY <1>2, <1>8, <2>1, OnTablesAreSound
<1>9. CASE d.kind \in {"export", "import", "notebook", "script"}
  <2>1. \E x \in {NewExport(d, c), NewImport(d, c), NewNotebook(d, c), NewScript(d, c)} :
            m = x \/ m = Amended(d, c, x)
    <3>1. CASE d.kind = "export"
      BY <3>1 DEF m, New, Called, ExportBuilder
    <3>2. CASE d.kind = "import"
      BY <3>2 DEF m, New, Called, ImportBuilder
    <3>3. CASE d.kind = "notebook"
      BY <3>3 DEF m, New, Called, NotebookBuilder
    <3>4. CASE d.kind = "script"
      BY <3>4 DEF m, New, Called, ScriptBuilder
    <3> QED
      BY <1>9, <3>1, <3>2, <3>3, <3>4
  <2> QED
    BY <1>2, <1>9, <2>1, PlainKindsAreSound
<1>10. CASE d.kind = "dataPreparation"
  <2>1. m = NewDataPreparation(d, c) \/ m = Amended(d, c, NewDataPreparation(d, c))
    BY <1>10 DEF m, New, Called, DataPreparationBuilder
  <2> QED
    BY <1>2, <1>10, <2>1, DataPreparationIsSound
<1>11. CASE d.kind = "test"
  <2>1. m = NewTest(d, c)
    BY <1>11 DEF m, New, Called
  <2> QED
    BY <1>2, <1>11, <2>1, TestIsSound
<1>12. \/ d.kind \in Datasets \/ d.kind \in {"operations", "assertion", "declaration", "wrapper"}
       \/ d.kind \in {"rlsPolicy", "realtime", "vectorIndex"}
       \/ d.kind \in {"export", "import", "notebook", "script"}
       \/ d.kind \in {"dataPreparation", "test"}
  BY DEF EveryDefinition, Definable, Statements
<1> QED
  BY <1>1, <1>4, <1>5, <1>6, <1>7, <1>8, <1>9, <1>10, <1>11, <1>12

-----------------------------------------------------------------------------
(* Lookups.                                                                *)

Denoted(ref, acts) == {i \in DOMAIN acts : Denotes(ref, acts[i].target)}

\* Of S, those at home in the part of the target that the reference leaves out.
Preferred(S, ref, acts, part, default) ==
    LET home == {i \in S : acts[i].target[part] = default}
    IN  IF ref[part] = Unset /\ default # Unset /\ home # {} THEN home ELSE S
Candidates(ref, acts, c) ==
    Preferred(Preferred(Denoted(ref, acts), ref, acts, "database", c.database), ref, acts, "schema", c.schema)

LEMMA Lookup ==
    ASSUME NEW ref, NEW acts
    PROVE  Find(Index(acts), ref) = Denoted(ref, acts)
BY DEF Find, Index, Denoted

LEMMA FoundIs ==
    ASSUME NEW c, NEW ref, NEW acts
    PROVE  FindActions(ref, acts, c) =
              IF Cardinality(Denoted(ref, acts)) > 1 /\ Cardinality(Candidates(ref, acts, c)) = 1
              THEN Candidates(ref, acts, c) ELSE Denoted(ref, acts)
BY Lookup DEF FindActions, Candidates, Preferred

\* A lookup is about targets, and about what the reference says of them.
LEMMA FoundByTarget ==
    ASSUME NEW c, NEW ref, NEW acts, NEW other, NEW bs, TargetOf(ref) = TargetOf(other),
           DOMAIN acts = DOMAIN bs, \A i \in DOMAIN acts : acts[i].target = bs[i].target
    PROVE  FindActions(ref, acts, c) = FindActions(other, bs, c)
<1>1. ref.name = other.name /\ ref.schema = other.schema /\ ref.database = other.database
  BY DEF TargetOf, Target
<1>2. Denoted(ref, acts) = Denoted(other, bs)
  BY <1>1 DEF Denoted, Denotes
<1>3. ASSUME NEW S, S \subseteq DOMAIN acts, NEW part \in {"database", "schema"}, NEW default
      PROVE  /\ Preferred(S, ref, acts, part, default) = Preferred(S, other, bs, part, default)
             /\ Preferred(S, ref, acts, part, default) \subseteq S
  <2>1. ref[part] = other[part]
    BY <1>1
  <2>2. {i \in S : acts[i].target[part] = default} = {i \in S : bs[i].target[part] = default}
    BY <1>3
  <2> QED
    BY <2>1, <2>2 DEF Preferred
<1>4. Denoted(ref, acts) \subseteq DOMAIN acts
  BY DEF Denoted
<1>5. Candidates(ref, acts, c) = Candidates(other, bs, c)
  <2> DEFINE S == Preferred(Denoted(ref, acts), ref, acts, "database", c.database)
  <2>1. S = Preferred(Denoted(other, bs), other, bs, "database", c.database) /\ S \subseteq DOMAIN acts
    <3> DEFINE D == Denoted(ref, acts)
    <3>1. D = Denoted(other, bs) /\ D \subseteq DOMAIN acts
      BY <1>2, <1>4
    <3> HIDE DEF D
    <3>2. /\ Preferred(D, ref, acts, "database", c.database) = Preferred(D, other, bs, "database", c.database)
          /\ Preferred(D, ref, acts, "database", c.database) \subseteq D
      BY <1>3, <3>1
    <3> QED
      BY <3>1, <3>2 DEF D
  <2> HIDE DEF S
  <2>2. Preferred(S, ref, acts, "schema", c.schema) = Preferred(S, other, bs, "schema", c.schema)
    BY <1>3, <2>1
  <2> QED
    BY <2>1, <2>2 DEF Candidates, S
<1> QED
  BY <1>2, <1>5, FoundIs

\* What is found is denoted; with an action, all those with its target.
LEMMA FoundTogether ==
    ASSUME NEW c, NEW ref, NEW acts, NEW i \in FindActions(ref, acts, c)
    PROVE  /\ i \in DOMAIN acts /\ Denotes(ref, acts[i].target)
           /\ \A j \in DOMAIN acts : acts[j].target = acts[i].target => j \in FindActions(ref, acts, c)
<1> DEFINE D == Denoted(ref, acts)
           C == Candidates(ref, acts, c)
           With(S) == S \subseteq D /\ \A k \in S : \A j \in DOMAIN acts : acts[j].target = acts[k].target => j \in S
<1>1. With(D)
  BY DEF Denoted
<1>2. ASSUME NEW S, With(S), NEW part, NEW default PROVE With(Preferred(S, ref, acts, part, default))
  BY <1>2 DEF Preferred
<1>3. With(C)
  <2> HIDE DEF With
  <2> QED
    BY <1>1, <1>2 DEF Candidates
<1>4. FindActions(ref, acts, c) = D \/ FindActions(ref, acts, c) = C
  BY FoundIs
<1> HIDE DEF C
<1> QED
  BY <1>1, <1>3, <1>4 DEF Denoted

\* A table is found by its own target: there is no better one at home.
LEMMA FoundByItself ==
    ASSUME NEW c, NEW ref, NEW acts, NEW t \in DOMAIN acts, TargetOf(ref) = TargetOf(acts[t].target),
           Settled(acts[t], c)
    PROVE  t \in FindActions(ref, acts, c)
<1> DEFINE D == Denoted(ref, acts)
<1>1. /\ ref.name = acts[t].target.name /\ ref.schema = acts[t].target.schema
      /\ ref.database = acts[t].target.database
  BY DEF TargetOf, Target
<1>2. t \in D
  BY <1>1 DEF Denoted, Denotes
<1>3. \A S : Preferred(S, ref, acts, "database", c.database) = S
             /\ Preferred(S, ref, acts, "schema", c.schema) = S
  BY <1>1 DEF Preferred, Settled
<1>4. Candidates(ref, acts, c) = D
  BY <1>3 DEF Candidates
<1> QED
  BY <1>2, <1>4, FoundIs

\* What resolves is one action's name.
TextOf(a, c) == ResolveTarget(c, IF a.kind = "declaration" THEN a.target ELSE FinalTarget(c, a.target))

LEMMA SessionIsFinite ==
    ASSUME NEW T, NEW s \in Seq(T)
    PROVE  IsFiniteSet(DOMAIN s) /\ \A S : S \subseteq DOMAIN s => IsFiniteSet(S)
<1>1. DOMAIN s = 1..Len(s) /\ Len(s) \in Nat
  OBVIOUS
<1>2. IsFiniteSet(DOMAIN s)
  <2> DEFINE n == Len(s)
  <2>1. n \in Nat /\ DOMAIN s = 1..n
    BY <1>1
  <2> HIDE DEF n
  <2> QED
    BY <2>1, FS_Interval
<1> QED
  BY <1>2, FS_Subset

LEMMA OnlyOne ==
    ASSUME NEW S, IsFiniteSet(S)
    PROVE  /\ Cardinality(S) = 1 => \E x : S = {x}
           /\ S # {} /\ ~(Cardinality(S) > 1) => \E x : S = {x}
           /\ Cardinality(S) \in Nat
           /\ \A x : S = {x} => Cardinality(S) = 1
<1>1. Cardinality(S) \in Nat /\ (Cardinality(S) = 0 <=> S = {})
  BY FS_CardinalityType, FS_EmptySet
<1>2. Cardinality(S) = 1 <=> \E x : S = {x}
  BY FS_Singleton
<1>3. S # {} /\ ~(Cardinality(S) > 1) => Cardinality(S) = 1
  BY <1>1
<1> QED
  BY <1>1, <1>2, <1>3

LEMMA Resolves ==
    ASSUME NEW c, Sensible(c), NEW acts \in Seq(EveryAction), NEW ref
    PROVE  LET r == Resolve(ref, acts, c) IN
           /\ r.fault \in {"none", "unresolved", "ambiguous", "noOutput"}
           /\ r.fault = "none" => \E m \in DOMAIN acts :
                 /\ FindActions(ref, acts, c) = {m} /\ r.text = TextOf(acts[m], c)
                 /\ r.text \in EveryTarget
<1> DEFINE r == Resolve(ref, acts, c)
           found == FindActions(ref, acts, c)
           m == CHOOSE i \in found : TRUE
<1>1. found \subseteq DOMAIN acts
  BY FoundTogether
<1>2. IsFiniteSet(found)
  <2> HIDE DEF found
  <2> QED
    BY <1>1, SessionIsFinite
<1> HIDE DEF found
<1>3. r.fault \in {"none", "unresolved", "ambiguous", "noOutput"}
  BY DEF Resolve, found
<1>4. ASSUME r.fault = "none"
      PROVE  found # {} /\ ~(Cardinality(found) > 1) /\ r.text = TextOf(acts[m], c)
  BY <1>4 DEF Resolve, found, TextOf
<1>5. ASSUME r.fault = "none"
      PROVE  m \in DOMAIN acts /\ found = {m} /\ r.text = TextOf(acts[m], c) /\ r.text \in EveryTarget
  <2>1. \E x : found = {x}
    BY <1>2, <1>4, <1>5, OnlyOne
  <2>2. m \in found /\ found = {m}
    BY <2>1
  <2>3. m \in DOMAIN acts
    BY <1>1, <2>2
  <2> HIDE DEF m
  <2>4. acts[m].target \in EveryTarget
    <3>1. acts[m] \in EveryAction
      BY <2>3, Elements
    <3> QED
      BY <3>1 DEF EveryAction
  <2>5. FinalTarget(c, acts[m].target) \in EveryTarget
    BY <2>4, Named, UnsetIsAName
  <2>6. TextOf(acts[m], c) \in EveryTarget
    BY <2>4, <2>5, Named, UnsetIsAName DEF TextOf
  <2> QED
    BY <1>4, <1>5, <2>2, <2>3, <2>6
<1> QED
  BY <1>3, <1>5 DEF found

-----------------------------------------------------------------------------
(* Compiling.                                                              *)

\* What compile() does not change of an action.
Alike(a, b) ==
    /\ b.kind = a.kind /\ b.file = a.file /\ b.target = a.target /\ b.disabled = a.disabled
    /\ b.inline = a.inline /\ b.flaw = a.flaw /\ (a.inline => b.reads = a.reads)
    /\ a.faults \subseteq b.faults

\* The text stands for the one action that a dependency of a finds.
Reads(text, a, acts, c) ==
    \E k \in DOMAIN a.deps, m \in DOMAIN acts :
        FindActions(a.deps[k], acts, c) = {m} /\ text = TextOf(acts[m], c)

\* r is what compile() may return for the action a.
Result(r, a, acts, c) ==
    /\ r = Compiled(r.action, r.texts, r.names, r.dropped)
    /\ r.action \in EveryAction /\ Sound(r.action) /\ Alike(a, r.action)
    /\ r.texts \subseteq EveryTarget /\ r.names \subseteq EveryTarget
    /\ r.dropped => r.action.faults # {}
    /\ r.action.faults = {} => \A x \in r.texts : Reads(x, r.action, acts, c)

\* The query that guards a table names it.
NamesTable(r, a, acts, c) ==
    LET x == Resolve(a.reads[1], acts, c)
    IN  x.fault = "none" /\ r.texts = {x.text} /\ DependsOn(r.action, a.reads[1])

LEMMA FaultedIsGood ==
    ASSUME NEW a \in EveryAction, Sound(a), NEW F \in SUBSET Words
    PROVE  LET b == [a EXCEPT !.faults = @ \cup F] IN
           /\ b \in EveryAction /\ Sound(b) /\ Alike(a, b) /\ b.deps = a.deps /\ b.reads = a.reads
           /\ b.faults = a.faults \cup F /\ b.broken = a.broken
<1> DEFINE faults == a.faults \cup F
           b == [a EXCEPT !.faults = @ \cup F]
<1>1. faults \in SUBSET Words /\ a.faults \subseteq faults
  BY DEF EveryAction
<1>2. b = [a EXCEPT !.faults = faults]
  OBVIOUS
<1> HIDE DEF faults, b
<1>3. /\ b \in EveryAction /\ b.kind = a.kind /\ b.file = a.file /\ b.target = a.target
      /\ b.disabled = a.disabled /\ b.inline = a.inline /\ b.flaw = a.flaw /\ b.reads = a.reads
      /\ b.deps = a.deps /\ b.faults = faults /\ b.broken = a.broken
  BY <1>1, <1>2 DEF EveryAction
<1>4. Sound(b) /\ Alike(a, b)
  BY <1>1, <1>3 DEF Sound, Alike
<1> QED
  BY <1>3, <1>4 DEF b, faults

\* compile() that only looks for faults.
LEMMA OnlyFaults ==
    ASSUME NEW a \in EveryAction, Sound(a), NEW F \in SUBSET Words, NEW acts, NEW c,
           NEW names \in SUBSET EveryTarget, NEW dropped \in BOOLEAN,
           dropped => a.faults \cup F # {}
    PROVE  Result(Compiled([a EXCEPT !.faults = @ \cup F], {}, names, dropped), a, acts, c)
<1> DEFINE b == [a EXCEPT !.faults = @ \cup F]
<1>1. b \in EveryAction /\ Sound(b) /\ Alike(a, b) /\ b.faults = a.faults \cup F
  BY FaultedIsGood
<1> HIDE DEF b
<1> QED
  BY <1>1 DEF Result, Compiled, b

LEMMA AsBuilt ==
    ASSUME NEW a \in EveryAction, Sound(a), NEW acts, NEW c,
           NEW names \in SUBSET EveryTarget, NEW dropped \in BOOLEAN, dropped => a.broken
    PROVE  Result(Compiled(a, {}, names, dropped), a, acts, c)
<1>1. Alike(a, a) /\ (a.broken => a.faults # {})
  BY DEF Alike, Sound
<1> QED
  BY <1>1 DEF Result, Compiled

\* A query in its context: every ref() is a dependency that resolves, or a fault.
LEMMA InContext ==
    ASSUME NEW c, Sensible(c), NEW acts \in Seq(EveryAction), NEW a \in EveryAction, Sound(a),
           a.kind \notin {"declaration", "extract"}
    PROVE  LET r == Context(a, acts, c) IN
           /\ Result(r, a, acts, c) /\ r.dropped \in BOOLEAN /\ r.action.reads = a.reads
           /\ Len(a.reads) = 1 /\ r.action.faults = {} => NamesTable(r, a, acts, c)
<1> DEFINE resolved == {Resolve(a.reads[i], acts, c) : i \in DOMAIN a.reads}
           asked == AddDependencies(a, a.reads, c)
           F == {x.fault : x \in resolved} \ {"none"}
           texts == {x.text : x \in {y \in resolved : y.fault = "none"}}
           b == [asked EXCEPT !.faults = @ \cup F]
           r == Context(a, acts, c)
<1>1. a.reads \in Seq(EveryRef) /\ DOMAIN a.reads = 1..Len(a.reads)
  BY DEF EveryAction
<1>2. r = Compiled(b, texts, {}, asked.broken)
  BY DEF Context
<1>3. /\ asked \in EveryAction /\ Grown(a, asked)
      /\ asked.faults = {} => \A k \in DOMAIN a.reads : DependsOn(asked, a.reads[k])
  BY <1>1, AddsAll
<1>4. F \in SUBSET Words
  <2>1. \A x \in resolved : x.fault \in Words
    BY Resolves, WordsUsed DEF Messages
  <2> HIDE DEF resolved
  <2> QED
    BY <2>1
<1> HIDE DEF asked
<1>5. Sound(asked) /\ asked.reads = a.reads
  BY <1>3 DEF Sound, Grown
<1> HIDE DEF F
<1>6. /\ b \in EveryAction /\ Sound(b) /\ Alike(asked, b) /\ b.deps = asked.deps
      /\ b.faults = asked.faults \cup F /\ b.broken = asked.broken /\ b.reads = a.reads
  BY <1>3, <1>4, <1>5, FaultedIsGood
<1> HIDE DEF b
<1>7. Alike(a, b)
  BY <1>3, <1>6 DEF Alike, Grown
<1>8. asked.broken => b.faults # {}
  BY <1>5, <1>6 DEF Sound
<1>9. texts \subseteq EveryTarget
  <2>1. \A x \in resolved : x.fault = "none" => x.text \in EveryTarget
    BY Resolves
  <2> HIDE DEF resolved
  <2> QED
    BY <2>1
<1>10. ASSUME b.faults = {}, NEW i \in DOMAIN a.reads
       PROVE  Resolve(a.reads[i], acts, c).fault = "none" /\ DependsOn(b, a.reads[i])
  <2>1. Resolve(a.reads[i], acts, c) \in resolved
    OBVIOUS
  <2>2. Resolve(a.reads[i], acts, c).fault \notin F
    BY <1>6, <1>10
  <2>3. Resolve(a.reads[i], acts, c).fault = "none"
    <3> HIDE DEF resolved
    <3> QED
      BY <2>1, <2>2 DEF F
  <2>4. DependsOn(asked, a.reads[i])
    BY <1>3, <1>6, <1>10
  <2> QED
    BY <2>3, <2>4, <1>6 DEF DependsOn
<1>11. ASSUME b.faults = {}, NEW x \in texts PROVE Reads(x, b, acts, c)
  <2>1. PICK i \in DOMAIN a.reads : x = Resolve(a.reads[i], acts, c).text
    OBVIOUS
  <2>2. PICK m \in DOMAIN acts :
            FindActions(a.reads[i], acts, c) = {m} /\ x = TextOf(acts[m], c)
    BY <1>10, <1>11, <2>1, Resolves
  <2>3. PICK k \in DOMAIN b.deps : TargetOf(b.deps[k]) = TargetOf(a.reads[i])
    BY <1>10, <1>11 DEF DependsOn
  <2>4. FindActions(b.deps[k], acts, c) = {m}
    BY <2>2, <2>3, FoundByTarget
  <2> QED
    BY <2>2, <2>4 DEF Reads
<1>12. ASSUME Len(a.reads) = 1, b.faults = {}
       PROVE  /\ Resolve(a.reads[1], acts, c).fault = "none" /\ DependsOn(b, a.reads[1])
              /\ texts = {Resolve(a.reads[1], acts, c).text}
  <2>1. DOMAIN a.reads = {1}
    BY <1>1, <1>12
  <2>2. resolved = {Resolve(a.reads[1], acts, c)}
    BY <2>1
  <2>3. Resolve(a.reads[1], acts, c).fault = "none" /\ DependsOn(b, a.reads[1])
    BY <1>10, <1>12, <2>1
  <2> HIDE DEF resolved
  <2> QED
    BY <2>2, <2>3
<1> HIDE DEF texts, resolved, r
<1>13. r.action = b /\ r.texts = texts /\ r.names = {} /\ r.dropped = asked.broken
  BY <1>2 DEF Compiled
<1>14. asked.broken \in BOOLEAN
  BY <1>3 DEF EveryAction
<1>15. Result(r, a, acts, c)
  BY <1>2, <1>6, <1>7, <1>8, <1>9, <1>11, <1>13 DEF Result
<1>16. Len(a.reads) = 1 /\ r.action.faults = {} => NamesTable(r, a, acts, c)
  BY <1>12, <1>13 DEF NamesTable
<1> QED
  BY <1>6, <1>13, <1>14, <1>15, <1>16 DEF r

LEMMA QueryIsSound ==
    ASSUME NEW c, NEW acts, NEW a \in EveryAction, Sound(a), NEW applied,
           Result(applied, a, acts, c)
    PROVE  LET r == CompileQuery(a, applied) IN
           /\ Result(r, a, acts, c)
           /\ r.action.faults = {} =>
                /\ applied.action.faults = {}
                /\ NamesTable(applied, a, acts, c) => NamesTable(r, a, acts, c)
<1> DEFINE checks == CompileChecks(a.kind)
           r == CompileQuery(a, applied)
           G == Fault(a.flaw, {"flag"}, checks)
           x == applied.action
           b == [x EXCEPT !.faults = @ \cup G]
<1>1. {a.flaw} \in SUBSET Words
  BY DEF EveryAction
<1>2. G \in SUBSET Words
  BY <1>1 DEF Fault
<1> HIDE DEF checks, G
<1>3. CASE EffectOf(checks, a.flaw) = "drop"
  <2>1. r = Compiled([a EXCEPT !.faults = @ \cup {a.flaw}], {}, {}, TRUE)
    BY <1>3 DEF CompileQuery, checks
  <2> HIDE DEF r
  <2> DEFINE F == {a.flaw}
  <2>0. /\ F \in SUBSET Words /\ a.faults \cup F # {} /\ {} \in SUBSET EveryTarget
        /\ TRUE \in BOOLEAN
    BY <1>1
  <2>2. Result(r, a, acts, c)
    <3> HIDE DEF F
    <3>1. Result(Compiled([a EXCEPT !.faults = @ \cup F], {}, {}, TRUE), a, acts, c)
      BY <2>0, OnlyFaults
    <3> QED
      BY <2>1, <3>1 DEF F
  <2>3. r.action.faults # {}
    <3>1. r.action = [a EXCEPT !.faults = @ \cup {a.flaw}]
      BY <2>1 DEF Compiled
    <3>2. r.action.faults = a.faults \cup {a.flaw}
      BY <1>1, <3>1, FaultedIsGood DEF Result
    <3> QED
      BY <3>2
  <2> QED
    BY <2>2, <2>3 DEF r
<1>4. CASE EffectOf(checks, a.flaw) # "drop"
  <2>1. r = [applied EXCEPT !.action.faults = @ \cup G]
    BY <1>4 DEF CompileQuery, checks, G
  <2>2. applied = [action |-> x, texts |-> applied.texts, names |-> applied.names,
                   dropped |-> applied.dropped]
    BY DEF Result, Compiled
  <2>3. r = [applied EXCEPT !.action = b]
    BY <2>1
  <2> HIDE DEF r, b, x
  <2>4. r = [action |-> b, texts |-> applied.texts, names |-> applied.names,
             dropped |-> applied.dropped]
    BY <2>2, <2>3
  <2>5. x \in EveryAction /\ Sound(x) /\ Alike(a, x)
    BY DEF Result, x
  <2>6. b \in EveryAction /\ Sound(b) /\ Alike(x, b) /\ b.deps = x.deps /\ b.faults = x.faults \cup G
    BY <1>2, <2>5, FaultedIsGood DEF b
  <2>7. Alike(a, b)
    BY <2>5, <2>6 DEF Alike
  <2>8. /\ r.action = b /\ r.texts = applied.texts /\ r.names = applied.names
        /\ r.dropped = applied.dropped
    BY <2>4
  <2>9. b.faults = {} => \A y \in r.texts : Reads(y, b, acts, c)
    BY <2>6, <2>8 DEF Result, Reads, x
  <2>10. Result(r, a, acts, c)
    <3>1. /\ applied.texts \subseteq EveryTarget /\ applied.names \subseteq EveryTarget
          /\ applied.dropped => x.faults # {}
      BY DEF Result, x
    <3> QED
      BY <2>4, <2>6, <2>7, <2>8, <2>9, <3>1 DEF Result, Compiled
  <2>11. ASSUME b.faults = {}
         PROVE  x.faults = {} /\ (NamesTable(applied, a, acts, c) => NamesTable(r, a, acts, c))
    BY <2>6, <2>8, <2>11 DEF NamesTable, DependsOn, x
  <2> QED
    BY <2>8, <2>10, <2>11 DEF r, x
<1> QED
  BY <1>3, <1>4

\* A query without reads of its own.
LEMMA ReadsNothing ==
    ASSUME NEW c, NEW acts, NEW a \in EveryAction, Sound(a), ~a.inline
    PROVE  LET b == [a EXCEPT !.reads = << >>] IN
           /\ b \in EveryAction /\ Sound(b) /\ b.kind = a.kind
           /\ \A r : Result(r, b, acts, c) => Result(r, a, acts, c)
<1> DEFINE b == [a EXCEPT !.reads = << >>]
<1>1. << >> \in Seq(EveryRef)
  OBVIOUS
<1>2. /\ b \in EveryAction /\ b.kind = a.kind /\ b.file = a.file /\ b.target = a.target
      /\ b.disabled = a.disabled /\ b.inline = a.inline /\ b.flaw = a.flaw
      /\ b.faults = a.faults /\ b.broken = a.broken /\ b.deps = a.deps
  BY <1>1 DEF EveryAction
<1> HIDE DEF b
<1>3. Sound(b)
  BY <1>2 DEF Sound
<1>4. \A x : Alike(b, x) => Alike(a, x)
  BY <1>2 DEF Alike
<1> QED
  BY <1>2, <1>3, <1>4 DEF b, Result

Queried == Datasets \cup {"operations", "assertion", "export", "dataPreparation"}

\* What compile() returns; the one that guards a table names it.
LEMMA CompileIsSound ==
    ASSUME NEW c, Sensible(c), NEW acts \in Seq(EveryAction), NEW a \in EveryAction, Sound(a)
    PROVE  LET r == Compile(a, acts, c) IN
           /\ Result(r, a, acts, c)
           /\ a.inline /\ Len(a.reads) = 1 /\ r.action.faults = {} => NamesTable(r, a, acts, c)
<1> DEFINE r == Compile(a, acts, c)
           table == ResolveTarget(c, FinalizeTarget(c, Bare(a.of.name)))
<1> HIDE DEF r
<1> SUFFICES /\ Result(r, a, acts, c)
             /\ a.inline /\ Len(a.reads) = 1 /\ r.action.faults = {} => NamesTable(r, a, acts, c)
  BY DEF r
<1>1. a.flaw \in Words /\ a.of \in EveryTarget /\ a.canonical \in EveryTarget /\ a.broken \in BOOLEAN
      /\ a.inline \in BOOLEAN
  BY DEF EveryAction
<1>2. a.kind # "assertion" => ~a.inline
  BY DEF Sound
<1>3. ASSUME r = CompileQuery(a, Context(a, acts, c)), a.kind \notin {"declaration", "extract"}
      PROVE  /\ Result(r, a, acts, c)
             /\ Len(a.reads) = 1 /\ r.action.faults = {} => NamesTable(r, a, acts, c)
  <2> DEFINE x == Context(a, acts, c)
  <2>1. /\ Result(x, a, acts, c)
        /\ Len(a.reads) = 1 /\ x.action.faults = {} => NamesTable(x, a, acts, c)
    BY <1>3, InContext
  <2> HIDE DEF x
  <2>2. /\ Result(CompileQuery(a, x), a, acts, c)
        /\ CompileQuery(a, x).action.faults = {} =>
             /\ x.action.faults = {}
             /\ NamesTable(x, a, acts, c) => NamesTable(CompileQuery(a, x), a, acts, c)
    BY <2>1, QueryIsSound
  <2> QED
    BY <2>1, <2>2, <1>3 DEF x
<1>4. CASE a.kind \in Datasets \cup {"operations", "export"}
  <2>1. r = CompileQuery(a, Context(a, acts, c))
    <3>1. CASE a.kind = "table"
      BY <3>1 DEF r, Compile, CompileTable, TableContext
    <3>2. CASE a.kind = "view"
      BY <3>2 DEF r, Compile, CompileView, ViewContext
    <3>3. CASE a.kind = "incremental"
      BY <3>3 DEF r, Compile, CompileIncrementalTable, IncrementalTableContext
    <3>4. CASE a.kind = "operations"
      BY <3>4 DEF r, Compile, CompileOperation, OperationContext
    <3>5. CASE a.kind = "export"
      BY <3>5 DEF r, Compile, CompileExport, ExportContext
    <3> QED
      BY <1>4, <3>1, <3>2, <3>3, <3>4, <3>5 DEF Datasets
  <2>2. a.kind \notin {"declaration", "extract", "assertion"}
    BY <1>4 DEF Datasets
  <2> QED
    BY <1>2, <1>3, <2>1, <2>2
<1>5. CASE a.kind = "assertion"
  <2>1. CASE a.flaw # "jitAndQuery"
    <3>1. r = CompileQuery(a, Context(a, acts, c))
      BY <1>5, <2>1 DEF r, Compile, CompileAssertion, AssertionContext
    <3> QED
      BY <1>3, <1>5, <3>1
  <2>2. CASE a.flaw = "jitAndQuery"
    <3> DEFINE b == [a EXCEPT !.reads = << >>]
               x == Context(b, acts, c)
    <3>1. ~a.inline
      BY <2>2 DEF Sound
    <3>2. r = CompileQuery(a, x)
      BY <1>5, <2>2 DEF r, Compile, CompileAssertion, AssertionContext
    <3>3. /\ b \in EveryAction /\ Sound(b) /\ b.kind = "assertion"
          /\ \A y : Result(y, b, acts, c) => Result(y, a, acts, c)
      BY <1>5, <3>1, ReadsNothing
    <3> HIDE DEF b
    <3>4. Result(x, b, acts, c)
      BY <3>3, InContext
    <3> HIDE DEF x
    <3>5. Result(x, a, acts, c)
      BY <3>3, <3>4
    <3> QED
      BY <3>1, <3>2, <3>5, QueryIsSound
  <2> QED
    BY <2>1, <2>2
<1>6. CASE a.kind = "dataPreparation"
  <2> DEFINE x == CompileQuery(a, Context(a, acts, c))
             name == FinalizeTarget(c, a.canonical)
  <2>1. r = [x EXCEPT !.names = {name}]
    BY <1>6 DEF r, Compile, CompileDataPreparation, DataPreparationContext
  <2>2. name \in EveryTarget
    BY <1>1, Named, UnsetIsAName
  <2>3. Result(x, a, acts, c)
    <3> DEFINE y == Context(a, acts, c)
    <3>1. Result(y, a, acts, c)
      BY <1>6, InContext
    <3> HIDE DEF y
    <3>2. Result(CompileQuery(a, y), a, acts, c)
      BY <3>1, QueryIsSound
    <3> QED
      BY <3>2 DEF y
  <2> HIDE DEF x, name
  <2>4. r = Compiled(x.action, x.texts, {name}, x.dropped)
    <3>1. x = [action |-> x.action, texts |-> x.texts, names |-> x.names, dropped |-> x.dropped]
      BY <2>3 DEF Result, Compiled
    <3> QED
      BY <2>1, <3>1 DEF Compiled
  <2>5. r.action = x.action /\ r.texts = x.texts /\ r.names = {name} /\ r.dropped = x.dropped
    BY <2>4 DEF Compiled
  <2>6. Result(r, a, acts, c)
    BY <2>2, <2>3, <2>4, <2>5 DEF Result
  <2> QED
    BY <1>2, <1>6, <2>6
<1>7. CASE a.kind \in {"rlsPolicy", "realtime", "vectorIndex", "foreignTable"}
  <2>1. r = Compiled(a, {}, {table}, FALSE) \/ r = Compiled(a, {}, {ResolveTarget(c, a.of)}, FALSE)
    <3>1. CASE a.kind = "rlsPolicy"
      BY <3>1 DEF r, Compile, CompileRlsPolicy, CompileOnTable
    <3>2. CASE a.kind = "realtime"
      BY <3>2 DEF r, Compile, CompileRealtimePublication, CompileOnTable
    <3>3. CASE a.kind = "vectorIndex"
      BY <3>3 DEF r, Compile, CompileVectorIndex, CompileOnTable
    <3>4. CASE a.kind = "foreignTable"
      BY <3>4 DEF r, Compile, CompileForeignTable
    <3> QED
      BY <1>7, <3>1, <3>2, <3>3, <3>4
  <2>2. table \in EveryTarget /\ ResolveTarget(c, a.of) \in EveryTarget
    <3>1. Bare(a.of.name) \in EveryTarget
      BY <1>1, Targeted DEF EveryTarget
    <3>2. FinalizeTarget(c, Bare(a.of.name)) \in EveryTarget
      BY <3>1, Named, UnsetIsAName
    <3> QED
      BY <1>1, <3>2, Named, UnsetIsAName
  <2> HIDE DEF table
  <2>3. {table} \in SUBSET EveryTarget /\ {ResolveTarget(c, a.of)} \in SUBSET EveryTarget
    BY <2>2
  <2>4. Result(r, a, acts, c)
    BY <2>1, <2>3, AsBuilt
  <2> QED
    BY <1>2, <1>7, <2>4
<1>8. CASE a.kind = "wrapper"
  <2> DEFINE dropped == EffectOf(CompileChecks("wrapper"), a.flaw) = "drop"
             F == IF dropped THEN {a.flaw} ELSE {}
  <2>1. r = Compiled([a EXCEPT !.faults = @ \cup F], {}, {}, dropped)
    BY <1>8 DEF r, Compile, CompileWrapper
  <2>2. F \in SUBSET Words /\ (dropped => F # {}) /\ dropped \in BOOLEAN /\ {} \in SUBSET EveryTarget
    BY <1>1
  <2> HIDE DEF dropped, F
  <2>3. Result(r, a, acts, c)
    BY <2>1, <2>2, OnlyFaults
  <2> QED
    BY <1>2, <1>8, <2>3
<1>9. CASE a.kind \in {"import", "test"}
  <2>1. PICK F \in SUBSET Words : r = Compiled([a EXCEPT !.faults = @ \cup F], {}, {}, FALSE)
    <3>1. CASE a.kind = "import"
      <4> DEFINE F == Fault(a.flaw, {"flag"}, CompileChecks("import"))
      <4>1. F \in SUBSET Words
        BY <1>1 DEF Fault
      <4>2. r = Compiled([a EXCEPT !.faults = @ \cup F], {}, {}, FALSE)
        BY <3>1 DEF r, Compile, CompileImport
      <4> QED
        BY <4>1, <4>2
    <3>2. CASE a.kind = "test"
      <4> DEFINE found == Find(Index(acts), a.of)
                 tested == acts[CHOOSE i \in found : TRUE]
                 F == IF a.of.name = Unset THEN {"noDataset"}
                      ELSE IF Cardinality(found) > 1 THEN {"ambiguous"}
                      ELSE IF found = {} \/ tested.kind \notin Datasets THEN {"noDataset"}
                      ELSE IF \E i \in DOMAIN tested.reads :
                                ~ \E j \in DOMAIN a.reads :
                                    TargetOf(tested.reads[i]) = TargetOf(a.reads[j])
                      THEN {"noInput"} ELSE {}
      <4>1. F \in SUBSET Words
        <5>1. {"noDataset"} \in SUBSET Words /\ {"ambiguous"} \in SUBSET Words
              /\ {"noInput"} \in SUBSET Words /\ {} \in SUBSET Words
          BY WordsUsed DEF Messages
        <5> HIDE DEF found, tested
        <5> QED
          BY <5>1
      <4>2. r = Compiled([a EXCEPT !.faults = @ \cup F], {}, {}, FALSE)
        BY <3>2 DEF r, Compile, CompileTest
      <4> QED
        BY <4>1, <4>2
    <3> QED
      BY <1>9, <3>1, <3>2
  <2>2. Result(r, a, acts, c)
    BY <2>1, OnlyFaults
  <2> QED
    BY <1>2, <1>9, <2>2
<1>10. CASE a.kind \notin Queried \cup {"rlsPolicy", "realtime", "vectorIndex", "foreignTable",
                                       "wrapper", "import", "test"}
  <2>1. r = Compiled(a, {}, {}, a.broken)
    BY <1>10 DEF r, Compile, CompileAsBuilt, Queried, Datasets
  <2>2. Result(r, a, acts, c)
    BY <1>1, <2>1, AsBuilt
  <2> QED
    BY <1>2, <1>10, <2>2 DEF Queried
<1> QED
  BY <1>4, <1>5, <1>6, <1>7, <1>8, <1>9, <1>10 DEF Queried

\* The inline assertion of a table depends on it, and its query names it.
LEMMA GuardIsRead ==
    ASSUME NEW c, Sensible(c), NEW acts \in Seq(EveryAction), NEW a \in EveryAction, Sound(a),
           a.inline, NEW t \in DOMAIN acts, Guards(a, acts[t], c),
           Compile(a, acts, c).action.faults = {}
    PROVE  LET r == Compile(a, acts, c) IN
           /\ r.texts = {TextOf(acts[t], c)}
           /\ \E k \in DOMAIN r.action.deps :
                 /\ FindActions(r.action.deps[k], acts, c) = {t}
                 /\ TargetOf(r.action.deps[k]) = acts[t].target
<1> DEFINE r == Compile(a, acts, c)
           u == acts[t].target
           ref == Ref(u, "unset")
<1>1. a.reads = <<ref>> /\ Settled(acts[t], c)
  BY DEF Guards, Settled
<1>2. u \in EveryTarget
  <2>1. acts[t] \in EveryAction
    BY Elements
  <2> QED
    BY <2>1 DEF EveryAction
<1> HIDE DEF u
<1>3. TargetOf(ref) = u /\ TargetOf(u) = u
  BY <1>2, Referring
<1> HIDE DEF ref
<1>4. Len(a.reads) = 1 /\ a.reads[1] = ref
  BY <1>1
<1>5. NamesTable(r, a, acts, c)
  BY <1>4, CompileIsSound
<1>6. PICK m \in DOMAIN acts : FindActions(ref, acts, c) = {m} /\ r.texts = {TextOf(acts[m], c)}
  BY <1>4, <1>5, Resolves DEF NamesTable
<1>7. t \in FindActions(ref, acts, c)
  BY <1>1, <1>3, FoundByItself DEF u
<1>8. m = t
  BY <1>6, <1>7
<1>9. PICK k \in DOMAIN r.action.deps : TargetOf(r.action.deps[k]) = TargetOf(ref)
  BY <1>4, <1>5 DEF NamesTable, DependsOn
<1>10. FindActions(r.action.deps[k], acts, c) = FindActions(ref, acts, c)
  BY <1>9, FoundByTarget
<1> QED
  BY <1>3, <1>6, <1>8, <1>9, <1>10 DEF u
=============================================================================
