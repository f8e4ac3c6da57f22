-------------------------- MODULE MaterializeProofs --------------------------
(***************************************************************************)
(* What TLAPS proves of Materialize, for every set of actions, every       *)
(* reading among them, every definition and any number of runs and edits.  *)
(*                                                                         *)
(* The invariant follows an action through its statements as one follows a *)
(* program in Hoare's way.  A label says what the warehouse holds under    *)
(* the action's name between two statements; Leads() says which label a    *)
(* statement leads to from which; a plan that is Sound() has a label       *)
(* before every statement.  That publishTasks() only makes sound plans is  *)
(* one lemma (PlannedIsSound), that a statement of one action leaves the   *)
(* labels of the others true another (StaysTrue).                          *)
(***************************************************************************)
EXTENDS Materialize, SequenceTheorems, TLAPS

\* kinds: what the relation may be; rows: whether it is known to be empty, or
\* to hold what it should; clear: there is no staging table; made: the
\* statement that makes the relation was executed.
Label == [kinds : SUBSET Kind, rows : {"any", "empty", "full"},
          clear : BOOLEAN, made : BOOLEAN]
Before(kinds) == [kinds |-> kinds, rows |-> "any", clear |-> FALSE, made |-> FALSE]
After(kind)   == [kinds |-> {kind}, rows |-> "full", clear |-> FALSE, made |-> TRUE]

Emptied == [kinds |-> {"table"}, rows |-> "empty", clear |-> FALSE, made |-> TRUE]

\* What ChangedKind() and Kept() say of a definition c on warehouse w.
InTheWay(w, c, kind) ==
    /\ kind # "none"
    /\ \/ (kind = "matview") # (c.type = "matview")
       \/ w = "bigquery" /\ kind = "matview"
       \/ w = "mysql" /\ kind # (IF c.type = "view" THEN "view" ELSE "table")
       \/ c.type \in {"import", "append"} /\ kind # "table"
Keeping(w, full, c) == c.type = "incremental" /\ ((c.protected /\ w # "mysql") \/ ~full)

\* What a run may come upon under a name that held kind when it was planned.
Found(w, c, kind) ==
    {k \in {kind} : ~InTheWay(w, c, k)} \cup (IF w = "postgres" THEN {"none"} ELSE {})

\* The statements, one by one.  Dropping needs to know that nothing else is
\* there, and nothing that is to be kept.
DropLeads(w, full, c, l, s, m) ==
    /\ s.op = "drop" /\ s.kind # "none" /\ ~l.made
    /\ \/ /\ w # "mysql" => l.kinds \subseteq {"none", s.kind}
          /\ Keeping(w, full, c) /\ s.kind = "table" => "table" \notin l.kinds
          /\ m.kinds = (l.kinds \ {s.kind}) \cup {"none"}
          /\ m.rows = l.rows /\ m.clear = l.clear /\ m.made = l.made
       \/ w # "mysql" /\ l.kinds = {} /\ ~InTheWay(w, c, s.kind) /\ m = l
LoadLeads(c, l, s, m) ==
    \/ s.op = "dropFound" /\ c.type = "extract" /\ ~l.made /\ m = Before({"none"})
    \/ s.op = "dropUnread" /\ c.type = "import" /\ s.kind = "table" /\ ~l.made
       /\ m = Before({"none"})
    \/ s.op = "loadInto" /\ c.type = "append" /\ ~l.made /\ l.kinds \subseteq {"none", "table"}
       /\ m = After("table")
    \/ s.op = "page" /\ c.type = "extract" /\ l.made /\ l.rows = "empty"
       /\ l.kinds = {"table"} /\ m = After("table")
CreateLeads(w, full, c, l, s, m) ==
    /\ ~l.made
    /\ \/ s.op = "create" /\ s.kind # "none" /\ l.kinds = {"none"} /\ m = After(s.kind)
       \/ s.op = "createEmpty" /\ l.kinds = {"none"}
          /\ m = Emptied
       \/ /\ s.op = "replace" /\ s.kind # "none" /\ l.kinds \subseteq {"none", s.kind}
          /\ Keeping(w, full, c) /\ s.kind = "table" => "table" \notin l.kinds
          /\ m = After(s.kind)
       \/ /\ s.op = "refresh" /\ w = "postgres" /\ c.type = "matview"
          /\ l.kinds \subseteq {"none", "matview"} /\ m = After("matview")
\* Only Postgres drops a table's action may write to: a matview.
InsertLeads(w, c, l, s, m) ==
    /\ m = After("table")
    /\ \/ /\ s.op \in {"insert", "upsert"} /\ c.type \in {"incremental", "append"} /\ ~l.made
          /\ l.kinds \subseteq {"none", "table"} /\ (w = "postgres" \/ "none" \notin l.kinds)
       \/ s.op = "overwrite" /\ c.type = "incremental" /\ ~l.made /\ l.kinds \subseteq {"table"}
       \/ s.op = "insert" /\ c.type = "partitioned" /\ l.made /\ l.rows = "empty"
          /\ l.kinds = {"table"}
SettleLeads(l, s, m) ==
    \/ s.op = "keyIndex" /\ l.made /\ l.kinds = {"table"} /\ m = l
    \/ s.op = "settings" /\ l.made /\ l.kinds \subseteq {"table", "matview"} /\ m = l
    \/ /\ s.op = "createStage" /\ l.clear /\ ~m.clear
       /\ m.kinds = l.kinds /\ m.rows = l.rows /\ m.made = l.made
    \/ s.op = "dropStage" /\ m.kinds = l.kinds /\ m.rows = l.rows /\ m.made = l.made
Leads(w, full, c, l, s, m) ==
    \/ DropLeads(w, full, c, l, s, m)
    \/ LoadLeads(c, l, s, m)
    \/ CreateLeads(w, full, c, l, s, m)
    \/ InsertLeads(w, c, l, s, m)
    \/ SettleLeads(l, s, m)

\* On Postgres what is there may be dropped at any time, with what it reads.
Allowed(w, l) == w = "postgres" /\ ~l.made => "none" \in l.kinds

\* Label by label, p leads from l to m.
Sound(w, full, c, p, l, m) ==
    \E L \in [1..Len(p)+1 -> Label] :
        /\ L[1] = l /\ L[Len(p)+1] = m
        /\ \A i \in 1..Len(p) : Leads(w, full, c, L[i], p[i], L[i+1])
        /\ \A i \in 1..Len(p)+1 : Allowed(w, L[i])

-----------------------------------------------------------------------------
(* The invariant                                                           *)

\* Nothing keeps another action from dropping a.
Exposed(a) == warehouse = "postgres" /\ Unordered(a)

\* What an action's query returned is in its relation, and can be read.
Complete(a) ==
    /\ /\ Dep[a] # {} /\ \A d \in Dep[a] : ~Live(relation[d].kind)
       /\ ~Live(relation[a].kind) /\ ~Exposed(a)
       => IF config[a].type = "incremental"
          THEN Input(a) \subseteq relation[a].rows ELSE Input(a) = relation[a].rows
    /\ ~Unordered(a) => a \in Readable

Holds(a, l) ==
    /\ \/ relation[a].kind \in l.kinds
       \/ ~l.made /\ ChangedKind(a)
       \/ l.made /\ Exposed(a) /\ relation[a].kind = "none" /\ "table" \notin l.kinds
    /\ l.rows = "empty" => relation[a].rows = {}
    /\ l.rows = "full" => Complete(a)
    /\ l.clear => a \notin stage

Final(a) == After(Wanted(config[a]))

\* An action that waits has made nothing yet.
Fit(l) ==
    /\ l.rows # "any" => l.made
    /\ l.made => l.kinds = {"table"} \/ "table" \notin l.kinds

\* A plan under way is sound, and the label it is at is true.
Planning(a) ==
    ~Over(a) => \E l \in Label :
        /\ result[a] = "waiting" => ~l.made
        /\ Fit(l) /\ Holds(a, l)
        /\ Sound(warehouse, fullRefresh, config[a], plan[a], l, Final(a))

\* What an action reads has been made before, or is not part of the run.
Settled(a) == \A d \in Dep[a] : result[d] \in {"out", "ok"}
InputsSettled(a) == result[a] \in {"running", "ok"} => Settled(a)

IInv ==
    /\ TypeOK
    /\ \A a \in Action :
        /\ config[a] \in Configs[warehouse][a]
        /\ InputsSettled(a)
        /\ Planning(a)
        /\ result[a] = "ok" => Holds(a, Final(a))

-----------------------------------------------------------------------------
(* Sound plans                                                             *)

LEMMA AssumptionTypes ==
    /\ Dep \in [Action -> SUBSET Action]
    /\ Warehouses \subseteq {"postgres", "bigquery", "mysql"}
    /\ \A w \in Warehouses : \A a \in Action : \A c \in Configs[w][a] :
          c \in Config /\ c.type \in Supported[w] /\ (c.type \in Loads => Dep[a] = {})
    /\ MaxRuns \in Nat /\ MaxEdits \in Nat
BY MaterializeAssumption

LEMMA SoundNothing ==
    ASSUME NEW w, NEW full, NEW c, NEW l \in Label, Allowed(w, l)
    PROVE  Sound(w, full, c, <<>>, l, l)
<1> DEFINE L == [i \in 1..1 |-> l]
           p == <<>>
<1>1. Len(p) = 0
    OBVIOUS
<1>2. L \in [1..Len(p)+1 -> Label] /\ L[1] = l /\ L[Len(p)+1] = l
    BY <1>1
<1> HIDE DEF L, p
<1>3. \A i \in 1..Len(p)+1 : Allowed(w, L[i])
    BY <1>1, <1>2
<1>4. Sound(w, full, c, p, l, l)
    BY <1>1, <1>2, <1>3 DEF Sound
<1> QED BY <1>4 DEF p

LEMMA SoundStatement ==
    ASSUME NEW w, NEW full, NEW c, NEW s \in Statements, NEW l \in Label, NEW m \in Label,
           Leads(w, full, c, l, s, m), Allowed(w, l), Allowed(w, m)
    PROVE  Sound(w, full, c, <<s>>, l, m)
<1> DEFINE L == [i \in 1..2 |-> IF i = 1 THEN l ELSE m]
           p == <<s>>
<1>1. Len(p) = 1 /\ p[1] = s
    OBVIOUS
<1>2. L \in [1..Len(p)+1 -> Label] /\ L[1] = l /\ L[2] = m
    BY <1>1
<1> HIDE DEF L, p
<1>3. \A i \in 1..Len(p) : Leads(w, full, c, L[i], p[i], L[i+1])
    BY <1>1, <1>2
<1>4. \A i \in 1..Len(p)+1 : Allowed(w, L[i])
    BY <1>1, <1>2
<1>5. Sound(w, full, c, p, l, m)
    BY <1>1, <1>2, <1>3, <1>4 DEF Sound
<1> QED BY <1>5 DEF p

LEMMA SoundThen ==
    ASSUME NEW w, NEW full, NEW c, NEW p \in Seq(Statements), NEW q \in Seq(Statements),
           NEW l, NEW m, NEW n,
           Sound(w, full, c, p, l, m), Sound(w, full, c, q, m, n)
    PROVE  p \o q \in Seq(Statements) /\ Sound(w, full, c, p \o q, l, n)
<1>1. PICK L1 \in [1..Len(p)+1 -> Label] :
        /\ L1[1] = l /\ L1[Len(p)+1] = m
        /\ \A i \in 1..Len(p) : Leads(w, full, c, L1[i], p[i], L1[i+1])
        /\ \A i \in 1..Len(p)+1 : Allowed(w, L1[i])
    BY DEF Sound
<1>2. PICK L2 \in [1..Len(q)+1 -> Label] :
        /\ L2[1] = m /\ L2[Len(q)+1] = n
        /\ \A i \in 1..Len(q) : Leads(w, full, c, L2[i], q[i], L2[i+1])
        /\ \A i \in 1..Len(q)+1 : Allowed(w, L2[i])
    BY DEF Sound
<1> DEFINE r == p \o q
           L == [i \in 1..Len(r)+1 |-> IF i <= Len(p) THEN L1[i] ELSE L2[i - Len(p)]]
<1>3. /\ Len(p) \in Nat /\ Len(q) \in Nat /\ Len(r) = Len(p) + Len(q) /\ r \in Seq(Statements)
      /\ \A i \in 1..Len(r) : r[i] = IF i <= Len(p) THEN p[i] ELSE q[i - Len(p)]
    OBVIOUS
<1> HIDE DEF r
<1>4. /\ L \in [1..Len(r)+1 -> Label]
      /\ \A i \in 1..Len(p) : L[i] = L1[i]
      /\ \A i \in 1..Len(q)+1 : L[Len(p) + i] = L2[i]
    BY <1>3
<1> HIDE DEF L
<1>5. L[Len(p) + 1] = m /\ L[1] = l /\ L[Len(r)+1] = n
  <2>1. L[Len(p) + 1] = m
      BY <1>2, <1>3, <1>4
  <2>2. L[Len(p) + (Len(q) + 1)] = n
      BY <1>2, <1>3, <1>4
  <2>3. L[1] = l
    <3>1. CASE Len(p) = 0
      <4>1. Len(p) + 1 = 1
          BY <3>1
      <4>2. L1[1] = l /\ L1[Len(p)+1] = m
          BY <1>1
      <4> QED BY <2>1, <4>1, <4>2
    <3>2. CASE Len(p) # 0
      <4>1. 1 \in 1..Len(p)
          BY <1>3, <3>2
      <4>2. L[1] = L1[1]
          BY <1>4, <4>1
      <4> QED BY <1>1, <4>2
    <3> QED BY <3>1, <3>2
  <2> QED BY <2>1, <2>2, <2>3, <1>3
<1>6. ASSUME NEW i \in 1..Len(r) PROVE Leads(w, full, c, L[i], r[i], L[i+1])
  <2>1. CASE i <= Len(p)
    <3>1. i \in 1..Len(p) /\ L[i] = L1[i] /\ r[i] = p[i]
        BY <2>1, <1>3, <1>4
    <3>2. CASE i < Len(p)
      <4>1. i+1 \in 1..Len(p)
          BY <3>2, <3>1, <1>3
      <4>2. L[i+1] = L1[i+1]
          BY <4>1, <1>4
      <4> QED BY <4>2, <3>1, <1>1
    <3>3. CASE i = Len(p)
        BY <3>1, <3>3, <1>1, <1>5
    <3> QED BY <2>1, <3>2, <3>3, <1>3
  <2>2. CASE i > Len(p)
    <3> DEFINE j == i - Len(p)
    <3>1. j \in 1..Len(q) /\ j + 1 \in 1..Len(q)+1 /\ i = Len(p) + j /\ i + 1 = Len(p) + (j + 1)
        BY <2>2, <1>3
    <3>2. r[i] = q[j]
        BY <2>2, <1>3
    <3> HIDE DEF j
    <3>3. L[i] = L2[j] /\ L[i+1] = L2[j+1]
        BY <3>1, <1>4
    <3> QED BY <3>1, <3>2, <3>3, <1>2
  <2> QED BY <2>1, <2>2, <1>3
<1>7. ASSUME NEW i \in 1..Len(r)+1 PROVE Allowed(w, L[i])
  <2>1. CASE i <= Len(p)
      BY <2>1, <1>1, <1>3, <1>4
  <2>2. CASE i > Len(p)
    <3> DEFINE j == i - Len(p)
    <3>1. j \in 1..Len(q)+1 /\ i = Len(p) + j
        BY <2>2, <1>3
    <3> HIDE DEF j
    <3> QED BY <3>1, <1>2, <1>4
  <2> QED BY <2>1, <2>2, <1>3
<1>8. Sound(w, full, c, r, l, n)
    BY <1>4, <1>5, <1>6, <1>7 DEF Sound
<1> QED BY <1>8, <1>3 DEF r

\* An executed statement leads to the next label, from which the rest is sound.
LEMMA SoundTail ==
    ASSUME NEW w, NEW full, NEW c, NEW p \in Seq(Statements), p # <<>>, NEW l, NEW n,
           Sound(w, full, c, p, l, n)
    PROVE  /\ Head(p) \in Statements /\ Tail(p) \in Seq(Statements)
           /\ Allowed(w, l)
           /\ \E m \in Label : /\ Allowed(w, m)
                               /\ Leads(w, full, c, l, Head(p), m)
                               /\ Sound(w, full, c, Tail(p), m, n)
                               /\ Len(p) = 1 => m = n
<1>1. PICK L \in [1..Len(p)+1 -> Label] :
        /\ L[1] = l /\ L[Len(p)+1] = n
        /\ \A i \in 1..Len(p) : Leads(w, full, c, L[i], p[i], L[i+1])
        /\ \A i \in 1..Len(p)+1 : Allowed(w, L[i])
    BY DEF Sound
<1> DEFINE q == Tail(p)
           T == [i \in 1..Len(q)+1 |-> L[i+1]]
<1>2. /\ Len(p) \in Nat \ {0} /\ Len(q) = Len(p) - 1 /\ q \in Seq(Statements)
      /\ \A i \in 1..Len(q) : q[i] = p[i+1]
      /\ Head(p) = p[1] /\ p[1] \in Statements
    OBVIOUS
<1> HIDE DEF q
<1>3. T \in [1..Len(q)+1 -> Label] /\ T[1] = L[2] /\ T[Len(q)+1] = n
    BY <1>1, <1>2
<1>4. ASSUME NEW i \in 1..Len(q) PROVE Leads(w, full, c, T[i], q[i], T[i+1])
  <2>1. T[i] = L[i+1] /\ T[i+1] = L[(i+1)+1] /\ q[i] = p[i+1] /\ i+1 \in 1..Len(p)
      BY <1>2
  <2> QED BY <2>1, <1>1
<1>5. ASSUME NEW i \in 1..Len(q)+1 PROVE Allowed(w, T[i])
    BY <1>1, <1>2
<1> HIDE DEF T
<1>6. Sound(w, full, c, q, L[2], n)
    BY <1>3, <1>4, <1>5 DEF Sound
<1>7. L[2] \in Label /\ Allowed(w, L[2]) /\ Allowed(w, l) /\ (Len(p) = 1 => L[2] = n)
    BY <1>1, <1>2
<1>8. Leads(w, full, c, l, Head(p), L[2])
    BY <1>1, <1>2
<1> QED BY <1>2, <1>6, <1>7, <1>8 DEF q

-----------------------------------------------------------------------------
(* publishTasks() plans soundly                                            *)

LEMMA SoundOptional ==
    ASSUME NEW w, NEW full, NEW c, NEW condition \in BOOLEAN, NEW p \in Seq(Statements),
           NEW l \in Label, NEW m, Allowed(w, l),
           condition => Sound(w, full, c, p, l, m), ~condition => l = m
    PROVE  /\ Optional(condition, p) \in Seq(Statements)
           /\ Sound(w, full, c, Optional(condition, p), l, m)
<1>1. CASE condition
    BY <1>1 DEF Optional
<1>2. CASE ~condition
    BY <1>2, SoundNothing DEF Optional
<1> QED BY <1>1, <1>2

LEMMA LabelTypes ==
    /\ \A kinds \in SUBSET Kind : Before(kinds) \in Label
    /\ \A kind \in Kind : After(kind) \in Label
    /\ Emptied \in Label
BY DEF Before, After, Emptied, Label, Kind

LEMMA StatementTypes ==
    /\ \A kind \in Kind : /\ [op |-> "drop", kind |-> kind] \in Statements
                          /\ [op |-> "create", kind |-> kind] \in Statements
                          /\ [op |-> "replace", kind |-> kind] \in Statements
                          /\ [op |-> "dropUnread", kind |-> kind] \in Statements
    /\ \A op \in Op : [op |-> op, kind |-> "none"] \in Statements
BY DEF Statements, Op, Kind

LEMMA SoundDrop ==
    ASSUME NEW w, NEW full, NEW c, NEW kind \in Kind \ {"none"}, NEW kinds \in SUBSET Kind,
           Allowed(w, Before(kinds)),
           kinds \subseteq {"none", kind},
           Keeping(w, full, c) /\ kind = "table" => "table" \notin kinds
    PROVE  Drop(kind) \in Seq(Statements)
           /\ Sound(w, full, c, Drop(kind), Before(kinds), Before({"none"}))
<1> DEFINE s == [op |-> "drop", kind |-> kind]
<1>1. s \in Statements /\ Before(kinds) \in Label /\ Before({"none"}) \in Label
    BY StatementTypes, LabelTypes DEF Kind
<1>2. (kinds \ {kind}) \cup {"none"} = {"none"}
    OBVIOUS
<1>3. Leads(w, full, c, Before(kinds), s, Before({"none"}))
    BY <1>2 DEF Leads, DropLeads, Before
<1>4. Allowed(w, Before({"none"}))
    BY DEF Allowed, Before
<1> QED BY <1>1, <1>3, <1>4, SoundStatement DEF Drop

LEMMA SoundCreate ==
    ASSUME NEW w, NEW full, NEW c, NEW kind \in Kind \ {"none"}
    PROVE  Create(kind) \in Seq(Statements)
           /\ Sound(w, full, c, Create(kind), Before({"none"}), After(kind))
<1> DEFINE s == [op |-> "create", kind |-> kind]
<1>1. s \in Statements /\ Before({"none"}) \in Label /\ After(kind) \in Label
    BY StatementTypes, LabelTypes DEF Kind
<1>2. Leads(w, full, c, Before({"none"}), s, After(kind))
    BY DEF Leads, CreateLeads, Before
<1>3. Allowed(w, Before({"none"})) /\ Allowed(w, After(kind))
    BY DEF Allowed, Before, After
<1> QED BY <1>1, <1>2, <1>3, SoundStatement DEF Create

LEMMA SoundReplace ==
    ASSUME NEW w, NEW full, NEW c, NEW kind \in Kind \ {"none"}, NEW kinds \in SUBSET Kind,
           Allowed(w, Before(kinds)),
           kinds \subseteq {"none", kind},
           Keeping(w, full, c) /\ kind = "table" => "table" \notin kinds
    PROVE  Replace(kind) \in Seq(Statements)
           /\ Sound(w, full, c, Replace(kind), Before(kinds), After(kind))
<1> DEFINE s == [op |-> "replace", kind |-> kind]
<1>1. s \in Statements /\ Before(kinds) \in Label /\ After(kind) \in Label
    BY StatementTypes, LabelTypes DEF Kind
<1>2. Leads(w, full, c, Before(kinds), s, After(kind))
    BY DEF Leads, CreateLeads, Before
<1>3. Allowed(w, After(kind))
    BY DEF Allowed, After
<1> QED BY <1>1, <1>2, <1>3, SoundStatement DEF Replace

LEMMA SoundDo ==
    ASSUME NEW w, NEW full, NEW c, NEW op \in Op, NEW l \in Label, NEW m \in Label,
           Allowed(w, l), Allowed(w, m),
           Leads(w, full, c, l, [op |-> op, kind |-> "none"], m)
    PROVE  Do(op) \in Seq(Statements) /\ Sound(w, full, c, Do(op), l, m)
<1>1. [op |-> op, kind |-> "none"] \in Statements
    BY StatementTypes
<1> QED BY <1>1, SoundStatement DEF Do

\* Indexes, and what afterTableCreated() says.
LEMMA SoundSettings ==
    ASSUME NEW w, NEW full, NEW c \in Config, NEW kind \in {"table", "matview"}
    PROVE  /\ Optional(c.settings, Do("settings")) \in Seq(Statements)
           /\ Sound(w, full, c, Optional(c.settings, Do("settings")), After(kind), After(kind))
<1>1. After(kind) \in Label /\ Allowed(w, After(kind)) /\ "settings" \in Op
    BY LabelTypes DEF Kind, Op, Allowed, After
<1>2. Leads(w, full, c, After(kind), [op |-> "settings", kind |-> "none"], After(kind))
    BY DEF Leads, SettleLeads, After
<1>3. c.settings \in BOOLEAN
    BY DEF Config
<1> QED BY <1>1, <1>2, <1>3, SoundDo, SoundOptional

LEMMA SoundFresh ==
    ASSUME NEW w, NEW full, NEW c \in Config, NEW kinds \in SUBSET Kind,
           Allowed(w, Before(kinds)),
           kinds \subseteq {"none", "table"},
           Keeping(w, full, c) => "table" \notin kinds
    PROVE  FreshIncremental(c) \in Seq(Statements)
           /\ Sound(w, full, c, FreshIncremental(c), Before(kinds), After("table"))
<1> USE DEF Kind
<1>1. Drop("table") \in Seq(Statements)
      /\ Sound(w, full, c, Drop("table"), Before(kinds), Before({"none"}))
    BY SoundDrop
<1>2. Create("table") \in Seq(Statements)
      /\ Sound(w, full, c, Create("table"), Before({"none"}), After("table"))
    BY SoundCreate
<1>3. Optional(c.keyed, Do("keyIndex")) \in Seq(Statements)
      /\ Sound(w, full, c, Optional(c.keyed, Do("keyIndex")), After("table"), After("table"))
  <2>1. After("table") \in Label /\ Allowed(w, After("table")) /\ "keyIndex" \in Op
      BY LabelTypes DEF Op, Allowed, After
  <2>2. Leads(w, full, c, After("table"), [op |-> "keyIndex", kind |-> "none"], After("table"))
      BY DEF Leads, SettleLeads, After
  <2>3. c.keyed \in BOOLEAN
      BY DEF Config
  <2> QED BY <2>1, <2>2, <2>3, SoundDo, SoundOptional
<1>4. Optional(c.settings, Do("settings")) \in Seq(Statements)
      /\ Sound(w, full, c, Optional(c.settings, Do("settings")), After("table"), After("table"))
    BY SoundSettings
<1> DEFINE p == Drop("table") \o Create("table")
           q == p \o Optional(c.keyed, Do("keyIndex"))
<1>5. p \in Seq(Statements) /\ Sound(w, full, c, p, Before(kinds), After("table"))
    BY <1>1, <1>2, SoundThen
<1> HIDE DEF p
<1>6. q \in Seq(Statements) /\ Sound(w, full, c, q, Before(kinds), After("table"))
    BY <1>3, <1>5, SoundThen
<1> HIDE DEF q
<1>7. FreshIncremental(c) = q \o Optional(c.settings, Do("settings"))
    BY DEF FreshIncremental, p, q
<1> QED BY <1>4, <1>6, <1>7, SoundThen

MainKind(c) == IF c.type \in {"view", "matview"} THEN c.type ELSE "table"

LEMMA FoundTypes ==
    ASSUME NEW w, NEW c, NEW kind \in Kind
    PROVE  /\ Found(w, c, kind) \in SUBSET Kind
           /\ Before(Found(w, c, kind)) \in Label
           /\ Allowed(w, Before(Found(w, c, kind)))
<1>1. Found(w, c, kind) \in SUBSET Kind
    BY DEF Found, Kind
<1> QED BY <1>1, LabelTypes DEF Allowed, Before, Found

\* Nothing is there after it but the kind that is wanted, nor a table that was
\* not; and a table to append to is there.
LEMMA SoundCrossTypeDrop ==
    ASSUME NEW c \in Config, NEW full \in BOOLEAN, NEW held \in Kind,
           warehouse \in {"postgres", "bigquery"}, c.type \notin Loads,
           c.type = "matview" => warehouse = "bigquery"
    PROVE  LET p == CrossTypeDrop(c, Reported(held))
           IN  \E kinds \in SUBSET Kind :
                /\ p \in Seq(Statements)
                /\ Sound(warehouse, full, c, p, Before(Found(warehouse, c, held)), Before(kinds))
                /\ Allowed(warehouse, Before(kinds))
                /\ kinds \subseteq {"none", MainKind(c)}
                /\ held # "table" => "table" \notin kinds
                /\ /\ warehouse = "bigquery" /\ MainKind(c) = "table"
                   /\ Reported(held) \notin {"none", "view"}
                   => "none" \notin kinds
<1> DEFINE w == warehouse
           base == BaseTableType(c)
           opposite == OppositeType(base)
           found == Found(w, c, held)
           p == CrossTypeDrop(c, Reported(held))
<1>1. found \in SUBSET Kind /\ Before(found) \in Label /\ Allowed(w, Before(found))
    BY FoundTypes
<1>2. c.type \in {"table", "partitioned", "incremental", "view", "matview"}
    BY DEF Config, Types, Loads
<1>3. CASE Reported(held) \in {"none", base}
  <2>1. p = <<>>
      BY <1>3 DEF CrossTypeDrop, Optional
  <2>2. Sound(w, full, c, p, Before(found), Before(found)) /\ p \in Seq(Statements)
      BY <1>1, <2>1, SoundNothing
  <2>3. found \subseteq {"none", MainKind(c)}
      BY <1>2, <1>3 DEF Found, InTheWay, Reported, BaseTableType, MainKind, Kind
  <2>4. held # "table" => "table" \notin found
      BY DEF Found
  <2>5. w = "bigquery" /\ Reported(held) \notin {"none", "view"} => "none" \notin found
      BY DEF Found, Reported
  <2> QED BY <1>1, <2>2, <2>3, <2>4, <2>5
<1>4. CASE w = "bigquery" /\ held = "matview" /\ c.type # "matview"
  <2> DEFINE s == [op |-> "drop", kind |-> opposite]
  <2>1. Reported(held) = "unknown" /\ p = <<s>>
      BY <1>4, <1>2 DEF Reported, CrossTypeDrop, Optional, Drop, BaseTableType
  <2>2. opposite \in {"table", "view"}
      BY DEF OppositeType
  <2>3. found = {}
      BY <1>4 DEF Found, InTheWay
  <2>4. DropLeads(w, full, c, Before(found), s, Before(found))
      BY <1>2, <1>4, <2>2, <2>3 DEF DropLeads, InTheWay, Before
  <2>5. s \in Statements
      BY <2>2, StatementTypes DEF Kind
  <2>6. Sound(w, full, c, <<s>>, Before(found), Before(found)) /\ <<s>> \in Seq(Statements)
    <3>1. Leads(w, full, c, Before(found), s, Before(found))
        BY <2>4 DEF Leads
    <3> HIDE DEF s, found
    <3> QED BY <1>1, <2>5, <3>1, SoundStatement
  <2> QED BY <1>1, <2>1, <2>3, <2>6
<1>5. CASE Reported(held) \notin {"none", base}
           /\ ~(w = "bigquery" /\ held = "matview" /\ c.type # "matview")
  <2>1. p = Drop(opposite)
      BY <1>5 DEF CrossTypeDrop, Optional
  <2>2. opposite \in Kind \ {"none"}
      BY DEF OppositeType, Kind
  <2>3. found \subseteq {"none", opposite}
      BY <1>2, <1>5 DEF Found, InTheWay, Reported, BaseTableType, OppositeType, Kind
  <2>4. Keeping(w, full, c) => opposite # "table"
      BY DEF Keeping, OppositeType, BaseTableType
  <2>5. p \in Seq(Statements) /\ Sound(w, full, c, p, Before(found), Before({"none"}))
      BY <1>1, <2>1, <2>2, <2>3, <2>4, SoundDrop
  <2>6. ~(w = "bigquery" /\ MainKind(c) = "table" /\ Reported(held) \notin {"none", "view"})
      BY <1>2, <1>5 DEF MainKind, Reported, BaseTableType, Kind
  <2>7. Allowed(w, Before({"none"})) /\ {"none"} \in SUBSET Kind
      BY DEF Allowed, Before, Kind
  <2> QED BY <2>5, <2>6, <2>7
<1> QED BY <1>3, <1>4, <1>5

LEMMA SoundPartitioned ==
    ASSUME NEW w, NEW full, NEW c \in Config, c.type = "partitioned",
           NEW kinds \in SUBSET Kind, Allowed(w, Before(kinds)), kinds \subseteq {"none", "table"}
    PROVE  PartitionedTable(c) \in Seq(Statements)
           /\ Sound(w, full, c, PartitionedTable(c), Before(kinds), After("table"))
<1> DEFINE l == Before(kinds)
           l1 == [kinds |-> kinds, rows |-> "any", clear |-> TRUE, made |-> FALSE]
           e == Emptied
           f == After("table")
           p1 == Do("dropStage") \o Do("createStage")
           p2 == p1 \o Drop("table")
           p3 == p2 \o Do("createEmpty")
           p4 == p3 \o Do("insert")
           p5 == p4 \o Do("dropStage")
<1> USE DEF Kind
<1>1. /\ l \in Label /\ l1 \in Label /\ e \in Label /\ f \in Label
      /\ Before({"none"}) \in Label
    BY LabelTypes DEF Label
<1>2. /\ Allowed(w, l) /\ Allowed(w, l1) /\ Allowed(w, e) /\ Allowed(w, f)
      /\ Allowed(w, Before({"none"}))
    BY DEF Allowed, Before, After, Emptied
<1>3. {"dropStage", "createStage", "createEmpty", "insert"} \subseteq Op
    BY DEF Op
<1>4. Do("dropStage") \in Seq(Statements) /\ Sound(w, full, c, Do("dropStage"), l, l1)
  <2>1. SettleLeads(l, [op |-> "dropStage", kind |-> "none"], l1)
      BY DEF SettleLeads, Before
  <2> QED BY <1>1, <1>2, <1>3, <2>1, SoundDo DEF Leads
<1>5. Do("createStage") \in Seq(Statements) /\ Sound(w, full, c, Do("createStage"), l1, l)
  <2>1. SettleLeads(l1, [op |-> "createStage", kind |-> "none"], l)
      BY DEF SettleLeads, Before
  <2> QED BY <1>1, <1>2, <1>3, <2>1, SoundDo DEF Leads
<1>6. Drop("table") \in Seq(Statements) /\ Sound(w, full, c, Drop("table"), l, Before({"none"}))
  <2>1. ~Keeping(w, full, c)
      BY DEF Keeping
  <2> QED BY <2>1, SoundDrop
<1>7. Do("createEmpty") \in Seq(Statements)
      /\ Sound(w, full, c, Do("createEmpty"), Before({"none"}), e)
  <2>1. CreateLeads(w, full, c, Before({"none"}), [op |-> "createEmpty", kind |-> "none"], e)
      BY DEF CreateLeads, Before
  <2> QED BY <1>1, <1>2, <1>3, <2>1, SoundDo DEF Leads
<1>8. Do("insert") \in Seq(Statements) /\ Sound(w, full, c, Do("insert"), e, f)
  <2>1. e.made /\ e.rows = "empty" /\ e.kinds = {"table"}
      BY DEF Emptied
  <2>2. InsertLeads(w, c, e, [op |-> "insert", kind |-> "none"], f)
      BY <2>1 DEF InsertLeads
  <2> QED BY <1>1, <1>2, <1>3, <2>2, SoundDo DEF Leads
<1>9. Sound(w, full, c, Do("dropStage"), f, f)
  <2>1. SettleLeads(f, [op |-> "dropStage", kind |-> "none"], f)
      BY DEF SettleLeads
  <2> QED BY <1>1, <1>2, <1>3, <2>1, SoundDo DEF Leads
<1>10. Optional(c.settings, Do("settings")) \in Seq(Statements)
       /\ Sound(w, full, c, Optional(c.settings, Do("settings")), f, f)
    BY SoundSettings
<1> HIDE DEF l, l1, e, f
<1>11. p1 \in Seq(Statements) /\ Sound(w, full, c, p1, l, l)
    BY <1>4, <1>5, SoundThen
<1> HIDE DEF p1
<1>12. p2 \in Seq(Statements) /\ Sound(w, full, c, p2, l, Before({"none"}))
    BY <1>6, <1>11, SoundThen
<1> HIDE DEF p2
<1>13. p3 \in Seq(Statements) /\ Sound(w, full, c, p3, l, e)
    BY <1>7, <1>12, SoundThen
<1> HIDE DEF p3
<1>14. p4 \in Seq(Statements) /\ Sound(w, full, c, p4, l, f)
    BY <1>8, <1>13, SoundThen
<1> HIDE DEF p4
<1>15. p5 \in Seq(Statements) /\ Sound(w, full, c, p5, l, f)
    BY <1>4, <1>9, <1>14, SoundThen
<1> HIDE DEF p5
<1>16. PartitionedTable(c) = p5 \o Optional(c.settings, Do("settings"))
    BY DEF PartitionedTable, p1, p2, p3, p4, p5
<1>17. PartitionedTable(c) \in Seq(Statements)
       /\ Sound(w, full, c, PartitionedTable(c), l, f)
    BY <1>10, <1>15, <1>16, SoundThen
<1> QED BY <1>17 DEF l, f

LEMMA SoundInsert ==
    ASSUME NEW w, NEW full, NEW c, NEW op \in {"insert", "upsert"}, NEW kinds \in SUBSET Kind,
           c.type \in {"incremental", "append"}, Allowed(w, Before(kinds)),
           kinds \subseteq {"none", "table"}, w = "postgres" \/ "none" \notin kinds
    PROVE  Do(op) \in Seq(Statements)
           /\ Sound(w, full, c, Do(op), Before(kinds), After("table"))
<1>1. Before(kinds) \in Label /\ After("table") \in Label /\ op \in Op
      /\ Allowed(w, After("table"))
    BY LabelTypes DEF Kind, Op, Allowed, After
<1>2. InsertLeads(w, c, Before(kinds), [op |-> op, kind |-> "none"], After("table"))
    BY DEF InsertLeads, Before
<1> QED BY <1>1, <1>2, SoundDo DEF Leads

LEMMA SoundPostgres ==
    ASSUME NEW c \in Config, NEW full \in BOOLEAN, NEW held \in Kind,
           warehouse = "postgres", c.type \notin Loads
    PROVE  LET p == PostgresTasks(c, full, Reported(held))
           IN  /\ p \in Seq(Statements)
               /\ Sound(warehouse, full, c, p, Before(Found(warehouse, c, held)), After(Wanted(c)))
<1> DEFINE w == warehouse
           found == Found(w, c, held)
           X == Optional(c.type # "matview", CrossTypeDrop(c, Reported(held)))
           settings == Optional(c.settings, Do("settings"))
           Goal(Y, kinds) == /\ Y \in Seq(Statements)
                             /\ Sound(w, full, c, Y, Before(kinds), After(Wanted(c)))
<1>1. /\ c.type \in {"table", "partitioned", "incremental", "view", "matview"}
      /\ Reported(held) = held
    BY DEF Config, Types, Loads, Reported
<1>2. PICK kinds \in SUBSET Kind :
        /\ X \in Seq(Statements)
        /\ Sound(w, full, c, X, Before(found), Before(kinds))
        /\ Allowed(w, Before(kinds))
        /\ kinds \subseteq {"none", MainKind(c)}
        /\ held # "table" => "table" \notin kinds
  <2>1. CASE c.type # "matview"
    <3>1. X = CrossTypeDrop(c, Reported(held))
        BY <2>1 DEF Optional
    <3> HIDE DEF X, found
    <3>2. found = Found(w, c, held)
        BY DEF found
    <3> QED BY <2>1, <3>1, <3>2, SoundCrossTypeDrop
  <2>2. CASE c.type = "matview"
    <3>1. X = <<>> /\ X \in Seq(Statements)
        BY <2>2 DEF Optional
    <3>2. found \subseteq {"none", "matview"} /\ found \in SUBSET Kind
        BY <2>2, FoundTypes DEF Found, InTheWay
    <3>3. Before(found) \in Label /\ Allowed(w, Before(found))
        BY FoundTypes
    <3>4. Sound(w, full, c, X, Before(found), Before(found))
        BY <3>1, <3>3, SoundNothing
    <3>5. MainKind(c) = "matview" /\ "table" \notin found
        BY <2>2, <3>2 DEF MainKind
    <3> QED BY <3>1, <3>2, <3>3, <3>4, <3>5
  <2> QED BY <2>1, <2>2
<1>3. ASSUME NEW Y, Goal(Y, kinds), PostgresTasks(c, full, Reported(held)) = X \o Y
      PROVE  /\ PostgresTasks(c, full, Reported(held)) \in Seq(Statements)
             /\ Sound(w, full, c, PostgresTasks(c, full, Reported(held)), Before(found),
                      After(Wanted(c)))
  <2> HIDE DEF X, found
  <2> QED BY <1>2, <1>3, SoundThen
<1>4. settings \in Seq(Statements) /\ \A kind \in {"table", "matview"} :
        Sound(w, full, c, settings, After(kind), After(kind))
    BY SoundSettings
<1> HIDE DEF settings
<1>5. CASE c.type = "incremental"
  <2>1. kinds \subseteq {"none", "table"} /\ Wanted(c) = "table"
      BY <1>2, <1>5 DEF MainKind, Wanted
  <2>2. CASE ShouldWriteIncrementally(c, full, held)
    <3> DEFINE op == IF c.keyed THEN "upsert" ELSE "insert"
    <3>1. op \in {"insert", "upsert"}
        OBVIOUS
    <3>2. PostgresTasks(c, full, Reported(held)) = X \o Do(op)
        BY <1>1, <1>5, <2>2 DEF PostgresTasks
    <3> HIDE DEF op
    <3>3. Goal(Do(op), kinds)
        BY <1>2, <1>5, <2>1, <3>1, SoundInsert
    <3> HIDE DEF Goal, X
    <3> QED BY <1>3, <3>2, <3>3
  <2>3. CASE ~ShouldWriteIncrementally(c, full, held)
    <3>1. PostgresTasks(c, full, Reported(held)) = X \o FreshIncremental(c)
        BY <1>1, <1>5, <2>3 DEF PostgresTasks
    <3>2. Keeping(w, full, c) => "table" \notin kinds
        BY <1>2, <2>3 DEF Keeping, ShouldWriteIncrementally
    <3>3. Goal(FreshIncremental(c), kinds)
        BY <1>2, <2>1, <3>2, SoundFresh
    <3> HIDE DEF Goal, X
    <3> QED BY <1>3, <3>1, <3>3
  <2> QED BY <2>2, <2>3
<1>6. CASE c.type = "matview"
  <2>1. kinds \subseteq {"none", "matview"} /\ Wanted(c) = "matview"
      BY <1>2, <1>6 DEF MainKind, Wanted
  <2>2. CASE RefreshInPlace(c, full, held)
    <3>1. PostgresTasks(c, full, Reported(held)) = X \o Do("refresh")
        BY <1>1, <1>6, <2>2 DEF PostgresTasks
    <3>2. Goal(Do("refresh"), kinds)
      <4>1. Before(kinds) \in Label /\ After("matview") \in Label /\ "refresh" \in Op
            /\ Allowed(w, After("matview"))
          BY LabelTypes DEF Kind, Op, Allowed, After
      <4>2. CreateLeads(w, full, c, Before(kinds), [op |-> "refresh", kind |-> "none"],
                        After("matview"))
          BY <1>6, <2>1 DEF CreateLeads, Before
      <4> QED BY <1>2, <2>1, <4>1, <4>2, SoundDo DEF Leads
    <3> HIDE DEF Goal, X
    <3> QED BY <1>3, <3>1, <3>2
  <2>3. CASE ~RefreshInPlace(c, full, held)
    <3> DEFINE d == Drop("matview") \o Create("matview")
    <3>1. PostgresTasks(c, full, Reported(held)) = X \o (d \o settings)
        BY <1>1, <1>6, <2>3 DEF PostgresTasks, settings
    <3>2. d \in Seq(Statements) /\ Sound(w, full, c, d, Before(kinds), After("matview"))
      <4>1. Drop("matview") \in Seq(Statements)
            /\ Sound(w, full, c, Drop("matview"), Before(kinds), Before({"none"}))
          BY <1>2, <2>1, SoundDrop DEF Kind
      <4>2. Create("matview") \in Seq(Statements)
            /\ Sound(w, full, c, Create("matview"), Before({"none"}), After("matview"))
          BY SoundCreate DEF Kind
      <4> QED BY <4>1, <4>2, SoundThen
    <3> HIDE DEF d
    <3>3. Goal(d \o settings, kinds)
        BY <1>4, <2>1, <3>2, SoundThen
    <3> HIDE DEF Goal, X
    <3> QED BY <1>3, <3>1, <3>3
  <2> QED BY <2>2, <2>3
<1>7. CASE c.type = "view"
  <2>1. kinds \subseteq {"none", "view"} /\ Wanted(c) = "view"
      BY <1>2, <1>7 DEF MainKind, Wanted
  <2>2. PostgresTasks(c, full, Reported(held)) = X \o (Drop("view") \o Create("view"))
      BY <1>1, <1>7 DEF PostgresTasks
  <2>3. Drop("view") \in Seq(Statements)
        /\ Sound(w, full, c, Drop("view"), Before(kinds), Before({"none"}))
      BY <1>2, <2>1, SoundDrop DEF Kind
  <2>4. Create("view") \in Seq(Statements)
        /\ Sound(w, full, c, Create("view"), Before({"none"}), After("view"))
      BY SoundCreate DEF Kind
  <2>5. Goal(Drop("view") \o Create("view"), kinds)
      BY <2>1, <2>3, <2>4, SoundThen
  <2> HIDE DEF Goal, X
  <2> QED BY <1>3, <2>2, <2>5
<1>8. CASE c.type = "partitioned"
  <2>1. kinds \subseteq {"none", "table"} /\ Wanted(c) = "table"
      BY <1>2, <1>8 DEF MainKind, Wanted
  <2>2. PostgresTasks(c, full, Reported(held)) = X \o PartitionedTable(c)
      BY <1>1, <1>8 DEF PostgresTasks
  <2>3. Goal(PartitionedTable(c), kinds)
      BY <1>2, <1>8, <2>1, SoundPartitioned
  <2> HIDE DEF Goal, X
  <2> QED BY <1>3, <2>2, <2>3
<1>9. CASE c.type = "table"
  <2> DEFINE d == Drop("table") \o Create("table")
  <2>1. kinds \subseteq {"none", "table"} /\ Wanted(c) = "table" /\ ~Keeping(w, full, c)
      BY <1>2, <1>9 DEF MainKind, Wanted, Keeping
  <2>2. PostgresTasks(c, full, Reported(held)) = X \o (d \o settings)
      BY <1>1, <1>9 DEF PostgresTasks, settings
  <2>3. d \in Seq(Statements) /\ Sound(w, full, c, d, Before(kinds), After("table"))
    <3>1. Drop("table") \in Seq(Statements)
          /\ Sound(w, full, c, Drop("table"), Before(kinds), Before({"none"}))
        BY <1>2, <2>1, SoundDrop DEF Kind
    <3>2. Create("table") \in Seq(Statements)
          /\ Sound(w, full, c, Create("table"), Before({"none"}), After("table"))
        BY SoundCreate DEF Kind
    <3> QED BY <3>1, <3>2, SoundThen
  <2> HIDE DEF d
  <2>4. Goal(d \o settings, kinds)
      BY <1>4, <2>1, <2>3, SoundThen
  <2> HIDE DEF Goal, X
  <2> QED BY <1>3, <2>2, <2>4
<1> QED BY <1>1, <1>5, <1>6, <1>7, <1>8, <1>9

LEMMA SoundBigquery ==
    ASSUME NEW c \in Config, NEW full \in BOOLEAN, NEW held \in Kind,
           warehouse = "bigquery", c.type \in {"table", "incremental", "view", "matview"}
    PROVE  LET p == BigqueryTasks(c, full, Reported(held))
           IN  /\ p \in Seq(Statements)
               /\ Sound(warehouse, full, c, p, Before(Found(warehouse, c, held)), After(Wanted(c)))
<1> DEFINE w == warehouse
           found == Found(w, c, held)
           X == CrossTypeDrop(c, Reported(held))
           p == BigqueryTasks(c, full, Reported(held))
           incremental == c.type = "incremental"
                          /\ ShouldWriteIncrementally(c, full, Reported(held))
           kind == IF c.type = "incremental" THEN "table" ELSE c.type
<1>1. PICK kinds \in SUBSET Kind :
        /\ X \in Seq(Statements)
        /\ Sound(w, full, c, X, Before(found), Before(kinds))
        /\ Allowed(w, Before(kinds))
        /\ kinds \subseteq {"none", MainKind(c)}
        /\ held # "table" => "table" \notin kinds
        /\ MainKind(c) = "table" /\ Reported(held) \notin {"none", "view"} => "none" \notin kinds
  <2> HIDE DEF X, found
  <2>1. X = CrossTypeDrop(c, Reported(held)) /\ found = Found(w, c, held)
      BY DEF X, found
  <2>2. c.type \notin Loads
      BY DEF Loads
  <2> QED BY <2>1, <2>2, SoundCrossTypeDrop
<1>2. kind = MainKind(c) /\ kind = Wanted(c) /\ kind \in Kind \ {"none"}
    BY DEF MainKind, Wanted, Kind
<1>3. CASE incremental
  <2>1. /\ c.type = "incremental" /\ Wanted(c) = "table"
        /\ kinds \subseteq {"none", "table"} /\ "none" \notin kinds
      BY <1>1, <1>2, <1>3 DEF MainKind, ShouldWriteIncrementally
  <2>2. c.overwrites \in {"no", "month", "day"} /\ c.keyed \in BOOLEAN
      BY DEF Config
  <2>3. CASE c.overwrites # "no"
    <3>1. p = X \o Do("overwrite")
        BY <1>3, <2>3 DEF BigqueryTasks
    <3>2. Before(kinds) \in Label /\ After("table") \in Label /\ "overwrite" \in Op
          /\ Allowed(w, After("table"))
        BY LabelTypes DEF Kind, Op, Allowed, After
    <3>3. InsertLeads(w, c, Before(kinds), [op |-> "overwrite", kind |-> "none"], After("table"))
        BY <2>1 DEF InsertLeads, Before
    <3>4. Do("overwrite") \in Seq(Statements)
          /\ Sound(w, full, c, Do("overwrite"), Before(kinds), After("table"))
        BY <1>1, <3>2, <3>3, SoundDo DEF Leads
    <3> HIDE DEF X, p, found
    <3> QED BY <1>1, <2>1, <3>1, <3>4, SoundThen DEF p, found
  <2>4. CASE c.overwrites = "no"
    <3> DEFINE op == IF c.keyed THEN "upsert" ELSE "insert"
    <3>1. p = X \o Do(op) /\ op \in {"insert", "upsert"}
        BY <1>3, <2>2, <2>4 DEF BigqueryTasks
    <3> HIDE DEF op
    <3>2. Do(op) \in Seq(Statements)
          /\ Sound(w, full, c, Do(op), Before(kinds), After("table"))
        BY <1>1, <2>1, <3>1, SoundInsert
    <3> HIDE DEF X, p, found
    <3> QED BY <1>1, <2>1, <3>1, <3>2, SoundThen DEF p, found
  <2> QED BY <2>3, <2>4
<1>4. CASE ~incremental
  <2>1. p = X \o Replace(kind)
      BY <1>4 DEF BigqueryTasks
  <2>2. Keeping(w, full, c) /\ kind = "table" => "table" \notin kinds
      BY <1>1, <1>4 DEF Keeping, ShouldWriteIncrementally, Reported
  <2> HIDE DEF kind
  <2>3. Replace(kind) \in Seq(Statements)
        /\ Sound(w, full, c, Replace(kind), Before(kinds), After(kind))
      BY <1>1, <1>2, <2>2, SoundReplace
  <2> HIDE DEF X, p, found
  <2> QED BY <1>1, <1>2, <2>1, <2>3, SoundThen DEF p, found
<1> QED BY <1>3, <1>4

\* MySQL forgives drops of the wrong kind, and goes on.
LEMMA SoundMysqlDrop ==
    ASSUME NEW full, NEW c, NEW kind \in Kind \ {"none"}, NEW kinds \in SUBSET Kind,
           Keeping("mysql", full, c) /\ kind = "table" => "table" \notin kinds
    PROVE  Drop(kind) \in Seq(Statements)
           /\ Sound("mysql", full, c, Drop(kind), Before(kinds),
                    Before((kinds \ {kind}) \cup {"none"}))
<1> DEFINE s == [op |-> "drop", kind |-> kind]
           l == Before(kinds)
           m == Before((kinds \ {kind}) \cup {"none"})
<1>1. s \in Statements /\ l \in Label /\ m \in Label
    BY StatementTypes, LabelTypes DEF Kind
<1>2. Leads("mysql", full, c, l, s, m)
    BY DEF Leads, DropLeads, Before
<1>3. Allowed("mysql", l) /\ Allowed("mysql", m)
    BY DEF Allowed
<1> HIDE DEF l, m
<1>4. Drop(kind) \in Seq(Statements) /\ Sound("mysql", full, c, Drop(kind), l, m)
    BY <1>1, <1>2, <1>3, SoundStatement DEF Drop
<1> QED BY <1>4 DEF l, m

LEMMA SoundMysql ==
    ASSUME NEW c \in Config, NEW full \in BOOLEAN, NEW held \in Kind,
           warehouse = "mysql", c.type \in Supported["mysql"]
    PROVE  LET p == MysqlTasks(c, full, Reported(held))
           IN  /\ p \in Seq(Statements)
               /\ Sound(warehouse, full, c, p, Before(Found(warehouse, c, held)), After(Wanted(c)))
<1> DEFINE w == "mysql"
           found == Found(w, c, held)
           p == MysqlTasks(c, full, held)
           settings == Optional(c.settings, Do("settings"))
<1>1. c.type \in {"table", "incremental", "view", "matview"} /\ Reported(held) = held
    BY DEF Supported, Reported
<1>2. /\ found \in SUBSET Kind /\ Before(found) \in Label /\ Allowed(w, Before(found))
      /\ found \subseteq {"none", IF c.type = "view" THEN "view" ELSE "table"}
      /\ held # "table" => "table" \notin found
      /\ held # "none" => "none" \notin found
    BY FoundTypes DEF Found, InTheWay
<1>3. settings \in Seq(Statements) /\ Sound(w, full, c, settings, After("table"), After("table"))
    BY SoundSettings
<1>4. Create("table") \in Seq(Statements)
      /\ Sound(w, full, c, Create("table"), Before({"none"}), After("table"))
    BY SoundCreate DEF Kind
<1> HIDE DEF settings
<1>5. CASE c.type = "view"
  <2>1. p = Replace("view") /\ Wanted(c) = "view" /\ ~Keeping(w, full, c)
      BY <1>5 DEF MysqlTasks, Wanted, Keeping
  <2>2. Replace("view") \in Seq(Statements)
        /\ Sound(w, full, c, Replace("view"), Before(found), After("view"))
    <3> HIDE DEF found
    <3> QED BY <1>2, <1>5, <2>1, SoundReplace DEF Kind
  <2> QED BY <1>1, <2>1, <2>2
<1>6. CASE c.type = "matview"
  <2> DEFINE p1 == Drop("view") \o Drop("table")
             p2 == p1 \o Create("table")
             left == (found \ {"view"}) \cup {"none"}
  <2>1. p = p2 \o settings /\ Wanted(c) = "table" /\ ~Keeping(w, full, c)
      BY <1>6 DEF MysqlTasks, Wanted, Keeping, settings
  <2>2. Drop("view") \in Seq(Statements)
        /\ Sound(w, full, c, Drop("view"), Before(found), Before(left))
    <3> HIDE DEF found
    <3> QED BY <1>2, SoundMysqlDrop DEF Kind
  <2>3. left \in SUBSET Kind /\ (left \ {"table"}) \cup {"none"} = {"none"}
    <3> HIDE DEF found
    <3> QED BY <1>2, <1>6 DEF Kind
  <2> HIDE DEF left, found
  <2>4. Drop("table") \in Seq(Statements)
        /\ Sound(w, full, c, Drop("table"), Before(left), Before({"none"}))
    <3>1. Sound(w, full, c, Drop("table"), Before(left),
                Before((left \ {"table"}) \cup {"none"}))
          /\ Drop("table") \in Seq(Statements)
        BY <2>1, <2>3, SoundMysqlDrop DEF Kind
    <3> QED BY <2>3, <3>1
  <2>5. p1 \in Seq(Statements) /\ Sound(w, full, c, p1, Before(found), Before({"none"}))
      BY <2>2, <2>4, SoundThen
  <2> HIDE DEF p1
  <2>6. p2 \in Seq(Statements) /\ Sound(w, full, c, p2, Before(found), After("table"))
      BY <1>4, <2>5, SoundThen
  <2> HIDE DEF p2
  <2>7. p2 \o settings \in Seq(Statements)
        /\ Sound(w, full, c, p2 \o settings, Before(found), After("table"))
      BY <1>3, <2>6, SoundThen
  <2> QED BY <1>1, <2>1, <2>7 DEF found
<1>7. CASE c.type = "incremental"
  <2>1. Wanted(c) = "table" /\ found \subseteq {"none", "table"}
      BY <1>2, <1>7 DEF Wanted
  <2>2. CASE ShouldWriteIncrementally(c, full, held)
    <3> DEFINE op == IF c.keyed THEN "upsert" ELSE "insert"
    <3>1. p = Do(op) /\ op \in {"insert", "upsert"} /\ held = "table"
        BY <1>7, <2>2 DEF MysqlTasks, ShouldWriteIncrementally
    <3> HIDE DEF op, found
    <3>2. Do(op) \in Seq(Statements)
          /\ Sound(w, full, c, Do(op), Before(found), After("table"))
        BY <1>2, <1>7, <2>1, <3>1, SoundInsert
    <3> QED BY <1>1, <2>1, <3>1, <3>2 DEF found
  <2>3. CASE ~ShouldWriteIncrementally(c, full, held)
    <3>1. p = FreshIncremental(c)
        BY <1>7, <2>3 DEF MysqlTasks
    <3>2. Keeping(w, full, c) => "table" \notin found
        BY <1>2, <2>3 DEF Keeping, ShouldWriteIncrementally
    <3> HIDE DEF found
    <3>3. FreshIncremental(c) \in Seq(Statements)
          /\ Sound(w, full, c, FreshIncremental(c), Before(found), After("table"))
        BY <1>2, <2>1, <3>2, SoundFresh
    <3> QED BY <1>1, <2>1, <3>1, <3>3 DEF found
  <2> QED BY <2>2, <2>3
<1>8. CASE c.type = "table"
  <2> DEFINE d == Drop("table") \o Create("table")
  <2>1. p = d \o settings /\ Wanted(c) = "table" /\ ~Keeping(w, full, c)
      BY <1>8 DEF MysqlTasks, Wanted, Keeping, settings
  <2>2. found \subseteq {"none", "table"}
      BY <1>2, <1>8
  <2> HIDE DEF found
  <2>3. Drop("table") \in Seq(Statements)
        /\ Sound(w, full, c, Drop("table"), Before(found), Before({"none"}))
      BY <1>2, <2>1, <2>2, SoundDrop DEF Kind
  <2>4. d \in Seq(Statements) /\ Sound(w, full, c, d, Before(found), After("table"))
      BY <1>4, <2>3, SoundThen
  <2> HIDE DEF d
  <2>5. d \o settings \in Seq(Statements)
        /\ Sound(w, full, c, d \o settings, Before(found), After("table"))
      BY <1>3, <2>4, SoundThen
  <2> QED BY <1>1, <2>1, <2>5 DEF found
<1> QED BY <1>1, <1>5, <1>6, <1>7, <1>8

LEMMA SoundLoads ==
    ASSUME NEW c \in Config, NEW full \in BOOLEAN, NEW held \in Kind,
           warehouse \in {"postgres", "bigquery"}, c.type \in Loads,
           c.type = "extract" => warehouse = "postgres"
    PROVE  LET p == Planned(c, full, held)
           IN  /\ p \in Seq(Statements)
               /\ Sound(warehouse, full, c, p, Before(Found(warehouse, c, held)), After(Wanted(c)))
<1> DEFINE w == warehouse
           found == Found(w, c, held)
           p == Planned(c, full, held)
<1>1. found \in SUBSET Kind /\ Before(found) \in Label /\ Allowed(w, Before(found))
    BY FoundTypes
<1>2. Wanted(c) = "table" /\ ~Keeping(w, full, c)
    BY DEF Wanted, Keeping, Loads
<1>3. /\ Before({"none"}) \in Label /\ Emptied \in Label /\ After("table") \in Label
      /\ Allowed(w, Before({"none"})) /\ Allowed(w, Emptied) /\ Allowed(w, After("table"))
      /\ {"dropFound", "createEmpty", "page", "loadInto", "insert"} \subseteq Op
    BY LabelTypes DEF Kind, Op, Allowed, Before, After, Emptied
<1>4. c.type \in {"import", "append"} => found \subseteq {"none", "table"}
    BY DEF Found, InTheWay
<1> HIDE DEF found
<1>5. CASE c.type = "extract"
  <2> DEFINE d == Do("dropFound") \o Do("createEmpty")
  <2>1. p = d \o Do("page")
      BY <1>5 DEF Planned, ExtractSteps
  <2>2. Do("dropFound") \in Seq(Statements)
        /\ Sound(w, full, c, Do("dropFound"), Before(found), Before({"none"}))
    <3>1. LoadLeads(c, Before(found), [op |-> "dropFound", kind |-> "none"], Before({"none"}))
        BY <1>5 DEF LoadLeads, Before
    <3> QED BY <1>1, <1>3, <3>1, SoundDo DEF Leads
  <2>3. Do("createEmpty") \in Seq(Statements)
        /\ Sound(w, full, c, Do("createEmpty"), Before({"none"}), Emptied)
    <3>1. CreateLeads(w, full, c, Before({"none"}), [op |-> "createEmpty", kind |-> "none"], Emptied)
        BY DEF CreateLeads, Before
    <3> QED BY <1>3, <3>1, SoundDo DEF Leads
  <2>4. Do("page") \in Seq(Statements)
        /\ Sound(w, full, c, Do("page"), Emptied, After("table"))
    <3>1. LoadLeads(c, Emptied, [op |-> "page", kind |-> "none"], After("table"))
        BY <1>5 DEF LoadLeads, Emptied
    <3> QED BY <1>3, <3>1, SoundDo DEF Leads
  <2>5. d \in Seq(Statements) /\ Sound(w, full, c, d, Before(found), Emptied)
      BY <2>2, <2>3, SoundThen
  <2> HIDE DEF d
  <2>6. d \o Do("page") \in Seq(Statements)
        /\ Sound(w, full, c, d \o Do("page"), Before(found), After("table"))
      BY <2>4, <2>5, SoundThen
  <2> QED BY <1>2, <2>1, <2>6 DEF found
<1>6. CASE c.type = "append"
  <2>1. CASE w = "postgres"
    <3>1. p = Do("insert")
        BY <1>6, <2>1 DEF Planned, ImportSteps
    <3>2. Do("insert") \in Seq(Statements)
          /\ Sound(w, full, c, Do("insert"), Before(found), After("table"))
        BY <1>1, <1>4, <1>6, <2>1, SoundInsert
    <3> QED BY <1>2, <3>1, <3>2 DEF found
  <2>2. CASE w = "bigquery"
    <3>1. p = Do("loadInto")
        BY <1>6, <2>2 DEF Planned, ImportSteps
    <3>2. LoadLeads(c, Before(found), [op |-> "loadInto", kind |-> "none"], After("table"))
        BY <1>4, <1>6 DEF LoadLeads, Before
    <3>3. Do("loadInto") \in Seq(Statements)
          /\ Sound(w, full, c, Do("loadInto"), Before(found), After("table"))
        BY <1>1, <1>3, <3>2, SoundDo DEF Leads
    <3> QED BY <1>2, <3>1, <3>3 DEF found
  <2> QED BY <2>1, <2>2
<1>7. CASE c.type = "import"
  <2>1. CASE w = "postgres"
    <3> DEFINE s == [op |-> "dropUnread", kind |-> "table"]
    <3>1. p = <<s>> \o Create("table")
        BY <1>7, <2>1 DEF Planned, ImportSteps
    <3>2. LoadLeads(c, Before(found), s, Before({"none"}))
        BY <1>7 DEF LoadLeads, Before
    <3>3. s \in Statements
        BY StatementTypes DEF Kind
    <3>4. Create("table") \in Seq(Statements)
          /\ Sound(w, full, c, Create("table"), Before({"none"}), After("table"))
        BY SoundCreate DEF Kind
    <3> HIDE DEF s
    <3>5. <<s>> \in Seq(Statements) /\ Sound(w, full, c, <<s>>, Before(found), Before({"none"}))
      <4>1. Leads(w, full, c, Before(found), s, Before({"none"}))
          BY <3>2 DEF Leads
      <4> QED BY <1>1, <1>3, <3>3, <4>1, SoundStatement
    <3>6. <<s>> \o Create("table") \in Seq(Statements)
          /\ Sound(w, full, c, <<s>> \o Create("table"), Before(found), After("table"))
        BY <3>4, <3>5, SoundThen
    <3> QED BY <1>2, <3>1, <3>6 DEF found
  <2>2. CASE w = "bigquery"
    <3>1. p = Replace("table")
        BY <1>7, <2>2 DEF Planned, ImportSteps
    <3>2. Replace("table") \in Seq(Statements)
          /\ Sound(w, full, c, Replace("table"), Before(found), After("table"))
        BY <1>1, <1>2, <1>4, <1>7, SoundReplace DEF Kind
    <3> QED BY <1>2, <3>1, <3>2 DEF found
  <2> QED BY <2>1, <2>2
<1> QED BY <1>5, <1>6, <1>7 DEF Loads

\* Whatever the warehouse holds, the statements planned from it are sound.
LEMMA PlannedIsSound ==
    ASSUME NEW c \in Config, NEW full \in BOOLEAN, NEW held \in Kind,
           warehouse \in {"postgres", "bigquery", "mysql"}, c.type \in Supported[warehouse]
    PROVE  LET p == Planned(c, full, held)
           IN  /\ p \in Seq(Statements)
               /\ Sound(warehouse, full, c, p, Before(Found(warehouse, c, held)), After(Wanted(c)))
<1>1. CASE c.type \in Loads
  <2>1. warehouse \in {"postgres", "bigquery"} /\ (c.type = "extract" => warehouse = "postgres")
      BY <1>1 DEF Supported, Loads
  <2> QED BY <1>1, <2>1, SoundLoads
<1>2. CASE c.type \notin Loads
  <2>1. Planned(c, full, held) = PublishTasks(c, full, Reported(held))
      BY <1>2 DEF Planned, Loads
  <2>2. CASE warehouse = "postgres"
    <3>1. Planned(c, full, held) = PostgresTasks(c, full, Reported(held))
        BY <2>1, <2>2 DEF PublishTasks
    <3> QED BY <1>2, <2>2, <3>1, SoundPostgres
  <2>3. CASE warehouse = "bigquery"
    <3>1. Planned(c, full, held) = BigqueryTasks(c, full, Reported(held))
        BY <2>1, <2>3 DEF PublishTasks
    <3>2. c.type \in {"table", "incremental", "view", "matview"}
        BY <1>2, <2>3 DEF Supported, Types, Loads
    <3> QED BY <2>3, <3>1, <3>2, SoundBigquery
  <2>4. CASE warehouse = "mysql"
    <3>1. Planned(c, full, held) = MysqlTasks(c, full, Reported(held))
        BY <2>1, <2>4 DEF PublishTasks
    <3> QED BY <2>4, <3>1, SoundMysql
  <2> QED BY <2>2, <2>3, <2>4
<1> QED BY <1>1, <1>2

-----------------------------------------------------------------------------
(* Which relations no statement touches                                    *)

\* Reach() is the smallest of the sets it is defined by.
LEMMA ReachIsLeast ==
    ASSUME NEW a \in Action, NEW through
    PROVE  /\ Reach(a, through) \subseteq Action
           /\ a \in Reach(a, through)
           /\ \A x \in Reach(a, through) \cap through : Dep[x] \subseteq Reach(a, through)
           /\ \A S \in SUBSET Action :
                a \in S /\ (\A y \in S \cap through : Dep[y] \subseteq S)
                => Reach(a, through) \subseteq S
<1>1. Reach(a, through) \subseteq Action /\ a \in Reach(a, through)
    BY DEF Reach
<1>2. \A S \in SUBSET Action :
        a \in S /\ (\A y \in S \cap through : Dep[y] \subseteq S) => Reach(a, through) \subseteq S
    BY DEF Reach
<1>3. ASSUME NEW x \in Reach(a, through) \cap through, NEW d \in Dep[x]
      PROVE  d \in Reach(a, through)
  <2>1. x \in Action /\ d \in Action
      BY <1>1, AssumptionTypes
  <2>2. ASSUME NEW S \in SUBSET Action, a \in S,
               \A y \in S \cap through : Dep[y] \subseteq S
        PROVE  d \in S
    <3>1. x \in S
        BY <2>2, <1>2
    <3> QED BY <2>2, <3>1
  <2> QED BY <2>1, <2>2 DEF Reach
<1> QED BY <1>1, <1>2, <1>3

LEMMA ReachAlone ==
    ASSUME NEW a \in Action, NEW through, a \notin through
    PROVE  Reach(a, through) = {a}
<1> DEFINE S == {a}
<1>1. S \in SUBSET Action /\ a \in S /\ \A y \in S \cap through : Dep[y] \subseteq S
    OBVIOUS
<1> HIDE DEF S
<1>2. Reach(a, through) \subseteq S /\ a \in Reach(a, through)
    BY <1>1, ReachIsLeast
<1> QED BY <1>2 DEF S

LEMMA ReachFrom ==
    ASSUME NEW a \in Action, NEW through, NEW x \in Reach(a, through)
    PROVE  Reach(x, through) \subseteq Reach(a, through)
<1>1. x \in Action /\ Reach(a, through) \in SUBSET Action
    BY ReachIsLeast
<1>2. \A y \in Reach(a, through) \cap through : Dep[y] \subseteq Reach(a, through)
    BY ReachIsLeast
<1> QED BY <1>1, <1>2, ReachIsLeast

LEMMA UpstreamOfInputs ==
    ASSUME NEW a \in Action, NEW d \in Dep[a]
    PROVE  /\ d \in Action /\ d \in Upstream(a)
           /\ Upstream(d) \subseteq Upstream(a)
           /\ Upstream(a) \subseteq Action
<1>1. d \in Action /\ Dep[a] \subseteq Action
    BY AssumptionTypes
<1>2. d \in Upstream(a)
    BY <1>1, ReachIsLeast DEF Upstream
<1>3. Upstream(a) \subseteq Action
    BY <1>1, ReachIsLeast DEF Upstream
<1>4. ASSUME NEW e \in Dep[d] PROVE Reach(e, Action) \subseteq Reach(d, Action)
  <2>1. e \in Reach(d, Action)
      BY <1>1, ReachIsLeast
  <2> QED BY <1>1, <2>1, ReachFrom
<1>5. Upstream(d) \subseteq Upstream(a)
    BY <1>1, <1>4 DEF Upstream
<1> QED BY <1>1, <1>2, <1>3, <1>5

\* What a statement of another action cannot take away: what was made by
\* actions that are ordered after all they read, and what nothing of which
\* takes part.
AtRest == {x \in Action : \/ result[x] = "ok" /\ ~Unordered(x)
                          \/ result[x] = "out" /\ \A y \in Upstream(x) : result[y] = "out"}

LEMMA InputsAtRest ==
    ASSUME NEW a \in Action, Settled(a), ~Unordered(a)
    PROVE  Dep[a] \subseteq AtRest
<1> SUFFICES ASSUME NEW d \in Dep[a] PROVE d \in AtRest
    OBVIOUS
<1>1. d \in Action /\ d \in Upstream(a) /\ Upstream(d) \subseteq Upstream(a)
    BY UpstreamOfInputs
<1>2. CASE result[d] = "ok"
    BY <1>1, <1>2 DEF AtRest, Unordered
<1>3. CASE result[d] = "out"
    BY <1>1, <1>3 DEF AtRest, Unordered
<1> QED BY <1>2, <1>3 DEF Settled

LEMMA AtRestReadsAtRest ==
    ASSUME \A y \in Action : InputsSettled(y), NEW x \in AtRest
    PROVE  Dep[x] \subseteq AtRest
<1>1. CASE result[x] = "ok" /\ ~Unordered(x)
    BY <1>1, InputsAtRest DEF InputsSettled, AtRest
<1>2. CASE result[x] = "out" /\ \A y \in Upstream(x) : result[y] = "out"
    BY <1>2, UpstreamOfInputs DEF AtRest
<1> QED BY <1>1, <1>2 DEF AtRest

LEMMA ReachAtRest ==
    ASSUME \A y \in Action : InputsSettled(y),
           NEW a \in Action, Dep[a] \subseteq AtRest, NEW through
    PROVE  Reach(a, through) \subseteq {a} \cup AtRest
<1> DEFINE S == {a} \cup AtRest
<1>1. S \in SUBSET Action /\ a \in S
    BY DEF AtRest
<1>2. \A y \in S \cap through : Dep[y] \subseteq S
    BY AtRestReadsAtRest
<1> HIDE DEF S
<1>3. Reach(a, through) \subseteq S
    BY <1>1, <1>2, ReachIsLeast
<1> QED BY <1>3 DEF S

\* A view that reads what is being made is not at rest.
LEMMA ReadersAreUnordered ==
    ASSUME \A y \in Action : InputsSettled(y),
           NEW b \in Action, ~Over(b), NEW x \in Readers(b)
    PROVE  /\ x \notin AtRest
           /\ result[x] \in {"running", "ok"} => Unordered(x)
<1>1. x \in Action /\ x # b /\ b \in Reach(x, Views)
    BY DEF Readers
<1>2. b \notin AtRest
    BY DEF AtRest, Over
<1>3. Dep[x] \subseteq AtRest => FALSE
    BY <1>1, <1>2, ReachAtRest
<1> QED BY <1>1, <1>3, AtRestReadsAtRest, InputsAtRest DEF InputsSettled

LEMMA ReadableReads ==
    ASSUME NEW x \in Readable, Live(relation[x].kind)
    PROVE  Dep[x] \subseteq Readable
<1> DEFINE T == {v \in Action : Live(relation[v].kind)}
<1>1. x \in Action /\ x \in T
    BY DEF Readable
<1> SUFFICES ASSUME NEW d \in Dep[x] PROVE d \in Readable
    OBVIOUS
<1>2. d \in Reach(x, T)
    BY <1>1, ReachIsLeast
<1>3. d \in Action /\ Reach(d, T) \subseteq Reach(x, T)
    BY <1>1, <1>2, ReachIsLeast, ReachFrom
<1> QED BY <1>3 DEF Readable, ReadThrough

-----------------------------------------------------------------------------
(* What a statement does                                                   *)

LEMMA InputTypes ==
    ASSUME TypeOK, NEW a \in Action
    PROVE  Content(a) \subseteq Row /\ Input(a) \subseteq Row
<1>1. ASSUME NEW x \in Action PROVE Rows(x) \subseteq Row
    BY DEF Rows, TypeOK, Relation
<1>2. ASSUME NEW x \in Action PROVE Content(x) \subseteq Row
  <2>1. ReadThrough(x) \subseteq Action
      BY ReachIsLeast DEF ReadThrough
  <2> QED BY <1>1, <2>1 DEF Content
<1>3. Dep[a] \subseteq Action
    BY AssumptionTypes
<1>4. Input(a) \subseteq Row
  <2>1. CASE Dep[a] = {}
      BY <2>1 DEF Input, TypeOK
  <2>2. CASE Dep[a] # {}
      BY <2>2, <1>2, <1>3 DEF Input
  <2> QED BY <2>1, <2>2
<1> QED BY <1>2, <1>4

\* Of the other actions, a statement only drops views, on Postgres.
OthersKeep(b) ==
    \A x \in Action \ {b} :
        /\ \/ relation'[x] = relation[x]
           \/ warehouse = "postgres" /\ x \in Readers(b) /\ relation'[x] = Missing
        /\ x \in stage' <=> x \in stage

LEMMA EffectOnOthers ==
    ASSUME TypeOK, NEW b \in Action, NEW s \in Statements, Effect(b, s)
    PROVE  relation' \in [Action -> Relation] /\ stage' \subseteq Action /\ OthersKeep(b)
<1>1. relation \in [Action -> Relation] /\ stage \subseteq Action
    BY DEF TypeOK
<1>2. Input(b) \subseteq Row
    BY InputTypes
<1>3. ASSUME NEW as \in SUBSET ({b} \cup Readers(b)), Remove(as),
             as \subseteq {b} \/ warehouse = "postgres"
      PROVE  relation' \in [Action -> Relation] /\ stage' \subseteq Action /\ OthersKeep(b)
  <2>1. Missing \in Relation
      BY DEF Missing, Relation, Kind
  <2> QED BY <1>1, <1>3, <2>1 DEF Remove, OthersKeep
<1>4. ASSUME NEW r \in Relation, Put(b, r)
      PROVE  relation' \in [Action -> Relation] /\ stage' \subseteq Action /\ OthersKeep(b)
    BY <1>1, <1>4 DEF Put, OthersKeep
<1>5. \A kind \in Kind : Selected(b, kind) \in Relation
    BY <1>2 DEF Selected, Holding, Missing, Relation
<1>6. s.kind \in Kind /\ s.op \in Op
    BY DEF Statements
<1>7. CASE s.op \in {"drop", "dropFound", "dropUnread"}
  <2> DEFINE as == IF relation[b].kind = "none" \/ (s.op = "drop" /\ relation[b].kind # s.kind)
                   THEN {}
                   ELSE IF warehouse = "postgres" THEN {b} \cup Readers(b) ELSE {b}
  <2>1. Remove(as)
      BY <1>7 DEF Effect
  <2>2. as \in SUBSET ({b} \cup Readers(b)) /\ (as \subseteq {b} \/ warehouse = "postgres")
      OBVIOUS
  <2> HIDE DEF as
  <2> QED BY <1>3, <2>1, <2>2
<1>8. CASE s.op = "create"
    BY <1>4, <1>5, <1>6, <1>8 DEF Effect
<1>9. CASE s.op = "replace"
  <2> DEFINE r == Selected(b, s.kind)
  <2>1. r \in Relation /\ Put(b, [r EXCEPT !.settings = TRUE])
      BY <1>5, <1>6, <1>9 DEF Effect
  <2> HIDE DEF r
  <2>2. [r EXCEPT !.settings = TRUE] \in Relation
      BY <2>1 DEF Relation
  <2> QED BY <1>4, <2>1, <2>2
<1>10. CASE s.op = "createEmpty"
  <2>1. Holding("table", {}) \in Relation
      BY DEF Holding, Missing, Relation, Kind
  <2> QED BY <1>4, <1>10, <2>1 DEF Effect
<1>11. CASE s.op = "page"
  <2>1. PICK pages \in SUBSET Input(b) : Put(b, [relation[b] EXCEPT !.rows = pages])
      BY <1>11 DEF Effect
  <2>2. [relation[b] EXCEPT !.rows = pages] \in Relation
      BY <1>1, <1>2 DEF Relation
  <2> QED BY <1>4, <2>1, <2>2
<1>12. CASE s.op = "loadInto"
  <2> DEFINE r == [relation[b] EXCEPT !.kind = "table", !.rows = @ \cup Input(b)]
  <2>1. r \in Relation
      BY <1>1, <1>2 DEF Relation, Kind
  <2>2. Put(b, r)
      BY <1>12 DEF Effect
  <2> QED BY <1>4, <2>1, <2>2
<1>13. CASE s.op \in {"insert", "upsert"}
  <2>1. [relation[b] EXCEPT !.rows = @ \cup Input(b)] \in Relation
      BY <1>1, <1>2 DEF Relation
  <2>2. Put(b, [relation[b] EXCEPT !.rows = @ \cup Input(b)])
      BY <1>13 DEF Effect
  <2> QED BY <1>4, <2>1, <2>2
<1>14. CASE s.op = "overwrite"
  <2> DEFINE r == [relation[b] EXCEPT !.rows = {row \in @ : ~Replaced(b, row)} \cup Input(b)]
  <2>1. r \in Relation
      BY <1>1, <1>2 DEF Relation
  <2>2. Put(b, r)
      BY <1>14 DEF Effect
  <2> QED BY <1>4, <2>1, <2>2
<1>15. CASE s.op = "refresh"
  <2>1. [relation[b] EXCEPT !.rows = Input(b)] \in Relation
      BY <1>1, <1>2 DEF Relation
  <2> QED BY <1>4, <1>15, <2>1 DEF Effect
<1>16. CASE s.op = "keyIndex"
  <2>1. [relation[b] EXCEPT !.keyIndex = TRUE] \in Relation
      BY <1>1 DEF Relation
  <2> QED BY <1>4, <1>16, <2>1 DEF Effect
<1>17. CASE s.op = "settings"
  <2>1. [relation[b] EXCEPT !.settings = TRUE] \in Relation
      BY <1>1 DEF Relation
  <2> QED BY <1>4, <1>17, <2>1 DEF Effect
<1>18. CASE s.op = "createStage"
  <2>1. stage' = stage \cup {b} /\ relation' = relation
      BY <1>18 DEF Effect
  <2> QED BY <1>1, <2>1 DEF OthersKeep
<1>19. CASE s.op = "dropStage"
  <2>1. stage' = stage \ {b} /\ relation' = relation
      BY <1>19 DEF Effect
  <2> QED BY <1>1, <2>1 DEF OthersKeep
<1> QED BY <1>6, <1>7, <1>8, <1>9, <1>10, <1>11, <1>12, <1>13, <1>14, <1>15, <1>16, <1>17,
           <1>18, <1>19 DEF Op

\* As far as a query can tell, x's relation is as before.
Alike(x) == relation'[x].kind = relation[x].kind /\ relation'[x].rows = relation[x].rows

\* No statement, and nothing else, changes these relations.
Undisturbed ==
    /\ warehouse' = warehouse /\ config' = config
    /\ \A x \in Action : result'[x] = "out" <=> result[x] = "out"
    /\ \A x \in Action :
          result[x] \in {"out", "ok"} /\ (x \in AtRest \/ warehouse # "postgres") => Alike(x)

LEMMA UndisturbedOrder ==
    ASSUME Undisturbed, NEW a \in Action
    PROVE  Unordered(a)' <=> Unordered(a)
<1>1. \A d \in Dep[a] : d \in Action
    BY AssumptionTypes
<1>2. Upstream(a) \subseteq Action /\ \A m \in Upstream(a) : m \in Action
    BY <1>1, ReachIsLeast DEF Upstream
<1>3. \A m \in Upstream(a) : Upstream(m) \subseteq Action
  <2>1. \A m \in Upstream(a) : \A d \in Dep[m] : d \in Action
      BY <1>2, AssumptionTypes
  <2> QED BY <1>2, <2>1, ReachIsLeast DEF Upstream
<1> QED BY <1>2, <1>3 DEF Unordered, Undisturbed

LEMMA RowsOfItsOwn ==
    ASSUME NEW d \in Action, ~Live(relation[d].kind)
    PROVE  /\ Content(d) = relation[d].rows
           /\ relation[d].kind # "none" => d \in Readable
<1>1. ReadThrough(d) = {d}
    BY ReachAlone DEF ReadThrough
<1>2. Rows(d) = relation[d].rows
    BY DEF Rows
<1> QED BY <1>1, <1>2 DEF Content, Readable

LEMMA RowsOfItsOwnNext ==
    ASSUME NEW d \in Action, ~Live(relation[d].kind)'
    PROVE  /\ Content(d)' = relation'[d].rows
           /\ relation'[d].kind # "none" => d \in Readable'
<1>1. ReadThrough(d)' = {d}
    BY ReachAlone DEF ReadThrough
<1>2. Rows(d)' = relation'[d].rows
    BY DEF Rows
<1> QED BY <1>1, <1>2 DEF Content, Readable

\* What an action reads stays, from when it starts to the end of the run.
LEMMA InputStays ==
    ASSUME Undisturbed, NEW a \in Action, Settled(a),
           warehouse # "postgres" \/ ~Unordered(a), Dep[a] # {}
    PROVE  /\ \A d \in Dep[a] : d \in Action /\ (Live(relation[d].kind)' <=> Live(relation[d].kind))
           /\ (\A d \in Dep[a] : ~Live(relation[d].kind)) => Input(a)' = Input(a)
<1>1. ASSUME NEW d \in Dep[a] PROVE d \in Action /\ Alike(d)
  <2>1. d \in Action /\ result[d] \in {"out", "ok"}
      BY AssumptionTypes DEF Settled
  <2>2. d \in AtRest \/ warehouse # "postgres"
      BY InputsAtRest
  <2> QED BY <2>1, <2>2 DEF Undisturbed
<1>2. \A d \in Dep[a] : Live(relation[d].kind)' <=> Live(relation[d].kind)
    BY <1>1 DEF Live, Alike, Undisturbed
<1>3. ASSUME \A d \in Dep[a] : ~Live(relation[d].kind) PROVE Input(a)' = Input(a)
  <2>1. ASSUME NEW d \in Dep[a] PROVE Content(d)' = Content(d)
    <3>1. Content(d)' = relation'[d].rows /\ Content(d) = relation[d].rows
        BY <1>1, <1>2, <1>3, RowsOfItsOwn, RowsOfItsOwnNext
    <3> QED BY <1>1, <3>1 DEF Alike
  <2> QED BY <2>1 DEF Input
<1> QED BY <1>1, <1>2, <1>3

LEMMA ReadableStays ==
    ASSUME Undisturbed, \A y \in Action : InputsSettled(y),
           NEW a \in Action, Settled(a), ~Unordered(a), a \in Readable, Alike(a)
    PROVE  a \in Readable'
<1> DEFINE S == ReadThrough(a)
           T == {v \in Action : Live(relation[v].kind)}
           Tn == {v \in Action : Live(relation[v].kind)'}
<1>1. S \subseteq {a} \cup AtRest /\ S \in SUBSET Action /\ a \in S
    BY InputsAtRest, ReachAtRest, ReachIsLeast DEF ReadThrough
<1>2. \A x \in S : Alike(x)
    BY <1>1 DEF AtRest, Undisturbed
<1>3. \A y \in S \cap Tn : Dep[y] \subseteq S
  <2>1. S = Reach(a, T)
      BY DEF ReadThrough
  <2>2. S \cap Tn = S \cap T
      BY <1>1, <1>2 DEF Live, Alike, Undisturbed
  <2> HIDE DEF S, T, Tn
  <2> QED BY <2>1, <2>2, ReachIsLeast
<1>4. ReadThrough(a)' = Reach(a, Tn)
    BY DEF ReadThrough
<1>5. ReadThrough(a)' \subseteq S
  <2> HIDE DEF S, Tn
  <2> QED BY <1>1, <1>3, <1>4, ReachIsLeast
<1>6. \A x \in S : relation[x].kind # "none"
    BY DEF Readable
<1> QED BY <1>2, <1>5, <1>6 DEF Readable, Alike

LEMMA CompleteStays ==
    ASSUME Undisturbed, \A y \in Action : InputsSettled(y),
           NEW a \in Action, Settled(a), Alike(a), Complete(a)
    PROVE  Complete(a)'
<1>1. (Unordered(a)' <=> Unordered(a)) /\ (Exposed(a)' <=> Exposed(a))
    BY UndisturbedOrder DEF Exposed, Undisturbed
<1>2. ~Unordered(a) => a \in Readable'
    BY ReadableStays DEF Complete
<1>3. ASSUME Dep[a] # {}, \A d \in Dep[a] : ~Live(relation[d].kind)', ~Live(relation[a].kind)',
             ~Exposed(a)
      PROVE  (IF config[a].type = "incremental"
              THEN Input(a) \subseteq relation[a].rows ELSE Input(a) = relation[a].rows)'
  <2>1. warehouse # "postgres" \/ ~Unordered(a)
      BY <1>3 DEF Exposed
  <2>2. \A d \in Dep[a] : ~Live(relation[d].kind)
      BY <1>3, <2>1, InputStays
  <2>3. Input(a)' = Input(a)
      BY <1>3, <2>1, <2>2, InputStays
  <2>4. ~Live(relation[a].kind)
      BY <1>3 DEF Live, Alike, Undisturbed
  <2>5. IF config[a].type = "incremental"
        THEN Input(a) \subseteq relation[a].rows ELSE Input(a) = relation[a].rows
      BY <1>3, <2>2, <2>4 DEF Complete
  <2> QED BY <2>3, <2>5 DEF Alike, Undisturbed
<1> QED BY <1>1, <1>2, <1>3 DEF Complete

\* A label that is true of an action stays true while others execute theirs.
LEMMA StaysTrue ==
    ASSUME TypeOK, Undisturbed, \A y \in Action : InputsSettled(y),
           NEW a \in Action, NEW l \in Label, Fit(l), Allowed(warehouse, l), Holds(a, l),
           l.made => result[a] \in {"running", "ok"},
           a \in stage' <=> a \in stage,
           \/ relation'[a] = relation[a]
           \/ /\ warehouse = "postgres" /\ relation'[a] = Missing
              /\ relation[a].kind \in {"view", "matview"}
              /\ l.made => Unordered(a)
    PROVE  Holds(a, l)'
<1>1. (Unordered(a)' <=> Unordered(a)) /\ (Exposed(a)' <=> Exposed(a))
    BY UndisturbedOrder DEF Exposed, Undisturbed
<1>2. (l.clear => a \notin stage)'
    BY DEF Holds
<1>3. CASE relation'[a] = relation[a]
  <2>1. ChangedKind(a)' <=> ChangedKind(a)
      BY <1>3 DEF ChangedKind, Wanted, Undisturbed
  <2>2. Alike(a)
      BY <1>3 DEF Alike
  <2>3. l.rows = "full" => Complete(a)'
      BY <2>2, CompleteStays DEF Holds, Fit, InputsSettled
  <2> QED BY <1>1, <1>2, <1>3, <2>1, <2>3 DEF Holds
<1>4. CASE relation'[a] # relation[a]
  <2>1. /\ warehouse = "postgres" /\ relation'[a] = Missing
        /\ relation[a].kind \in {"view", "matview"} /\ (l.made => Unordered(a))
      BY <1>4
  <2>2. relation'[a].kind = "none" /\ relation'[a].rows = {}
      BY <2>1 DEF Missing
  <2>3. CASE ~l.made
      BY <1>2, <2>1, <2>2, <2>3 DEF Holds, Allowed, Fit
  <2>4. CASE l.made
    <3>1. Unordered(a)' /\ Exposed(a)'
        BY <1>1, <2>1, <2>4 DEF Exposed
    <3>2. "table" \notin l.kinds
        BY <2>1, <2>4 DEF Holds, Fit
    <3>3. Complete(a)'
        BY <3>1 DEF Complete
    <3> QED BY <1>2, <2>2, <3>1, <3>2, <3>3, <2>4 DEF Holds
  <2> QED BY <2>3, <2>4 DEF Label
<1> QED BY <1>3, <1>4

\* A relation that is made holds what the query returned, and can be read.
LEMMA MadeComplete ==
    ASSUME Undisturbed, \A y \in Action : InputsSettled(y),
           NEW b \in Action, Settled(b), relation'[b].kind # "none",
           Live(relation[b].kind)' => Dep[b] \subseteq Readable,
           Dep[b] # {} /\ ~Live(relation[b].kind)' =>
                IF config[b].type = "incremental"
                THEN Input(b) \subseteq relation'[b].rows ELSE Input(b) = relation'[b].rows
    PROVE  Complete(b)'
<1>1. (Unordered(b)' <=> Unordered(b)) /\ (Exposed(b)' <=> Exposed(b))
    BY UndisturbedOrder DEF Exposed, Undisturbed
<1>2. ASSUME ~Unordered(b) PROVE b \in Readable'
  <2>1. CASE ~Live(relation[b].kind)'
      BY <2>1, RowsOfItsOwnNext
  <2>2. CASE Live(relation[b].kind)'
    <3> DEFINE S == {b} \cup (AtRest \cap Readable)
               Tn == {v \in Action : Live(relation[v].kind)'}
    <3>1. S \in SUBSET Action /\ b \in S
        BY DEF AtRest
    <3>2. \A y \in AtRest : Alike(y) /\ y \in Action
        BY DEF AtRest, Undisturbed
    <3>3. ASSUME NEW y \in S \cap Tn PROVE Dep[y] \subseteq S
      <4>1. CASE y = b
          BY <1>2, <2>2, <4>1, InputsAtRest
      <4>2. CASE y # b
        <5>1. y \in AtRest /\ y \in Readable /\ Live(relation[y].kind)
            BY <3>2, <4>2 DEF Live, Alike, Undisturbed
        <5> QED BY <5>1, ReadableReads, AtRestReadsAtRest
      <4> QED BY <4>1, <4>2
    <3>4. \A x \in S : relation'[x].kind # "none"
      <4>1. \A x \in Readable : relation[x].kind # "none"
          BY ReachIsLeast DEF Readable, ReadThrough
      <4> QED BY <3>2, <4>1 DEF Alike
    <3>5. ReadThrough(b)' = Reach(b, Tn)
        BY DEF ReadThrough
    <3> HIDE DEF S, Tn
    <3>6. ReadThrough(b)' \subseteq S
        BY <3>1, <3>3, <3>5, ReachIsLeast
    <3> QED BY <3>4, <3>6 DEF Readable
  <2> QED BY <2>1, <2>2
<1>3. ASSUME Dep[b] # {}, \A d \in Dep[b] : ~Live(relation[d].kind)', ~Live(relation[b].kind)',
             ~Exposed(b)
      PROVE  (IF config[b].type = "incremental"
              THEN Input(b) \subseteq relation[b].rows ELSE Input(b) = relation[b].rows)'
  <2>1. warehouse # "postgres" \/ ~Unordered(b)
      BY <1>3 DEF Exposed
  <2>2. Input(b)' = Input(b)
      BY <1>3, <2>1, InputStays
  <2> QED BY <1>3, <2>2 DEF Undisturbed
<1> QED BY <1>1, <1>2, <1>3 DEF Complete

LEMMA FitLeads ==
    ASSUME NEW w, NEW full, NEW c, NEW l \in Label, NEW s, NEW m \in Label,
           Fit(l), Leads(w, full, c, l, s, m)
    PROVE  Fit(m)
<1>1. \A kind \in STRING : Fit(After(kind))
    BY DEF Fit, After
<1>2. Fit(Emptied) /\ Fit(Before({"none"})) /\ Fit(After("table")) /\ Fit(After("matview"))
    BY DEF Fit, Emptied, Before, After
<1>3. CASE DropLeads(w, full, c, l, s, m)
    BY <1>3 DEF Fit, DropLeads
<1>4. CASE LoadLeads(c, l, s, m)
    BY <1>2, <1>4 DEF LoadLeads
<1>5. CASE CreateLeads(w, full, c, l, s, m)
  <2>1. m \in {After(s.kind), Emptied, After("matview")}
      BY <1>5 DEF CreateLeads
  <2>2. Fit(After(s.kind))
      BY DEF Fit, After
  <2> QED BY <1>2, <2>1, <2>2
<1>6. CASE InsertLeads(w, c, l, s, m)
    BY <1>2, <1>6 DEF InsertLeads
<1>7. CASE SettleLeads(l, s, m)
    BY <1>7 DEF Fit, SettleLeads
<1> QED BY <1>3, <1>4, <1>5, <1>6, <1>7 DEF Leads

\* An executed statement makes the label it leads to true.
LEMMA ExecutedLeads ==
    ASSUME TypeOK, Undisturbed, \A y \in Action : InputsSettled(y),
           NEW b \in Action, config[b] \in Configs[warehouse][b], Settled(b),
           NEW s \in Statements, ~Rejected(b, s), Effect(b, s),
           NEW l \in Label, NEW m \in Label, Fit(l), Holds(b, l),
           Leads(warehouse, fullRefresh, config[b], l, s, m)
    PROVE  Holds(b, m)'
<1> DEFINE k == relation[b].kind
           r == relation[b]
           c == config[b]
           Rest == /\ l.clear => b \notin stage
                   /\ stage' = stage
<1>1. /\ relation \in [Action -> Relation] /\ r \in Relation /\ k \in Kind
      /\ warehouse \in {"postgres", "bigquery", "mysql"}
    BY AssumptionTypes DEF TypeOK, Relation
<1>2. c \in Config /\ c.type \in Supported[warehouse] /\ (c.type \in Loads => Dep[b] = {})
    BY AssumptionTypes DEF TypeOK
\* It suffices to know what is there, and that a relation that is made is complete.
<1>3. ASSUME NEW kind \in Kind \ {"none"}, m = After(kind), relation'[b].kind = kind,
             Live(kind)' => Dep[b] \subseteq Readable,
             Dep[b] # {} /\ ~Live(kind)' =>
                IF c.type = "incremental"
                THEN Input(b) \subseteq relation'[b].rows ELSE Input(b) = relation'[b].rows
      PROVE  Holds(b, m)'
  <2>1. Complete(b)'
      BY <1>3, MadeComplete
  <2> QED BY <1>3, <2>1 DEF Holds, After
<1>4. ASSUME NEW x \in Relation, Put(b, x) PROVE relation'[b] = x /\ stage' = stage
    BY <1>1, <1>4 DEF Put
<1>5. CASE DropLeads(warehouse, fullRefresh, c, l, s, m)
  <2>1. s.op = "drop" /\ s.kind # "none" /\ ~l.made /\ ~m.made /\ m.rows = l.rows
        /\ m.clear = l.clear
      BY <1>5 DEF DropLeads
  <2>2. m.rows # "empty" /\ m.rows # "full"
      BY <2>1 DEF Fit
  <2>3. stage' = stage /\ relation'[b] = IF k = s.kind THEN Missing ELSE relation[b]
      BY <1>1, <2>1 DEF Effect, Remove
  <2>4. k \notin {"none", s.kind} => warehouse = "mysql"
      BY <2>1 DEF Rejected
  <2>5. CASE k = s.kind
    <3>1. relation'[b].kind = "none"
        BY <2>3, <2>5 DEF Missing
    <3>2. "none" \in m.kinds
      <4>1. ~(warehouse # "mysql" /\ l.kinds = {} /\ ~InTheWay(warehouse, c, s.kind))
          BY <2>1, <2>5 DEF Holds, ChangedKind, InTheWay, Wanted
      <4> QED BY <1>5, <4>1 DEF DropLeads
    <3> QED BY <2>1, <2>2, <2>3, <3>1, <3>2 DEF Holds
  <2>6. CASE k # s.kind
    <3>1. relation'[b] = relation[b]
        BY <2>3, <2>6
    <3>2. ChangedKind(b)' <=> ChangedKind(b)
        BY <3>1 DEF ChangedKind, Wanted, Undisturbed
    <3>3. k \in l.kinds => k \in m.kinds
        BY <1>5, <2>6 DEF DropLeads
    <3> QED BY <2>1, <2>2, <2>3, <3>1, <3>2, <3>3 DEF Holds
  <2> QED BY <2>5, <2>6
<1>6. CASE LoadLeads(c, l, s, m)
  <2>1. c.type \in Loads /\ Dep[b] = {}
      BY <1>2, <1>6 DEF LoadLeads, Loads
  <2>2. ~Live("table")'
      BY DEF Live
  <2>3. CASE s.op \in {"dropFound", "dropUnread"}
    <3>1. m = Before({"none"})
        BY <1>6, <2>3 DEF LoadLeads
    <3>2. relation'[b].kind = "none"
      <4>1. PICK as : Remove(as) /\ (k = "none" \/ b \in as)
          BY <2>3 DEF Effect
      <4>2. relation' = [x \in Action |-> IF x \in as THEN Missing ELSE relation[x]]
          BY <4>1 DEF Remove
      <4>3. relation'[b] = IF b \in as THEN Missing ELSE relation[b]
          BY <4>2
      <4>4. Missing.kind = "none"
          BY DEF Missing
      <4>5. CASE b \in as
          BY <4>3, <4>4, <4>5
      <4>6. CASE b \notin as
          BY <4>1, <4>3, <4>6
      <4> QED BY <4>5, <4>6
    <3> QED BY <3>1, <3>2 DEF Holds, Before
  <2>4. CASE s.op = "loadInto"
    <3> DEFINE x == [relation[b] EXCEPT !.kind = "table", !.rows = @ \cup Input(b)]
    <3>1. Put(b, x)
        BY <2>4 DEF Effect
    <3>2. relation'[b].kind = "table" /\ m = After("table")
        BY <1>1, <1>6, <2>4, <3>1 DEF Put, LoadLeads, Relation
    <3> QED BY <1>3, <2>1, <2>2, <3>2 DEF Kind
  <2>5. CASE s.op = "page"
    <3>1. PICK pages \in SUBSET Input(b) : Put(b, [relation[b] EXCEPT !.rows = pages])
        BY <2>5 DEF Effect
    <3>2. k = "table"
        BY <2>5 DEF Rejected
    <3>3. relation'[b].kind = "table" /\ m = After("table")
        BY <1>1, <1>6, <2>5, <3>1, <3>2 DEF Put, LoadLeads, Relation
    <3> QED BY <1>3, <2>1, <2>2, <3>3 DEF Kind
  <2> QED BY <1>6, <2>3, <2>4, <2>5 DEF LoadLeads
<1>7. CASE CreateLeads(warehouse, fullRefresh, c, l, s, m)
  <2>1. s.kind \in Kind
      BY DEF Statements
  <2>2. CASE s.op \in {"create", "replace"}
    <3> DEFINE x == Selected(b, s.kind)
    <3>1. x.kind = s.kind /\ (~Live(s.kind) => x.rows = Input(b))
        BY DEF Selected, Holding, Missing
    <3>2. Input(b) \subseteq Row
        BY InputTypes
    <3>3. x \in Relation
        BY <2>1, <3>2 DEF Selected, Holding, Missing, Relation
    <3>4. relation'[b].kind = x.kind /\ relation'[b].rows = x.rows
      <4>1. Put(b, x) \/ Put(b, [x EXCEPT !.settings = TRUE])
          BY <2>2 DEF Effect
      <4> HIDE DEF x
      <4> QED BY <1>1, <3>3, <4>1 DEF Put, Relation
    <3>5. Live(s.kind)' <=> Live(s.kind)
        BY DEF Live, Undisturbed
    <3>6. Dep[b] \subseteq Readable
        BY <2>2 DEF Rejected, Reads
    <3>7. m = After(s.kind) /\ s.kind \in Kind \ {"none"}
        BY <1>7, <2>1, <2>2 DEF CreateLeads
    <3> HIDE DEF x
    <3> QED BY <1>3, <3>1, <3>4, <3>5, <3>6, <3>7
  <2>3. CASE s.op = "createEmpty"
    <3>1. Put(b, Holding("table", {})) /\ m = Emptied
        BY <1>7, <2>3 DEF Effect, CreateLeads
    <3>2. relation'[b].kind = "table" /\ relation'[b].rows = {}
        BY <1>1, <3>1 DEF Put, Holding, Missing
    <3> QED BY <3>1, <3>2 DEF Holds, Emptied
  <2>4. CASE s.op = "refresh"
    <3>1. Put(b, [relation[b] EXCEPT !.rows = Input(b)]) /\ m = After("matview")
          /\ warehouse = "postgres" /\ c.type = "matview"
        BY <1>7, <2>4 DEF Effect, CreateLeads
    <3>2. k = "matview"
        BY <2>4 DEF Rejected
    <3>3. relation'[b].kind = "matview" /\ relation'[b].rows = Input(b)
        BY <1>1, <3>1, <3>2 DEF Put, Relation
    <3>4. ~Live("matview")'
        BY <3>1 DEF Live, Undisturbed
    <3> QED BY <1>3, <3>1, <3>3, <3>4 DEF Kind
  <2> QED BY <1>7, <2>2, <2>3, <2>4 DEF CreateLeads
<1>8. CASE InsertLeads(warehouse, c, l, s, m)
  <2>1. m = After("table") /\ s.op \in {"insert", "upsert", "overwrite"}
      BY <1>8 DEF InsertLeads
  <2>2. k = "table" /\ ~Live("table")'
      BY <2>1 DEF Rejected, Live
  <2>3. CASE s.op = "overwrite"
    <3>1. Put(b, [relation[b] EXCEPT
                    !.rows = {row \in @ : ~Replaced(b, row)} \cup Input(b)])
        BY <2>3 DEF Effect
    <3>2. relation'[b].kind = "table" /\ Input(b) \subseteq relation'[b].rows
        BY <1>1, <2>2, <3>1 DEF Put, Relation
    <3>3. c.type = "incremental"
        BY <1>8, <2>3 DEF InsertLeads
    <3> QED BY <1>3, <2>1, <2>2, <3>2, <3>3 DEF Kind
  <2>4. CASE s.op # "overwrite"
    <3>1. Put(b, [relation[b] EXCEPT !.rows = @ \cup Input(b)])
        BY <2>1, <2>4 DEF Effect
    <3>2. relation'[b].kind = "table" /\ relation'[b].rows = r.rows \cup Input(b)
        BY <1>1, <2>2, <3>1 DEF Put, Relation
    <3>3. CASE c.type = "incremental"
        BY <1>3, <2>1, <2>2, <3>2, <3>3 DEF Kind
    <3>4. CASE c.type = "append"
        BY <1>2, <1>3, <2>1, <2>2, <3>2, <3>4 DEF Kind, Loads
    <3>5. CASE c.type = "partitioned"
      <4>1. r.rows = {}
          BY <1>8, <2>4, <3>5 DEF InsertLeads, Holds
      <4> QED BY <1>3, <2>1, <2>2, <3>2, <3>5, <4>1 DEF Kind
    <3> QED BY <1>8, <2>4, <3>3, <3>4, <3>5 DEF InsertLeads
  <2> QED BY <2>3, <2>4
<1>9. CASE SettleLeads(l, s, m)
  <2>1. m.kinds = l.kinds /\ m.rows = l.rows /\ m.made = l.made
      BY <1>9 DEF SettleLeads
  <2>2. CASE s.op \in {"keyIndex", "settings"}
    <3>1. m = l /\ l.made
        BY <1>9, <2>2 DEF SettleLeads
    <3>2. Alike(b) /\ stage' = stage
      <4>1. Put(b, [relation[b] EXCEPT !.keyIndex = TRUE])
            \/ Put(b, [relation[b] EXCEPT !.settings = TRUE])
          BY <2>2 DEF Effect
      <4> QED BY <1>1, <4>1 DEF Put, Relation, Alike
    <3>3. l.rows = "full" => Complete(b)'
        BY <3>2, CompleteStays DEF Holds
    <3>4. Exposed(b)' <=> Exposed(b)
        BY UndisturbedOrder DEF Exposed, Undisturbed
    <3> QED BY <3>1, <3>2, <3>3, <3>4 DEF Holds, Alike
  <2>3. CASE s.op \in {"createStage", "dropStage"}
    <3>1. relation' = relation /\ (m.clear => b \notin stage')
        BY <1>9, <2>3 DEF Effect, SettleLeads
    <3>2. ChangedKind(b)' <=> ChangedKind(b)
        BY <3>1 DEF ChangedKind, Wanted, Undisturbed
    <3>3. l.rows = "full" => Complete(b)'
        BY <3>1, CompleteStays DEF Holds, Alike
    <3>4. Exposed(b)' <=> Exposed(b)
        BY UndisturbedOrder DEF Exposed, Undisturbed
    <3> QED BY <2>1, <3>1, <3>2, <3>3, <3>4 DEF Holds
  <2> QED BY <1>9, <2>2, <2>3 DEF SettleLeads
<1> QED BY <1>5, <1>6, <1>7, <1>8, <1>9 DEF Leads

-----------------------------------------------------------------------------
(* The invariant is inductive                                              *)

LEMMA InitIInv == Init => IInv
<1> SUFFICES ASSUME Init PROVE IInv
    OBVIOUS
<1>1. /\ warehouse \in Warehouses
      /\ \A a \in Action : config[a] \in Configs[warehouse][a] /\ config[a] \in Config
    BY AssumptionTypes DEF Init
<1>2. config \in [Action -> Config]
    BY <1>1 DEF Init
<1>3. Missing \in Relation
    BY DEF Missing, Relation, Kind
<1>4. relation \in [Action -> Relation] /\ result \in [Action -> Result]
      /\ plan \in [Action -> Seq(Statements)]
    BY <1>3 DEF Init, Result
<1>5. \A a \in Action : plan[a] = <<>> /\ result[a] = "out"
    BY DEF Init
<1>6. TypeOK
  <2>1. runs \in 0..MaxRuns /\ edits \in 0..MaxEdits
      BY AssumptionTypes DEF Init
  <2>2. stage \subseteq Action /\ source \subseteq Row /\ fullRefresh \in BOOLEAN
      BY DEF Init
  <2> QED BY <1>1, <1>2, <1>4, <1>5, <2>1, <2>2 DEF TypeOK, Over
<1>7. \A a \in Action : InputsSettled(a) /\ Planning(a) /\ result[a] # "ok"
    BY <1>5 DEF InputsSettled, Planning, Over
<1> QED BY <1>1, <1>6, <1>7 DEF IInv

\* Nothing is executed: what was true of the labels stays true.
LEMMA NothingExecuted ==
    ASSUME IInv, UNCHANGED <<warehouse, config, relation, stage>>,
           \A x \in Action : result'[x] = "out" <=> result[x] = "out",
           NEW a \in Action, NEW l \in Label, Fit(l), Allowed(warehouse, l), Holds(a, l),
           l.made => result[a] \in {"running", "ok"}
    PROVE  Holds(a, l)'
<1>1. Undisturbed
    BY DEF Undisturbed, Alike
<1>2. TypeOK /\ \A y \in Action : InputsSettled(y)
    BY DEF IInv
<1> QED BY <1>1, <1>2, StaysTrue

LEMMA FinalFits ==
    ASSUME NEW a
    PROVE  /\ Final(a) \in Label /\ Fit(Final(a)) /\ Final(a).made /\ Final(a).rows = "full"
           /\ \A w : Allowed(w, Final(a))
<1>1. Wanted(config[a]) \in Kind
    BY DEF Wanted, Kind
<1> QED BY <1>1, LabelTypes DEF Final, Fit, Allowed, After

\* An action executes, or fails in, its next statement.
LEMMA Undisturbing ==
    ASSUME IInv, NEW b \in Action, Ready(b),
           \/ UNCHANGED relations
           \/ Effect(b, Statement(b)),
           UNCHANGED <<project, fullRefresh>>,
           NEW outcome \in {"ok", "running", "failed"},
           result' = [result EXCEPT ![b] = outcome]
    PROVE  /\ plan[b] \in Seq(Statements) /\ plan[b] # <<>> /\ Statement(b) \in Statements
           /\ relation' \in [Action -> Relation] /\ stage' \subseteq Action
           /\ OthersKeep(b) /\ Undisturbed /\ Settled(b)
<1>1. TypeOK /\ \A y \in Action : InputsSettled(y)
    BY DEF IInv
<1>2. ~Over(b) /\ result[b] \in {"waiting", "running"}
    BY DEF Ready, Over
<1>3. plan[b] \in Seq(Statements) /\ plan[b] # <<>> /\ Statement(b) \in Statements
    BY <1>1, <1>2 DEF TypeOK, Statement
<1>4. relation' \in [Action -> Relation] /\ stage' \subseteq Action /\ OthersKeep(b)
  <2>1. CASE UNCHANGED relations
      BY <1>1, <2>1 DEF TypeOK, OthersKeep, relations
  <2>2. CASE Effect(b, Statement(b))
      BY <1>1, <1>3, <2>2, EffectOnOthers
  <2> QED BY <2>1, <2>2
<1>5. Settled(b)
    BY <1>1 DEF Ready, InputsSettled, Settled
<1>6. \A x \in Action : result'[x] = "out" <=> result[x] = "out"
    BY <1>1, <1>2 DEF TypeOK
<1>7. ASSUME NEW x \in Action, result[x] \in {"out", "ok"}, x \in AtRest \/ warehouse # "postgres"
      PROVE  Alike(x)
  <2>1. x # b
      BY <1>2, <1>7
  <2>2. ~(warehouse = "postgres" /\ x \in Readers(b))
      BY <1>1, <1>2, <1>7, ReadersAreUnordered
  <2> QED BY <1>4, <2>1, <2>2 DEF OthersKeep, Alike
<1>8. Undisturbed
    BY <1>6, <1>7 DEF Undisturbed, project
<1> QED BY <1>3, <1>4, <1>5, <1>8

\* The others are as far as they were.
LEMMA OthersStay ==
    ASSUME IInv, NEW b \in Action, Ready(b), OthersKeep(b), Undisturbed,
           UNCHANGED <<project, fullRefresh>>,
           NEW a \in Action \ {b}, plan'[a] = plan[a], result'[a] = result[a]
    PROVE  Planning(a)' /\ (result[a] = "ok" => Holds(a, Final(a)))'
<1>1. TypeOK /\ \A y \in Action : InputsSettled(y)
    BY DEF IInv
<1>2. ~Over(b)
    BY DEF Ready, Over
<1>3. ASSUME NEW l \in Label, Fit(l), Allowed(warehouse, l), Holds(a, l),
             l.made => result[a] \in {"running", "ok"}
      PROVE  Holds(a, l)'
  <2>1. a \in stage' <=> a \in stage
      BY DEF OthersKeep
  <2>2. \/ relation'[a] = relation[a]
        \/ /\ warehouse = "postgres" /\ relation'[a] = Missing
           /\ relation[a].kind \in {"view", "matview"}
           /\ l.made => Unordered(a)
    <3>1. CASE relation'[a] = relation[a]
        BY <3>1
    <3>2. CASE relation'[a] # relation[a]
      <4>1. warehouse = "postgres" /\ a \in Readers(b) /\ relation'[a] = Missing
          BY <3>2 DEF OthersKeep
      <4>2. l.made => Unordered(a)
          BY <1>1, <1>2, <1>3, <4>1, ReadersAreUnordered
      <4>3. relation[a].kind \in {"view", "matview"}
        <5>1. a # b /\ b \in Reach(a, Views)
            BY <4>1 DEF Readers
        <5>2. a \in Views
            BY <5>1, ReachAlone
        <5> QED BY <5>2 DEF Views
      <4> QED BY <4>1, <4>2, <4>3
    <3> QED BY <3>1, <3>2
  <2> QED BY <1>1, <1>3, <2>1, <2>2, StaysTrue
<1>4. Planning(a)'
  <2>1. Over(a)' <=> Over(a)
      BY DEF Over
  <2> SUFFICES ASSUME ~Over(a) PROVE Planning(a)'
      BY <2>1 DEF Planning
  <2>2. PICK l \in Label :
          /\ result[a] = "waiting" => ~l.made
          /\ Fit(l) /\ Holds(a, l)
          /\ Sound(warehouse, fullRefresh, config[a], plan[a], l, Final(a))
      BY DEF IInv, Planning
  <2>3. Allowed(warehouse, l)
    <3>1. plan[a] \in Seq(Statements) /\ plan[a] # <<>>
        BY <1>1 DEF TypeOK
    <3> QED BY <2>2, <3>1, SoundTail
  <2>4. l.made => result[a] \in {"running", "ok"}
      BY <1>1, <2>2 DEF TypeOK, Over, Result
  <2>5. Holds(a, l)'
      BY <1>3, <2>2, <2>3, <2>4
  <2>6. Final(a)' = Final(a)
      BY DEF Final, Wanted, project
  <2> QED BY <2>2, <2>5, <2>6 DEF Planning, project
<1>5. (result[a] = "ok" => Holds(a, Final(a)))'
  <2> SUFFICES ASSUME result[a] = "ok" PROVE Holds(a, Final(a))'
      OBVIOUS
  <2>1. Holds(a, Final(a))
      BY DEF IInv
  <2>2. Final(a)' = Final(a)
      BY DEF Final, Wanted, project
  <2>3. PICK l \in Label : l = Final(a)
      BY FinalFits
  <2>4. Fit(l) /\ Allowed(warehouse, l) /\ Holds(a, l)
      BY <2>1, <2>3, FinalFits
  <2>5. Holds(a, l)'
      BY <1>3, <2>4
  <2> QED BY <2>2, <2>3, <2>5
<1> QED BY <1>4, <1>5

\* What is there is what was found, or in the way of the definition.
LEMMA FoundHolds ==
    ASSUME IInv, UNCHANGED <<project, relations>>, NEW a \in Action
    PROVE  \E l \in Label : /\ l = Before(Found(warehouse, config[a], relation[a].kind))
                            /\ Fit(l) /\ ~l.made /\ Holds(a, l)'
<1> DEFINE k == relation[a].kind
           l == Before(Found(warehouse, config[a], k))
<1>1. TypeOK /\ k \in Kind
    BY DEF IInv, TypeOK, Relation
<1>2. Found(warehouse, config[a], k) \in SUBSET Kind
    BY <1>1, FoundTypes
<1>3. l \in Label
    BY <1>2, LabelTypes
<1>4. Fit(l) /\ ~l.made /\ l.rows = "any" /\ ~l.clear
    BY DEF Fit, Before
<1>5. k \in l.kinds \/ ChangedKind(a)
  <2>1. ~InTheWay(warehouse, config[a], k) => k \in l.kinds
      BY DEF Before, Found
  <2>2. InTheWay(warehouse, config[a], k) => ChangedKind(a)
      BY DEF InTheWay, ChangedKind, Wanted
  <2> QED BY <2>1, <2>2
<1>6. ChangedKind(a)' <=> ChangedKind(a)
    BY DEF ChangedKind, Wanted, project, relations
<1>7. relation' = relation
    BY DEF relations
<1> HIDE DEF l
<1>8. PICK n \in Label : n = l
    BY <1>3
<1>9. Holds(a, n)'
    BY <1>4, <1>5, <1>6, <1>7, <1>8 DEF Holds
<1> QED BY <1>4, <1>8, <1>9 DEF l

LEMMA BuildStep == ASSUME IInv, Build PROVE IInv'
<1>1. TypeOK
    BY DEF IInv
<1>2. PICK full \in BOOLEAN : fullRefresh' = full
    BY DEF Build
<1>3. PICK selected \in SUBSET Action :
        /\ result' = [a \in Action |-> IF a \in selected THEN "waiting" ELSE "out"]
        /\ plan' = [a \in Action |->
                IF a \in selected THEN Planned(config[a], full, relation[a].kind) ELSE <<>>]
    BY <1>2 DEF Build
<1>4. UNCHANGED <<project, relations, source, edits>> /\ runs' = runs + 1 /\ runs < MaxRuns
    BY DEF Build
<1>5. ASSUME NEW a \in Action
      PROVE  LET p == Planned(config[a], full, relation[a].kind)
             IN  /\ p \in Seq(Statements) /\ p # <<>>
                 /\ Sound(warehouse, full, config[a], p,
                          Before(Found(warehouse, config[a], relation[a].kind)), Final(a))
  <2> DEFINE p == Planned(config[a], full, relation[a].kind)
             l == Before(Found(warehouse, config[a], relation[a].kind))
             n == Final(a)
  <2>1. /\ config[a] \in Config /\ config[a].type \in Supported[warehouse]
        /\ warehouse \in {"postgres", "bigquery", "mysql"} /\ relation[a].kind \in Kind
      BY <1>1, AssumptionTypes DEF IInv, TypeOK, Relation
  <2>2. p \in Seq(Statements) /\ Sound(warehouse, full, config[a], p, l, n)
      BY <2>1, PlannedIsSound DEF Final
  <2>3. ~l.made /\ n.made
      BY FinalFits DEF Before
  <2> HIDE DEF p, l, n
  <2>4. p # <<>>
      BY <2>2, <2>3 DEF Sound
  <2> QED BY <2>2, <2>4 DEF p, l, n
<1>6. TypeOK'
  <2>1. plan' \in [Action -> Seq(Statements)]
      BY <1>3, <1>5, EmptySeq
  <2>2. result' \in [Action -> Result]
      BY <1>3 DEF Result
  <2>3. runs' \in 0..MaxRuns
      BY <1>1, <1>4, AssumptionTypes DEF TypeOK
  <2>4. \A a \in Action : plan'[a] # <<>> <=> ~Over(a)'
      BY <1>3, <1>5 DEF Over
  <2>5. /\ warehouse' = warehouse /\ config' = config /\ relation' = relation
        /\ stage' = stage /\ source' = source /\ edits' = edits /\ fullRefresh' \in BOOLEAN
      BY <1>2, <1>4 DEF project, relations
  <2> QED BY <1>1, <2>1, <2>2, <2>3, <2>4, <2>5 DEF TypeOK
<1>7. ASSUME NEW a \in Action
      PROVE  /\ (config[a] \in Configs[warehouse][a])' /\ InputsSettled(a)' /\ Planning(a)'
             /\ result'[a] # "ok"
  <2>1. result'[a] = IF a \in selected THEN "waiting" ELSE "out"
      BY <1>3
  <2>2. (config[a] \in Configs[warehouse][a])'
      BY <1>4 DEF IInv, project
  <2>3. InputsSettled(a)'
      BY <2>1 DEF InputsSettled
  <2>4. ASSUME a \in selected PROVE Planning(a)'
    <3>1. PICK l \in Label : /\ l = Before(Found(warehouse, config[a], relation[a].kind))
                              /\ Fit(l) /\ ~l.made /\ Holds(a, l)'
        BY <1>4, FoundHolds
    <3>2. plan'[a] = Planned(config[a], full, relation[a].kind)
        BY <1>3, <2>4
    <3>3. Sound(warehouse, full, config[a], plan'[a], l, Final(a))
        BY <1>5, <3>1, <3>2
    <3>4. Final(a)' = Final(a) /\ warehouse' = warehouse /\ config' = config
        BY <1>4 DEF Final, Wanted, project
    <3> QED BY <1>2, <3>1, <3>3, <3>4 DEF Planning
  <2>5. a \notin selected => Planning(a)'
      BY <2>1 DEF Planning, Over
  <2> QED BY <2>1, <2>2, <2>3, <2>4, <2>5
<1> QED BY <1>6, <1>7 DEF IInv

\* What an action that has started reads is at rest already.
LEMMA InputsStaySettled ==
    ASSUME IInv, NEW b \in Action, ~Over(b), NEW outcome,
           outcome \in {"running", "ok"} => Settled(b),
           result' = [result EXCEPT ![b] = outcome]
    PROVE  \A x \in Action : InputsSettled(x)'
<1>1. result \in [Action -> Result] /\ \A x \in Action : InputsSettled(x)
    BY DEF IInv, TypeOK
<1>2. result[b] \notin {"out", "ok"}
    BY DEF Over
<1>3. \A x \in Action : Dep[x] \subseteq Action
    BY AssumptionTypes
<1>4. \A x \in Action : Settled(x) => Settled(x)'
    BY <1>1, <1>2, <1>3 DEF Settled
<1>5. ASSUME NEW x \in Action PROVE InputsSettled(x)'
  <2>1. CASE x = b
      BY <1>1, <1>4, <2>1 DEF InputsSettled
  <2>2. CASE x # b
      BY <1>1, <1>4, <2>2 DEF InputsSettled
  <2> QED BY <2>1, <2>2
<1> QED BY <1>5

LEMMA ExecuteStep == ASSUME IInv, NEW b \in Action, Execute(b) PROVE IInv'
<1> DEFINE p == plan[b]
           outcome == IF Len(p) = 1 THEN "ok" ELSE "running"
<1>1. TypeOK /\ (\A y \in Action : InputsSettled(y)) /\ Planning(b)
      /\ config[b] \in Configs[warehouse][b]
    BY DEF IInv
<1>2. /\ Ready(b) /\ ~Rejected(b, Statement(b)) /\ Effect(b, Statement(b))
      /\ plan' = [plan EXCEPT ![b] = Tail(p)] /\ result' = [result EXCEPT ![b] = outcome]
      /\ UNCHANGED <<project, source, fullRefresh, runs, edits>>
    BY DEF Execute
<1>3. ~Over(b) /\ outcome \in {"ok", "running"}
    BY <1>2 DEF Ready, Over
<1> HIDE DEF outcome
<1>4. /\ p \in Seq(Statements) /\ p # <<>> /\ Statement(b) \in Statements
      /\ relation' \in [Action -> Relation] /\ stage' \subseteq Action
      /\ OthersKeep(b) /\ Undisturbed /\ Settled(b)
    BY <1>2, <1>3, Undisturbing
<1>5. PICK l \in Label : /\ Fit(l) /\ Holds(b, l)
                         /\ Sound(warehouse, fullRefresh, config[b], p, l, Final(b))
    BY <1>1, <1>3 DEF Planning
<1>6. PICK m \in Label : /\ Leads(warehouse, fullRefresh, config[b], l, Head(p), m)
                         /\ Sound(warehouse, fullRefresh, config[b], Tail(p), m, Final(b))
                         /\ Len(p) = 1 => m = Final(b)
    BY <1>4, <1>5, SoundTail
<1>7. Fit(m)
    BY <1>5, <1>6, FitLeads
<1>8. Holds(b, m)'
    BY <1>1, <1>2, <1>4, <1>5, <1>6, ExecutedLeads DEF Statement
<1>9. plan'[b] = Tail(p) /\ result'[b] = outcome /\ Final(b)' = Final(b)
    BY <1>1, <1>2 DEF TypeOK, Final, Wanted, project
<1>10. Tail(p) \in Seq(Statements) /\ (Tail(p) # <<>> <=> Len(p) # 1)
  <2>1. Tail(p) \in Seq(Statements) /\ Len(Tail(p)) = Len(p) - 1 /\ Len(p) \in Nat
      BY <1>4, HeadTailProperties
  <2>2. Tail(p) = <<>> <=> Len(Tail(p)) = 0
      BY <2>1, EmptySeq
  <2> QED BY <2>1, <2>2
<1>11. TypeOK'
  <2>1. plan' \in [Action -> Seq(Statements)]
      BY <1>1, <1>2, <1>10 DEF TypeOK
  <2>2. result' \in [Action -> Result]
      BY <1>1, <1>2, <1>3 DEF TypeOK, Result
  <2>3. \A a \in Action : plan'[a] # <<>> <=> ~Over(a)'
    <3> SUFFICES ASSUME NEW a \in Action PROVE plan'[a] # <<>> <=> ~Over(a)'
        OBVIOUS
    <3>1. CASE a = b
        BY <1>9, <1>10, <3>1 DEF Over, outcome
    <3>2. CASE a # b
        BY <1>1, <1>2, <3>2 DEF TypeOK, Over
    <3> QED BY <3>1, <3>2
  <2> QED BY <1>1, <1>2, <1>4, <2>1, <2>2, <2>3 DEF TypeOK, project
<1>12. \A x \in Action : InputsSettled(x)'
    BY <1>2, <1>3, <1>4, InputsStaySettled
<1>13. Planning(b)'
    BY <1>2, <1>6, <1>7, <1>8, <1>9 DEF Planning, Over, outcome, project
<1>14. (result[b] = "ok" => Holds(b, Final(b)))'
    BY <1>6, <1>8, <1>9 DEF outcome
<1>15. ASSUME NEW a \in Action \ {b}
       PROVE  Planning(a)' /\ (result[a] = "ok" => Holds(a, Final(a)))'
  <2>1. plan'[a] = plan[a] /\ result'[a] = result[a]
      BY <1>1, <1>2 DEF TypeOK
  <2> QED BY <1>2, <1>4, <2>1, OthersStay
<1>16. \A a \in Action : (config[a] \in Configs[warehouse][a])'
    BY <1>2 DEF IInv, project
<1> QED BY <1>11, <1>12, <1>13, <1>14, <1>15, <1>16 DEF IInv

LEMMA FailStep == ASSUME IInv, NEW b \in Action, Fail(b) PROVE IInv'
<1>1. TypeOK
    BY DEF IInv
<1>2. /\ Ready(b) /\ (UNCHANGED relations \/ Effect(b, Statement(b)))
      /\ plan' = [plan EXCEPT ![b] = <<>>] /\ result' = [result EXCEPT ![b] = "failed"]
      /\ UNCHANGED <<project, source, fullRefresh, runs, edits>>
    BY DEF Fail
<1>3. ~Over(b)
    BY <1>2 DEF Ready, Over
<1>4. /\ relation' \in [Action -> Relation] /\ stage' \subseteq Action
      /\ OthersKeep(b) /\ Undisturbed /\ Settled(b)
    BY <1>2, Undisturbing
<1>5. plan'[b] = <<>> /\ result'[b] = "failed"
    BY <1>1, <1>2 DEF TypeOK
<1>6. TypeOK'
  <2>1. plan' \in [Action -> Seq(Statements)]
      BY <1>1, <1>2, EmptySeq DEF TypeOK
  <2>2. result' \in [Action -> Result]
      BY <1>1, <1>2 DEF TypeOK, Result
  <2>3. \A a \in Action : plan'[a] # <<>> <=> ~Over(a)'
      BY <1>1, <1>2 DEF TypeOK, Over
  <2> QED BY <1>1, <1>2, <1>4, <2>1, <2>2, <2>3 DEF TypeOK, project
<1>7. \A x \in Action : InputsSettled(x)'
    BY <1>2, <1>3, InputsStaySettled
<1>8. Planning(b)' /\ (result[b] = "ok" => Holds(b, Final(b)))'
    BY <1>5 DEF Planning, Over
<1>9. ASSUME NEW a \in Action \ {b}
      PROVE  Planning(a)' /\ (result[a] = "ok" => Holds(a, Final(a)))'
  <2>1. plan'[a] = plan[a] /\ result'[a] = result[a]
      BY <1>1, <1>2 DEF TypeOK
  <2> QED BY <1>2, <1>4, <2>1, OthersStay
<1>10. \A a \in Action : (config[a] \in Configs[warehouse][a])'
    BY <1>2 DEF IInv, project
<1> QED BY <1>6, <1>7, <1>8, <1>9, <1>10 DEF IInv

\* A step that executes nothing and lets every action go on, or come to nothing.
LEMMA NothingHappens ==
    ASSUME IInv, UNCHANGED <<project, relations, fullRefresh>>,
           \A x \in Action : \/ result'[x] = result[x] /\ plan'[x] = plan[x]
                             \/ ~Over(x) /\ result'[x] \in {"failed", "skipped"}
    PROVE  \A a \in Action : /\ (config[a] \in Configs[warehouse][a])' /\ InputsSettled(a)'
                             /\ Planning(a)' /\ (result[a] = "ok" => Holds(a, Final(a)))'
<1> SUFFICES ASSUME NEW a \in Action
             PROVE  /\ (config[a] \in Configs[warehouse][a])' /\ InputsSettled(a)'
                    /\ Planning(a)' /\ (result[a] = "ok" => Holds(a, Final(a)))'
    OBVIOUS
<1>1. TypeOK /\ InputsSettled(a) /\ Planning(a) /\ (result[a] = "ok" => Holds(a, Final(a)))
    BY DEF IInv
<1>2. UNCHANGED <<warehouse, config, relation, stage>>
    BY DEF project, relations
<1>3. \A x \in Action : result'[x] = "out" <=> result[x] = "out"
    BY DEF Over
<1>4. \A x \in Action : result[x] \in {"out", "ok"} => result'[x] = result[x]
    BY DEF Over
<1>5. InputsSettled(a)'
  <2>1. Dep[a] \subseteq Action
      BY AssumptionTypes
  <2> QED BY <1>1, <1>4, <2>1 DEF InputsSettled, Settled
<1>6. Final(a)' = Final(a)
    BY <1>2 DEF Final, Wanted
<1>7. Planning(a)'
  <2> SUFFICES ASSUME ~Over(a)' PROVE Planning(a)'
      BY DEF Planning
  <2>1. result'[a] = result[a] /\ plan'[a] = plan[a] /\ ~Over(a)
      BY DEF Over
  <2>2. PICK l \in Label : /\ result[a] = "waiting" => ~l.made
                           /\ Fit(l) /\ Holds(a, l)
                           /\ Sound(warehouse, fullRefresh, config[a], plan[a], l, Final(a))
      BY <1>1, <2>1 DEF Planning
  <2>3. plan[a] \in Seq(Statements) /\ plan[a] # <<>>
      BY <1>1, <2>1 DEF TypeOK
  <2>4. Allowed(warehouse, l)
      BY <2>2, <2>3, SoundTail
  <2>5. l.made => result[a] \in {"running", "ok"}
      BY <1>1, <2>1, <2>2 DEF TypeOK, Over, Result
  <2>6. Holds(a, l)'
      BY <1>2, <1>3, <2>2, <2>4, <2>5, NothingExecuted
  <2> QED BY <1>2, <1>6, <2>1, <2>2, <2>6 DEF Planning
<1>8. (result[a] = "ok" => Holds(a, Final(a)))'
  <2> SUFFICES ASSUME result'[a] = "ok" PROVE Holds(a, Final(a))'
      OBVIOUS
  <2>1. result[a] = "ok" /\ Holds(a, Final(a))
      BY <1>1
  <2>2. PICK l \in Label : l = Final(a)
      BY FinalFits
  <2>3. Fit(l) /\ Allowed(warehouse, l) /\ Holds(a, l)
      BY <2>1, <2>2, FinalFits
  <2>4. Holds(a, l)'
      BY <1>2, <1>3, <2>1, <2>3, NothingExecuted
  <2> QED BY <1>6, <2>2, <2>4
<1>9. (config[a] \in Configs[warehouse][a])'
    BY <1>2 DEF IInv
<1> QED BY <1>5, <1>7, <1>8, <1>9

LEMMA SkipStep == ASSUME IInv, NEW b \in Action, Skip(b) PROVE IInv'
<1>1. TypeOK
    BY DEF IInv
<1>2. ~Over(b) /\ plan' = [plan EXCEPT ![b] = <<>>] /\ result' = [result EXCEPT ![b] = "skipped"]
      /\ UNCHANGED <<project, relations, source, fullRefresh, runs, edits>>
    BY DEF Skip, Over
<1>3. TypeOK'
  <2>1. plan' \in [Action -> Seq(Statements)]
      BY <1>1, <1>2, EmptySeq DEF TypeOK
  <2>2. result' \in [Action -> Result]
      BY <1>1, <1>2 DEF TypeOK, Result
  <2>3. \A a \in Action : plan'[a] # <<>> <=> ~Over(a)'
      BY <1>1, <1>2 DEF TypeOK, Over
  <2> QED BY <1>1, <1>2, <2>1, <2>2, <2>3 DEF TypeOK, project, relations
<1>4. \A x \in Action : \/ result'[x] = result[x] /\ plan'[x] = plan[x]
                        \/ ~Over(x) /\ result'[x] \in {"failed", "skipped"}
    BY <1>1, <1>2 DEF TypeOK
<1> QED BY <1>2, <1>3, <1>4, NothingHappens DEF IInv

LEMMA CrashStep == ASSUME IInv, Crash PROVE IInv'
<1>1. TypeOK
    BY DEF IInv
<1>2. /\ plan' = [a \in Action |-> <<>>]
      /\ result' = [a \in Action |-> IF Over(a) THEN result[a] ELSE "failed"]
      /\ UNCHANGED <<project, relations, source, fullRefresh, runs, edits>>
    BY DEF Crash
<1>3. TypeOK'
  <2>1. plan' \in [Action -> Seq(Statements)]
      BY <1>2, EmptySeq
  <2>2. result' \in [Action -> Result]
      BY <1>1, <1>2 DEF TypeOK, Result
  <2>3. \A a \in Action : plan'[a] # <<>> <=> ~Over(a)'
      BY <1>1, <1>2 DEF TypeOK, Over
  <2> QED BY <1>1, <1>2, <2>1, <2>2, <2>3 DEF TypeOK, project, relations
<1>4. \A x \in Action : \/ result'[x] = result[x] /\ plan'[x] = plan[x]
                        \/ ~Over(x) /\ result'[x] \in {"failed", "skipped"}
  <2> SUFFICES ASSUME NEW x \in Action
               PROVE  \/ result'[x] = result[x] /\ plan'[x] = plan[x]
                      \/ ~Over(x) /\ result'[x] \in {"failed", "skipped"}
      OBVIOUS
  <2>1. plan'[x] = <<>> /\ result'[x] = IF Over(x) THEN result[x] ELSE "failed"
      BY <1>2
  <2>2. Over(x) => plan[x] = <<>>
      BY <1>1 DEF TypeOK
  <2> QED BY <2>1, <2>2
<1> QED BY <1>2, <1>3, <1>4, NothingHappens DEF IInv

LEMMA EditStep == ASSUME IInv, NEW b \in Action, Edit(b) PROVE IInv'
<1>1. TypeOK
    BY DEF IInv
<1>2. PICK c \in Configs[warehouse][b] : config' = [config EXCEPT ![b] = c]
    BY DEF Edit
<1>3. /\ Idle /\ edits' = edits + 1 /\ edits < MaxEdits /\ result' = [x \in Action |-> "out"]
      /\ UNCHANGED <<warehouse, relations, source, fullRefresh, plan, runs>>
    BY DEF Edit
<1>4. c \in Config
    BY <1>1, AssumptionTypes DEF TypeOK
<1>5. TypeOK'
  <2>1. config' \in [Action -> Config]
      BY <1>1, <1>2, <1>4 DEF TypeOK
  <2>2. result' \in [Action -> Result]
      BY <1>3 DEF Result
  <2>3. \A a \in Action : plan'[a] # <<>> <=> ~Over(a)'
      BY <1>1, <1>3 DEF TypeOK, Over, Idle
  <2>4. edits' \in 0..MaxEdits
      BY <1>1, <1>3, AssumptionTypes DEF TypeOK
  <2> QED BY <1>1, <1>3, <2>1, <2>2, <2>3, <2>4 DEF TypeOK, relations
<1>6. ASSUME NEW a \in Action
      PROVE  /\ (config[a] \in Configs[warehouse][a])' /\ InputsSettled(a)'
             /\ Planning(a)' /\ result'[a] # "ok"
  <2>1. (config[a] \in Configs[warehouse][a])'
      BY <1>1, <1>2, <1>3 DEF IInv, TypeOK
  <2>2. result'[a] = "out"
      BY <1>3
  <2> QED BY <2>1, <2>2 DEF InputsSettled, Planning, Over
<1> QED BY <1>5, <1>6 DEF IInv

\* The source changes, or nothing does.
LEMMA SourceStep ==
    ASSUME IInv, source' \subseteq Row,
           UNCHANGED <<project, relations, fullRefresh, plan, result, runs, edits>>
    PROVE  IInv'
<1>1. TypeOK
    BY DEF IInv
<1>2. TypeOK'
  <2>1. \A a \in Action : plan'[a] # <<>> <=> ~Over(a)'
      BY <1>1 DEF TypeOK, Over
  <2> QED BY <1>1, <2>1 DEF TypeOK, project, relations
<1> QED BY <1>2, NothingHappens DEF IInv

LEMMA NextIInv == IInv /\ [Next]_vars => IInv'
<1> SUFFICES ASSUME IInv, [Next]_vars PROVE IInv'
    OBVIOUS
<1>1. CASE Build
    BY <1>1, BuildStep
<1>2. CASE Crash
    BY <1>2, CrashStep
<1>3. ASSUME NEW a \in Action, Execute(a) \/ Fail(a) \/ Skip(a) \/ Edit(a) PROVE IInv'
    BY <1>3, ExecuteStep, FailStep, SkipStep, EditStep
<1>4. ASSUME NEW row \in Row, Arrive(row) \/ Expire(row) PROVE IInv'
  <2>1. source' \subseteq Row
      BY <1>4 DEF IInv, TypeOK, Arrive, Expire
  <2> QED BY <1>4, <2>1, SourceStep DEF Arrive, Expire
<1>5. CASE UNCHANGED vars
  <2>1. source' \subseteq Row
      BY <1>5 DEF IInv, TypeOK, vars
  <2> QED BY <1>5, <2>1, SourceStep DEF vars
<1> QED BY <1>1, <1>2, <1>3, <1>4, <1>5 DEF Next

THEOREM Inductive == Spec => []IInv
<1> QED BY InitIInv, NextIInv, PTL DEF Spec

\* What each part of the state is, always.
THEOREM TypeCorrect == Spec => []TypeOK
<1>1. IInv => TypeOK
    BY DEF IInv
<1> QED BY <1>1, Inductive, PTL

-----------------------------------------------------------------------------
(* What follows                                                            *)

\* An action reported SUCCESSFUL has left the kind of relation its definition
\* asks for, but where a drop ... cascade it is not ordered after took it away.
THEOREM BuildsAsConfigured == Spec => []BuiltAsConfigured
<1>1. IInv => BuiltAsConfigured
  <2> SUFFICES ASSUME IInv, NEW a \in Action, result[a] = "ok"
               PROVE  \/ relation[a].kind = Wanted(config[a])
                      \/ warehouse = "postgres" /\ Unordered(a) /\ relation[a].kind = "none"
      BY DEF BuiltAsConfigured
  <2>1. Holds(a, Final(a))
      BY DEF IInv
  <2>2. Final(a).kinds = {Wanted(config[a])} /\ Final(a).made
      BY DEF Final, After
  <2> QED BY <2>1, <2>2 DEF Holds, Exposed
<1> QED BY <1>1, Inductive, PTL

\* A view over relations with rows of their own shows what they hold.
LEMMA ViewShowsInput ==
    ASSUME NEW a \in Action, Live(relation[a].kind), Dep[a] # {},
           \A d \in Dep[a] : ~Live(relation[d].kind)
    PROVE  Content(a) = Input(a)
<1> DEFINE T == {v \in Action : Live(relation[v].kind)}
           S == {a} \cup Dep[a]
<1>1. Dep[a] \subseteq Action
    BY AssumptionTypes
<1>2. ReadThrough(a) = Reach(a, T)
    BY DEF ReadThrough
<1>3. S \in SUBSET Action /\ a \in S /\ \A y \in S \cap T : Dep[y] \subseteq S
    BY <1>1
<1>4. a \in T
    OBVIOUS
<1> HIDE DEF S, T
<1>5. Reach(a, T) \subseteq S
    BY <1>3, ReachIsLeast
<1>6. {a} \cup Dep[a] \subseteq Reach(a, T)
    BY <1>4, ReachIsLeast
<1>7. ReadThrough(a) = {a} \cup Dep[a]
    BY <1>2, <1>5, <1>6 DEF S
<1>8. Rows(a) = {}
    BY DEF Rows
<1>9. \A d \in Dep[a] : Content(d) = Rows(d)
    BY <1>1, RowsOfItsOwn DEF Rows
<1>10. Content(a) = UNION {Rows(x) : x \in ReadThrough(a)}
    BY DEF Content
<1>11. Input(a) = UNION {Content(d) : d \in Dep[a]}
    BY DEF Input
<1>12. ASSUME NEW row PROVE row \in Content(a) <=> row \in Input(a)
    BY <1>7, <1>8, <1>9, <1>10, <1>11
<1> QED BY <1>12

\* An action reported SUCCESSFUL holds what its inputs hold.
THEOREM SuccessMeansUpToDate == Spec => []SuccessIsUpToDate
<1>1. IInv => SuccessIsUpToDate
  <2> SUFFICES ASSUME IInv, NEW a \in Action, result[a] = "ok", Dep[a] # {},
                      \A d \in Dep[a] : ~Live(relation[d].kind),
                      ~(warehouse = "postgres" /\ Unordered(a))
               PROVE  IF config[a].type = "incremental"
                      THEN Input(a) \subseteq Content(a) ELSE Input(a) = Content(a)
      BY DEF SuccessIsUpToDate
  <2>1. Complete(a)
      BY FinalFits DEF IInv, Holds
  <2>2. CASE Live(relation[a].kind)
      BY <2>2, ViewShowsInput
  <2>3. CASE ~Live(relation[a].kind)
      BY <2>1, <2>3, RowsOfItsOwn DEF Complete, Exposed
  <2> QED BY <2>2, <2>3
<1> QED BY <1>1, Inductive, PTL

\* The label of the next statement of an action that may go on.
LEMMA NextStatement ==
    ASSUME IInv, NEW a \in Action, Ready(a)
    PROVE  /\ Statement(a) \in Statements
           /\ \E l, m \in Label :
                /\ Fit(l) /\ Holds(a, l)
                /\ Leads(warehouse, fullRefresh, config[a], l, Statement(a), m)
<1>1. ~Over(a)
    BY DEF Ready, Over
<1>2. PICK l \in Label : /\ Fit(l) /\ Holds(a, l)
                         /\ Sound(warehouse, fullRefresh, config[a], plan[a], l, Final(a))
    BY <1>1 DEF IInv, Planning
<1>3. plan[a] \in Seq(Statements) /\ plan[a] # <<>>
    BY <1>1 DEF IInv, TypeOK
<1> QED BY <1>2, <1>3, SoundTail DEF Statement

\* An input that cannot be read is one the run did not make, or not in order.
LEMMA UnreadableInput ==
    ASSUME IInv, NEW a \in Action, ~(Dep[a] \subseteq Readable)
    PROVE  InputMissing(a)
<1>1. PICK d \in Dep[a] : d \notin Readable
    OBVIOUS
<1>2. d \in Action
    BY AssumptionTypes
<1>3. result[d] = "ok" => Complete(d)
    BY <1>2, FinalFits DEF IInv, Holds
<1> QED BY <1>1, <1>3 DEF Complete, InputMissing

\* What a failure or an edit leaves behind stops no run, in all but the cases
\* RerunRepairs names.
THEOREM RerunsRepair == Spec => []RerunRepairs
<1>1. IInv => RerunRepairs
  <2> SUFFICES ASSUME IInv, NEW a \in Action, Ready(a), Rejected(a, Statement(a)),
                      ~ChangedKind(a), ~InputMissing(a)
               PROVE  LeftWithoutKey(a) \/ DroppedByCascade(a) \/ ReadByViews(a)
      BY DEF RerunRepairs
  <2> DEFINE k == relation[a].kind
             w == warehouse
             c == config[a]
             s == Statement(a)
  <2>1. PICK l \in Label, m \in Label :
            Fit(l) /\ Holds(a, l) /\ Leads(w, fullRefresh, c, l, s, m)
      BY NextStatement
  <2>2. \/ k \in l.kinds
        \/ l.made /\ Exposed(a) /\ k = "none" /\ "table" \notin l.kinds
      BY <2>1 DEF Holds
  <2>3. Dep[a] \subseteq Readable
      BY UnreadableInput
  <2>4. CASE DropLeads(w, fullRefresh, c, l, s, m)
      BY <2>2, <2>4 DEF DropLeads, Rejected, Reads
  <2>5. CASE LoadLeads(c, l, s, m)
    <3>1. CASE s.op = "dropFound"
        BY <2>5, <3>1 DEF LoadLeads, Rejected, Reads, ChangedKind
    <3>2. CASE s.op = "dropUnread"
        BY <2>5, <3>2 DEF LoadLeads, Rejected, Reads, ChangedKind, ReadByViews
    <3>3. CASE s.op = "loadInto"
        BY <2>2, <2>3, <2>5, <3>3 DEF LoadLeads, Rejected
    <3>4. CASE s.op = "page"
        BY <2>2, <2>5, <3>4 DEF LoadLeads, Rejected, Reads
    <3> QED BY <2>5, <3>1, <3>2, <3>3, <3>4 DEF LoadLeads
  <2>6. CASE CreateLeads(w, fullRefresh, c, l, s, m)
    <3>1. CASE s.op \in {"create", "createEmpty"}
        BY <2>2, <2>3, <2>6, <3>1 DEF CreateLeads, Rejected
    <3>2. CASE s.op = "replace"
        BY <2>2, <2>3, <2>6, <3>2 DEF CreateLeads, Rejected
    <3>3. CASE s.op = "refresh"
        BY <2>2, <2>3, <2>6, <3>3 DEF CreateLeads, Rejected, DroppedByCascade
    <3> QED BY <2>6, <3>1, <3>2, <3>3 DEF CreateLeads
  <2>7. CASE InsertLeads(w, c, l, s, m)
    <3>1. CASE k = "table"
        BY <2>3, <2>7, <3>1 DEF InsertLeads, Rejected, LeftWithoutKey
    <3>2. CASE k # "table"
        BY <2>2, <2>3, <2>7, <3>2 DEF InsertLeads, Rejected, DroppedByCascade, Exposed
    <3> QED BY <3>1, <3>2
  <2>8. CASE SettleLeads(l, s, m)
    <3>1. CASE s.op = "keyIndex"
        BY <2>2, <2>8, <3>1 DEF SettleLeads, Rejected, Reads
    <3>2. CASE s.op = "settings"
        BY <2>2, <2>8, <3>2 DEF SettleLeads, Rejected, Reads, DroppedByCascade, Exposed
    <3>3. CASE s.op = "createStage"
        BY <2>1, <2>3, <2>8, <3>3 DEF SettleLeads, Holds, Rejected
    <3>4. CASE s.op = "dropStage"
        BY <2>8, <3>4 DEF Rejected, Reads
    <3> QED BY <2>8, <3>1, <3>2, <3>3, <3>4 DEF SettleLeads
  <2> QED BY <2>1, <2>4, <2>5, <2>6, <2>7, <2>8 DEF Leads
<1> QED BY <1>1, Inductive, PTL

\* A statement of the action itself.
LEMMA OwnStatementKeeps ==
    ASSUME IInv, NEW a \in Action, Ready(a), Effect(a, Statement(a)), Kept(a),
           NEW row \in relation[a].rows
    PROVE  row \in relation'[a].rows \/ Replaced(a, row)
<1> DEFINE w == warehouse
           c == config[a]
           s == Statement(a)
<1>1. relation \in [Action -> Relation] /\ relation[a] \in Relation
    BY DEF IInv, TypeOK
<1>2. relation[a].kind = "table" /\ c.type = "incremental" /\ Keeping(w, fullRefresh, c)
    BY DEF Kept, Keeping
<1>3. PICK l \in Label, m \in Label : Holds(a, l) /\ Leads(w, fullRefresh, c, l, s, m)
    BY NextStatement
<1>4. "table" \in l.kinds
  <2>1. ~ChangedKind(a)
      BY <1>2 DEF ChangedKind, Wanted
  <2> QED BY <1>2, <1>3, <2>1 DEF Holds
<1>5. ASSUME relation'[a].rows = relation[a].rows \/ relation[a].rows \subseteq relation'[a].rows
      PROVE  row \in relation'[a].rows
    BY <1>5
<1>6. CASE DropLeads(w, fullRefresh, c, l, s, m)
  <2>1. s.op = "drop" /\ s.kind # "table"
      BY <1>2, <1>4, <1>6 DEF DropLeads, InTheWay
  <2>2. relation' = [x \in Action |-> IF x \in {} THEN Missing ELSE relation[x]]
      BY <1>2, <2>1 DEF Effect, Remove
  <2> QED BY <1>5, <2>2
<1>7. CASE LoadLeads(c, l, s, m)
    BY <1>2, <1>4, <1>7 DEF LoadLeads
<1>8. CASE CreateLeads(w, fullRefresh, c, l, s, m)
    BY <1>2, <1>4, <1>8 DEF CreateLeads
<1>9. CASE InsertLeads(w, c, l, s, m)
  <2>1. s.op \in {"insert", "upsert", "overwrite"}
      BY <1>9 DEF InsertLeads
  <2>2. CASE s.op = "overwrite"
    <3>1. relation' = [relation EXCEPT ![a] = [relation[a] EXCEPT
                !.rows = {r \in @ : ~Replaced(a, r)} \cup Input(a)]]
        BY <2>2 DEF Effect, Put
    <3>2. relation'[a].rows = {r \in relation[a].rows : ~Replaced(a, r)} \cup Input(a)
        BY <1>1, <3>1 DEF Relation
    <3> QED BY <3>2
  <2>3. CASE s.op # "overwrite"
    <3>1. relation' = [relation EXCEPT ![a] = [relation[a] EXCEPT !.rows = @ \cup Input(a)]]
        BY <2>1, <2>3 DEF Effect, Put
    <3>2. relation'[a].rows = relation[a].rows \cup Input(a)
        BY <1>1, <3>1 DEF Relation
    <3> QED BY <3>2
  <2> QED BY <2>2, <2>3
<1>10. CASE SettleLeads(l, s, m)
  <2>1. CASE s.op \in {"keyIndex", "settings"}
    <3>1. \/ relation' = [relation EXCEPT ![a] = [relation[a] EXCEPT !.keyIndex = TRUE]]
          \/ relation' = [relation EXCEPT ![a] = [relation[a] EXCEPT !.settings = TRUE]]
        BY <2>1 DEF Effect, Put
    <3> QED BY <1>1, <1>5, <3>1 DEF Relation
  <2>2. CASE s.op \in {"createStage", "dropStage"}
      BY <1>5, <2>2 DEF Effect
  <2> QED BY <1>10, <2>1, <2>2 DEF SettleLeads
<1> QED BY <1>3, <1>6, <1>7, <1>8, <1>9, <1>10 DEF Leads

\* An incremental table loses no row but those an overwriting statement of its
\* own replaces, in no step of any action, unless a full refresh may rebuild it.
THEOREM HistoryIsKept == Spec => KeepsHistory
<1> DEFINE Keeps == \A a \in Action : Kept(a) =>
                \A row \in relation[a].rows : row \in relation'[a].rows \/ Replaced(a, row)
<1>1. IInv /\ [Next]_vars => Keeps
  <2> SUFFICES ASSUME IInv, [Next]_vars, NEW a \in Action, Kept(a),
                      NEW row \in relation[a].rows
               PROVE  row \in relation'[a].rows \/ Replaced(a, row)
      OBVIOUS
  <2>1. CASE UNCHANGED relations
      BY <2>1 DEF relations
  <2>2. ASSUME NEW b \in Action, Ready(b), Effect(b, Statement(b))
        PROVE  row \in relation'[a].rows \/ Replaced(a, row)
    <3>1. CASE a = b
        BY <2>2, <3>1, OwnStatementKeeps
    <3>2. CASE a # b
      <4>1. OthersKeep(b)
          BY <2>2, NextStatement, EffectOnOthers DEF IInv
      <4>2. a \notin Readers(b)
        <5>1. a \notin Views
            BY DEF Kept, Views
        <5> QED BY <3>2, <5>1, ReachAlone DEF Readers
      <4>3. relation'[a] = relation[a]
          BY <3>2, <4>1, <4>2 DEF OthersKeep
      <4> QED BY <4>3
    <3> QED BY <3>1, <3>2
  <2>3. CASE \E b \in Action : Execute(b) \/ Fail(b)
      BY <2>1, <2>2, <2>3 DEF Execute, Fail
  <2>4. CASE Build \/ Crash \/ UNCHANGED vars
      BY <2>1, <2>4 DEF Build, Crash, vars
  <2>5. CASE \E b \in Action : Skip(b) \/ Edit(b)
      BY <2>1, <2>5 DEF Skip, Edit
  <2>6. CASE \E r \in Row : Arrive(r) \/ Expire(r)
      BY <2>1, <2>6 DEF Arrive, Expire
  <2> QED BY <2>3, <2>4, <2>5, <2>6 DEF Next
<1> QED BY <1>1, Inductive, PTL DEF Spec, KeepsHistory
=============================================================================
