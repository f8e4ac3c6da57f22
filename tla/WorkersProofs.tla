--------------------------- MODULE WorkersProofs -----------------------------
(***************************************************************************)
(* What holds of Workers for every job, every project, every set of bodies *)
(* and any number of database requests; before that, what holds of every   *)
(* project's files, whatever its links and ignore files: where links lead, *)
(* what is reached through them, and that the temporary copy has all that  *)
(* the compiler lists.                                                     *)
(***************************************************************************)
EXTENDS Workers, Induction, SequenceTheorems

-----------------------------------------------------------------------------
(* Paths                                                                   *)

LEMMA PrefixIs ==
    ASSUME NEW p \in Path, NEW i \in 1 .. Len(p)
    PROVE  /\ SubSeq(p, 1, i) \in Path \ {<< >>} /\ Len(SubSeq(p, 1, i)) = i
           /\ \A j \in 1 .. i : SubSeq(p, 1, i)[j] = p[j]
<1>1. i \in Nat /\ i <= Len(p) /\ Len(p) \in Nat
  BY DEF Path
<1>2. /\ SubSeq(p, 1, i) \in Seq(STRING) /\ Len(SubSeq(p, 1, i)) = i
      /\ \A j \in 1 .. i : SubSeq(p, 1, i)[j] = p[j]
  BY <1>1 DEF Path
<1>3. SubSeq(p, 1, i) # << >>
  BY <1>1, <1>2
<1> QED
  BY <1>2, <1>3 DEF Path

LEMMA PrefixFacts ==
    ASSUME NEW p \in Path \ {<< >>}
    PROVE  /\ p \in Prefixes(p) /\ Prefixes(p) \subseteq Path \ {<< >>}
           /\ Parent(p) \in Path /\ (Parent(p) # << >> => Parent(p) \in Prefixes(p))
           /\ \A q \in Prefixes(p) :
                /\ Prefixes(q) \subseteq Prefixes(p)
                /\ q[1] = p[1] /\ Names(q) \subseteq Names(p)
                /\ Names(Tail(q)) \subseteq Names(Tail(p))
                /\ p \in Prefixes(q) => q = p
<1>1. p \in Path /\ Len(p) \in Nat \ {0} /\ p \in Seq(STRING)
  BY EmptySeq DEF Path
<1>2. SubSeq(p, 1, Len(p)) = p /\ Len(p) \in 1 .. Len(p)
  BY <1>1
<1>3. p \in Prefixes(p) /\ Prefixes(p) \subseteq Path \ {<< >>}
  <2>1. p \in Prefixes(p)
    BY <1>2 DEF Prefixes
  <2>2. ASSUME NEW q \in Prefixes(p) PROVE q \in Path \ {<< >>}
    <3>1. PICK i \in 1 .. Len(p) : q = SubSeq(p, 1, i)
      BY DEF Prefixes
    <3> QED
      BY <1>1, <3>1, PrefixIs
  <2> QED
    BY <2>1, <2>2
<1>4. Parent(p) \in Path /\ (Parent(p) # << >> => Parent(p) \in Prefixes(p))
  <2>1. CASE Len(p) = 1
    BY <1>1, <2>1 DEF Parent, Path
  <2>2. CASE Len(p) # 1
    <3> DEFINE n == Len(p)
    <3>1. n \in Nat /\ n # 0 /\ n # 1
      BY <1>1, <2>2
    <3> HIDE DEF n
    <3>2. n - 1 \in 1 .. n
      BY <3>1
    <3>3. SubSeq(p, 1, n - 1) \in Path
      BY <1>1, <3>2, PrefixIs DEF n
    <3> QED
      BY <3>2, <3>3 DEF n, Parent, Prefixes
  <2> QED
    BY <2>1, <2>2
<1>5. ASSUME NEW q \in Prefixes(p)
      PROVE  /\ Prefixes(q) \subseteq Prefixes(p)
             /\ q[1] = p[1] /\ Names(q) \subseteq Names(p)
             /\ Names(Tail(q)) \subseteq Names(Tail(p))
             /\ p \in Prefixes(q) => q = p
  <2>1. PICK i \in 1 .. Len(p) : q = SubSeq(p, 1, i)
    BY DEF Prefixes
  <2>2. q \in Seq(STRING) /\ Len(q) = i /\ \A j \in 1 .. i : q[j] = p[j]
    BY <1>1, <2>1, PrefixIs DEF Path
  <2>3. ASSUME NEW k \in 1 .. i PROVE SubSeq(q, 1, k) = SubSeq(p, 1, k)
    <3>1. /\ SubSeq(q, 1, k) \in Seq(STRING) /\ Len(SubSeq(q, 1, k)) = k
          /\ \A j \in 1 .. k : SubSeq(q, 1, k)[j] = q[j]
      BY <2>2, PrefixIs DEF Path
    <3>2. /\ SubSeq(p, 1, k) \in Seq(STRING) /\ Len(SubSeq(p, 1, k)) = k
          /\ \A j \in 1 .. k : SubSeq(p, 1, k)[j] = p[j]
      BY <1>1, PrefixIs DEF Path
    <3> QED
      BY <2>2, <3>1, <3>2, SeqEqual
  <2>4. Prefixes(q) \subseteq Prefixes(p)
    BY <1>1, <2>2, <2>3 DEF Prefixes
  <2>5. q[1] = p[1] /\ Names(q) \subseteq Names(p)
    BY <1>1, <2>2 DEF Names
  <2>6. Names(Tail(q)) \subseteq Names(Tail(p))
    <3>1. /\ Len(Tail(q)) = i - 1 /\ Len(Tail(p)) = Len(p) - 1
          /\ \A j \in 1 .. (i - 1) : Tail(q)[j] = q[j + 1]
          /\ \A j \in 1 .. (Len(p) - 1) : Tail(p)[j] = p[j + 1]
      BY <1>1, <2>2
    <3>2. ASSUME NEW j \in 1 .. (i - 1) PROVE Tail(q)[j] = Tail(p)[j] /\ j \in 1 .. (Len(p) - 1)
      BY <1>1, <2>2, <3>1
    <3> QED
      BY <3>1, <3>2 DEF Names
  <2>7. ASSUME p \in Prefixes(q) PROVE q = p
    <3>1. PICK k \in 1 .. i : p = SubSeq(q, 1, k)
      BY <2>2, <2>7 DEF Prefixes
    <3>2. Len(p) = k
      BY <2>2, <3>1, PrefixIs DEF Path
    <3>3. i = Len(p)
      BY <1>1, <3>2
    <3> QED
      BY <1>2, <2>1, <3>3
  <2> QED
    BY <2>4, <2>5, <2>6, <2>7
<1> QED
  BY <1>3, <1>4, <1>5

-----------------------------------------------------------------------------
(* Where links lead                                                        *)

Outside  == {p \in Path : IsOutside(p)}
Spots(t) ==
    {s \in [at : All(t) \cup {Nowhere} \cup Outside, through : SUBSET Path] :
        IsOutside(s.at) => s.at \in s.through}

\* Sequences of one element, and of one more.
LEMMA OneIs ==
    ASSUME NEW S, NEW e \in S
    PROVE  <<e>> \in Seq(S) /\ <<e>> # << >> /\ Len(<<e>>) = 1 /\ <<e>>[1] = e
<1>1. <<e>> \in Seq(S)
  OBVIOUS
<1>2. Len(<<e>>) = 1 /\ <<e>>[1] = e
  OBVIOUS
<1>3. <<e>> # << >>
  BY <1>2, EmptySeq
<1> QED
  BY <1>1, <1>2, <1>3

LEMMA OneMoreIs ==
    ASSUME NEW S, NEW p \in Seq(S), NEW e \in S
    PROVE  /\ Append(p, e) \in Seq(S) /\ Append(p, e) # << >>
           /\ Len(Append(p, e)) = Len(p) + 1 /\ Len(p) \in Nat
           /\ Append(p, e)[Len(p) + 1] = e
           /\ \A i \in 1 .. Len(p) : Append(p, e)[i] = p[i]
<1>1. Append(p, e) \in Seq(S) /\ Append(p, e) # << >> /\ Len(Append(p, e)) = Len(p) + 1
  BY AppendProperties
<1>2. Append(p, e)[Len(p) + 1] = e
  OBVIOUS
<1>3. \A i \in 1 .. Len(p) : Append(p, e)[i] = p[i]
  OBVIOUS
<1>4. Len(p) \in Nat
  OBVIOUS
<1> QED
  BY <1>1, <1>2, <1>3, <1>4

LEMMA NameFacts ==
    /\ \A name \in STRING :
          <<name>> \in Seq(STRING) /\ <<name>> # << >> /\ Len(<<name>>) = 1 /\ <<name>>[1] = name
    /\ \A p \in Seq(STRING), name \in STRING :
          /\ Append(p, name) \in Seq(STRING) /\ Append(p, name) # << >>
          /\ Len(Append(p, name)) = Len(p) + 1 /\ Len(p) \in Nat
          /\ Append(p, name)[Len(p) + 1] = name
          /\ \A i \in 1 .. Len(p) : Append(p, name)[i] = p[i]
<1> DEFINE S == STRING
<1> HIDE DEF S
<1>1. ASSUME NEW name \in S
      PROVE  <<name>> \in Seq(S) /\ <<name>> # << >> /\ Len(<<name>>) = 1 /\ <<name>>[1] = name
  BY OneIs
<1>2. ASSUME NEW p \in Seq(S), NEW name \in S
      PROVE  /\ Append(p, name) \in Seq(S) /\ Append(p, name) # << >>
             /\ Len(Append(p, name)) = Len(p) + 1 /\ Len(p) \in Nat
             /\ Append(p, name)[Len(p) + 1] = name
             /\ \A i \in 1 .. Len(p) : Append(p, name)[i] = p[i]
  BY OneMoreIs
<1> QED
  BY <1>1, <1>2 DEF S

LEMMA RootIs == Root \in Seq(STRING) /\ Root # << >> /\ Len(Root) = 1 /\ Root[1] = "/"
<1>1. {"/"} \subseteq STRING \cap {"/"}
  BY Zenon
<1>2. "/" \in STRING
  BY <1>1
<1> QED
  BY <1>2, NameFacts DEF Root

LEMMA OutsideFacts ==
    /\ Root \in Outside
    /\ \A p \in Outside : p \in Path \ {<< >>} /\ (p # Root => Parent(p) \in Outside)
    /\ \A p \in Outside, q \in Path : p \o q \in Outside
    /\ \A p \in Outside, name \in STRING : Append(p, name) \in Outside
<1>1. Root \in Outside
  BY RootIs DEF Outside, Path, IsOutside
<1>2. ASSUME NEW p \in Outside
      PROVE  p \in Seq(STRING) /\ p # << >> /\ p[1] = "/" /\ Len(p) \in Nat /\ Len(p) >= 1
  <2>1. p \in Seq(STRING) /\ p # << >> /\ p[1] = "/"
    BY DEF Outside, Path, IsOutside
  <2> QED
    BY <2>1, EmptySeq
<1>3. ASSUME NEW p \in Outside, p # Root PROVE Parent(p) \in Outside
  <2>1. Len(p) # 1
    <3> SUFFICES ASSUME Len(p) = 1 PROVE p = Root
      BY <1>3
    <3>1. \A i \in 1 .. Len(p) : p[i] = Root[i]
      BY <1>2, RootIs
    <3> QED
      BY <1>2, <3>1, RootIs, SeqEqual
  <2>2. Len(p) - 1 \in 1 .. Len(p) /\ 1 \in 1 .. Len(p) - 1
    <3> DEFINE n == Len(p)
    <3>1. n \in Nat /\ n >= 1 /\ n # 1
      BY <1>2, <2>1
    <3> HIDE DEF n
    <3>2. n - 1 \in 1 .. n /\ 1 \in 1 .. n - 1
      BY <3>1
    <3> QED
      BY <3>2 DEF n
  <2>3. p \in Path
    BY <1>2 DEF Path
  <2>4. /\ SubSeq(p, 1, Len(p) - 1) \in Path \ {<< >>}
        /\ \A j \in 1 .. Len(p) - 1 : SubSeq(p, 1, Len(p) - 1)[j] = p[j]
    BY <2>2, <2>3, PrefixIs
  <2> QED
    BY <1>2, <2>2, <2>4 DEF Parent, Outside, IsOutside
<1>4. ASSUME NEW p \in Outside, NEW q \in Path PROVE p \o q \in Outside
  <2>1. q \in Seq(STRING) /\ Len(q) \in Nat
    BY DEF Path
  <2>2. p \o q \in Seq(STRING) /\ Len(p \o q) = Len(p) + Len(q) /\ (p \o q)[1] = p[1]
    BY <1>2, <2>1
  <2>3. p \o q # << >>
    BY <1>2, <2>1, <2>2
  <2> QED
    BY <1>2, <2>2, <2>3 DEF Outside, IsOutside, Path
<1>5. ASSUME NEW p \in Outside, NEW name \in STRING PROVE Append(p, name) \in Outside
  <2>1. 1 \in 1 .. Len(p)
    BY <1>2
  <2>2. Append(p, name) \in Seq(STRING) \ {<< >>} /\ Append(p, name)[1] = p[1]
    BY <1>2, <2>1, NameFacts
  <2> QED
    BY <1>2, <2>2 DEF Outside, IsOutside, Path
<1> QED
  BY <1>1, <1>2, <1>3, <1>4, <1>5 DEF Path

LEMMA TreeFacts ==
    ASSUME NEW t, IsTree(t)
    PROVE  /\ All(t) \subseteq Path /\ Nowhere \notin All(t) /\ ~IsOutside(Nowhere)
           /\ \A p \in Entries(t) : p \in Path \ {<< >>} /\ Parent(p) \in All(t)
           /\ \A p \in All(t) : ~IsOutside(p)
           /\ \A p \in Links(t) : p \in Entries(t) /\ t.to[p] \in Path
           /\ t.at \in Outside \ {Root} /\ t.around \subseteq Outside
           /\ Dangling \in Spots(t)
<1>1. << >> \in Path /\ ~IsOutside(<< >>)
  BY DEF Path, IsOutside
<1>2. ~IsOutside(Nowhere) /\ Nowhere # << >>
  BY DEF Nowhere, IsOutside
<1>3. All(t) \subseteq Path /\ Nowhere \notin All(t) /\ \A p \in All(t) : ~IsOutside(p)
  BY <1>1, <1>2 DEF IsTree, All
<1>4. \A p \in Entries(t) : p \in Path \ {<< >>} /\ Parent(p) \in All(t)
  BY DEF IsTree, All, IsDir
<1>5. \A p \in Links(t) : p \in Entries(t) /\ t.to[p] \in Path
  BY DEF IsTree, Links
<1>6. t.at \in Outside \ {Root} /\ t.around \subseteq Outside
  BY DEF IsTree, Outside
<1>7. Dangling \in Spots(t)
  BY <1>2 DEF Dangling, Spots
<1> QED
  BY <1>2, <1>3, <1>4, <1>5, <1>6, <1>7

\* Where a name leads from a place, before links are followed.
LEMMA StepFacts ==
    ASSUME NEW t, IsTree(t), NEW name \in STRING
    PROVE  /\ \A p \in All(t) \cup Outside : Up(t, p) \in All(t) \cup Outside
           /\ \A p \in Outside : Up(t, p) \in Outside
           /\ Up(t, << >>) \in Outside
           /\ \A p \in Entries(t) : Up(t, p) = Parent(p)
           /\ \A p \in All(t) \cup Outside : Down(t, p, name) \in Path
           /\ \A p \in All(t) : name # "/" =>
                 /\ Down(t, p, name) = Append(p, name)
                 /\ Append(p, name) # << >> /\ ~IsOutside(Append(p, name))
           /\ \A p \in Outside : name # t.at[Len(t.at)] => Down(t, p, name) \in Outside
<1>1. ASSUME NEW p \in Outside PROVE Up(t, p) \in Outside
  BY OutsideFacts DEF Up
<1>2. Up(t, << >>) \in Outside
  BY OutsideFacts, TreeFacts DEF Up
<1>3. ASSUME NEW p \in Entries(t) PROVE Up(t, p) = Parent(p) /\ Parent(p) \in All(t)
  <2>1. p # << >> /\ ~IsOutside(p) /\ Parent(p) \in All(t)
    BY TreeFacts DEF All
  <2>2. p # Root
    BY <2>1 DEF Root, IsOutside
  <2> QED
    BY <2>1, <2>2 DEF Up
<1>4. ASSUME NEW p \in All(t) \cup Outside PROVE Append(p, name) \in Path /\ Down(t, p, name) \in Path
  <2>1. p \in Path /\ << >> \in Path
    BY TreeFacts, OutsideFacts DEF All
  <2>2. Append(p, name) \in Path
    BY <2>1, NameFacts DEF Path
  <2> QED
    BY <2>1, <2>2 DEF Down
<1>5. ASSUME NEW p \in All(t), name # "/"
      PROVE  /\ Down(t, p, name) = Append(p, name)
             /\ Append(p, name) # << >> /\ ~IsOutside(Append(p, name))
  <2>1. p \in Seq(STRING) /\ ~IsOutside(p)
    BY TreeFacts DEF Path
  <2>2. /\ Append(p, name) # << >>
        /\ Append(p, name)[Len(p) + 1] = name
        /\ \A i \in 1 .. Len(p) : Append(p, name)[i] = p[i]
    BY <2>1, NameFacts
  <2>4. ~IsOutside(Append(p, name))
    <3>1. CASE p = << >>
      <4>1. Len(p) + 1 = 1
        BY <3>1, EmptySeq
      <4> QED
        BY <1>5, <2>2, <4>1 DEF IsOutside
    <3>2. CASE p # << >>
      <4>1. p[1] # "/"
        BY <2>1, <3>2 DEF IsOutside
      <4>2. 1 \in 1 .. Len(p)
        BY <2>1, <3>2, EmptySeq
      <4> QED
        BY <2>2, <4>1, <4>2 DEF IsOutside
    <3> QED
      BY <3>1, <3>2
  <2>5. Append(p, name) # t.at
    BY <2>4, TreeFacts DEF Outside
  <2> QED
    BY <2>2, <2>4, <2>5 DEF Down
<1>6. ASSUME NEW p \in Outside, name # t.at[Len(t.at)] PROVE Down(t, p, name) \in Outside
  <2>1. Append(p, name)[Len(Append(p, name))] = name
    <3>1. p \in Seq(STRING)
      BY DEF Outside, Path
    <3>2. Len(Append(p, name)) = Len(p) + 1 /\ Append(p, name)[Len(p) + 1] = name
      BY <3>1, NameFacts
    <3> QED
      BY <3>2
  <2>2. Append(p, name) # t.at
    BY <1>6, <2>1
  <2> QED
    BY <2>2, OutsideFacts DEF Down
<1>7. ASSUME NEW p \in All(t) \cup Outside PROVE Up(t, p) \in All(t) \cup Outside
  BY <1>1, <1>2, <1>3 DEF All
<1> QED
  BY <1>1, <1>2, <1>3, <1>4, <1>5, <1>6, <1>7

\* The two ways a name goes on.
LEMMA FurtherIs ==
    ASSUME NEW t, NEW led, NEW here, NEW name, here.at # Nowhere
    PROVE  /\ name \in {"/", ".."} =>
                Further(t, led, here, name) =
                   [at      |-> Above(t, here, name),
                    through |-> here.through \cup {p \in {Above(t, here, name)} : IsOutside(p)}]
           /\ name \notin {"/", ".."} =>
                Further(t, led, here, name) =
                   [at      |-> End(t, led, Down(t, here.at, name)).at,
                    through |-> here.through \cup {Down(t, here.at, name)}
                                  \cup End(t, led, Down(t, here.at, name)).through]
  BY DEF Further, Above, End

LEMMA EndLeads ==
    ASSUME NEW t, IsTree(t), NEW led \in [Links(t) -> Spots(t)], NEW next \in Path
    PROVE  /\ End(t, led, next).at \in All(t) \cup {Nowhere} \cup Outside
           /\ End(t, led, next).through \in SUBSET Path
           /\ IsOutside(End(t, led, next).at) => End(t, led, next).at \in End(t, led, next).through \cup {next}
<1>1. CASE IsLink(t, next)
  <2>1. next \in Links(t)
    BY <1>1 DEF Links, IsLink
  <2>2. End(t, led, next) \in Spots(t)
    BY <1>1, <2>1 DEF End
  <2> QED
    BY <2>2 DEF Spots
<1>2. CASE ~IsLink(t, next) /\ next \in All(t) \cup t.around
  <2>1. End(t, led, next) = [at |-> next, through |-> {}]
    BY <1>2 DEF End
  <2> QED
    BY <1>2, <2>1, TreeFacts
<1>3. CASE ~IsLink(t, next) /\ next \notin All(t) \cup t.around
  <2>1. End(t, led, next) = Dangling
    BY <1>3 DEF End
  <2> QED
    BY <2>1, TreeFacts DEF Spots
<1> QED
  BY <1>1, <1>2, <1>3

LEMMA FurtherLeads ==
    ASSUME NEW t, IsTree(t), NEW led \in [Links(t) -> Spots(t)],
           NEW here \in Spots(t), NEW name \in STRING
    PROVE  /\ Further(t, led, here, name) \in Spots(t)
           /\ here.through \subseteq Further(t, led, here, name).through
<1> DEFINE there == Further(t, led, here, name)
<1>0. here.at \in All(t) \cup {Nowhere} \cup Outside /\ here.through \in SUBSET Path
  BY DEF Spots
<1>1. CASE here.at = Nowhere
  <2>1. there = here
    BY <1>1 DEF Further
  <2> QED
    BY <2>1
<1>2. CASE here.at # Nowhere /\ name \in {"/", ".."}
  <2> DEFINE above == Above(t, here, name)
  <2>1. there = [at |-> above, through |-> here.through \cup {p \in {above} : IsOutside(p)}]
    BY <1>2, FurtherIs
  <2>2. above \in All(t) \cup Outside
    BY <1>0, <1>2, StepFacts, OutsideFacts DEF Above
  <2>3. above \in Path
    BY <2>2, TreeFacts, OutsideFacts
  <2> HIDE DEF above, there
  <2>4. there.at = above /\ there.through = here.through \cup {p \in {above} : IsOutside(p)}
    BY <2>1
  <2>5. there \in [at : All(t) \cup {Nowhere} \cup Outside, through : SUBSET Path]
    BY <1>0, <2>1, <2>2, <2>3
  <2>6. there \in Spots(t) /\ here.through \subseteq there.through
    BY <2>4, <2>5 DEF Spots
  <2> QED
    BY <2>6 DEF there
<1>3. CASE here.at # Nowhere /\ name \notin {"/", ".."}
  <2> DEFINE next == Down(t, here.at, name)
             end  == End(t, led, next)
  <2>1. there = [at |-> end.at, through |-> here.through \cup {next} \cup end.through]
    BY <1>3, FurtherIs
  <2>2. next \in Path
    BY <1>0, <1>3, StepFacts
  <2> HIDE DEF next
  <2>3. /\ end.at \in All(t) \cup {Nowhere} \cup Outside /\ end.through \in SUBSET Path
        /\ IsOutside(end.at) => end.at \in end.through \cup {next}
    BY <2>2, EndLeads
  <2> HIDE DEF end, there
  <2>4. there.at = end.at /\ there.through = here.through \cup {next} \cup end.through
    BY <2>1
  <2>5. there \in [at : All(t) \cup {Nowhere} \cup Outside, through : SUBSET Path]
    BY <1>0, <2>1, <2>2, <2>3
  <2>6. there \in Spots(t) /\ here.through \subseteq there.through
    BY <2>3, <2>4, <2>5 DEF Spots
  <2> QED
    BY <2>6 DEF there
<1> QED
  BY <1>1, <1>2, <1>3

\* The walk along names, place by place.
WalkPlaces(t, led, from, names, walk) ==
    /\ walk[0] = [at |-> from, through |-> {}]
    /\ \A i \in 1 .. Len(names) : walk[i] = Further(t, led, walk[i - 1], names[i])

LEMMA WalkLeads ==
    ASSUME NEW t, IsTree(t), NEW led \in [Links(t) -> Spots(t)],
           NEW from \in All(t), NEW names \in Path
    PROVE  /\ \E walk \in [0 .. Len(names) -> Spots(t)] :
                WalkPlaces(t, led, from, names, walk) /\ Walk(t, led, from, names) = walk[Len(names)]
           /\ Walk(t, led, from, names) \in Spots(t)
<1> DEFINE N == Len(names)
           start == [at |-> from, through |-> {}]
           S == Spots(t)
           F == [x \in (1 .. N) \X S |-> Further(t, led, x[2], names[x[1]])]
           walk[i \in 0 .. N] == IF i = 0 THEN start ELSE Further(t, led, walk[i - 1], names[i])
<1>1. N \in Nat /\ \A i \in 1 .. N : names[i] \in STRING
  BY DEF Path
<1>2. start \in S
  <2>1. start.at = from /\ start \in [at : All(t) \cup {Nowhere} \cup Outside, through : SUBSET Path]
    OBVIOUS
  <2>2. ~IsOutside(from)
    BY TreeFacts
  <2> QED
    BY <2>1, <2>2 DEF Spots
<1>3. F \in [(1 .. N) \X S -> S]
  <2>1. ASSUME NEW i \in 1 .. N, NEW here \in S PROVE Further(t, led, here, names[i]) \in S
    BY <1>1, FurtherLeads
  <2> HIDE DEF S, N
  <2> QED
    BY <2>1
<1> HIDE DEF N, start, S, F, walk
<1>4. PICK f \in [0 .. N -> S] : f[0] = start /\ \A i \in 1 .. N : f[i] = F[<<i, f[i - 1]>>]
  <2>1. From(start, F, N, S) # {}
    BY <1>1, <1>2, <1>3, ByRecursion
  <2> QED
    BY <2>1 DEF From
<1>5. ASSUME NEW i \in 1 .. N
      PROVE  i - 1 \in 0 .. N /\ i \in 0 .. N /\ i # 0 /\ f[i] = Further(t, led, f[i - 1], names[i])
  <2>1. i - 1 \in 0 .. N /\ i \in 0 .. N /\ i # 0
    BY <1>1
  <2>2. f[i - 1] \in S
    BY <1>4, <2>1
  <2>3. F[<<i, f[i - 1]>>] = Further(t, led, f[i - 1], names[i])
    BY <2>2 DEF F
  <2> QED
    BY <1>4, <2>1, <2>3
<1>6. f = [i \in 0 .. N |-> IF i = 0 THEN start ELSE Further(t, led, f[i - 1], names[i])]
  <2>1. ASSUME NEW i \in 0 .. N
        PROVE  f[i] = IF i = 0 THEN start ELSE Further(t, led, f[i - 1], names[i])
    <3>1. i = 0 \/ i \in 1 .. N
      BY <1>1
    <3> QED
      BY <1>4, <1>5, <3>1
  <2> QED
    BY <1>4, <2>1
<1>7. walk = [i \in 0 .. N |-> IF i = 0 THEN start ELSE Further(t, led, walk[i - 1], names[i])]
  BY <1>6 DEF walk
<1>8. Walk(t, led, from, names) = walk[N]
  BY DEF Walk, N, start, walk
<1>9. ASSUME NEW i \in 1 .. N PROVE walk[i] = Further(t, led, walk[i - 1], names[i])
  BY <1>5, <1>7
<1>10. walk[0] = start /\ DOMAIN walk = 0 .. N
  <2>1. 0 \in 0 .. N
    BY <1>1
  <2> QED
    BY <1>7, <2>1
<1>11. \A i \in 0 .. N : walk[i] \in S
  <2> DEFINE P == {i \in 0 .. N : walk[i] \in S}
  <2>1. 0 \in P
    BY <1>1, <1>2, <1>10
  <2>2. ASSUME NEW i \in 1 .. N, i - 1 \in P PROVE i \in P
    <3>1. walk[i - 1] \in Spots(t) /\ names[i] \in STRING /\ i \in 0 .. N
      BY <1>1, <1>5, <2>2 DEF S
    <3>2. Further(t, led, walk[i - 1], names[i]) \in Spots(t)
      BY <3>1, FurtherLeads
    <3> QED
      BY <1>9, <3>1, <3>2 DEF S
  <2> HIDE DEF P
  <2>3. \A i \in 0 .. N : i \in P
    BY <1>1, <2>1, <2>2, UpTo
  <2> QED
    BY <2>3 DEF P
<1>12. walk \in [0 .. N -> S]
  BY <1>7, <1>10, <1>11
<1>13. WalkPlaces(t, led, from, names, walk)
  BY <1>9, <1>10 DEF WalkPlaces, N, start
<1>14. N \in 0 .. N
  BY <1>1
<1> QED
  BY <1>8, <1>11, <1>12, <1>13, <1>14 DEF N, S

\* Where the links lead, hop by hop.
ResolvedPlaces(t, resolved) ==
    /\ resolved[0] = [link \in Links(t) |-> Dangling]
    /\ \A h \in 1 .. MaxSymlinkHops :
          resolved[h] = [link \in Links(t) |-> Walk(t, resolved[h - 1], Parent(link), t.to[link])]

LEMMA ResolvedLeads ==
    ASSUME NEW t, IsTree(t)
    PROVE  /\ \E resolved \in [0 .. MaxSymlinkHops -> [Links(t) -> Spots(t)]] :
                ResolvedPlaces(t, resolved) /\ Resolved(t) = resolved[MaxSymlinkHops]
           /\ Resolved(t) \in [Links(t) -> Spots(t)]
<1> DEFINE H == MaxSymlinkHops
           S == [Links(t) -> Spots(t)]
           Next1(led) == [link \in Links(t) |-> Walk(t, led, Parent(link), t.to[link])]
           start == [link \in Links(t) |-> Dangling]
           F == [x \in (1 .. H) \X S |-> Next1(x[2])]
           resolved[hops \in 0 .. H] ==
               [link \in Links(t) |->
                   IF hops = 0 THEN Dangling
                   ELSE Walk(t, resolved[hops - 1], Parent(link), t.to[link])]
<1>1. H \in Nat
  BY MaxSymlinkHopsAssumption
<1>2. start \in S
  BY TreeFacts
<1>3. ASSUME NEW led \in S PROVE Next1(led) \in S
  <2>1. ASSUME NEW link \in Links(t) PROVE Walk(t, led, Parent(link), t.to[link]) \in Spots(t)
    BY TreeFacts, WalkLeads
  <2> QED
    BY <2>1
<1>4. F \in [(1 .. H) \X S -> S]
  <2> HIDE DEF S, Next1, H
  <2> QED
    BY <1>3
<1> HIDE DEF H, S, start, F, resolved
<1>5. PICK f \in [0 .. H -> S] : f[0] = start /\ \A i \in 1 .. H : f[i] = F[<<i, f[i - 1]>>]
  <2>1. From(start, F, H, S) # {}
    BY <1>1, <1>2, <1>4, ByRecursion
  <2> QED
    BY <2>1 DEF From
<1>6. ASSUME NEW i \in 1 .. H
      PROVE  i - 1 \in 0 .. H /\ i \in 0 .. H /\ i # 0 /\ f[i] = Next1(f[i - 1])
  <2>1. i - 1 \in 0 .. H /\ i \in 0 .. H /\ i # 0
    BY <1>1
  <2>2. f[i - 1] \in S
    BY <1>5, <2>1
  <2> HIDE DEF Next1
  <2>3. F[<<i, f[i - 1]>>] = Next1(f[i - 1])
    BY <2>2 DEF F
  <2> QED
    BY <1>5, <2>1, <2>3
<1>7. f = [hops \in 0 .. H |->
             [link \in Links(t) |->
                IF hops = 0 THEN Dangling ELSE Walk(t, f[hops - 1], Parent(link), t.to[link])]]
  <2>1. ASSUME NEW i \in 0 .. H
        PROVE  f[i] = [link \in Links(t) |->
                          IF i = 0 THEN Dangling ELSE Walk(t, f[i - 1], Parent(link), t.to[link])]
    <3>1. CASE i = 0
      BY <1>5, <3>1 DEF start
    <3>2. CASE i # 0
      <4>1. i \in 1 .. H
        BY <1>1, <3>2
      <4> QED
        BY <1>6, <3>2, <4>1
    <3> QED
      BY <3>1, <3>2
  <2> QED
    BY <1>5, <2>1
<1>8. resolved = [hops \in 0 .. H |->
             [link \in Links(t) |->
                IF hops = 0 THEN Dangling ELSE Walk(t, resolved[hops - 1], Parent(link), t.to[link])]]
  BY <1>7 DEF resolved
<1>9. Resolved(t) = resolved[H]
  BY DEF Resolved, H, resolved
<1>10. 0 \in 0 .. H /\ H \in 0 .. H
  BY <1>1
<1>11. resolved[0] = start /\ DOMAIN resolved = 0 .. H
  BY <1>8, <1>10 DEF start
<1>12. ASSUME NEW i \in 1 .. H PROVE resolved[i] = Next1(resolved[i - 1])
  BY <1>6, <1>8
<1>13. \A i \in 0 .. H : resolved[i] \in S
  <2> DEFINE P == {i \in 0 .. H : resolved[i] \in S}
  <2>1. 0 \in P
    BY <1>2, <1>10, <1>11
  <2>2. ASSUME NEW i \in 1 .. H, i - 1 \in P PROVE i \in P
    <3> HIDE DEF Next1
    <3> QED
      BY <1>3, <1>6, <1>12, <2>2
  <2> HIDE DEF P
  <2>3. \A i \in 0 .. H : i \in P
    BY <1>1, <2>1, <2>2, UpTo
  <2> QED
    BY <2>3 DEF P
<1>14. resolved \in [0 .. H -> S]
  BY <1>8, <1>11, <1>13
<1>15. ResolvedPlaces(t, resolved)
  BY <1>11, <1>12 DEF ResolvedPlaces, H, start
<1> QED
  BY <1>9, <1>10, <1>13, <1>14, <1>15 DEF H, S

-----------------------------------------------------------------------------
(* A copy of a tree                                                        *)

LastName(u) == u.at[Len(u.at)]

\* u is t, somewhere no link names and without some of the entries.
IsCopy(u, t) ==
    /\ IsTree(u) /\ IsTree(t)
    /\ Entries(u) \subseteq Entries(t)
    /\ u.to = t.to
    /\ \A p \in Entries(u) : u.kind[p] = t.kind[p]
    /\ \A p \in Links(t) : LastName(u) \notin Names(t.to[p])

\* All that a walk passes in the whole is in the copy.
Kept(u, t, through) == through \cap Entries(t) \subseteq Entries(u)

\* What leads to a place in the tree leads to the same in the copy, unless it
\* strays: then it leads to none of the copy's entries.
Follows(u, there, copied) ==
    /\ ~Strays(there) => copied = there
    /\ Strays(there) => copied.at \notin All(u)

\* So do the links that lead on what is kept.
Agree(u, t, ledU, ledT) ==
    \A p \in Links(u) : Kept(u, t, ledT[p].through) => Follows(u, ledT[p], ledU[p])

LEMMA CopyFacts ==
    ASSUME NEW t, NEW u, IsCopy(u, t)
    PROVE  /\ IsTree(u) /\ IsTree(t)
           /\ All(u) \subseteq All(t) /\ Entries(u) \subseteq Entries(t)
           /\ Links(u) = Links(t) \cap Entries(u)
           /\ \A p \in All(u) : /\ IsLink(u, p) <=> IsLink(t, p)
                                /\ IsDir(u, p) <=> IsDir(t, p)
                                /\ IsFile(u, p) <=> IsFile(t, p)
           /\ u.to = t.to
  BY DEF IsCopy, All, Links, IsLink, IsDir, IsFile, IsTree

\* What is outside the copy never gets back in by names that are not its own.
LEMMA FurtherStaysOut ==
    ASSUME NEW u, IsTree(u), NEW led,
           NEW here, here.at \in {Nowhere} \cup Outside, NEW name \in STRING, name # LastName(u)
    PROVE  Further(u, led, here, name).at \notin All(u)
<1>1. CASE here.at = Nowhere
  BY <1>1, TreeFacts DEF Further
<1>2. CASE here.at # Nowhere /\ name \in {"/", ".."}
  <2>1. Further(u, led, here, name).at = Above(u, here, name)
    BY <1>2, FurtherIs
  <2>2. Above(u, here, name) \in Outside
    BY <1>2, StepFacts, OutsideFacts DEF Above
  <2> QED
    BY <2>1, <2>2, TreeFacts DEF Outside
<1>3. CASE here.at # Nowhere /\ name \notin {"/", ".."}
  <2> DEFINE next == Down(u, here.at, name)
  <2>1. Further(u, led, here, name).at = End(u, led, next).at
    BY <1>3, FurtherIs
  <2>2. next \in Outside
    BY <1>3, StepFacts DEF LastName
  <2> HIDE DEF next
  <2>3. next \notin All(u)
    BY <2>2, TreeFacts DEF Outside
  <2>4. ~IsLink(u, next)
    BY <2>3 DEF IsLink, All
  <2>5. End(u, led, next).at \in {next, Nowhere}
    BY <2>4 DEF End, Dangling
  <2> QED
    BY <2>1, <2>3, <2>5, TreeFacts
<1> QED
  BY <1>1, <1>2, <1>3

\* One name further from the same place in both.
LEMMA FurtherAgrees ==
    ASSUME NEW t, NEW u, IsCopy(u, t),
           NEW ledT \in [Links(t) -> Spots(t)], NEW ledU \in [Links(u) -> Spots(u)],
           Agree(u, t, ledU, ledT),
           NEW here, here \in Spots(t), here \in Spots(u), ~Strays(here),
           NEW name \in STRING, Kept(u, t, Further(t, ledT, here, name).through)
    PROVE  Follows(u, Further(t, ledT, here, name), Further(u, ledU, here, name))
<1> DEFINE there  == Further(t, ledT, here, name)
           copied == Further(u, ledU, here, name)
<1>1. IsTree(u) /\ IsTree(t)
  BY CopyFacts
<1>2. here.at \in All(u) \cup {Nowhere} /\ here.at \in All(t) \cup {Nowhere}
  <2>1. ~IsOutside(here.at)
    BY DEF Spots, Strays
  <2> QED
    BY <2>1 DEF Spots, Outside
<1>3. CASE here.at = Nowhere
  <2>1. there = here /\ copied = here
    BY <1>3 DEF Further
  <2> QED
    BY <2>1 DEF Follows
<1>4. CASE here.at # Nowhere /\ name \in {"/", ".."}
  <2> DEFINE above(v) == Above(v, here, name)
  <2>1. /\ there.at = above(t) /\ there.through = here.through \cup {p \in {above(t)} : IsOutside(p)}
        /\ copied.at = above(u)
        /\ above(t) = above(u) => copied = there
    <3> HIDE DEF there, copied
    <3>1. /\ there  = [at |-> Above(t, here, name),
                       through |-> here.through \cup {p \in {Above(t, here, name)} : IsOutside(p)}]
          /\ copied = [at |-> Above(u, here, name),
                       through |-> here.through \cup {p \in {Above(u, here, name)} : IsOutside(p)}]
      BY <1>4, FurtherIs DEF there, copied
    <3> QED
      BY <3>1
  <2>2. CASE name = "/" \/ here.at = << >>
    <3>1. above(t) \in Outside /\ above(u) \in Outside
      BY <1>1, <1>4, <2>2, StepFacts, OutsideFacts DEF Above
    <3> HIDE DEF above, there, copied
    <3>2. Strays(there)
      BY <2>1, <3>1 DEF Strays, Outside
    <3>3. copied.at \notin All(u)
      BY <1>1, <2>1, <3>1, TreeFacts DEF Outside
    <3>4. Follows(u, there, copied)
      BY <3>2, <3>3 DEF Follows
    <3> QED
      BY <3>4 DEF there, copied
  <2>3. CASE name # "/" /\ here.at # << >>
    <3>1. here.at \in Entries(t) /\ here.at \in Entries(u)
      BY <1>2, <1>4, <2>3 DEF All
    <3>2. above(t) = Parent(here.at) /\ above(u) = Parent(here.at)
      BY <1>1, <2>3, <3>1, StepFacts DEF Above
    <3>3. ~IsOutside(above(t))
      BY <1>1, <3>1, <3>2, TreeFacts
    <3> HIDE DEF above, there, copied
    <3>4. ~Strays(there)
      BY <2>1, <3>3 DEF Strays
    <3>5. Follows(u, there, copied)
      BY <2>1, <3>2, <3>4 DEF Follows
    <3> QED
      BY <3>5 DEF there, copied
  <2> QED
    BY <2>2, <2>3
<1>5. CASE here.at # Nowhere /\ name \notin {"/", ".."}
  <2> DEFINE next == Append(here.at, name)
             endT == End(t, ledT, next)
             endU == End(u, ledU, next)
  <2>1. /\ Down(t, here.at, name) = next /\ Down(u, here.at, name) = next
        /\ next # << >> /\ ~IsOutside(next)
    BY <1>1, <1>2, <1>5, StepFacts
  <2>2. /\ there  = [at |-> endT.at, through |-> here.through \cup {next} \cup endT.through]
        /\ copied = [at |-> endU.at, through |-> here.through \cup {next} \cup endU.through]
    <3> HIDE DEF there, copied, next, endT, endU
    <3>1. /\ there  = [at |-> End(t, ledT, next).at,
                       through |-> here.through \cup {next} \cup End(t, ledT, next).through]
          /\ copied = [at |-> End(u, ledU, next).at,
                       through |-> here.through \cup {next} \cup End(u, ledU, next).through]
      BY <1>5, <2>1, FurtherIs DEF there, copied
    <3> QED
      BY <3>1 DEF endT, endU
  <2>3. Kept(u, t, there.through)
    OBVIOUS
  <2> HIDE DEF next, there, copied
  <2>4. Kept(u, t, {next} \cup endT.through)
    <3> HIDE DEF endT
    <3> QED
      BY <2>2, <2>3 DEF Kept
  <2>5. next \in Entries(t) <=> next \in Entries(u)
    BY <2>4, CopyFacts DEF Kept
  <2>6. Strays(there) <=> Strays(endT)
    <3> HIDE DEF endT
    <3> QED
      BY <2>1, <2>2 DEF Strays
  <2>7. Follows(u, endT, endU)
    <3>1. next \notin t.around /\ next \notin u.around
      BY <1>1, <2>1, TreeFacts DEF Outside
    <3>2. ~Strays(Dangling) /\ ~Strays([at |-> next, through |-> {}])
      BY DEF Strays, Dangling
    <3>3. CASE next \notin Entries(t)
      <4>1. endT = Dangling /\ endU = Dangling
        BY <2>1, <2>5, <3>1, <3>3 DEF End, IsLink, All
      <4> QED
        BY <3>2, <4>1 DEF Follows
    <3>4. CASE next \in Entries(t) /\ ~IsLink(t, next)
      <4>1. next \in All(t) /\ next \in All(u) /\ ~IsLink(u, next)
        BY <2>5, <3>4, CopyFacts DEF All
      <4>2. endT = [at |-> next, through |-> {}] /\ endU = [at |-> next, through |-> {}]
        BY <3>4, <4>1 DEF End
      <4> QED
        BY <3>2, <4>2 DEF Follows
    <3>5. CASE next \in Entries(t) /\ IsLink(t, next)
      <4>1. next \in Links(u) /\ IsLink(u, next)
        BY <2>5, <3>5, CopyFacts DEF All, Links
      <4>2. endT = ledT[next] /\ endU = ledU[next]
        BY <3>5, <4>1 DEF End
      <4> HIDE DEF endT, endU
      <4>3. Kept(u, t, ledT[next].through)
        BY <2>4, <4>2 DEF Kept
      <4> QED
        BY <4>1, <4>2, <4>3 DEF Agree
    <3> QED
      BY <3>3, <3>4, <3>5
  <2> HIDE DEF endT, endU
  <2>8. Follows(u, there, copied)
    <3>1. CASE Strays(endT)
      <4>1. copied.at = endU.at /\ endU.at \notin All(u)
        BY <2>2, <2>7, <3>1 DEF Follows
      <4> QED
        BY <2>6, <3>1, <4>1 DEF Follows
    <3>2. CASE ~Strays(endT)
      <4>1. endU = endT
        BY <2>7, <3>2 DEF Follows
      <4> QED
        BY <2>2, <2>6, <3>2, <4>1 DEF Follows
    <3> QED
      BY <3>1, <3>2
  <2> QED
    BY <2>8 DEF there, copied
<1> QED
  BY <1>3, <1>4, <1>5

\* A walk through what is kept goes the same way in both until it strays.
LEMMA WalkAgrees ==
    ASSUME NEW t, NEW u, IsCopy(u, t),
           NEW ledT \in [Links(t) -> Spots(t)], NEW ledU \in [Links(u) -> Spots(u)],
           Agree(u, t, ledU, ledT),
           NEW from \in All(u), NEW names \in Path, LastName(u) \notin Names(names),
           Kept(u, t, Walk(t, ledT, from, names).through)
    PROVE  Follows(u, Walk(t, ledT, from, names), Walk(u, ledU, from, names))
<1> DEFINE N == Len(names)
<1>1. N \in Nat /\ \A i \in 1 .. N : names[i] \in STRING
  BY DEF Path
<1>2. PICK walkT \in [0 .. N -> Spots(t)] :
          WalkPlaces(t, ledT, from, names, walkT) /\ Walk(t, ledT, from, names) = walkT[N]
  BY CopyFacts, WalkLeads
<1>3. PICK walkU \in [0 .. N -> Spots(u)] :
          WalkPlaces(u, ledU, from, names, walkU) /\ Walk(u, ledU, from, names) = walkU[N]
  BY CopyFacts, WalkLeads
<1>4. ASSUME NEW i \in 1 .. N
      PROVE  /\ i - 1 \in 0 .. N /\ i \in 0 .. N
             /\ walkT[i] = Further(t, ledT, walkT[i - 1], names[i])
             /\ walkU[i] = Further(u, ledU, walkU[i - 1], names[i])
  BY <1>1, <1>2, <1>3 DEF WalkPlaces
<1>5. walkT[0] = walkU[0]
  BY <1>2, <1>3 DEF WalkPlaces
<1> HIDE DEF N
<1>6. ASSUME NEW i \in 1 .. N PROVE walkT[i - 1].through \subseteq walkT[i].through
  <2>1. walkT[i - 1] \in Spots(t) /\ names[i] \in STRING
    BY <1>1, <1>2, <1>4
  <2> QED
    BY <1>4, <2>1, FurtherLeads, CopyFacts
<1>7. \A i \in 0 .. N : walkT[i].through \subseteq walkT[N].through
  <2> DEFINE P == {k \in 0 .. N : walkT[N - k].through \subseteq walkT[N].through}
  <2>1. 0 \in P
    BY <1>1
  <2>2. ASSUME NEW k \in 1 .. N, k - 1 \in P PROVE k \in P
    <3>1. k \in 0 .. N /\ N - k + 1 \in 1 .. N /\ N - (k - 1) = N - k + 1 /\ (N - k + 1) - 1 = N - k
      BY <1>1
    <3>2. walkT[N - k].through \subseteq walkT[N - k + 1].through
      BY <1>6, <3>1
    <3> QED
      BY <2>2, <3>1, <3>2
  <2> HIDE DEF P
  <2>3. \A k \in 0 .. N : k \in P
    BY <1>1, <2>1, <2>2, UpTo
  <2>4. ASSUME NEW i \in 0 .. N PROVE walkT[i].through \subseteq walkT[N].through
    <3>1. N - i \in 0 .. N /\ N - (N - i) = i
      BY <1>1
    <3>2. N - i \in P
      BY <2>3, <3>1
    <3> QED
      BY <3>1, <3>2 DEF P
  <2> QED
    BY <2>4
<1>8. \A i \in 0 .. N : Follows(u, walkT[i], walkU[i])
  <2> DEFINE P == {i \in 0 .. N : Follows(u, walkT[i], walkU[i])}
  <2>1. 0 \in P
    <3>1. ~Strays(walkT[0])
      BY <1>2 DEF WalkPlaces, Strays
    <3> QED
      BY <1>1, <1>5, <3>1 DEF Follows
  <2>2. ASSUME NEW i \in 1 .. N, i - 1 \in P PROVE i \in P
    <3>1. /\ walkT[i - 1] \in Spots(t) /\ walkU[i - 1] \in Spots(u) /\ names[i] \in STRING
          /\ names[i] # LastName(u)
      BY <1>1, <1>2, <1>3, <1>4 DEF Names, N
    <3>2. Kept(u, t, walkT[i].through)
      BY <1>2, <1>4, <1>7 DEF Kept, N
    <3>3. Follows(u, walkT[i - 1], walkU[i - 1])
      BY <2>2
    <3>4. CASE Strays(walkT[i - 1])
      <4>1. Strays(walkT[i])
        BY <1>6, <3>4 DEF Strays
      <4>2. walkU[i - 1].at \in {Nowhere} \cup Outside
        BY <3>1, <3>3, <3>4 DEF Follows, Spots
      <4>3. Further(u, ledU, walkU[i - 1], names[i]).at \notin All(u)
        BY <3>1, <4>2, CopyFacts, FurtherStaysOut
      <4>4. Follows(u, walkT[i], walkU[i])
        BY <1>4, <4>1, <4>3 DEF Follows
      <4> QED
        BY <1>4, <4>4
    <3>5. CASE ~Strays(walkT[i - 1])
      <4>1. walkU[i - 1] = walkT[i - 1]
        BY <3>3, <3>5 DEF Follows
      <4>2. Kept(u, t, Further(t, ledT, walkT[i - 1], names[i]).through)
        BY <1>4, <3>2
      <4>3. Follows(u, Further(t, ledT, walkT[i - 1], names[i]), Further(u, ledU, walkT[i - 1], names[i]))
        BY <3>1, <3>5, <4>1, <4>2, FurtherAgrees
      <4>4. Follows(u, walkT[i], walkU[i])
        BY <1>4, <4>1, <4>3
      <4> QED
        BY <1>4, <4>4
    <3> QED
      BY <3>4, <3>5
  <2> HIDE DEF P
  <2>3. \A i \in 0 .. N : i \in P
    BY <1>1, <2>1, <2>2, UpTo
  <2> QED
    BY <2>3 DEF P
<1>9. N \in 0 .. N
  BY <1>1
<1> QED
  BY <1>2, <1>3, <1>8, <1>9

\* So do the links, in as many hops.
LEMMA ResolvedAgrees ==
    ASSUME NEW t, NEW u, IsCopy(u, t)
    PROVE  Agree(u, t, Resolved(u), Resolved(t))
<1> DEFINE H == MaxSymlinkHops
<1>1. H \in Nat
  BY MaxSymlinkHopsAssumption
<1>2. PICK resolvedT \in [0 .. H -> [Links(t) -> Spots(t)]] :
          ResolvedPlaces(t, resolvedT) /\ Resolved(t) = resolvedT[H]
  BY CopyFacts, ResolvedLeads
<1>3. PICK resolvedU \in [0 .. H -> [Links(u) -> Spots(u)]] :
          ResolvedPlaces(u, resolvedU) /\ Resolved(u) = resolvedU[H]
  BY CopyFacts, ResolvedLeads
<1> DEFINE P == {h \in 0 .. H : Agree(u, t, resolvedU[h], resolvedT[h])}
<1>4. 0 \in P
  <2>1. \A p \in Links(u) : p \in Links(t)
    BY CopyFacts
  <2>2. Follows(u, Dangling, Dangling)
    BY DEF Follows, Strays, Dangling
  <2> QED
    BY <1>1, <1>2, <1>3, <2>1, <2>2 DEF ResolvedPlaces, Agree
<1>5. ASSUME NEW h \in 1 .. H, h - 1 \in P PROVE h \in P
  <2>1. h - 1 \in 0 .. H /\ h \in 0 .. H
    BY <1>1
  <2>2. /\ resolvedT[h - 1] \in [Links(t) -> Spots(t)] /\ resolvedU[h - 1] \in [Links(u) -> Spots(u)]
        /\ Agree(u, t, resolvedU[h - 1], resolvedT[h - 1])
    BY <1>2, <1>3, <1>5, <2>1
  <2>3. /\ resolvedT[h] = [link \in Links(t) |-> Walk(t, resolvedT[h - 1], Parent(link), t.to[link])]
        /\ resolvedU[h] = [link \in Links(u) |-> Walk(u, resolvedU[h - 1], Parent(link), u.to[link])]
    BY <1>2, <1>3 DEF ResolvedPlaces
  <2>4. ASSUME NEW p \in Links(u), Kept(u, t, resolvedT[h][p].through)
        PROVE  Follows(u, resolvedT[h][p], resolvedU[h][p])
    <3>1. p \in Links(t) /\ Parent(p) \in All(u) /\ t.to[p] \in Path /\ u.to = t.to
      BY CopyFacts, TreeFacts
    <3>0. LastName(u) \notin Names(t.to[p])
      BY <3>1 DEF IsCopy
    <3>2. Kept(u, t, Walk(t, resolvedT[h - 1], Parent(p), t.to[p]).through)
      BY <2>3, <2>4, <3>1
    <3>3. Follows(u, Walk(t, resolvedT[h - 1], Parent(p), t.to[p]),
                     Walk(u, resolvedU[h - 1], Parent(p), t.to[p]))
      BY <2>2, <3>0, <3>1, <3>2, WalkAgrees
    <3> QED
      BY <2>3, <3>1, <3>3
  <2> QED
    BY <2>1, <2>4 DEF Agree
<1> HIDE DEF P
<1>6. \A h \in 0 .. H : h \in P
  BY <1>1, <1>4, <1>5, UpTo
<1>7. H \in 0 .. H
  BY <1>1
<1> QED
  BY <1>2, <1>3, <1>6, <1>7 DEF P

-----------------------------------------------------------------------------
(* What is reached                                                         *)

Closed(t, links, X) == \A p \in X : Visits(t, links, p) \subseteq X

LEMMA VisitsAreEntries ==
    ASSUME NEW t, NEW links, NEW p
    PROVE  Visits(t, links, p) \subseteq All(t)
  BY DEF Visits, Children, All

\* Going on as often as there are entries reaches everything there is to
\* reach, and nothing else.
LEMMA ReachedIs ==
    ASSUME NEW t, IsTree(t), NEW links, NEW roots, roots \subseteq All(t)
    PROVE  /\ roots \subseteq ReachedFrom(t, links, roots) /\ ReachedFrom(t, links, roots) \subseteq All(t)
           /\ Closed(t, links, ReachedFrom(t, links, roots))
           /\ \A X : roots \subseteq X /\ Closed(t, links, X) => ReachedFrom(t, links, roots) \subseteq X
<1> DEFINE N == Cardinality(Entries(t)) + 1
           S == SUBSET All(t)
           F == [x \in (1 .. N) \X S |-> Onward(t, links, x[2])]
           reach[n \in 0 .. N] == IF n = 0 THEN roots ELSE Onward(t, links, reach[n - 1])
<1>1. N \in Nat /\ IsFiniteSet(All(t)) /\ Cardinality(All(t)) = N
  <2>1. IsFiniteSet(Entries(t)) /\ << >> \notin Entries(t)
    BY DEF IsTree
  <2>2. Cardinality(Entries(t)) \in Nat
    BY <2>1, FS_CardinalityType
  <2> QED
    BY <2>1, <2>2, FS_AddElement DEF All
<1>2. ASSUME NEW X \in S PROVE Onward(t, links, X) \in S /\ X \subseteq Onward(t, links, X)
  BY VisitsAreEntries DEF Onward
<1>3. F \in [(1 .. N) \X S -> S] /\ roots \in S
  <2> HIDE DEF S, N
  <2>1. F \in [(1 .. N) \X S -> S]
    BY <1>2
  <2> QED
    BY <2>1 DEF S
<1> HIDE DEF N, S, F, reach
<1>4. PICK f \in [0 .. N -> S] : f[0] = roots /\ \A i \in 1 .. N : f[i] = F[<<i, f[i - 1]>>]
  <2>1. From(roots, F, N, S) # {}
    BY <1>1, <1>3, ByRecursion
  <2> QED
    BY <2>1 DEF From
<1>5. ASSUME NEW i \in 1 .. N
      PROVE  i - 1 \in 0 .. N /\ i \in 0 .. N /\ i # 0 /\ f[i] = Onward(t, links, f[i - 1])
  <2>1. i - 1 \in 0 .. N /\ i \in 0 .. N /\ i # 0
    BY <1>1
  <2>2. f[i - 1] \in S
    BY <1>4, <2>1
  <2>3. F[<<i, f[i - 1]>>] = Onward(t, links, f[i - 1])
    BY <2>2 DEF F
  <2> QED
    BY <1>4, <2>1, <2>3
<1>6. f = [n \in 0 .. N |-> IF n = 0 THEN roots ELSE Onward(t, links, f[n - 1])]
  <2>1. ASSUME NEW i \in 0 .. N
        PROVE  f[i] = IF i = 0 THEN roots ELSE Onward(t, links, f[i - 1])
    <3>1. i = 0 \/ i \in 1 .. N
      BY <1>1
    <3> QED
      BY <1>4, <1>5, <3>1
  <2> QED
    BY <1>4, <2>1
<1>7. reach = [n \in 0 .. N |-> IF n = 0 THEN roots ELSE Onward(t, links, reach[n - 1])]
  BY <1>6 DEF reach
<1>8. ReachedFrom(t, links, roots) = reach[N]
  BY DEF ReachedFrom, N, reach
<1>9. 0 \in 0 .. N /\ N \in 0 .. N
  BY <1>1
<1>10. reach[0] = roots
  BY <1>7, <1>9
<1>11. ASSUME NEW i \in 1 .. N PROVE reach[i] = Onward(t, links, reach[i - 1])
  BY <1>5, <1>7
<1>12. \A i \in 0 .. N : reach[i] \in S /\ roots \subseteq reach[i]
  <2> DEFINE P == {i \in 0 .. N : reach[i] \in S /\ roots \subseteq reach[i]}
  <2>1. 0 \in P
    BY <1>3, <1>9, <1>10
  <2>2. ASSUME NEW i \in 1 .. N, i - 1 \in P PROVE i \in P
    <3>1. reach[i - 1] \in S /\ roots \subseteq reach[i - 1]
      BY <2>2
    <3>2. Onward(t, links, reach[i - 1]) \in S /\ reach[i - 1] \subseteq Onward(t, links, reach[i - 1])
      BY <1>2, <3>1
    <3> QED
      BY <1>5, <1>11, <3>1, <3>2
  <2> HIDE DEF P
  <2>3. \A i \in 0 .. N : i \in P
    BY <1>1, <2>1, <2>2, UpTo
  <2> QED
    BY <2>3 DEF P
<1>13. ASSUME NEW X, roots \subseteq X, Closed(t, links, X) PROVE reach[N] \subseteq X
  <2> DEFINE P == {i \in 0 .. N : reach[i] \subseteq X}
  <2>1. 0 \in P
    BY <1>9, <1>10, <1>13
  <2>2. ASSUME NEW i \in 1 .. N, i - 1 \in P PROVE i \in P
    <3>1. reach[i - 1] \subseteq X
      BY <2>2
    <3>2. Onward(t, links, reach[i - 1]) \subseteq X
      BY <1>13, <3>1 DEF Onward, Closed
    <3> QED
      BY <1>5, <1>11, <3>2
  <2> HIDE DEF P
  <2>3. \A i \in 0 .. N : i \in P
    BY <1>1, <2>1, <2>2, UpTo
  <2> QED
    BY <1>9, <2>3 DEF P
<1>14. ASSUME NEW X \in S, ~Closed(t, links, X)
       PROVE  Cardinality(Onward(t, links, X)) \in Nat /\ Cardinality(Onward(t, links, X)) >= Cardinality(X) + 1
  <2>1. X \subseteq Onward(t, links, X) /\ X # Onward(t, links, X) /\ Onward(t, links, X) \in S
    BY <1>2, <1>14 DEF Onward, Closed
  <2>2. IsFiniteSet(Onward(t, links, X)) /\ IsFiniteSet(X)
    BY <1>1, <1>14, <2>1, FS_Subset DEF S
  <2>3. Cardinality(X) \in Nat /\ Cardinality(Onward(t, links, X)) \in Nat /\ Cardinality(X) < Cardinality(Onward(t, links, X))
    BY <2>1, <2>2, FS_Subset, FS_CardinalityType
  <2> QED
    BY <2>3
<1>15. \A i \in 0 .. N : Closed(t, links, reach[i]) \/ Cardinality(reach[i]) >= i
  <2> DEFINE P == {i \in 0 .. N : Closed(t, links, reach[i]) \/ Cardinality(reach[i]) >= i}
  <2>0. ASSUME NEW i \in 0 .. N PROVE Cardinality(reach[i]) \in Nat
    BY <1>1, <1>12, FS_Subset, FS_CardinalityType DEF S
  <2>1. 0 \in P
    BY <1>9, <2>0
  <2>2. ASSUME NEW i \in 1 .. N, i - 1 \in P PROVE i \in P
    <3> DEFINE X == reach[i - 1]
    <3>1. X \in S /\ reach[i] = Onward(t, links, X) /\ i \in 0 .. N /\ i - 1 \in 0 .. N
      BY <1>5, <1>11, <1>12
    <3>2. CASE Closed(t, links, X)
      <4>1. Onward(t, links, X) = X
        BY <3>2 DEF Closed, Onward
      <4> QED
        BY <3>1, <3>2, <4>1
    <3>3. CASE ~Closed(t, links, X)
      <4>1. Cardinality(X) >= i - 1 /\ Cardinality(X) \in Nat
        BY <2>0, <2>2, <3>1, <3>3
      <4>2. Cardinality(reach[i]) \in Nat /\ Cardinality(reach[i]) >= Cardinality(X) + 1
        BY <1>14, <3>1, <3>3
      <4>3. Cardinality(reach[i]) >= i
        BY <1>1, <4>1, <4>2
      <4> QED
        BY <3>1, <4>3
    <3> QED
      BY <3>2, <3>3
  <2> HIDE DEF P
  <2>3. \A i \in 0 .. N : i \in P
    BY <1>1, <2>1, <2>2, UpTo
  <2> QED
    BY <2>3 DEF P
<1>16. Closed(t, links, reach[N])
  <2>1. CASE Cardinality(reach[N]) >= N
    <3>1. reach[N] \subseteq All(t) /\ IsFiniteSet(All(t))
      BY <1>1, <1>9, <1>12 DEF S
    <3>2. reach[N] = All(t)
      BY <1>1, <2>1, <3>1, FS_Subset, FS_CardinalityType
    <3> QED
      BY <3>2, VisitsAreEntries DEF Closed
  <2> QED
    BY <1>9, <1>15, <2>1
<1> QED
  BY <1>8, <1>9, <1>12, <1>13, <1>16 DEF S

-----------------------------------------------------------------------------
(* The copy                                                                *)

Visited(t) == ReachedFrom(t, Links(t), InputRoots(t))

LEMMA CopyIs ==
    ASSUME NEW t, IsTree(t)
    PROVE  /\ IsCopy(CopyProject(t), t)
           /\ \A p \in Entries(t) :
                p \in Entries(CopyProject(t)) <=>
                    \A q \in Prefixes(p) : ProjectCopyFilter(t, CollectCompilationInputs(t), q)
<1> DEFINE u == CopyProject(t)
           inputs == CollectCompilationInputs(t)
           copied == {p \in Entries(t) : \A q \in Prefixes(p) : ProjectCopyFilter(t, inputs, q)}
           kind == [p \in copied |-> t.kind[p]]
           beside == {t.at \o p : p \in {d \in All(t) : IsDir(t, d)}}
           above == Prefixes(CopyDirectory) \ {CopyDirectory}
           around == t.around \cup beside \cup above
<1>1. u = [t EXCEPT !.kind = kind, !.at = CopyDirectory, !.around = around]
  BY DEF CopyProject
<1> HIDE DEF u, kind, copied, around, beside, above
<1>2. /\ DOMAIN u = DOMAIN t /\ u.kind = kind
      /\ u.to = t.to /\ u.ignore = t.ignore /\ u.at = CopyDirectory /\ u.around = around
  BY <1>1 DEF IsTree
<1>3. Entries(u) = copied /\ copied \subseteq Entries(t) /\ \A p \in copied : u.kind[p] = t.kind[p]
  BY <1>2 DEF Entries, kind, copied
<1>4. ASSUME NEW p \in copied PROVE IsDir(u, Parent(p))
  <2>1. p \in Path \ {<< >>} /\ IsDir(t, Parent(p)) /\ p \in Entries(t)
    BY <1>3 DEF IsTree
  <2>2. CASE Parent(p) = << >>
    BY <2>2 DEF IsDir
  <2>3. CASE Parent(p) # << >>
    <3>1. Parent(p) \in Prefixes(p) /\ Prefixes(Parent(p)) \subseteq Prefixes(p)
      BY <2>1, <2>3, PrefixFacts
    <3>2. Parent(p) \in copied
      BY <2>1, <2>3, <3>1 DEF copied, IsDir
    <3> QED
      BY <1>3, <2>1, <2>3, <3>2 DEF IsDir
  <2> QED
    BY <2>2, <2>3
<1>5. Links(u) \subseteq Links(t)
  BY <1>3 DEF Links, IsLink
<1>6. around \subseteq Outside
  <2>1. CopyDirectory \in Outside
    BY CopyDirectoryAssumption DEF Outside
  <2>2. beside \subseteq Outside
    BY TreeFacts, OutsideFacts DEF beside
  <2>3. above \subseteq Outside
    <3>1. CopyDirectory \in Path \ {<< >>}
      BY <2>1, OutsideFacts
    <3>2. \A q \in Prefixes(CopyDirectory) : q \in Path \ {<< >>} /\ q[1] = CopyDirectory[1]
      BY <3>1, PrefixFacts
    <3> QED
      BY <2>1, <3>2 DEF above, Outside, IsOutside
  <2> QED
    BY <2>2, <2>3, TreeFacts DEF around
<1>7. Prefixes(CopyDirectory) \ {CopyDirectory} \subseteq around
  BY DEF around, above
<1>8. IsTree(u)
  <2>1. IsFiniteSet(Entries(u))
    BY <1>3, FS_Subset DEF IsTree
  <2>2. Entries(u) \subseteq Path \ {<< >>, Nowhere} /\ \A p \in Entries(u) : ~IsOutside(p)
    BY <1>3 DEF IsTree
  <2>3. \A p \in Links(u) : u.to[p] \in Path /\ CopyDirectory[Len(CopyDirectory)] \notin Names(u.to[p])
    BY <1>2, <1>5 DEF IsTree
  <2>4. u.at \in Path \ {Root} /\ IsOutside(u.at)
    BY <1>2, CopyDirectoryAssumption
  <2>5. /\ u.around \subseteq Path /\ \A p \in u.around : IsOutside(p)
        /\ Prefixes(u.at) \ {u.at} \subseteq u.around
    BY <1>2, <1>6, <1>7 DEF Outside
  <2>6. {"kind", "to", "at", "around", "requires", "ignore"} \subseteq DOMAIN u /\ u.ignore \in Seq(Pattern)
    BY <1>2 DEF IsTree
  <2>7. \A p \in Entries(u) : IsDir(u, Parent(p))
    BY <1>3, <1>4
  <2> QED
    BY <2>1, <2>2, <2>3, <2>4, <2>5, <2>6, <2>7 DEF IsTree
<1>9. IsCopy(u, t)
  <2>1. \A p \in Links(t) : LastName(u) \notin Names(t.to[p])
    BY <1>2 DEF IsTree, LastName
  <2> QED
    BY <1>2, <1>3, <1>8, <2>1 DEF IsCopy
<1> QED
  BY <1>3, <1>9 DEF u, copied

\* The visit starts from entries.
LEMMA RootsAreEntries ==
    ASSUME NEW t, IsTree(t)
    PROVE  /\ InputRoots(t) \subseteq All(t) /\ CoreRoots(t) \subseteq InputRoots(t)
           /\ CoreRoots(t) = {<<"definitions">>, <<"includes">>} \cap Entries(t)
<1>1. ASSUME NEW name \in STRING PROVE Len(<<name>>) = 1 /\ Parent(<<name>>) = << >> /\ <<name>>[1] = name
  BY DEF Parent
<1>2. \A p \in {<<"definitions">>, <<"includes">>} :
          Len(p) = 1 /\ Parent(p) = << >> /\ p[1] \in CompilationInputRootNames
  <2>1. {"definitions", "includes"} \subseteq STRING \cap CompilationInputRootNames
    BY DEF CompilationInputRootNames
  <2> QED
    BY <1>1, <2>1
<1>3. Len(<< >>) = 0
  OBVIOUS
<1> QED
  BY <1>2, <1>3 DEF InputRoots, CoreRoots, Children, All

\* What links and directories lead to from the input roots is in the copy, and
\* so is all that the links pass through.
LEMMA CopyHasInputs ==
    ASSUME NEW t, IsTree(t)
    PROVE  /\ Visited(t) \subseteq All(CopyProject(t))
           /\ \A p \in Visited(t) \cap Links(t) : Kept(CopyProject(t), t, Resolved(t)[p].through)
<1> DEFINE u == CopyProject(t)
           inputs == CollectCompilationInputs(t)
           passed == UNION {ResolveSymlink(t, p).through : p \in Visited(t) \cap Links(t)}
           wanted == {q \in passed : ~IsOutside(q)} \cup {q \in Visited(t) : ~IsUnderCompilationInputRoot(q)}
<1>1. inputs = UNION {Prefixes(p) : p \in wanted}
  BY DEF CollectCompilationInputs, Visited
<1>2. Visited(t) \subseteq All(t)
  BY ReachedIs, RootsAreEntries DEF Visited
<1> HIDE DEF u, inputs, wanted
<1>3. ASSUME NEW p \in Entries(t), p \in wanted PROVE p \in Entries(u)
  <2>1. p \in Path \ {<< >>}
    BY TreeFacts
  <2>2. ASSUME NEW q \in Prefixes(p) PROVE q \in inputs
    BY <1>1, <1>3
  <2> QED
    BY <2>2, CopyIs DEF ProjectCopyFilter, u, inputs
<1>4. ASSUME NEW p \in Entries(t), IsUnderCompilationInputRoot(p) PROVE p \in Entries(u)
  <2>1. ASSUME NEW q \in Prefixes(p) PROVE IsUnderCompilationInputRoot(q)
    <3>1. p \in Path \ {<< >>}
      BY TreeFacts
    <3>2. q # << >> /\ q[1] = p[1] /\ Names(Tail(q)) \subseteq Names(Tail(p))
      BY <3>1, PrefixFacts
    <3> QED
      BY <1>4, <3>2 DEF IsUnderCompilationInputRoot
  <2> QED
    BY <2>1, CopyIs DEF ProjectCopyFilter, u
<1>5. Visited(t) \subseteq All(u)
  BY <1>2, <1>3, <1>4 DEF All, wanted
<1>6. ASSUME NEW p \in Visited(t) \cap Links(t) PROVE Kept(u, t, Resolved(t)[p].through)
  <2>1. Resolved(t)[p].through \subseteq passed
    BY DEF ResolveSymlink
  <2>2. Resolved(t)[p].through \cap Entries(t) \subseteq wanted
    BY <2>1, TreeFacts DEF wanted, All
  <2> QED
    BY <1>3, <2>2 DEF Kept
<1> QED
  BY <1>5, <1>6 DEF u

\* From what is visited the copy leads where the project does without the
\* links that stray.
LEMMA CopyVisitsAgree ==
    ASSUME NEW t, IsTree(t), NEW p \in Visited(t)
    PROVE  Visits(CopyProject(t), Links(CopyProject(t)), p) = Visits(t, LinksInside(t), p)
<1> DEFINE u == CopyProject(t)
<1>1. IsCopy(u, t)
  BY CopyIs
<1>2. Visited(t) \subseteq All(u) /\ Closed(t, Links(t), Visited(t))
  BY CopyHasInputs, ReachedIs, RootsAreEntries DEF Visited
<1>3. p \in Links(t) => Kept(u, t, Resolved(t)[p].through)
  BY CopyHasInputs
<1> HIDE DEF u
<1>4. /\ (IsLink(u, p) <=> IsLink(t, p)) /\ (IsDir(u, p) <=> IsDir(t, p))
      /\ Entries(u) \subseteq Entries(t) /\ All(u) \subseteq All(t) /\ p \in All(u)
      /\ (p \in Links(u) <=> p \in Links(t))
  BY <1>1, <1>2, CopyFacts DEF Links, IsLink
<1>5. CASE p \in Links(t)
  <2>1. p \in Links(u)
    BY <1>4, <1>5
  <2>2. Follows(u, Resolved(t)[p], Resolved(u)[p])
    BY <1>1, <1>3, <1>5, <2>1, ResolvedAgrees DEF Agree
  <2>3. Visits(u, Links(u), p) = {Resolved(u)[p].at} \cap All(u)
    BY <2>1 DEF Visits, ResolveSymlink
  <2>4. CASE Strays(Resolved(t)[p])
    <3>1. p \notin LinksInside(t) /\ ~IsDir(t, p)
      BY <1>5, <2>4, TreeFacts DEF LinksInside, ResolveSymlink, Links, IsLink, IsDir
    <3>2. Visits(t, LinksInside(t), p) = {}
      BY <3>1 DEF Visits
    <3> QED
      BY <2>2, <2>3, <2>4, <3>2 DEF Follows, u
  <2>5. CASE ~Strays(Resolved(t)[p])
    <3>1. p \in LinksInside(t)
      BY <1>5, <2>5 DEF LinksInside, ResolveSymlink
    <3>2. Visits(t, LinksInside(t), p) = {Resolved(t)[p].at} \cap All(t)
      BY <3>1 DEF Visits, ResolveSymlink
    <3>3. Visits(t, Links(t), p) = {Resolved(t)[p].at} \cap All(t)
      BY <1>5 DEF Visits, ResolveSymlink
    <3>4. {Resolved(t)[p].at} \cap All(t) \subseteq All(u)
      BY <1>2, <3>3 DEF Closed
    <3>5. Resolved(u)[p] = Resolved(t)[p]
      BY <2>2, <2>5 DEF Follows
    <3>6. Visits(u, Links(u), p) = Visits(t, LinksInside(t), p)
      BY <1>4, <2>3, <3>2, <3>4, <3>5
    <3> QED
      BY <3>6 DEF u
  <2> QED
    BY <2>4, <2>5
<1>6. CASE p \notin Links(t) /\ IsDir(t, p)
  <2>1. /\ Visits(t, LinksInside(t), p) = {c \in Children(t, p) : c[Len(c)] # ".git"}
        /\ Visits(t, Links(t), p) = {c \in Children(t, p) : c[Len(c)] # ".git"}
    BY <1>6 DEF Visits, LinksInside
  <2>2. Visits(u, Links(u), p) = {c \in Children(u, p) : c[Len(c)] # ".git"}
    BY <1>4, <1>6 DEF Visits
  <2>3. Visits(t, Links(t), p) \subseteq All(u)
    BY <1>2 DEF Closed
  <2>4. ASSUME NEW c \in Visits(t, Links(t), p) PROVE c \in Children(u, p)
    <3>1. c \in Entries(t) /\ Len(c) = Len(p) + 1 /\ Parent(c) = p
      BY <2>1 DEF Children
    <3>2. c # << >>
      BY <3>1, TreeFacts
    <3> QED
      BY <2>3, <3>1, <3>2 DEF Children, All
  <2>5. Children(u, p) \subseteq Children(t, p)
    BY <1>4 DEF Children
  <2> QED
    BY <2>1, <2>2, <2>4, <2>5 DEF u
<1>7. CASE p \notin Links(t) /\ ~IsDir(t, p)
  BY <1>4, <1>7 DEF Visits, LinksInside, u
<1> QED
  BY <1>5, <1>6, <1>7 DEF u

\* The copy lists what the project lists without the links that stray:
\* collectCompilationInputs() and the filter (compile_copy_filter.ts:172-323)
\* miss nothing else that the glob over definitions and includes finds.
THEOREM CopyListsTheSame ==
    ASSUME NEW t, IsTree(t)
    PROVE  Listed(CopyProject(t)) = ListedInside(t)
<1> DEFINE u == CopyProject(t)
           V == Visited(t)
           linksT == LinksInside(t)
           linksU == Links(u)
           X == ReachedFrom(t, linksT, CoreRoots(t))
           Y == ReachedFrom(u, linksU, CoreRoots(u))
<1>1. IsCopy(u, t) /\ IsTree(u)
  BY CopyIs, CopyFacts
<1>2. V \subseteq All(u) /\ Closed(t, Links(t), V) /\ InputRoots(t) \subseteq V
  BY CopyHasInputs, ReachedIs, RootsAreEntries DEF Visited
<1>3. \A p \in V : Visits(u, linksU, p) = Visits(t, linksT, p)
  BY CopyVisitsAgree
<1>4. Closed(t, linksT, V)
  <2>1. ASSUME NEW p \in V PROVE Visits(t, linksT, p) \subseteq Visits(t, Links(t), p)
    <3>1. linksT \subseteq Links(t)
      BY DEF LinksInside
    <3>2. p \in Links(t) => ~IsDir(t, p)
      BY TreeFacts DEF Links, IsLink, IsDir
    <3> HIDE DEF linksT, V
    <3> QED
      BY <3>1, <3>2 DEF Visits
  <2> QED
    BY <1>2, <2>1 DEF Closed
<1> HIDE DEF u, V, linksT, linksU
<1>5. /\ CoreRoots(t) \subseteq V
      /\ CoreRoots(u) = CoreRoots(t)
      /\ CoreRoots(t) \subseteq All(t) /\ CoreRoots(u) \subseteq All(u)
  <2>1. CoreRoots(t) \subseteq V /\ CoreRoots(t) \subseteq All(t)
    BY <1>2, RootsAreEntries
  <2>2. << >> \notin CoreRoots(t)
    BY RootsAreEntries, TreeFacts
  <2>3. CoreRoots(t) \subseteq Entries(u)
    BY <1>2, <2>1, <2>2 DEF All
  <2>4. /\ CoreRoots(t) = {<<"definitions">>, <<"includes">>} \cap Entries(t)
        /\ CoreRoots(u) = {<<"definitions">>, <<"includes">>} \cap Entries(u)
    BY <1>1, RootsAreEntries
  <2>5. Entries(u) \subseteq Entries(t)
    BY <1>1, CopyFacts
  <2> QED
    BY <2>1, <2>3, <2>4, <2>5 DEF All
<1>6. /\ CoreRoots(t) \subseteq X /\ Closed(t, linksT, X)
      /\ \A Z : CoreRoots(t) \subseteq Z /\ Closed(t, linksT, Z) => X \subseteq Z
  BY <1>5, ReachedIs
<1>7. /\ CoreRoots(t) \subseteq Y /\ Closed(u, linksU, Y)
      /\ \A Z : CoreRoots(t) \subseteq Z /\ Closed(u, linksU, Z) => Y \subseteq Z
  BY <1>1, <1>5, ReachedIs
<1> HIDE DEF X, Y
<1>8. X \subseteq V
  BY <1>4, <1>5, <1>6
<1>9. X \subseteq Y
  <2>1. CoreRoots(t) \subseteq Y \cap V
    BY <1>5, <1>7
  <2>2. Closed(t, linksT, Y \cap V)
    BY <1>3, <1>4, <1>7 DEF Closed
  <2>3. X \subseteq Y \cap V
    BY <1>6, <2>1, <2>2
  <2> QED
    BY <2>3
<1>10. Y \subseteq X
  <2>1. Closed(u, linksU, X)
    BY <1>3, <1>6, <1>8 DEF Closed
  <2> QED
    BY <1>6, <1>5, <1>7, <2>1
<1>11. \A p \in X : IsFile(u, p) <=> IsFile(t, p)
  BY <1>1, <1>2, <1>8, CopyFacts
<1>12. Listed(u) = {p \in Y : IsFile(u, p)} /\ ListedInside(t) = {p \in X : IsFile(t, p)}
  BY DEF Listed, ListedInside, X, Y, linksT, linksU
<1> QED
  BY <1>9, <1>10, <1>11, <1>12 DEF u

\* Where no link leaves the project, nothing that it lists is missing in the
\* copy.
COROLLARY CopyMissesNothing ==
    ASSUME NEW t, IsTree(t), LinksInside(t) = Links(t)
    PROVE  Listed(CopyProject(t)) = Listed(t)
  BY CopyListsTheSame DEF ListedInside, Listed

-----------------------------------------------------------------------------
(* Messages.                                                               *)

Ids      == (Body \cup {"none"}) \X Nat
Types    == {"worker_booted", "request", "answer", "error", "rpc_request", "rpc_rows", "rpc_error"}
Messages == [type : Types, id : Ids]

Has(messages, type) == \E i \in 1 .. Len(messages) : messages[i].type = type

AtMostOne(messages, type) ==
    \A i, j \in 1 .. Len(messages) :
        messages[i].type = type /\ messages[j].type = type => i = j

LEMMA MessageType ==
    /\ NoId \in Ids
    /\ \A type \in Types, id \in Ids : Message(type, id) \in Messages
    /\ \A m \in Messages : m.type \in Types /\ m.id \in Ids
  BY DEF NoId, Ids, Message, Messages

LEMMA TailType ==
    ASSUME NEW s \in Seq(Messages), s # << >>
    PROVE  Tail(s) \in Seq(Messages) /\ Head(s) \in Messages
  OBVIOUS

LEMMA SendType ==
    ASSUME NEW s \in Seq(Messages), NEW type \in Types, NEW id \in Ids
    PROVE  Append(s, Message(type, id)) \in Seq(Messages)
  BY MessageType

LEMMA HasAppend ==
    ASSUME NEW s \in Seq(Messages), NEW m \in Messages, NEW type
    PROVE  Has(Append(s, m), type) <=> Has(s, type) \/ m.type = type
  BY DEF Has

LEMMA HasTail ==
    ASSUME NEW s \in Seq(Messages), NEW type, s # << >>
    PROVE  Has(s, type) <=> Head(s).type = type \/ Has(Tail(s), type)
<1>1. ASSUME NEW i \in 1 .. Len(s), s[i].type = type
      PROVE  Head(s).type = type \/ Has(Tail(s), type)
  <2>1. CASE i = 1
    BY <1>1, <2>1
  <2>2. CASE i # 1
    <3>1. i - 1 \in 1 .. Len(Tail(s)) /\ Tail(s)[i - 1] = s[i]
      BY <2>2
    <3> QED
      BY <1>1, <3>1 DEF Has
  <2> QED
    BY <2>1, <2>2
<1>2. ASSUME NEW i \in 1 .. Len(Tail(s)), Tail(s)[i].type = type
      PROVE  Has(s, type)
  <2>1. i + 1 \in 1 .. Len(s) /\ s[i + 1] = Tail(s)[i]
    OBVIOUS
  <2> QED
    BY <1>2, <2>1 DEF Has
<1>3. ASSUME Head(s).type = type PROVE Has(s, type)
  <2>1. 1 \in 1 .. Len(s) /\ s[1] = Head(s)
    OBVIOUS
  <2> QED
    BY <1>3, <2>1 DEF Has
<1> QED
  BY <1>1, <1>2, <1>3 DEF Has

LEMMA AtMostOneAppend ==
    ASSUME NEW s \in Seq(Messages), NEW m \in Messages, NEW type,
           AtMostOne(s, type), m.type # type \/ ~Has(s, type)
    PROVE  AtMostOne(Append(s, m), type)
  BY DEF AtMostOne, Has

LEMMA AtMostOneTail ==
    ASSUME NEW s \in Seq(Messages), NEW type, s # << >>, AtMostOne(s, type)
    PROVE  /\ AtMostOne(Tail(s), type)
           /\ Head(s).type = type => ~Has(Tail(s), type)
<1>1. \A i \in 1 .. Len(Tail(s)) : i + 1 \in 1 .. Len(s) /\ Tail(s)[i] = s[i + 1] /\ i + 1 # 1
  OBVIOUS
<1>2. 1 \in 1 .. Len(s) /\ Head(s) = s[1]
  OBVIOUS
<1>3. AtMostOne(Tail(s), type)
  <2> SUFFICES ASSUME NEW i \in 1 .. Len(Tail(s)), NEW j \in 1 .. Len(Tail(s)),
                      Tail(s)[i].type = type, Tail(s)[j].type = type
               PROVE  i = j
    BY DEF AtMostOne
  <2>1. i + 1 = j + 1
    BY <1>1 DEF AtMostOne
  <2> QED
    BY <2>1
<1>4. Head(s).type = type => ~Has(Tail(s), type)
  BY <1>1, <1>2 DEF AtMostOne, Has
<1> QED
  BY <1>3, <1>4

-----------------------------------------------------------------------------
(* The inductive invariant.                                                *)

\* The channels, which TypeOK leaves out.
ChannelsOK ==
    /\ up \in Seq(Messages) /\ down \in Seq(Messages)
    /\ asked \subseteq Ids

\* Nothing is started before there is what to start it on.
NotStarted ==
    stage \in {"called", "installing", "forking"} =>
        child = "none" /\ timer = "off" /\ verdict = "none" /\ up = << >>

\* Whatever decides also kills the child and stops the timer.
SettledIsStopped == verdict # "none" => ~Running(child) /\ timer # "armed"

EndIsSettled == stage \in {"cleaning", "returned"} => verdict # "none"

\* Only a compilation makes a copy, and it removes it before it returns.
CopyIsCleaned ==
    /\ copy # "none" => job.kind = "compile" /\ stage # "called"
    /\ stage = "returned" /\ copy = "there" => ~removable

Stopping == NotStarted /\ SettledIsStopped /\ EndIsSettled /\ CopyIsCleaned

\* A JiT worker is asked once, and before that it has done nothing.
AskedOnce ==
    job.kind = "jit" =>
        /\ AtMostOne(down, "request")
        /\ Has(down, "request") => booted
        /\ ~booted \/ Has(down, "request") => work = Idle /\ ~Has(up, "answer") /\ verdict # "ok"

AnswerIsDue ==
    CASE job.kind = "compile" -> Succeeds(job)
      [] job.kind = "jit"     -> \A b \in Bodies(job.type) : work[b] = "done"
      [] OTHER                -> FALSE

\* An answer on its way is as good as the verdict.
Answering == (Has(up, "answer") => AnswerIsDue) /\ AnswerIsTheChilds

IInv == TypeOK /\ ChannelsOK /\ Stopping /\ AskedOnce /\ Answering

-----------------------------------------------------------------------------
(* Its parts, one after the other.                                         *)

LEMMA InitIInv == Init => IInv
<1> SUFFICES ASSUME Init PROVE IInv
  OBVIOUS
<1> USE DEF Init, Idle
<1>1. TypeOK
  BY DEF TypeOK
<1>2. ChannelsOK
  BY DEF ChannelsOK
<1>3. Stopping
  BY DEF Stopping, NotStarted, SettledIsStopped, EndIsSettled, CopyIsCleaned
<1>4. ~Has(up, "answer") /\ ~Has(down, "request") /\ AtMostOne(down, "request")
  BY DEF Has, AtMostOne
<1>5. AskedOnce
  BY <1>4 DEF AskedOnce
<1>6. Answering
  BY <1>4 DEF Answering, AnswerIsTheChilds
<1> QED
  BY <1>1, <1>2, <1>3, <1>5, <1>6 DEF IInv

LEMMA NotesType ==
    job.kind = "compile" => PrintExcludedModuleNotes \subseteq Entries(job.tree)
  BY DEF PrintExcludedModuleNotes, ExplainExcludedModule

LEMMA NoNotes == job.kind # "compile" => PrintExcludedModuleNotes = {}
  BY DEF PrintExcludedModuleNotes

LEMMA NextTypeOK == TypeOK /\ [Next]_vars => TypeOK'
<1> DEFINE Goal == TypeOK'
<1> SUFFICES ASSUME TypeOK, [Next]_vars PROVE Goal
  OBVIOUS
<1>1. CASE Refuse
  BY <1>1 DEF Refuse, TypeOK, caller, process, channel, jit, script
<1>2. CASE MakeCopy
  BY <1>2 DEF MakeCopy, TypeOK, caller, process, channel, jit, script
<1>3. CASE InstallIsolatedCore
  BY <1>3 DEF InstallIsolatedCore, TypeOK, caller, process, channel, jit, script
<1>4. CASE RunWorker
  BY <1>4 DEF RunWorker, TypeOK, caller, process, channel, jit, script
<1>5. CASE ResolveScriptFails
  BY <1>5 DEF ResolveScriptFails, TypeOK, caller, process, channel, jit, script
<1>6. CASE RefuseScript
  BY <1>6 DEF RefuseScript, TypeOK, caller, process, channel, jit, script
<1>7. CASE SpawnScript
  BY <1>7 DEF SpawnScript, TypeOK, caller, process, channel, jit, script
<1>8. CASE Settle
  BY <1>8, NotesType, NoNotes DEF Settle, TypeOK, caller, process, channel, jit, script
<1>9. CASE Clean
  BY <1>9 DEF Clean, TypeOK, caller, process, channel, jit, script
<1>10. CASE TimeoutFires
  BY <1>10 DEF TimeoutFires, Terminate, Killed, TypeOK, caller, process, channel, jit, script
<1>11. CASE ChildExits
  BY <1>11 DEF ChildExits, Terminate, Killed, TypeOK, caller, process, channel, jit, script
<1>12. CASE ReceiveBooted
  BY <1>12 DEF ReceiveBooted, Message, NoId, TypeOK, caller, process, channel, jit, script
<1>13. CASE ReceiveAnswer
  <2>1. verdict' \in {"none", "ok", "failed", "timeout"}
    BY <1>13 DEF ReceiveAnswer, Terminate, TypeOK
  <2>2. child' \in {"none", "booting", "up", "killed", "dead"}
    BY <1>13 DEF ReceiveAnswer, Terminate, Killed, TypeOK
  <2>3. timer' \in {"off", "armed", "fired", "cleared"}
    BY <1>13 DEF ReceiveAnswer, Terminate, TypeOK
  <2> QED
    BY <1>13, <2>1, <2>2, <2>3 DEF ReceiveAnswer, TypeOK, caller, process, channel, jit, script
<1>14. CASE ReceiveRpcRequest
  BY <1>14 DEF ReceiveRpcRequest, TypeOK, caller, process, channel, jit, script
<1>15. CASE ScriptTimeoutFires
  BY <1>15 DEF ScriptTimeoutFires, Killed, TypeOK, caller, process, channel, jit, script
<1>16. CASE ScriptCloses
  BY <1>16 DEF ScriptCloses, TypeOK, caller, process, channel, jit, script
<1>17. CASE Boot
  BY <1>17 DEF Boot, Message, NoId, TypeOK, caller, process, channel, jit, script
<1>18. CASE Crash
  BY <1>18 DEF Crash, TypeOK, caller, process, channel, jit, script
<1>19. CASE Compile
  BY <1>19 DEF Compile, Answer, Message, NoId, TypeOK, caller, process, channel, jit, script
<1>20. CASE HandleJitRequest
  <2>1. work' \in [Body -> {"idle", "running", "waiting", "done", "failed"}]
    BY <1>20 DEF HandleJitRequest, TypeOK, jit
  <2>2. replied' \in BOOLEAN
    BY <1>20 DEF HandleJitRequest, Answer, TypeOK
  <2> QED
    BY <1>20, <2>1, <2>2 DEF HandleJitRequest, TypeOK, caller, process, channel, jit, script
<1>21. CASE ScriptEnds
  BY <1>21 DEF ScriptEnds, TypeOK, caller, process, channel, jit, script
<1>22. CASE PipesClose
  <2>1. pipes' \in BOOLEAN
    BY <1>22 DEF PipesClose, TypeOK
  <2>2. UNCHANGED <<job, stage, copy, removable, notes, child, timer, verdict, exited>>
    BY <1>22 DEF PipesClose, caller, process
  <2>3. UNCHANGED <<booted, work, asks, replied, exit>>
    BY <1>22 DEF PipesClose, channel, jit
  <2> QED
    BY <1>22, <2>1, <2>2, <2>3 DEF PipesClose, TypeOK, caller, process, channel, jit, script
<1>23. CASE Dies
  BY <1>23 DEF Dies, TypeOK, caller, process, channel, jit, script
<1>24. ASSUME NEW b \in Body, Ask(b) PROVE Goal
  BY <1>24 DEF Ask, Message, TypeOK, caller, process, channel, jit, script
<1>25. ASSUME NEW b \in Body, ReceiveRpcResponse(b) PROVE Goal
  <2>1. work' \in [Body -> {"idle", "running", "waiting", "done", "failed"}]
    BY <1>25 DEF ReceiveRpcResponse, FailBody, TypeOK
  <2>2. replied' \in BOOLEAN
    BY <1>25 DEF ReceiveRpcResponse, FailBody, Answer, TypeOK
  <2> QED
    BY <1>25, <2>1, <2>2 DEF ReceiveRpcResponse, TypeOK, caller, process, channel, jit, script
<1>26. ASSUME NEW b \in Body, Throw(b) PROVE Goal
  <2>1. work' \in [Body -> {"idle", "running", "waiting", "done", "failed"}]
    BY <1>26 DEF Throw, FailBody, TypeOK
  <2>2. replied' \in BOOLEAN
    BY <1>26 DEF Throw, FailBody, Answer, TypeOK
  <2> QED
    BY <1>26, <2>1, <2>2 DEF Throw, TypeOK, caller, process, channel, jit, script
<1>27. ASSUME NEW b \in Body, Return(b) PROVE Goal
  <2>1. work' \in [Body -> {"idle", "running", "waiting", "done", "failed"}]
    BY <1>27 DEF Return, FailBody, TypeOK
  <2>2. replied' \in BOOLEAN
    BY <1>27 DEF Return, FailBody, Answer, TypeOK
  <2> QED
    BY <1>27, <2>1, <2>2 DEF Return, TypeOK, caller, process, channel, jit, script
<1>28. ASSUME NEW id \in asked, HandleRpcRequest(id) PROVE Goal
  BY <1>28 DEF HandleRpcRequest, Terminate, Killed, Message, TypeOK, caller, process, channel, jit, script
<1>29. CASE UNCHANGED vars
  BY <1>29 DEF vars, caller, process, channel, jit, script, TypeOK, caller, process, channel, jit, script
<1> QED
  BY <1>1, <1>2, <1>3, <1>4, <1>5, <1>6, <1>7, <1>8, <1>9, <1>10, <1>11, <1>12, <1>13, <1>14, <1>15, <1>16, <1>17, <1>18, <1>19, <1>20, <1>21, <1>22, <1>23, <1>24, <1>25, <1>26, <1>27, <1>28, <1>29 DEF Next, CallerStep, ParentEvent, ChildStep

LEMMA NextChannelsOK == TypeOK /\ TypeOK' /\ ChannelsOK /\ [Next]_vars => ChannelsOK'
<1> DEFINE Goal == ChannelsOK'
<1> SUFFICES ASSUME TypeOK, TypeOK', ChannelsOK, [Next]_vars PROVE Goal
  OBVIOUS
<1> USE MessageType, TailType, SendType DEF ChannelsOK, Types
<1>1. CASE Refuse
  BY <1>1 DEF Refuse, caller, process, channel, jit, script
<1>2. CASE MakeCopy
  BY <1>2 DEF MakeCopy, caller, process, channel, jit, script
<1>3. CASE InstallIsolatedCore
  BY <1>3 DEF InstallIsolatedCore, caller, process, channel, jit, script
<1>4. CASE RunWorker
  BY <1>4 DEF RunWorker, caller, process, channel, jit, script
<1>5. CASE ResolveScriptFails
  BY <1>5 DEF ResolveScriptFails, caller, process, channel, jit, script
<1>6. CASE RefuseScript
  BY <1>6 DEF RefuseScript, caller, process, channel, jit, script
<1>7. CASE SpawnScript
  BY <1>7 DEF SpawnScript, caller, process, channel, jit, script
<1>8. CASE Settle
  BY <1>8 DEF Settle, caller, process, channel, jit, script
<1>9. CASE Clean
  BY <1>9 DEF Clean, caller, process, channel, jit, script
<1>10. CASE TimeoutFires
  BY <1>10 DEF TimeoutFires, Terminate, Killed, caller, process, channel, jit, script
<1>11. CASE ChildExits
  BY <1>11 DEF ChildExits, Terminate, Killed, caller, process, channel, jit, script
<1>12. CASE ReceiveBooted
  BY <1>12 DEF ReceiveBooted, caller, process, channel, jit, script
<1>13. CASE ReceiveAnswer
  BY <1>13 DEF ReceiveAnswer, Terminate, Killed, caller, process, channel, jit, script
<1>14. CASE ReceiveRpcRequest
  BY <1>14 DEF ReceiveRpcRequest, caller, process, channel, jit, script
<1>15. CASE ScriptTimeoutFires
  BY <1>15 DEF ScriptTimeoutFires, Killed, caller, process, channel, jit, script
<1>16. CASE ScriptCloses
  BY <1>16 DEF ScriptCloses, caller, process, channel, jit, script
<1>17. CASE Boot
  BY <1>17 DEF Boot, caller, process, channel, jit, script
<1>18. CASE Crash
  BY <1>18 DEF Crash, caller, process, channel, jit, script
<1>19. CASE Compile
  BY <1>19 DEF Compile, Answer, caller, process, channel, jit, script
<1>20. CASE HandleJitRequest
  BY <1>20 DEF HandleJitRequest, Answer, caller, process, channel, jit, script
<1>21. CASE ScriptEnds
  BY <1>21 DEF ScriptEnds, caller, process, channel, jit, script
<1>22. CASE PipesClose
  BY <1>22 DEF PipesClose, caller, process, channel, jit, script
<1>23. CASE Dies
  BY <1>23 DEF Dies, caller, process, channel, jit, script
<1>c. \A b \in Body : CorrelationId(b)' \in Ids
  BY DEF TypeOK, CorrelationId, Ids
<1>24. ASSUME NEW b \in Body, Ask(b) PROVE Goal
  BY <1>24, <1>c DEF Ask, caller, process, channel, jit, script
<1>25. ASSUME NEW b \in Body, ReceiveRpcResponse(b) PROVE Goal
  BY <1>25 DEF ReceiveRpcResponse, FailBody, Answer, caller, process, channel, jit, script
<1>26. ASSUME NEW b \in Body, Throw(b) PROVE Goal
  BY <1>26 DEF Throw, FailBody, Answer, caller, process, channel, jit, script
<1>27. ASSUME NEW b \in Body, Return(b) PROVE Goal
  BY <1>27 DEF Return, Answer, caller, process, channel, jit, script
<1>28. ASSUME NEW id \in asked, HandleRpcRequest(id) PROVE Goal
  BY <1>28 DEF HandleRpcRequest, Terminate, Killed, caller, process, channel, jit, script
<1>29. CASE UNCHANGED vars
  BY <1>29 DEF vars, caller, process, channel, jit, script, caller, process, channel, jit, script
<1> QED
  BY <1>1, <1>2, <1>3, <1>4, <1>5, <1>6, <1>7, <1>8, <1>9, <1>10, <1>11, <1>12, <1>13, <1>14, <1>15, <1>16, <1>17, <1>18, <1>19, <1>20, <1>21, <1>22, <1>23, <1>24, <1>25, <1>26, <1>27, <1>28, <1>29 DEF Next, CallerStep, ParentEvent, ChildStep

LEMMA NextStopping == TypeOK /\ Stopping /\ [Next]_vars => Stopping'
<1> DEFINE Goal == Stopping'
<1> SUFFICES ASSUME TypeOK, Stopping, [Next]_vars PROVE Goal
  OBVIOUS
<1> USE DEF Stopping, NotStarted, SettledIsStopped, EndIsSettled, CopyIsCleaned, Running
<1>1. CASE Refuse
  BY <1>1 DEF Refuse, TypeOK, caller, process, channel, jit, script
<1>2. CASE MakeCopy
  BY <1>2 DEF MakeCopy, TypeOK, caller, process, channel, jit, script
<1>3. CASE InstallIsolatedCore
  BY <1>3 DEF InstallIsolatedCore, TypeOK, caller, process, channel, jit, script
<1>4. CASE RunWorker
  BY <1>4 DEF RunWorker, ReadyToFork, TypeOK, caller, process, channel, jit, script
<1>5. CASE ResolveScriptFails
  BY <1>5 DEF ResolveScriptFails, ReadyToFork, TypeOK, caller, process, channel, jit, script
<1>6. CASE RefuseScript
  BY <1>6 DEF RefuseScript, TypeOK, caller, process, channel, jit, script
<1>7. CASE SpawnScript
  BY <1>7 DEF SpawnScript, TypeOK, caller, process, channel, jit, script
<1>8. CASE Settle
  BY <1>8 DEF Settle, TypeOK, caller, process, channel, jit, script
<1>9. CASE Clean
  BY <1>9 DEF Clean, TypeOK, caller, process, channel, jit, script
<1>10. CASE TimeoutFires
  BY <1>10 DEF TimeoutFires, Terminate, Killed, TypeOK, caller, process, channel, jit, script
<1>11. CASE ChildExits
  BY <1>11 DEF ChildExits, Terminate, Killed, TypeOK, caller, process, channel, jit, script
<1>12. CASE ReceiveBooted
  BY <1>12 DEF ReceiveBooted, Message, NoId, TypeOK, caller, process, channel, jit, script
<1>13. CASE ReceiveAnswer
  <2>1. \E v \in {"ok", "failed"} : Terminate(v)
    BY <1>13 DEF ReceiveAnswer
  <2> QED
    BY <1>13, <2>1 DEF ReceiveAnswer, Terminate, Killed, TypeOK, caller, process, channel, jit, script
<1>14. CASE ReceiveRpcRequest
  BY <1>14 DEF ReceiveRpcRequest, TypeOK, caller, process, channel, jit, script
<1>15. CASE ScriptTimeoutFires
  BY <1>15 DEF ScriptTimeoutFires, Killed, TypeOK, caller, process, channel, jit, script
<1>16. CASE ScriptCloses
  BY <1>16 DEF ScriptCloses, TypeOK, caller, process, channel, jit, script
<1>17. CASE Boot
  BY <1>17 DEF Boot, Message, NoId, TypeOK, caller, process, channel, jit, script
<1>18. CASE Crash
  BY <1>18 DEF Crash, TypeOK, caller, process, channel, jit, script
<1>19. CASE Compile
  BY <1>19 DEF Compile, Answer, Message, NoId, TypeOK, caller, process, channel, jit, script
<1>20. CASE HandleJitRequest
  BY <1>20 DEF HandleJitRequest, Answer, Message, NoId, TypeOK, caller, process, channel, jit, script
<1>21. CASE ScriptEnds
  BY <1>21 DEF ScriptEnds, TypeOK, caller, process, channel, jit, script
<1>22. CASE PipesClose
  BY <1>22 DEF PipesClose, TypeOK, caller, process, channel, jit, script
<1>23. CASE Dies
  BY <1>23 DEF Dies, TypeOK, caller, process, channel, jit, script
<1>24. ASSUME NEW b \in Body, Ask(b) PROVE Goal
  BY <1>24 DEF Ask, Message, TypeOK, caller, process, channel, jit, script
<1>25. ASSUME NEW b \in Body, ReceiveRpcResponse(b) PROVE Goal
  BY <1>25 DEF ReceiveRpcResponse, FailBody, Answer, Message, NoId, TypeOK, caller, process, channel, jit, script
<1>26. ASSUME NEW b \in Body, Throw(b) PROVE Goal
  BY <1>26 DEF Throw, FailBody, Answer, Message, NoId, TypeOK, caller, process, channel, jit, script
<1>27. ASSUME NEW b \in Body, Return(b) PROVE Goal
  BY <1>27 DEF Return, Answer, Message, NoId, TypeOK, caller, process, channel, jit, script
<1>28. ASSUME NEW id \in asked, HandleRpcRequest(id) PROVE Goal
  BY <1>28 DEF HandleRpcRequest, Terminate, Killed, Message, TypeOK, caller, process, channel, jit, script
<1>29. CASE UNCHANGED vars
  BY <1>29 DEF vars, caller, process, channel, jit, script, TypeOK, caller, process, channel, jit, script
<1> QED
  BY <1>1, <1>2, <1>3, <1>4, <1>5, <1>6, <1>7, <1>8, <1>9, <1>10, <1>11, <1>12, <1>13, <1>14, <1>15, <1>16, <1>17, <1>18, <1>19, <1>20, <1>21, <1>22, <1>23, <1>24, <1>25, <1>26, <1>27, <1>28, <1>29 DEF Next, CallerStep, ParentEvent, ChildStep

LEMMA NextAskedOnce ==
    TypeOK /\ TypeOK' /\ ChannelsOK /\ AskedOnce /\ [Next]_vars => AskedOnce'
<1> DEFINE Goal == AskedOnce'
<1> SUFFICES ASSUME TypeOK, TypeOK', ChannelsOK, AskedOnce, [Next]_vars PROVE Goal
  OBVIOUS
<1> USE DEF AskedOnce, Types
<1>b. \A b \in Body : job.kind = "jit" /\ work[b] # "idle" => booted /\ ~Has(down, "request")
  BY DEF Idle
<1>c. \A b \in Body : CorrelationId(b)' \in Ids
  BY DEF TypeOK, CorrelationId, Ids
<1>u. up # << >> =>
        (Has(up, "answer") <=> Head(up).type = "answer" \/ Has(Tail(up), "answer"))
  BY HasTail DEF ChannelsOK
<1>s. \A type \in Types, id \in Ids :
        Has(Append(up, Message(type, id)), "answer") <=> Has(up, "answer") \/ type = "answer"
  <2> SUFFICES ASSUME NEW type \in Types, NEW id \in Ids
               PROVE  Has(Append(up, Message(type, id)), "answer")
                        <=> Has(up, "answer") \/ type = "answer"
    OBVIOUS
  <2>1. Message(type, id) \in Messages /\ Message(type, id).type = type
    BY MessageType DEF Message
  <2> QED
    BY <2>1, HasAppend DEF ChannelsOK
<1>d. down # << >> =>
        /\ Has(down, "request") <=> Head(down).type = "request" \/ Has(Tail(down), "request")
        /\ AtMostOne(down, "request") =>
             /\ AtMostOne(Tail(down), "request")
             /\ Head(down).type = "request" => ~Has(Tail(down), "request")
  BY HasTail, AtMostOneTail DEF ChannelsOK
<1>r. \A type \in Types, id \in Ids :
        /\ Has(Append(down, Message(type, id)), "request")
             <=> Has(down, "request") \/ type = "request"
        /\ AtMostOne(down, "request") /\ (type # "request" \/ ~Has(down, "request")) =>
             AtMostOne(Append(down, Message(type, id)), "request")
  <2> SUFFICES ASSUME NEW type \in Types, NEW id \in Ids
               PROVE  /\ Has(Append(down, Message(type, id)), "request")
                            <=> Has(down, "request") \/ type = "request"
                      /\ AtMostOne(down, "request") /\ (type # "request" \/ ~Has(down, "request")) =>
                            AtMostOne(Append(down, Message(type, id)), "request")
    OBVIOUS
  <2>1. Message(type, id) \in Messages /\ Message(type, id).type = type
    BY MessageType DEF Message
  <2> QED
    BY <2>1, HasAppend, AtMostOneAppend DEF ChannelsOK
<1>1. CASE Refuse
  BY <1>1 DEF Refuse, ChannelsOK, caller, process, channel, jit, script
<1>2. CASE MakeCopy
  BY <1>2 DEF MakeCopy, ChannelsOK, caller, process, channel, jit, script
<1>3. CASE InstallIsolatedCore
  BY <1>3 DEF InstallIsolatedCore, ChannelsOK, caller, process, channel, jit, script
<1>4. CASE RunWorker
  BY <1>4 DEF RunWorker, ChannelsOK, caller, process, channel, jit, script
<1>5. CASE ResolveScriptFails
  BY <1>5 DEF ResolveScriptFails, ChannelsOK, caller, process, channel, jit, script
<1>6. CASE RefuseScript
  BY <1>6 DEF RefuseScript, ChannelsOK, caller, process, channel, jit, script
<1>7. CASE SpawnScript
  BY <1>7 DEF SpawnScript, ChannelsOK, caller, process, channel, jit, script
<1>8. CASE Settle
  BY <1>8 DEF Settle, ChannelsOK, caller, process, channel, jit, script
<1>9. CASE Clean
  BY <1>9 DEF Clean, ChannelsOK, caller, process, channel, jit, script
<1>10. CASE TimeoutFires
  BY <1>10 DEF TimeoutFires, Terminate, ChannelsOK, caller, process, channel, jit, script
<1>11. CASE ChildExits
  BY <1>11 DEF ChildExits, Terminate, ChannelsOK, caller, process, channel, jit, script
<1>12. CASE ReceiveBooted
  BY <1>12, <1>u, <1>r, MessageType DEF ReceiveBooted, ChannelsOK, caller, process, channel, jit, script
<1>13. CASE ReceiveAnswer
  BY <1>13, <1>u DEF ReceiveAnswer, Terminate, ChannelsOK, caller, process, channel, jit, script
<1>14. CASE ReceiveRpcRequest
  BY <1>14, <1>u DEF ReceiveRpcRequest, ChannelsOK, caller, process, channel, jit, script
<1>15. CASE ScriptTimeoutFires
  BY <1>15 DEF ScriptTimeoutFires, ChannelsOK, caller, process, channel, jit, script
<1>16. CASE ScriptCloses
  BY <1>16 DEF ScriptCloses, ChannelsOK, caller, process, channel, jit, script
<1>17. CASE Boot
  BY <1>17, <1>s, MessageType DEF Boot, ChannelsOK, caller, process, channel, jit, script
<1>18. CASE Crash
  BY <1>18 DEF Crash, ChannelsOK, caller, process, channel, jit, script
<1>19. CASE Compile
  BY <1>19, <1>s, MessageType, <1>d DEF Compile, Answer, ChannelsOK, caller, process, channel, jit, script
<1>20. CASE HandleJitRequest
  BY <1>20, <1>s, MessageType, <1>d DEF HandleJitRequest, Answer, ChannelsOK, caller, process, channel, jit, script
<1>21. CASE ScriptEnds
  BY <1>21 DEF ScriptEnds, ChannelsOK, caller, process, channel, jit, script
<1>22. CASE PipesClose
  BY <1>22 DEF PipesClose, ChannelsOK, caller, process, channel, jit, script
<1>23. CASE Dies
  BY <1>23 DEF Dies, ChannelsOK, caller, process, channel, jit, script
<1>24. ASSUME NEW b \in Body, Ask(b) PROVE Goal
  BY <1>24, <1>s, MessageType, <1>b, <1>c DEF Ask, ChannelsOK, caller, process, channel, jit, script
<1>25. ASSUME NEW b \in Body, ReceiveRpcResponse(b) PROVE Goal
  <2>1. /\ job' = job /\ booted' = booted /\ verdict' = verdict
        /\ down # << >> /\ down' = Tail(down)
        /\ job.kind = "jit" /\ work[b] = "waiting"
    BY <1>25 DEF ReceiveRpcResponse, IsAnswerTo, caller, process, channel, jit, script
  <2>2. job.kind = "jit" => booted' /\ ~Has(down', "request") /\ AtMostOne(down', "request")
    BY <2>1, <1>b, <1>d
  <2> QED
    BY <2>1, <2>2
<1>26. ASSUME NEW b \in Body, Throw(b) PROVE Goal
  BY <1>26, <1>s, MessageType, <1>b DEF Throw, FailBody, Answer, ChannelsOK, caller, process, channel, jit, script
<1>27. ASSUME NEW b \in Body, Return(b) PROVE Goal
  BY <1>27, <1>s, MessageType, <1>b DEF Return, Answer, ChannelsOK, caller, process, channel, jit, script
<1>28. ASSUME NEW id \in asked, HandleRpcRequest(id) PROVE Goal
  BY <1>28, <1>r, MessageType DEF HandleRpcRequest, Terminate, ChannelsOK, caller, process, channel, jit, script
<1>29. CASE UNCHANGED vars
  BY <1>29 DEF vars, ChannelsOK, caller, process, channel, jit, script
<1> QED
  BY <1>1, <1>2, <1>3, <1>4, <1>5, <1>6, <1>7, <1>8, <1>9, <1>10, <1>11, <1>12, <1>13, <1>14, <1>15, <1>16, <1>17, <1>18, <1>19, <1>20, <1>21, <1>22, <1>23, <1>24, <1>25, <1>26, <1>27, <1>28, <1>29 DEF Next, CallerStep, ParentEvent, ChildStep

LEMMA NextAnswering ==
    TypeOK /\ TypeOK' /\ ChannelsOK /\ Stopping /\ AskedOnce /\ Answering /\ [Next]_vars
        => Answering'
<1> DEFINE Goal == Answering'
<1> SUFFICES ASSUME TypeOK, TypeOK', ChannelsOK, Stopping, AskedOnce, Answering, [Next]_vars
             PROVE  Goal
  OBVIOUS
<1> USE DEF Answering, AnswerIsDue, AnswerIsTheChilds, Types
<1>k. job.kind \in {"compile", "jit", "script"}
  BY JobAssumption DEF TypeOK, IsJob
<1>c. \A b \in Body : CorrelationId(b)' \in Ids
  BY DEF TypeOK, CorrelationId, Ids
<1>v. /\ verdict # "none" => ~Running(child) /\ timer # "armed"
      /\ stage \in {"called", "installing", "forking"} => verdict = "none"
  BY DEF Stopping, SettledIsStopped, NotStarted
<1>y. Bodies(job.type) \subseteq Body
  BY BodyAssumption DEF Bodies
<1>u. up # << >> =>
        (Has(up, "answer") <=> Head(up).type = "answer" \/ Has(Tail(up), "answer"))
  BY HasTail DEF ChannelsOK
<1>s. \A type \in Types, id \in Ids :
        Has(Append(up, Message(type, id)), "answer") <=> Has(up, "answer") \/ type = "answer"
  <2> SUFFICES ASSUME NEW type \in Types, NEW id \in Ids
               PROVE  Has(Append(up, Message(type, id)), "answer")
                        <=> Has(up, "answer") \/ type = "answer"
    OBVIOUS
  <2>1. Message(type, id) \in Messages /\ Message(type, id).type = type
    BY MessageType DEF Message
  <2> QED
    BY <2>1, HasAppend DEF ChannelsOK
<1>d. down # << >> /\ Head(down).type = "request" /\ job.kind = "jit" =>
        ~Has(up, "answer") /\ verdict # "ok"
  BY HasTail DEF ChannelsOK, AskedOnce
<1>1. CASE Refuse
  BY <1>1, <1>k, <1>v DEF Refuse, Running, caller, process, channel, jit, script
<1>2. CASE MakeCopy
  BY <1>2, <1>k, <1>v DEF MakeCopy, Running, caller, process, channel, jit, script
<1>3. CASE InstallIsolatedCore
  BY <1>3, <1>k, <1>v DEF InstallIsolatedCore, Running, caller, process, channel, jit, script
<1>4. CASE RunWorker
  BY <1>4, <1>k, <1>v DEF RunWorker, ReadyToFork, Running, caller, process, channel, jit, script
<1>5. CASE ResolveScriptFails
  BY <1>5, <1>k, <1>v DEF ResolveScriptFails, ReadyToFork, Running, caller, process, channel, jit, script
<1>6. CASE RefuseScript
  BY <1>6, <1>k, <1>v DEF RefuseScript, Running, caller, process, channel, jit, script
<1>7. CASE SpawnScript
  BY <1>7, <1>k, <1>v DEF SpawnScript, Running, caller, process, channel, jit, script
<1>8. CASE Settle
  BY <1>8, <1>k, <1>v DEF Settle, Running, caller, process, channel, jit, script
<1>9. CASE Clean
  BY <1>9, <1>k, <1>v DEF Clean, Running, caller, process, channel, jit, script
<1>10. CASE TimeoutFires
  BY <1>10, <1>k, <1>v DEF TimeoutFires, Terminate, Running, caller, process, channel, jit, script
<1>11. CASE ChildExits
  BY <1>11, <1>k, <1>v DEF ChildExits, Terminate, Running, caller, process, channel, jit, script
<1>12. CASE ReceiveBooted
  BY <1>12, <1>k, <1>v, <1>u DEF ReceiveBooted, Running, caller, process, channel, jit, script
<1>13. CASE ReceiveAnswer
  BY <1>13, <1>k, <1>v, <1>u DEF ReceiveAnswer, Terminate, Running, caller, process, channel, jit, script
<1>14. CASE ReceiveRpcRequest
  BY <1>14, <1>k, <1>v, <1>u DEF ReceiveRpcRequest, Running, caller, process, channel, jit, script
<1>15. CASE ScriptTimeoutFires
  BY <1>15, <1>k, <1>v DEF ScriptTimeoutFires, Running, caller, process, channel, jit, script
<1>16. CASE ScriptCloses
  BY <1>16, <1>k, <1>v DEF ScriptCloses, Running, caller, process, channel, jit, script
<1>17. CASE Boot
  BY <1>17, <1>k, <1>v, <1>s, MessageType DEF Boot, Running, caller, process, channel, jit, script
<1>18. CASE Crash
  BY <1>18, <1>k, <1>v DEF Crash, Running, caller, process, channel, jit, script
<1>19. CASE Compile
  BY <1>19, <1>k, <1>v, <1>s, MessageType DEF Compile, Answer, Running, caller, process, channel, jit, script
<1>20. CASE HandleJitRequest
  BY <1>20, <1>k, <1>v, <1>s, MessageType, <1>d DEF HandleJitRequest, Answer, Running, caller, process, channel, jit, script
<1>21. CASE ScriptEnds
  BY <1>21, <1>k, <1>v DEF ScriptEnds, Running, caller, process, channel, jit, script
<1>22. CASE PipesClose
  BY <1>22, <1>k, <1>v DEF PipesClose, Running, caller, process, channel, jit, script
<1>23. CASE Dies
  BY <1>23, <1>k, <1>v DEF Dies, Running, caller, process, channel, jit, script
<1>24. ASSUME NEW b \in Body, Ask(b) PROVE Goal
  BY <1>24, <1>k, <1>v, <1>s, MessageType, <1>c DEF Ask, Running, caller, process, channel, jit, script
<1>25. ASSUME NEW b \in Body, ReceiveRpcResponse(b) PROVE Goal
  <2>1. /\ job' = job /\ verdict' = verdict /\ job.kind = "jit"
        /\ work[b] \in {"running", "waiting"}
    BY <1>25 DEF ReceiveRpcResponse, IsAnswerTo, caller, process, channel, jit, script
  <2>2. \A c \in Body : c # b => work'[c] = work[c]
    BY <1>25 DEF ReceiveRpcResponse, FailBody, TypeOK
  <2>3. Has(up', "answer") => Has(up, "answer")
    BY <1>25, <1>s, MessageType DEF ReceiveRpcResponse, FailBody, Answer
  <2> QED
    BY <2>1, <2>2, <2>3, <1>y
<1>26. ASSUME NEW b \in Body, Throw(b) PROVE Goal
  <2>1. /\ job' = job /\ verdict' = verdict /\ job.kind = "jit"
        /\ work[b] \in {"running", "waiting"}
    BY <1>26 DEF Throw, caller, process, channel, jit, script
  <2>2. \A c \in Body : c # b => work'[c] = work[c]
    BY <1>26 DEF Throw, FailBody, TypeOK
  <2>3. Has(up', "answer") => Has(up, "answer")
    BY <1>26, <1>s, MessageType DEF Throw, FailBody, Answer
  <2> QED
    BY <2>1, <2>2, <2>3, <1>y
<1>27. ASSUME NEW b \in Body, Return(b) PROVE Goal
  BY <1>27, <1>k, <1>v, <1>s, MessageType DEF Return, Answer, IsComplete, Running, caller, process, channel, jit, script
<1>28. ASSUME NEW id \in asked, HandleRpcRequest(id) PROVE Goal
  BY <1>28, <1>k, <1>v DEF HandleRpcRequest, Terminate, Running, caller, process, channel, jit, script
<1>29. CASE UNCHANGED vars
  BY <1>29, <1>k, <1>v DEF vars, Running, caller, process, channel, jit, script
<1> QED
  BY <1>1, <1>2, <1>3, <1>4, <1>5, <1>6, <1>7, <1>8, <1>9, <1>10, <1>11, <1>12, <1>13, <1>14, <1>15, <1>16, <1>17, <1>18, <1>19, <1>20, <1>21, <1>22, <1>23, <1>24, <1>25, <1>26, <1>27, <1>28, <1>29 DEF Next, CallerStep, ParentEvent, ChildStep

-----------------------------------------------------------------------------
(* Where requests are.                                                     *)

Places(id, messages, types) ==
    {i \in 1 .. Len(messages) : messages[i].type \in types /\ messages[i].id = id}

LEMMA PlacesAreFinite ==
    ASSUME NEW s \in Seq(Messages), NEW id, NEW types
    PROVE  /\ IsFiniteSet(Places(id, s, types))
           /\ Found(id, s, types) = Cardinality(Places(id, s, types))
           /\ Found(id, s, types) \in Nat
<1>1. Places(id, s, types) \in SUBSET (1 .. Len(s)) /\ IsFiniteSet(1 .. Len(s))
  BY FS_Interval, LenProperties DEF Places
<1>2. IsFiniteSet(Places(id, s, types))
  BY <1>1, FS_Subset
<1> QED
  BY <1>2, FS_CardinalityType DEF Found, Places

\* A message that is sent is found once more, if it is one that is looked for.
LEMMA FoundAppend ==
    ASSUME NEW s \in Seq(Messages), NEW m \in Messages, NEW id, NEW types
    PROVE  Found(id, Append(s, m), types) =
              Found(id, s, types) + (IF m.type \in types /\ m.id = id THEN 1 ELSE 0)
<1> DEFINE t == Append(s, m)
           here == m.type \in types /\ m.id = id
<1>1. /\ t \in Seq(Messages) /\ Len(t) = Len(s) + 1 /\ Len(s) \in Nat
      /\ \A i \in 1 .. Len(s) : t[i] = s[i]
      /\ t[Len(s) + 1] = m
  BY AppendProperties
<1> HIDE DEF t
<1>2. /\ IsFiniteSet(Places(id, s, types)) /\ Found(id, s, types) \in Nat
      /\ Found(id, s, types) = Cardinality(Places(id, s, types))
      /\ Found(id, t, types) = Cardinality(Places(id, t, types))
  BY <1>1, PlacesAreFinite
<1>3. CASE here
  <2>1. Places(id, t, types) = Places(id, s, types) \cup {Len(s) + 1}
    BY <1>1, <1>3 DEF Places
  <2>2. Len(s) + 1 \notin Places(id, s, types)
    BY <1>1 DEF Places
  <2> QED
    BY <1>2, <1>3, <2>1, <2>2, FS_AddElement DEF t
<1>4. CASE ~here
  <2>1. Places(id, t, types) = Places(id, s, types)
    BY <1>1, <1>4 DEF Places
  <2> QED
    BY <1>2, <1>4, <2>1 DEF t
<1> QED
  BY <1>3, <1>4

\* A message that is received was found.
LEMMA FoundTail ==
    ASSUME NEW s \in Seq(Messages), s # << >>, NEW id, NEW types
    PROVE  Found(id, s, types) =
              Found(id, Tail(s), types)
                + (IF Head(s).type \in types /\ Head(s).id = id THEN 1 ELSE 0)
<1> DEFINE t == Tail(s)
           here == Head(s).type \in types /\ Head(s).id = id
           S == Places(id, t, types)
           T == Places(id, s, types) \ {1}
           f == [i \in S |-> i + 1]
<1>1. /\ t \in Seq(Messages) /\ Len(t) = Len(s) - 1 /\ Len(s) \in Nat \ {0}
      /\ \A i \in 1 .. Len(t) : t[i] = s[i + 1]
      /\ Head(s) = s[1]
  BY HeadTailProperties, EmptySeq
<1> HIDE DEF t
<1>2. /\ IsFiniteSet(S) /\ IsFiniteSet(Places(id, s, types))
      /\ Cardinality(S) \in Nat /\ Cardinality(Places(id, s, types)) \in Nat
      /\ Found(id, s, types) = Cardinality(Places(id, s, types))
      /\ Found(id, t, types) = Cardinality(S)
  BY <1>1, PlacesAreFinite
<1>3. f \in [S -> T]
  BY <1>1 DEF Places
<1>4. \A x, y \in S : f[x] = f[y] => x = y
  BY DEF Places
<1>5. ASSUME NEW z \in T PROVE \E x \in S : f[x] = z
  <2>1. z - 1 \in 1 .. Len(t) /\ z = (z - 1) + 1 /\ z \in Places(id, s, types)
    BY <1>1 DEF Places
  <2>2. z - 1 \in S
    BY <1>1, <2>1 DEF Places
  <2> QED
    BY <2>1, <2>2
<1>6. Cardinality(T) = Cardinality(S)
  <2> HIDE DEF S, T, f
  <2>1. f \in Injection(S, T) /\ f \in Surjection(S, T)
    BY <1>3, <1>4, <1>5 DEF Injection, IsInjective, Surjection
  <2>2. ExistsBijection(S, T)
    BY <2>1 DEF ExistsBijection, Bijection
  <2> QED
    BY <1>2, <2>2, FS_Bijection
<1>7. Cardinality(T) = IF 1 \in Places(id, s, types)
                       THEN Cardinality(Places(id, s, types)) - 1
                       ELSE Cardinality(Places(id, s, types))
  BY <1>2, FS_RemoveElement
<1>8. 1 \in Places(id, s, types) <=> here
  BY <1>1 DEF Places
<1> HIDE DEF S, T, here
<1> QED
  BY <1>2, <1>6, <1>7, <1>8 DEF t, here

Requests == {"rpc_request"}
Responses == {"rpc_rows", "rpc_error"}

\* How often a request is on its way, being served, or answered on the way.
OnItsWay(id) ==
    Found(id, up, Requests) + Found(id, down, Responses) + (IF id \in asked THEN 1 ELSE 0)

\* Each body's current request is somewhere, once, as long as it waits for it;
\* its next ones are nowhere yet, so that a new one is the only one of its name.
RequestsFit ==
    /\ child = "none" => \A b \in Body : work[b] # "waiting"
    /\ \A b \in Body :
          work[b] = "waiting" /\ Running(child) => OnItsWay(<<b, asks[b]>>) = 1
    /\ \A b \in Body : \A n \in Nat : n > asks[b] => OnItsWay(<<b, n>>) = 0

LEMMA IdsOfBodies == \A b \in Body, n \in Nat : <<b, n>> \in Ids
  BY DEF Ids

LEMMA OnItsWayIsNat == ChannelsOK => \A id : OnItsWay(id) \in Nat
  BY PlacesAreFinite DEF ChannelsOK, OnItsWay

\* A step that leaves the bodies' requests where they are.
LEMMA RequestsStay ==
    ASSUME TypeOK, RequestsFit, asks' = asks,
           \A id \in Ids : OnItsWay(id)' = OnItsWay(id),
           \A b \in Body : work'[b] = "waiting" => work[b] = "waiting",
           Running(child') => Running(child) \/ child = "none",
           child' = "none" => child = "none"
    PROVE  RequestsFit'
<1>1. asks \in [Body -> Nat]
  BY DEF TypeOK
<1>2. \A b \in Body, n \in Nat : OnItsWay(<<b, n>>)' = OnItsWay(<<b, n>>)
  BY IdsOfBodies
<1>3. ASSUME NEW b \in Body, work'[b] = "waiting", Running(child')
      PROVE  OnItsWay(<<b, asks[b]>>)' = 1
  <2>1. work[b] = "waiting" /\ Running(child)
    BY <1>3 DEF RequestsFit
  <2> QED
    BY <1>1, <1>2, <2>1 DEF RequestsFit
<1>4. \A b \in Body : \A n \in Nat : n > asks[b] => OnItsWay(<<b, n>>)' = 0
  BY <1>2 DEF RequestsFit
<1>5. child' = "none" => \A b \in Body : work'[b] # "waiting"
  BY DEF RequestsFit
<1> QED
  BY <1>3, <1>4, <1>5 DEF RequestsFit, OnItsWay

LEMMA InitRequestsFit == Init => RequestsFit
<1> SUFFICES ASSUME Init PROVE RequestsFit
  OBVIOUS
<1>1. \A id, types : Places(id, up, types) = {} /\ Places(id, down, types) = {}
  BY DEF Init, Places
<1>2. \A id : OnItsWay(id) = 0
  <2> SUFFICES ASSUME NEW id PROVE OnItsWay(id) = 0
    OBVIOUS
  <2>1. up \in Seq(Messages) /\ down \in Seq(Messages) /\ id \notin asked
    BY DEF Init
  <2>2. /\ Found(id, up, Requests) = Cardinality(Places(id, up, Requests))
        /\ Found(id, down, Responses) = Cardinality(Places(id, down, Responses))
    BY <2>1, PlacesAreFinite
  <2>3. Found(id, up, Requests) = 0 /\ Found(id, down, Responses) = 0
    BY <1>1, <2>2, FS_EmptySet
  <2> QED
    BY <2>1, <2>3 DEF OnItsWay
<1>3. \A b \in Body : work[b] = "idle"
  BY DEF Init, Idle
<1> QED
  BY <1>2, <1>3 DEF RequestsFit

LEMMA NextRequestsFit ==
    TypeOK /\ TypeOK' /\ ChannelsOK /\ Stopping /\ RequestsFit /\ [Next]_vars => RequestsFit'
<1> DEFINE Goal == RequestsFit'
<1> SUFFICES ASSUME TypeOK, TypeOK', ChannelsOK, Stopping, RequestsFit, [Next]_vars PROVE Goal
  OBVIOUS
<1> DEFINE Same == \A id \in Ids : OnItsWay(id)' = OnItsWay(id)
           Frame == /\ asks' = asks
                    /\ \A b \in Body : work'[b] = "waiting" => work[b] = "waiting"
                    /\ Running(child') => Running(child) \/ child = "none"
                    /\ child' = "none" => child = "none"
<1>frame. Same /\ Frame => Goal
  BY RequestsStay
<1>kept. up' = up /\ down' = down /\ asked' = asked => Same
  BY DEF OnItsWay
<1>started. stage \in {"called", "installing", "forking"} => child = "none"
  BY DEF Stopping, NotStarted
<1>channels. up \in Seq(Messages) /\ down \in Seq(Messages) /\ asked \subseteq Ids
  BY DEF ChannelsOK
<1>nat. \A id : /\ Found(id, up, Requests) \in Nat /\ Found(id, down, Responses) \in Nat
                /\ OnItsWay(id) \in Nat
  BY <1>channels, PlacesAreFinite, OnItsWayIsNat DEF ChannelsOK
<1>types. asks \in [Body -> Nat] /\ work \in [Body -> {"idle", "running", "waiting", "done", "failed"}]
  BY DEF TypeOK
<1>send. \A of : \A type \in Types, id \in Ids :
            /\ Found(of, Append(up, Message(type, id)), Requests)
                 = Found(of, up, Requests) + (IF type = "rpc_request" /\ id = of THEN 1 ELSE 0)
            /\ Found(of, Append(down, Message(type, id)), Responses)
                 = Found(of, down, Responses)
                     + (IF type \in {"rpc_rows", "rpc_error"} /\ id = of THEN 1 ELSE 0)
  <2> SUFFICES ASSUME NEW type \in Types, NEW id \in Ids, NEW of
               PROVE  /\ Found(of, Append(up, Message(type, id)), Requests)
                            = Found(of, up, Requests)
                                + (IF type = "rpc_request" /\ id = of THEN 1 ELSE 0)
                      /\ Found(of, Append(down, Message(type, id)), Responses)
                            = Found(of, down, Responses)
                                + (IF type \in {"rpc_rows", "rpc_error"} /\ id = of THEN 1 ELSE 0)
    OBVIOUS
  <2>1. /\ Message(type, id) \in Messages
        /\ Message(type, id).type = type /\ Message(type, id).id = id
    BY MessageType DEF Message
  <2> QED
    BY <1>channels, <2>1, FoundAppend DEF Requests, Responses
<1>receiveUp. up # << >> => \A of :
            Found(of, up, Requests) = Found(of, Tail(up), Requests)
                + (IF Head(up).type = "rpc_request" /\ Head(up).id = of THEN 1 ELSE 0)
  BY <1>channels, FoundTail DEF Requests
<1>receiveDown. down # << >> => \A of :
            Found(of, down, Responses) = Found(of, Tail(down), Responses)
                + (IF Head(down).type \in {"rpc_rows", "rpc_error"} /\ Head(down).id = of
                   THEN 1 ELSE 0)
  BY <1>channels, FoundTail DEF Responses
<1>leftUp. up # << >> => \A of : Found(of, Tail(up), Requests) \in Nat
  BY <1>channels, TailType, PlacesAreFinite
<1>leftDown. down # << >> => \A of : Found(of, Tail(down), Responses) \in Nat
  BY <1>channels, TailType, PlacesAreFinite
\* An answer of the worker is no request.
<1>answer. \A type \in {"answer", "error", "worker_booted"} : \A of :
              Found(of, Append(up, Message(type, NoId)), Requests) = Found(of, up, Requests)
  <2>1. NoId \in Ids
    BY MessageType
  <2> QED
    BY <1>send, <1>nat, <2>1 DEF Types
<1>1. CASE Refuse
  BY <1>1, <1>kept, <1>frame DEF Refuse, caller, process, channel, jit, script
<1>2. CASE MakeCopy
  BY <1>2, <1>kept, <1>frame DEF MakeCopy, caller, process, channel, jit, script
<1>3. CASE InstallIsolatedCore
  BY <1>3, <1>kept, <1>frame DEF InstallIsolatedCore, caller, process, channel, jit, script
<1>4. CASE RunWorker
  <2>1. child = "none" /\ child' # "none"
    BY <1>4, <1>started DEF RunWorker, ReadyToFork
  <2> QED
    BY <1>4, <2>1, <1>kept, <1>frame DEF RunWorker, caller, process, channel, jit, script
<1>5. CASE ResolveScriptFails
  BY <1>5, <1>kept, <1>frame DEF ResolveScriptFails, caller, process, channel, jit, script
<1>6. CASE RefuseScript
  BY <1>6, <1>kept, <1>frame DEF RefuseScript, caller, process, channel, jit, script
<1>7. CASE SpawnScript
  <2>1. child = "none" /\ child' # "none"
    BY <1>7, <1>started DEF SpawnScript
  <2> QED
    BY <1>7, <2>1, <1>kept, <1>frame DEF SpawnScript, caller, process, channel, jit, script
<1>8. CASE Settle
  BY <1>8, <1>kept, <1>frame DEF Settle, caller, process, channel, jit, script
<1>9. CASE Clean
  BY <1>9, <1>kept, <1>frame DEF Clean, caller, process, channel, jit, script
<1>10. CASE TimeoutFires
  BY <1>10, <1>kept, <1>frame DEF TimeoutFires, Terminate, Killed, Running, caller, process, channel, jit, script
<1>11. CASE ChildExits
  BY <1>11, <1>kept, <1>frame DEF ChildExits, Terminate, Killed, Running, caller, process, channel, jit, script
<1>12. CASE ReceiveBooted
  <2>1. \A of : Found(of, up', Requests) = Found(of, up, Requests)
    BY <1>12, <1>receiveUp, <1>leftUp DEF ReceiveBooted
  <2>2. \A of : Found(of, down', Responses) = Found(of, down, Responses)
    BY <1>12, <1>send, <1>nat, MessageType DEF ReceiveBooted, Types
  <2>3. Same
    BY <1>12, <2>1, <2>2 DEF ReceiveBooted, OnItsWay
  <2> QED
    BY <1>12, <2>3, <1>frame DEF ReceiveBooted, caller, process, channel, jit, script
<1>13. CASE ReceiveAnswer
  <2>1. \A of : Found(of, up', Requests) = Found(of, up, Requests)
    BY <1>13, <1>receiveUp, <1>leftUp DEF ReceiveAnswer
  <2>2. Same
    BY <1>13, <2>1 DEF ReceiveAnswer, OnItsWay
  <2>3. Frame
    BY <1>13 DEF ReceiveAnswer, Terminate, Killed, Running, caller, process, channel, jit, script
  <2> QED
    BY <2>2, <2>3, <1>frame
<1>14. CASE ReceiveRpcRequest
  <2> DEFINE head == Head(up).id
  <2>1. /\ up # << >> /\ Head(up).type = "rpc_request" /\ up' = Tail(up)
        /\ asked' = asked \cup {head} /\ down' = down
        /\ asks' = asks /\ work' = work /\ child' = child
    BY <1>14 DEF ReceiveRpcRequest, caller, process, channel, jit, script
  <2>2. \A of : Found(of, up', Requests) \in Nat
             /\ Found(of, up, Requests)
                  = Found(of, up', Requests) + (IF head = of THEN 1 ELSE 0)
    BY <2>1, <1>receiveUp, <1>leftUp
  <2> HIDE DEF head
  <2>3. ASSUME NEW of, OnItsWay(of) \in {0, 1} PROVE OnItsWay(of)' = OnItsWay(of)
    BY <2>1, <2>2, <2>3, <1>nat DEF OnItsWay
  <2>4. ASSUME NEW b \in Body, work'[b] = "waiting", Running(child')
        PROVE  OnItsWay(<<b, asks[b]>>)' = 1
    BY <2>1, <2>3, <2>4 DEF RequestsFit
  <2>5. ASSUME NEW b \in Body, NEW n \in Nat, n > asks[b] PROVE OnItsWay(<<b, n>>)' = 0
    BY <2>1, <2>3, <2>5 DEF RequestsFit
  <2>6. child' = "none" => \A b \in Body : work'[b] # "waiting"
    BY <2>1 DEF RequestsFit
  <2> QED
    BY <2>1, <2>4, <2>5, <2>6 DEF RequestsFit, OnItsWay
<1>15. CASE ScriptTimeoutFires
  BY <1>15, <1>kept, <1>frame DEF ScriptTimeoutFires, Killed, Running, caller, process, channel, jit, script
<1>16. CASE ScriptCloses
  BY <1>16, <1>kept, <1>frame DEF ScriptCloses, caller, process, channel, jit, script
<1>17. CASE Boot
  <2>1. Same
    BY <1>17, <1>answer DEF Boot, OnItsWay
  <2> QED
    BY <1>17, <2>1, <1>frame DEF Boot, Running, caller, process, channel, jit, script
<1>18. CASE Crash
  BY <1>18, <1>kept, <1>frame DEF Crash, Running, caller, process, channel, jit, script
<1>19. CASE Compile
  <2>1. \A of : Found(of, up', Requests) = Found(of, up, Requests)
    BY <1>19, <1>answer DEF Compile, Answer
  <2>2. \A of : Found(of, down', Responses) = Found(of, down, Responses)
    BY <1>19, <1>receiveDown, <1>leftDown DEF Compile
  <2>3. Same
    BY <1>19, <2>1, <2>2 DEF Compile, OnItsWay
  <2> QED
    BY <1>19, <2>3, <1>frame DEF Compile, caller, process, channel, jit, script
<1>20. CASE HandleJitRequest
  <2>1. \A of : Found(of, up', Requests) = Found(of, up, Requests)
    BY <1>20, <1>answer DEF HandleJitRequest, Answer
  <2>2. \A of : Found(of, down', Responses) = Found(of, down, Responses)
    BY <1>20, <1>receiveDown, <1>leftDown DEF HandleJitRequest
  <2>3. Same
    BY <1>20, <2>1, <2>2 DEF HandleJitRequest, OnItsWay
  <2>4. \A b \in Body : work'[b] = "waiting" => work[b] = "waiting"
    BY <1>20 DEF HandleJitRequest
  <2> QED
    BY <1>20, <2>3, <2>4, <1>frame DEF HandleJitRequest, caller, process, channel, jit, script
<1>21. CASE ScriptEnds
  BY <1>21, <1>kept, <1>frame DEF ScriptEnds, Running, caller, process, channel, jit, script
<1>22. CASE PipesClose
  BY <1>22, <1>kept, <1>frame DEF PipesClose, caller, process, channel, jit, script
<1>23. CASE Dies
  BY <1>23, <1>kept, <1>frame DEF Dies, Running, caller, process, channel, jit, script
<1>24. ASSUME NEW b \in Body, Ask(b) PROVE Goal
  <2> DEFINE id == <<b, asks[b] + 1>>
  <2>1. /\ child' = child /\ child = "up" /\ down' = down /\ asked' = asked
        /\ asks' = [asks EXCEPT ![b] = @ + 1] /\ work' = [work EXCEPT ![b] = "waiting"]
    BY <1>24 DEF Ask, caller, process, channel, jit, script
  <2>2. /\ asks'[b] = asks[b] + 1 /\ asks[b] \in Nat /\ asks[b] + 1 \in Nat
        /\ \A c \in Body : c # b => asks'[c] = asks[c] /\ work'[c] = work[c]
    BY <2>1, <1>types
  <2>3. up' = Append(up, Message("rpc_request", id)) /\ id \in Ids
    BY <1>24, <2>2, IdsOfBodies DEF Ask, CorrelationId
  <2>4. OnItsWay(id) = 0
    BY <2>2 DEF RequestsFit
  <2>5. \A of : Found(of, up', Requests)
                  = Found(of, up, Requests) + (IF id = of THEN 1 ELSE 0)
    BY <2>3, <1>send DEF Types
  <2>6. \A of : OnItsWay(of)' = OnItsWay(of) + (IF id = of THEN 1 ELSE 0)
    BY <2>1, <2>5, <1>nat DEF OnItsWay
  <2>7. ASSUME NEW c \in Body, work'[c] = "waiting", Running(child')
        PROVE  OnItsWay(<<c, asks[c]>>)' = 1
    <3>1. CASE c = b
      <4>1. <<c, asks'[c]>> = id
        BY <2>2, <3>1
      <4>2. Found(id, up', Requests) = Found(id, up, Requests) + 1
        BY <2>5, <1>nat
      <4>3. Found(id, up', Requests) + Found(id, down', Responses)
              + (IF id \in asked' THEN 1 ELSE 0) = 1
        BY <2>1, <2>4, <4>2, <1>nat DEF OnItsWay
      <4> QED
        BY <4>1, <4>3 DEF OnItsWay
    <3>2. CASE c # b
      <4>1. <<c, asks'[c]>> = <<c, asks[c]>> /\ <<c, asks[c]>> # id
        BY <2>2, <3>2
      <4>2. OnItsWay(<<c, asks[c]>>) = 1
        BY <2>1, <2>2, <2>7, <3>2 DEF RequestsFit
      <4>3. Found(<<c, asks[c]>>, up', Requests) = Found(<<c, asks[c]>>, up, Requests)
        BY <2>5, <4>1, <1>nat
      <4> QED
        BY <2>1, <4>1, <4>2, <4>3 DEF OnItsWay
    <3> QED
      BY <3>1, <3>2
  <2>8. ASSUME NEW c \in Body, NEW n \in Nat, n > asks'[c] PROVE OnItsWay(<<c, n>>)' = 0
    <3>1. <<c, n>> # id /\ n > asks[c]
      BY <2>2, <2>8, <1>types
    <3>2. OnItsWay(<<c, n>>) = 0
      BY <3>1 DEF RequestsFit
    <3> QED
      BY <2>6, <3>1, <3>2
  <2> QED
    BY <2>1, <2>7, <2>8 DEF RequestsFit, OnItsWay
<1>25. ASSUME NEW b \in Body, ReceiveRpcResponse(b) PROVE Goal
  <2> DEFINE id == <<b, asks[b]>>
  <2>1. /\ child' = child /\ asks' = asks /\ asked' = asked
        /\ child = "up" /\ down # << >> /\ down' = Tail(down)
        /\ Head(down).type \in {"rpc_rows", "rpc_error"} /\ Head(down).id = id
    BY <1>25 DEF ReceiveRpcResponse, IsAnswerTo, CorrelationId, caller, process, channel, jit, script
  <2>2. /\ work'[b] # "waiting"
        /\ \A c \in Body : c # b => work'[c] = work[c]
    BY <1>25, <1>types DEF ReceiveRpcResponse, FailBody
  <2>3. \A of : Found(of, up', Requests) = Found(of, up, Requests)
    BY <1>25, <1>answer DEF ReceiveRpcResponse, FailBody, Answer
  <2>4. \A of : Found(of, down', Responses) \in Nat
             /\ Found(of, down, Responses)
                  = Found(of, down', Responses) + (IF id = of THEN 1 ELSE 0)
    BY <2>1, <1>receiveDown, <1>leftDown
  <2>5. \A of : id # of => OnItsWay(of)' = OnItsWay(of)
    BY <2>1, <2>3, <2>4, <1>nat DEF OnItsWay
  <2>6. ASSUME NEW c \in Body, work'[c] = "waiting", Running(child')
        PROVE  OnItsWay(<<c, asks[c]>>)' = 1
    BY <2>1, <2>2, <2>5, <2>6 DEF RequestsFit
  <2>7. ASSUME NEW c \in Body, NEW n \in Nat, n > asks[c] PROVE OnItsWay(<<c, n>>)' = 0
    <3>1. <<c, n>> # id
      BY <2>7, <1>types
    <3>2. OnItsWay(<<c, n>>) = 0
      BY <2>7 DEF RequestsFit
    <3> QED
      BY <2>5, <3>1, <3>2
  <2> QED
    BY <2>1, <2>6, <2>7 DEF RequestsFit, OnItsWay
<1>26. ASSUME NEW b \in Body, Throw(b) PROVE Goal
  <2>1. \A of : Found(of, up', Requests) = Found(of, up, Requests)
    BY <1>26, <1>answer DEF Throw, FailBody, Answer
  <2>2. Same
    BY <1>26, <2>1 DEF Throw, OnItsWay
  <2>3. \A c \in Body : work'[c] = "waiting" => work[c] = "waiting"
    BY <1>26, <1>types DEF Throw, FailBody
  <2> QED
    BY <1>26, <2>2, <2>3, <1>frame DEF Throw, caller, process, channel, jit, script
<1>27. ASSUME NEW b \in Body, Return(b) PROVE Goal
  <2>1. \A of : Found(of, up', Requests) = Found(of, up, Requests)
    BY <1>27, <1>answer DEF Return, Answer
  <2>2. Same
    BY <1>27, <2>1 DEF Return, OnItsWay
  <2>3. \A c \in Body : work'[c] = "waiting" => work[c] = "waiting"
    BY <1>27, <1>types DEF Return
  <2> QED
    BY <1>27, <2>2, <2>3, <1>frame DEF Return, caller, process, channel, jit, script
<1>28. ASSUME NEW id \in asked, HandleRpcRequest(id) PROVE Goal
  <2>1. /\ id \in Ids /\ asked' = asked \ {id} /\ up' = up /\ asks' = asks /\ work' = work
    BY <1>28, <1>channels DEF HandleRpcRequest, caller, process, channel, jit, script
  <2>2. CASE Running(child)
    <3>1. PICK type \in {"rpc_rows", "rpc_error"} : down' = Append(down, Message(type, id))
      BY <1>28, <2>2 DEF HandleRpcRequest, Running
    <3>2. child' = child
      BY <1>28, <2>2 DEF HandleRpcRequest, Running, process
    <3>3. \A of : Found(of, down', Responses)
                    = Found(of, down, Responses) + (IF id = of THEN 1 ELSE 0)
      BY <2>1, <3>1, <1>send DEF Types
    <3>4. Same
      BY <2>1, <3>3, <1>nat DEF OnItsWay
    <3> QED
      BY <2>1, <3>2, <3>4, <1>frame
  <2>3. CASE ~Running(child)
    <3>1. down' = down /\ ~Running(child') /\ child' # "none"
      BY <1>28, <2>3 DEF HandleRpcRequest, Terminate, Killed, Running, process
    <3>2. ASSUME NEW of, OnItsWay(of) = 0 PROVE OnItsWay(of)' = 0
      BY <2>1, <3>1, <3>2, <1>nat DEF OnItsWay
    <3>3. ASSUME NEW b \in Body, NEW n \in Nat, n > asks[b] PROVE OnItsWay(<<b, n>>)' = 0
      BY <3>2, <3>3 DEF RequestsFit
    <3> QED
      BY <2>1, <3>1, <3>3 DEF RequestsFit, OnItsWay
  <2> QED
    BY <2>2, <2>3
<1>29. CASE UNCHANGED vars
  BY <1>29, <1>kept, <1>frame DEF vars, caller, process, channel, jit, script
<1> QED
  BY <1>1, <1>2, <1>3, <1>4, <1>5, <1>6, <1>7, <1>8, <1>9, <1>10, <1>11, <1>12, <1>13, <1>14, <1>15, <1>16, <1>17, <1>18, <1>19, <1>20, <1>21, <1>22, <1>23, <1>24, <1>25, <1>26, <1>27, <1>28, <1>29 DEF Next, CallerStep, ParentEvent, ChildStep

-----------------------------------------------------------------------------
(* The copy and the notes.                                                 *)

\* What a note names is copied once it is re-included, unless it is below what
\* is copied though ignored.
LEMMA ReincludedIsCopied ==
    ASSUME NEW t, IsTree(t), NEW p \in Entries(t),
           \A q \in Prefixes(p) \ {p} : q \in Entries(CopyProject(t)),
           Names(p) \cap AlwaysIgnoredNames = {},
           Prefixes(p) \cap CopiedThoughIgnored(t) = {}
    PROVE  p \in Entries(CopyProject(ReincludedIn(t, p)))
<1> DEFINE last == [matches |-> {q \in Entries(t) : p \in Prefixes(q)}, negated |-> TRUE]
           n == Len(t.ignore)
           w == ReincludedIn(t, p)
<1>1. p \in Path \ {<< >>} /\ Entries(t) \subseteq Path /\ t.ignore \in Seq(Pattern)
  BY TreeFacts DEF IsTree, All
<1>2. w = [t EXCEPT !.ignore = Append(t.ignore, last)]
  BY DEF ReincludedIn
<1>3. last \in Pattern
  BY <1>1 DEF Pattern
<1> HIDE DEF w, last
<1>4. /\ DOMAIN w = DOMAIN t /\ w.kind = t.kind /\ w.to = t.to
      /\ w.at = t.at /\ w.around = t.around
      /\ w.ignore = Append(t.ignore, last)
  BY <1>2 DEF IsTree
<1>5. /\ n \in Nat /\ w.ignore \in Seq(Pattern) /\ Len(w.ignore) = n + 1 /\ w.ignore[n + 1] = last
      /\ \A i \in 1 .. n : w.ignore[i] = t.ignore[i]
  BY <1>1, <1>3, <1>4
<1>6. IsTree(w)
  BY <1>4, <1>5 DEF IsTree, Entries, Links, IsLink, IsDir
<1>7. ASSUME NEW q \in Prefixes(p) PROVE ~Ignores(w, q)
  <2> SUFFICES ASSUME Ignores(w, q) PROVE FALSE
    OBVIOUS
  <2>1. PICK r \in Prefixes(q), i \in 1 .. n + 1 :
            /\ r \in w.ignore[i].matches /\ ~w.ignore[i].negated
            /\ \A j \in i + 1 .. n + 1 : r \notin w.ignore[j].matches
    BY <1>5 DEF Ignores
  <2>2. r \in Prefixes(p)
    BY <1>1, PrefixFacts
  <2>3. i # n + 1
    BY <1>5, <2>1 DEF last
  <2>4. i \in 1 .. n /\ n + 1 \in i + 1 .. n + 1
    BY <1>5, <2>3
  <2>5. r \notin last.matches
    BY <1>5, <2>1, <2>4
  <2>6. r # p
    BY <1>1, <2>5, PrefixFacts DEF last
  <2>7. r \in Entries(CopyProject(t))
    BY <2>2, <2>6
  <2>8. r \in Prefixes(r)
    BY <1>1, <2>2, PrefixFacts
  <2>9. /\ r \in t.ignore[i].matches /\ ~t.ignore[i].negated
        /\ \A j \in i + 1 .. n : r \notin t.ignore[j].matches
    <3>1. ASSUME NEW j \in i + 1 .. n PROVE r \notin t.ignore[j].matches
      <4>1. j \in i + 1 .. n + 1 /\ j \in 1 .. n
        BY <1>5, <2>4
      <4> QED
        BY <1>5, <2>1, <4>1
    <3> QED
      BY <1>5, <2>1, <2>4, <3>1
  <2>10. Ignores(t, r)
    BY <2>4, <2>8, <2>9 DEF Ignores
  <2> QED
    BY <2>2, <2>7, <2>10 DEF CopiedThoughIgnored
<1>8. ASSUME NEW q \in Prefixes(p) PROVE ProjectCopyFilter(w, CollectCompilationInputs(w), q)
  <2>1. Names(q) \subseteq Names(p)
    BY <1>1, PrefixFacts
  <2> QED
    BY <1>7, <2>1 DEF ProjectCopyFilter
<1>9. p \in Entries(w)
  BY <1>4 DEF Entries
<1> QED
  BY <1>6, <1>8, <1>9, CopyIs DEF w

\* A compilation's project is one whose files make a tree.
LEMMA ProjectIsTree == TypeOK /\ job.kind = "compile" => IsTree(job.tree)
  BY JobAssumption DEF TypeOK, IsJob

\* A note is about a path that the copy of a pinned project lacks, though it
\* has what is above it.
NotesAreDue ==
    notes # {} =>
        /\ job.kind = "compile" /\ job.pinned
        /\ \A p \in notes :
              /\ p \in Entries(job.tree)
              /\ \A q \in Prefixes(p) \ {p} : q \in Entries(CopyProject(job.tree))

\* Only the caller, when the worker has settled, looks for notes.
LEMMA NotesFromSettle == [Next]_vars => UNCHANGED <<job, notes>> \/ Settle
<1> SUFFICES ASSUME [Next]_vars, ~Settle PROVE UNCHANGED <<job, notes>>
  OBVIOUS
<1>1. CASE CallerStep
  BY <1>1 DEF CallerStep, Refuse, MakeCopy, InstallIsolatedCore, RunWorker, ResolveScriptFails,
     RefuseScript, SpawnScript, Clean
<1>2. CASE ParentEvent
  BY <1>2 DEF ParentEvent, TimeoutFires, ChildExits, ReceiveBooted, ReceiveAnswer, ReceiveRpcRequest,
     ScriptTimeoutFires, ScriptCloses, caller
<1>3. CASE ChildStep
  BY <1>3 DEF ChildStep, Boot, Crash, Compile, HandleJitRequest, ScriptEnds, PipesClose,
     Ask, ReceiveRpcResponse, Throw, Return, caller
<1>4. CASE Dies \/ UNCHANGED vars
  BY <1>4 DEF Dies, vars, caller
<1>5. ASSUME NEW id \in asked, HandleRpcRequest(id) PROVE UNCHANGED <<job, notes>>
  BY <1>5 DEF HandleRpcRequest, caller
<1> QED
  BY <1>1, <1>2, <1>3, <1>4, <1>5 DEF Next

LEMMA NextNotesAreDue == NotesAreDue /\ [Next]_vars => NotesAreDue'
<1> SUFFICES ASSUME NotesAreDue, [Next]_vars PROVE NotesAreDue'
  OBVIOUS
<1>1. CASE UNCHANGED <<job, notes>>
  BY <1>1 DEF NotesAreDue
<1>2. CASE Settle
  <2>1. job' = job /\ notes' = PrintExcludedModuleNotes
    BY <1>2 DEF Settle
  <2>2. CASE job.kind = "compile" /\ job.pinned
    <3>1. ASSUME NEW p \in notes'
          PROVE  /\ p \in Entries(job.tree)
                 /\ \A q \in Prefixes(p) \ {p} : q \in Entries(CopyProject(job.tree))
      BY <2>1, <2>2, <3>1 DEF PrintExcludedModuleNotes, ExplainExcludedModule, Seen
    <3> QED
      BY <2>1, <2>2, <3>1 DEF NotesAreDue
  <2>3. CASE ~(job.kind = "compile" /\ job.pinned)
    BY <2>1, <2>3 DEF PrintExcludedModuleNotes, NotesAreDue
  <2> QED
    BY <2>2, <2>3
<1> QED
  BY <1>1, <1>2, NotesFromSettle

-----------------------------------------------------------------------------
(* The theorems.                                                           *)

LEMMA Inductive == Spec => []IInv
<1>1. IInv /\ [Next]_vars => IInv'
  <2> SUFFICES ASSUME IInv, [Next]_vars PROVE IInv'
    OBVIOUS
  <2>1. TypeOK'
    BY NextTypeOK DEF IInv
  <2>2. ChannelsOK'
    BY <2>1, NextChannelsOK DEF IInv
  <2>3. Stopping'
    BY NextStopping DEF IInv
  <2>4. AskedOnce'
    BY <2>1, NextAskedOnce DEF IInv
  <2>5. Answering'
    BY <2>1, NextAnswering DEF IInv
  <2> QED
    BY <2>1, <2>2, <2>3, <2>4, <2>5 DEF IInv
<1> QED
  BY <1>1, InitIInv, PTL DEF Spec

\* The variables keep their types, for every job and any number of bodies and
\* requests (base_worker.ts, compile.ts, jit_worker.ts, script_run.ts).
THEOREM TypeCorrect == Spec => []TypeOK
<1>1. IInv => TypeOK
  BY DEF IInv
<1> QED
  BY <1>1, Inductive, PTL

\* No call returns with a child running, a timer armed or a removable copy of
\* the project left (base_worker.ts:28-36, compile.ts:104-119).
THEOREM CleansUp == Spec => []NothingIsLeftBehind
<1>1. IInv => NothingIsLeftBehind
  BY DEF IInv, Stopping, SettledIsStopped, EndIsSettled, CopyIsCleaned, NothingIsLeftBehind
<1> QED
  BY <1>1, Inductive, PTL

\* A call that succeeds does so because its child did, whatever the order of
\* messages, exits, errors and timeouts (base_worker.ts:28-78, script_run.ts:126-142).
THEOREM SuccessIsTheChilds == Spec => []AnswerIsTheChilds
<1>1. IInv => AnswerIsTheChilds
  BY DEF IInv, Answering
<1> QED
  BY <1>1, Inductive, PTL

\* A body that waits for the database waits for one thing, whatever the order
\* of requests and answers (jit_worker.ts:13-25): its request is on the way or
\* being served, or the answer is on the way, and never twice.
THEOREM RequestsAreNeverLost == Spec => []EveryRequestIsOnItsWay
<1>1. IInv /\ RequestsFit /\ IInv' /\ [Next]_vars => RequestsFit'
  BY NextRequestsFit DEF IInv
<1>2. RequestsFit => EveryRequestIsOnItsWay
  BY DEF RequestsFit, OnItsWay, Requests, Responses, EveryRequestIsOnItsWay, CorrelationId
<1> QED
  BY <1>1, <1>2, Inductive, InitRequestsFit, PTL DEF Spec

\* The compiler lists in the temporary copy what it would list in the project
\* if it did not follow the links that leave it, and so, where none does, what
\* it does list: for every project, wherever it is, however its links are
\* nested, circular or dangling, and whatever its ignore files leave out
\* (compile_copy_filter.ts:238-276).
THEOREM CopyIsComplete == Spec => []CopyCompilesTheProject
<1>1. TypeOK => CopyCompilesTheProject
  BY ProjectIsTree, CopyListsTheSame DEF CopyCompilesTheProject, Seen
<1> QED
  BY <1>1, TypeCorrect, PTL

\* A note about a module left out of the copy names what re-including brings
\* in, except below what is copied though it is ignored
\* (compile_copy_filter.ts:341-372).
THEOREM NotesAreUseful == Spec => []NotesHelp
<1>1. Init => NotesAreDue
  BY DEF Init, NotesAreDue
<1>2. TypeOK /\ NotesAreDue => NotesHelp
  <2> SUFFICES ASSUME TypeOK, NotesAreDue, NEW p \in notes,
                      Names(p) \cap AlwaysIgnoredNames = {},
                      Prefixes(p) \cap CopiedThoughIgnored(job.tree) = {}
               PROVE  p \in Entries(CopyProject(ReincludedIn(job.tree, p)))
    BY DEF NotesHelp
  <2>1. IsTree(job.tree)
    BY ProjectIsTree DEF NotesAreDue
  <2> QED
    BY <2>1, ReincludedIsCopied DEF NotesAreDue
<1> QED
  BY <1>1, <1>2, NextNotesAreDue, TypeCorrect, PTL DEF Spec
=============================================================================
