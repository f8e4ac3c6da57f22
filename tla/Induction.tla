------------------------------ MODULE Induction ------------------------------
(***************************************************************************)
(* Induction over the natural numbers, and functions defined by recursion  *)
(* over them, for sets and functions as they come: every proof of a fact   *)
(* about a recursive function of the models rests on these three lemmas.   *)
(***************************************************************************)
EXTENDS Naturals, FiniteSets, FiniteSetTheorems, WellFoundedInduction, TLAPS

\* The least-number principle, from the subsets of the naturals.
LEMMA LeastNumber ==
    ASSUME NEW T, T \subseteq Nat, T # {}
    PROVE  \E x \in T : \A y \in T : x <= y
<1> DEFINE R == StrictSubsetOrdering(Nat)
           S == FiniteSubsetsOf(Nat)
           below == {0..n : n \in T}
<1>1. below \subseteq S /\ below # {}
  <2>1. ASSUME NEW n \in T PROVE 0..n \in S
    <3>1. IsFiniteSet(0..n)
      BY FS_Interval
    <3> QED
      BY <3>1 DEF FiniteSubsetsOf
  <2> QED
    BY <2>1
<1>2. IsWellFoundedOn(R, S)
  BY FS_StrictSubsetOrderingWellFounded
<1> HIDE DEF R, S, below
<1>3. PICK X \in below : \A Y \in below : <<Y, X>> \notin R
  BY <1>1, <1>2, WFMin
<1>4. PICK x \in T : X = 0..x
  BY DEF below
<1>5. ASSUME NEW y \in T PROVE x <= y
  <2> SUFFICES ASSUME y < x PROVE FALSE
    OBVIOUS
  <2>1. 0..y \in below /\ 0..y \subseteq 0..x /\ 0..y # 0..x
    <3>1. y \in 0..y /\ x \in 0..x /\ x \notin 0..y
      OBVIOUS
    <3> QED
      BY <3>1 DEF below
  <2> DEFINE Y == 0..y
  <2>2. Y \in SUBSET Nat /\ X \in SUBSET Nat /\ Y \subseteq X /\ Y # X /\ Y \in below
    BY <1>4, <2>1
  <2> HIDE DEF Y
  <2>3. <<Y, X>> \in R
    BY <2>2 DEF R, StrictSubsetOrdering
  <2> QED
    BY <1>3, <2>2, <2>3
<1> QED
  BY <1>5

\* What holds at 0 and goes from each number to the next holds up to n.
LEMMA UpTo ==
    ASSUME NEW n \in Nat, NEW P, 0 \in P, \A k \in 1..n : k - 1 \in P => k \in P
    PROVE  \A k \in 0..n : k \in P
<1> DEFINE wrong == {k \in 0..n : k \notin P}
<1> SUFFICES ASSUME wrong # {} PROVE FALSE
  OBVIOUS
<1>1. wrong \subseteq Nat
  OBVIOUS
<1>2. PICK m \in wrong : \A k \in wrong : m <= k
  <2> HIDE DEF wrong
  <2> QED
    BY <1>1, LeastNumber
<1>3. m # 0 /\ m \in 1..n
  BY <1>2
<1>4. m - 1 \in 0..n /\ m - 1 \notin wrong
  BY <1>2, <1>3
<1> QED
  BY <1>2, <1>3, <1>4

\* The functions up to n with a start and a function for the step.
From(start, F, n, S) ==
    {f \in [0..n -> S] : f[0] = start /\ \A k \in 1..n : f[k] = F[<<k, f[k - 1]>>]}

\* There is one: recursion defines a function.
LEMMA ByRecursion ==
    ASSUME NEW n \in Nat, NEW S, NEW start \in S, NEW F \in [(1..n) \X S -> S]
    PROVE  From(start, F, n, S) # {}
<1> DEFINE Until(m) == From(start, F, m, S)
           P == {m \in 0..n : Until(m) # {}}
<1>1. 0 \in P
  <2>1. [k \in 0..0 |-> start] \in Until(0)
    BY DEF From
  <2> QED
    BY <2>1
<1>2. ASSUME NEW m \in 1..n, m - 1 \in P PROVE m \in P
  <2>1. PICK f \in [0..(m - 1) -> S] :
            f[0] = start /\ \A k \in 1..(m - 1) : f[k] = F[<<k, f[k - 1]>>]
    BY <1>2 DEF From
  <2> DEFINE last == F[<<m, f[m - 1]>>]
             g == [k \in 0..m |-> IF k = m THEN last ELSE f[k]]
  <2>2. m - 1 \in 0..(m - 1) /\ last \in S
    BY <2>1
  <2>3. g \in [0..m -> S] /\ g[0] = start
    BY <2>1, <2>2
  <2>4. ASSUME NEW k \in 1..m PROVE g[k] = F[<<k, g[k - 1]>>]
    <3>1. k - 1 \in 0..m /\ k - 1 # m /\ g[k - 1] = f[k - 1]
      OBVIOUS
    <3>2. CASE k = m
      BY <3>1, <3>2
    <3>3. CASE k # m
      <4>1. k \in 1..(m - 1) /\ g[k] = f[k]
        BY <3>3
      <4> QED
        BY <2>1, <3>1, <4>1
    <3> QED
      BY <3>2, <3>3
  <2> HIDE DEF g
  <2>5. g \in Until(m)
    BY <2>3, <2>4 DEF From
  <2> QED
    BY <2>5
<1> HIDE DEF P
<1>3. n \in P
  BY <1>1, <1>2, UpTo
<1> QED
  BY <1>3 DEF P
=============================================================================
