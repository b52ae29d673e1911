------------------------------- MODULE Loops -------------------------------
(***************************************************************************)
(* Facts about loops that the proofs share: induction over the natural     *)
(* numbers as a statement about sets, and the value of a variable after k  *)
(* rounds of a loop as a recursive function.  The library states both for  *)
(* operators; stated for sets and functions they can be cited.             *)
(***************************************************************************)
EXTENDS Integers, Sequences, WellFoundedInduction, TLAPS

\* A set of naturals that is not empty has a least element.
LEMMA LeastElement ==
  ASSUME NEW S \in SUBSET Nat, S # {}
  PROVE  \E m \in S : \A k \in S : m <= k
<1> DEFINE Less == {pair \in Nat \X Nat : pair[1] < pair[2]}
<1>1. IsWellFoundedOn(Less, Nat)
  BY NatLessThanWellFounded, Zenon DEF OpToRel
<1>2. PICK m \in S : \A k \in S : ~(<<k, m>> \in Less)
  <2> HIDE DEF Less
  <2> QED BY <1>1, WFMin
<1>3. \A k \in S : m <= k
  <2> SUFFICES ASSUME NEW k \in S, ~(m <= k) PROVE FALSE
    OBVIOUS
  <2>1. m \in Nat /\ k \in Nat /\ k < m
    OBVIOUS
  <2>2. <<k, m>> \in Less
    BY <2>1
  <2> QED BY <1>2, <2>2
<1> QED BY <1>3

\* Induction up to n: what holds before the loop, and after each round if it
\* held before it, holds after every round.
LEMMA LoopInduction ==
  ASSUME NEW n \in Nat, NEW S, 0 \in S,
         \A k \in 0 .. n - 1 : k \in S => k + 1 \in S
  PROVE  0 .. n \subseteq S
<1> DEFINE Bad == {k \in 0 .. n : k \notin S}
<1> SUFFICES ASSUME Bad # {} PROVE FALSE
  OBVIOUS
<1>1. PICK m \in Bad : \A k \in Bad : m <= k
  <2>1. Bad \in SUBSET Nat
    OBVIOUS
  <2> HIDE DEF Bad
  <2> QED BY <2>1, LeastElement
<1>2. m \in 1 .. n /\ m - 1 \in 0 .. n - 1
  OBVIOUS
<1>3. m - 1 \in S
  BY <1>1, <1>2
<1>4. (m - 1) + 1 \in S
  BY <1>2, <1>3
<1> QED BY <1>2, <1>4

\* The states of a loop of n rounds: it starts with base, and its state after
\* round k comes from the one before by F[k].
LoopStates(n, X, base, F) ==
  {g \in [0 .. n -> X] : g[0] = base /\ \A k \in 1 .. n : g[k] = F[k][g[k - 1]]}

\* A recursive function of TLA+ is any value that satisfies its equation, if
\* there is one; for a loop over states in X there is.
LEMMA LoopHasStates ==
  ASSUME NEW n \in Nat, NEW X, NEW base \in X, NEW F,
         \A x \in X : \A k \in 1 .. n : F[k][x] \in X
  PROVE  LoopStates(n, X, base, F) # {}
<1> DEFINE Reached == {m \in 0 .. n : LoopStates(m, X, base, F) # {}}
<1>1. 0 \in Reached
  <2> DEFINE g == [k \in 0 .. 0 |-> base]
  <2>1. g \in [0 .. 0 -> X] /\ g[0] = base /\ 1 .. 0 = {}
    OBVIOUS
  <2> HIDE DEF g
  <2> QED BY <2>1 DEF LoopStates
<1>2. \A m \in 0 .. n - 1 : m \in Reached => m + 1 \in Reached
  <2> SUFFICES ASSUME NEW m \in 0 .. n - 1, m \in Reached
               PROVE  m + 1 \in Reached
    OBVIOUS
  <2>1. PICK g \in [0 .. m -> X] :
          g[0] = base /\ \A k \in 1 .. m : g[k] = F[k][g[k - 1]]
    BY DEF LoopStates
  <2> DEFINE h == [k \in 0 .. m + 1 |-> IF k = m + 1 THEN F[m + 1][g[m]] ELSE g[k]]
  <2>2. F[m + 1][g[m]] \in X
    OBVIOUS
  <2>3. h \in [0 .. m + 1 -> X]
    BY <2>2
  <2>4. h[0] = base
    BY <2>1
  <2>5. ASSUME NEW k \in 1 .. m + 1
        PROVE  h[k] = F[k][h[k - 1]]
    <3>1. CASE k = m + 1
      <4>1. k # 0 /\ k - 1 = m /\ h[k - 1] = g[m]
        BY <3>1
      <4> QED BY <3>1, <4>1
    <3>2. CASE k \in 1 .. m
      <4>1. h[k] = g[k] /\ h[k - 1] = g[k - 1]
        BY <3>2
      <4> QED BY <2>1, <3>2, <4>1
    <3> QED BY <3>1, <3>2
  <2> HIDE DEF h
  <2>6. m + 1 \in 0 .. n
    OBVIOUS
  <2> QED BY <2>3, <2>4, <2>5, <2>6 DEF LoopStates
<1>3. n \in Reached
  <2> HIDE DEF Reached
  <2>1. 0 .. n \subseteq Reached
    BY <1>1, <1>2, LoopInduction
  <2> QED BY <2>1
<1> QED BY <1>3
=============================================================================
