--------------------------- MODULE InductionLemmas ----------------------------
(***************************************************************************)
(* Induction and recursion over an interval of the naturals, stated about  *)
(* sets and functions instead of operators, so that they can be cited with *)
(* a set such as {i \in 0 .. n : P(i)}.                                    *)
(***************************************************************************)
EXTENDS WellFoundedInduction, TLAPS

(* A nonempty set of naturals has a least element.                         *)
LEMMA LeastNatural ==
  ASSUME NEW S \in SUBSET Nat, S # {}
  PROVE  \E n \in S : \A m \in S : n <= m
  <1> DEFINE R == OpToRel(<, Nat)
  <1>1. IsWellFoundedOn(R, Nat)
    BY NatLessThanWellFounded
  <1>2. \A x, y \in Nat : x < y => <<x, y>> \in R
    BY DEF OpToRel
  <1> HIDE DEF R
  <1>3. PICK n \in S : \A m \in S : <<m, n>> \notin R
    BY <1>1, WFMin
  <1>4. ASSUME NEW m \in S PROVE n <= m
    <2>1. m \in Nat /\ n \in Nat
      OBVIOUS
    <2>2. ~(m < n)
      BY <1>2, <1>3, <2>1
    <2>3. QED BY <2>1, <2>2
  <1>5. QED BY <1>4

(* A set that holds 0, and i + 1 with each i below n, holds 0 .. n.        *)
LEMMA IntervalInduction ==
  ASSUME NEW n \in Nat, NEW S, 0 \in S,
         \A i \in 0 .. n : i < n /\ i \in S => i + 1 \in S
  PROVE  0 .. n \subseteq S
  <1> DEFINE Missed == {i \in 0 .. n : i \notin S}
  <1>1. SUFFICES ASSUME Missed # {} PROVE FALSE
    OBVIOUS
  <1>2. PICK m \in Missed : \A i \in Missed : m <= i
    <2>1. Missed \in SUBSET Nat
      OBVIOUS
    <2> HIDE DEF Missed
    <2>2. QED BY <1>1, <2>1, LeastNatural
  <1>3. m \in 1 .. n /\ m \notin S
    BY <1>2
  <1>4. m - 1 \in 0 .. n /\ m - 1 < n /\ m - 1 \in S
    BY <1>2, <1>3
  <1>5. (m - 1) + 1 \in S
    BY <1>4
  <1>6. QED BY <1>3, <1>5

(* A nonempty set of naturals below a bound has a greatest element.        *)
LEMMA GreatestBelow ==
  ASSUME NEW b \in Nat, NEW S \in SUBSET (0 .. b), S # {}
  PROVE  \E t \in S : \A u \in S : t >= u
  <1> DEFINE Gap == {i \in 0 .. b : b - i \in S}
  <1>1. Gap \in SUBSET Nat
    OBVIOUS
  <1>2. PICK t \in S : TRUE
    OBVIOUS
  <1>3. b - t \in Gap
    <2>1. t \in 0 .. b /\ b - t \in 0 .. b /\ b - (b - t) = t
      BY <1>2
    <2>2. QED BY <2>1
  <1>4. PICK i \in Gap : \A j \in Gap : i <= j
    <2> HIDE DEF Gap
    <2>1. QED BY <1>1, <1>3, LeastNatural
  <1>5. ASSUME NEW u \in S PROVE b - i >= u
    <2>1. b - u \in Gap
      <3>1. u \in 0 .. b /\ b - u \in 0 .. b /\ b - (b - u) = u
        OBVIOUS
      <3>2. QED BY <3>1
    <2>2. i <= b - u /\ i \in 0 .. b /\ u \in 0 .. b
      BY <1>4, <2>1
    <2>3. QED BY <2>2
  <1>6. b - i \in S
    BY <1>4
  <1>7. QED BY <1>5, <1>6

(* f goes from a, step by step, through what h makes of each value.        *)
Iterates(f, n, a, h) == f[0] = a /\ \A i \in 1 .. n : f[i] = h[i][f[i - 1]]

(* Such a function exists.                                                 *)
LEMMA RecursionOnInterval ==
  ASSUME NEW n \in Nat, NEW S, NEW a \in S, NEW h \in [1 .. n -> [S -> S]]
  PROVE  \E f \in [0 .. n -> S] : Iterates(f, n, a, h)
  <1> DEFINE Def(f, m) == /\ f \in [0 .. m -> S] /\ f[0] = a
                          /\ \A i \in 1 .. m : f[i] = h[i][f[i - 1]]
             Done == {m \in 0 .. n : \E f : Def(f, m)}
  <1>1. 0 \in Done
    <2> DEFINE g == [i \in 0 .. 0 |-> a]
    <2>1. Def(g, 0)
      OBVIOUS
    <2> HIDE DEF Def, g
    <2>2. QED BY <2>1
  <1>2. ASSUME NEW m \in 0 .. n, m < n, m \in Done
        PROVE  m + 1 \in Done
    <2>1. PICK f : Def(f, m)
      BY <1>2
    <2> DEFINE g == [i \in 0 .. m + 1 |-> IF i = m + 1 THEN h[i][f[i - 1]] ELSE f[i]]
    <2>2. h[m + 1][f[m]] \in S /\ \A i \in 0 .. m : f[i] \in S
      BY <1>2, <2>1
    <2>3. g \in [0 .. m + 1 -> S] /\ g[0] = a
      BY <1>2, <2>1, <2>2
    <2>4. ASSUME NEW i \in 1 .. m + 1
          PROVE  g[i] = h[i][g[i - 1]]
      <3>1. CASE i = m + 1
        BY <3>1
      <3>2. CASE i \in 1 .. m /\ i # m + 1
        BY <2>1, <3>2
      <3>3. QED BY <3>1, <3>2
    <2>5. Def(g, m + 1)
      BY <2>3, <2>4
    <2>6. m + 1 \in 0 .. n
      BY <1>2
    <2> HIDE DEF Def, g
    <2>7. QED BY <2>5, <2>6
  <1>3. 0 .. n \subseteq Done
    <2> HIDE DEF Done
    <2>1. QED BY <1>1, <1>2, IntervalInduction
  <1>4. n \in Done
    BY <1>3
  <1>5. PICK f : Def(f, n)
    BY <1>4
  <1>6. QED BY <1>5 DEF Iterates
===============================================================================
