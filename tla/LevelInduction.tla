--------------------------- MODULE LevelInduction ---------------------------
(***************************************************************************)
(* Induction and recursion over the levels 0 .. d of a bounded loop, in    *)
(* first-order form: both are stated with a set or a function where the    *)
(* library's NaturalsInduction has an operator.  They give the equations   *)
(* of the recursive functions that the models define on 0 .. Depth.        *)
(***************************************************************************)
EXTENDS Integers, WellFoundedInduction, TLAPS

\* A set of naturals with 0 and with the successor of each of its elements
\* is all of Nat.
LEMMA NatInductionOnSets ==
  ASSUME NEW S \in SUBSET Nat, 0 \in S, \A n \in S : n + 1 \in S
  PROVE  S = Nat
<1>1. SUFFICES ASSUME Nat \ S # {} PROVE FALSE
  OBVIOUS
<1>2. PICK x \in Nat \ S : \A y \in Nat \ S : ~ (<<y, x>> \in OpToRel(<, Nat))
  BY <1>1, NatLessThanWellFounded, WFMin
<1>3. x # 0 /\ x \in Nat
  OBVIOUS
<1>4. x - 1 \in Nat /\ x - 1 < x /\ (x - 1) + 1 = x
  BY <1>3
<1>5. <<x - 1, x>> \in OpToRel(<, Nat)
  BY <1>3, <1>4 DEF OpToRel
<1> QED
  BY <1>2, <1>4, <1>5

\* What holds at 0 and passes from each level below d to the next holds at
\* every level up to d.
LEMMA Induction ==
  ASSUME NEW d \in Nat, NEW S, 0 \in S,
         \A l \in 0 .. d - 1 : l \in S => l + 1 \in S
  PROVE  \A l \in 0 .. d : l \in S
<1> DEFINE T == {n \in Nat : n <= d => n \in S}
<1>1. 0 \in T
  OBVIOUS
<1>2. ASSUME NEW n \in T PROVE n + 1 \in T
  <2>1. CASE n + 1 <= d
    <3>1. n \in 0 .. d - 1 /\ n \in S
      BY <2>1
    <3> QED BY <3>1
  <2>2. CASE ~ (n + 1 <= d)
    BY <2>2
  <2> QED BY <2>1, <2>2
<1>3. T = Nat
  <2> HIDE DEF T
  <2>1. T \in SUBSET Nat
    BY DEF T
  <2> QED BY <1>1, <1>2, <2>1, NatInductionOnSets
<1> QED BY <1>3

\* A function that starts in V and stays in V from each level to the next is
\* a function to V.
LEMMA StaysInType ==
  ASSUME NEW d \in Nat, NEW V, NEW f, f = [l \in 0 .. d |-> f[l]], f[0] \in V,
         \A l \in 0 .. d - 1 : f[l] \in V => f[l + 1] \in V
  PROVE  f \in [0 .. d -> V]
<1> DEFINE S == {l \in 0 .. d : f[l] \in V}
<1>1. 0 \in S
  OBVIOUS
<1>2. \A l \in 0 .. d - 1 : l \in S => l + 1 \in S
  OBVIOUS
<1>3. \A l \in 0 .. d : l \in S
  <2> HIDE DEF S
  <2> QED BY <1>1, <1>2, Induction
<1> QED BY <1>3

(***************************************************************************)
(* Recursion on 0 .. d from a value a of V, where g is, for each level, the *)
(* function that takes its value to the next one.  The provers instantiate *)
(* the lemma when these definitions are not expanded.                      *)
(***************************************************************************)
IsStep(g, d, V) == g \in [0 .. d - 1 -> [V -> V]]

IsRecursive(f, d, V, a, g) ==
  /\ f \in [0 .. d -> V]
  /\ \A l \in 0 .. d : f[l] = IF l = 0 THEN a ELSE g[l - 1][f[l - 1]]

LEMMA Recursion ==
  ASSUME NEW d \in Nat, NEW V, NEW a \in V, NEW g, IsStep(g, d, V)
  PROVE  \E f : IsRecursive(f, d, V, a, g)
<1> USE DEF IsStep
<1> DEFINE Upto(k) == {f \in [0 .. k -> V] :
                         f[0] = a /\ \A l \in 0 .. k - 1 : f[l + 1] = g[l][f[l]]}
           S == {k \in 0 .. d : Upto(k) # {}}
<1>1. 0 \in S
  <2>1. [l \in 0 .. 0 |-> a] \in Upto(0)
    OBVIOUS
  <2> QED BY <2>1
<1>2. ASSUME NEW k \in 0 .. d - 1, k \in S PROVE k + 1 \in S
  <2>1. PICK f \in [0 .. k -> V] :
          f[0] = a /\ \A l \in 0 .. k - 1 : f[l + 1] = g[l][f[l]]
    BY <1>2
  <2> DEFINE h == [l \in 0 .. k + 1 |-> IF l <= k THEN f[l] ELSE g[k][f[k]]]
  <2>2. f[k] \in V /\ g[k][f[k]] \in V
    BY <2>1
  <2>3. h \in [0 .. k + 1 -> V]
    BY <2>2
  <2>4. h[0] = a
    BY <2>1
  <2>5. ASSUME NEW l \in 0 .. k PROVE h[l + 1] = g[l][h[l]]
    <3>1. CASE l = k
      BY <3>1
    <3>2. CASE l # k
      BY <3>2, <2>1
    <3> QED BY <3>1, <3>2
  <2>6. \A l \in 0 .. (k + 1) - 1 : h[l + 1] = g[l][h[l]]
    <3>1. (k + 1) - 1 = k
      OBVIOUS
    <3> HIDE DEF h
    <3> QED BY <2>5, <3>1
  <2>7. h \in Upto(k + 1)
    <3> HIDE DEF h
    <3> QED BY <2>3, <2>4, <2>6
  <2>8. k + 1 \in 0 .. d
    OBVIOUS
  <2> HIDE DEF Upto
  <2> QED BY <2>7, <2>8
<1>3. d \in S
  <2> HIDE DEF S
  <2>1. \A l \in 0 .. d - 1 : l \in S => l + 1 \in S
    BY <1>2
  <2>2. \A l \in 0 .. d : l \in S
    BY <1>1, <2>1, Induction
  <2> QED BY <2>2
<1>4. PICK f \in [0 .. d -> V] :
        f[0] = a /\ \A l \in 0 .. d - 1 : f[l + 1] = g[l][f[l]]
  BY <1>3
<1>5. ASSUME NEW l \in 0 .. d, l # 0
      PROVE  f[l] = g[l - 1][f[l - 1]]
  <2>1. l - 1 \in 0 .. d - 1 /\ (l - 1) + 1 = l
    BY <1>5
  <2> QED BY <2>1, <1>4
<1> QED BY <1>4, <1>5 DEF IsRecursive
=============================================================================
