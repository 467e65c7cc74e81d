------------------------------ MODULE ImtProofs -----------------------------
(***************************************************************************)
(* Theorems about Imt for every depth, word width, build profile, field    *)
(* and hash.                                                               *)
(***************************************************************************)
EXTENDS Imt, LevelInduction

(***************************************************************************)
(* The equations of the recursive functions.                               *)
(***************************************************************************)
LEMMA Pow2Equations ==
  /\ Pow2 \in [0 .. WordBits -> Nat]
  /\ Pow2[0] = 1
  /\ \A k \in 0 .. WordBits - 1 : Pow2[k + 1] = 2 * Pow2[k]
<1> DEFINE Body(f) == [k \in 0 .. WordBits |-> IF k = 0 THEN 1 ELSE 2 * f[k - 1]]
           g == [l \in 0 .. WordBits - 1 |-> [x \in Nat |-> 2 * x]]
<1>1. WordBits \in Nat /\ 1 \in Nat
  BY ShapeAssumption
<1>2. IsStep(g, WordBits, Nat)
  BY DEF IsStep
<1>3. PICK f : IsRecursive(f, WordBits, Nat, 1, g)
  <2> HIDE DEF g
  <2> QED BY <1>1, <1>2, Recursion
<1>4. ASSUME NEW k \in 0 .. WordBits, k # 0
      PROVE  g[k - 1][f[k - 1]] = 2 * f[k - 1]
  <2>1. k - 1 \in 0 .. WordBits - 1 /\ f[k - 1] \in Nat
    BY <1>1, <1>3, <1>4 DEF IsRecursive
  <2> QED BY <2>1
<1>5. f = Body(f)
  <2> HIDE DEF g
  <2> QED BY <1>3, <1>4 DEF IsRecursive
<1>6. Pow2 = Body(Pow2)
  BY <1>5 DEF Pow2
<1>7. \A k \in 0 .. WordBits : Pow2[k] = IF k = 0 THEN 1 ELSE 2 * Pow2[k - 1]
  BY <1>6
<1>8. Pow2[0] = 1
  BY <1>1, <1>7
<1>9. ASSUME NEW k \in 0 .. WordBits - 1 PROVE Pow2[k + 1] = 2 * Pow2[k]
  <2>1. k + 1 \in 0 .. WordBits /\ k + 1 # 0 /\ (k + 1) - 1 = k
    BY <1>1
  <2> QED BY <2>1, <1>7
<1>10. Pow2 = [k \in 0 .. WordBits |-> Pow2[k]]
  BY <1>6, <1>7
<1>11. Pow2 \in [0 .. WordBits -> Nat]
  <2>1. \A k \in 0 .. WordBits - 1 : Pow2[k] \in Nat => Pow2[k + 1] \in Nat
    BY <1>9
  <2> QED BY <1>1, <1>8, <2>1, <1>10, StaysInType
<1> QED BY <1>8, <1>9, <1>11

LEMMA ZeroLadderEquations ==
  /\ zero_ladder(Empty) \in [0 .. Depth -> Field]
  /\ zero_ladder(Empty)[0] = Empty
  /\ \A l \in 0 .. Depth - 1 :
       zero_ladder(Empty)[l + 1] = Hash(zero_ladder(Empty)[l], zero_ladder(Empty)[l])
<1> DEFINE Body(f) == [l \in 0 .. Depth |->
                         IF l = 0 THEN Empty ELSE Hash(f[l - 1], f[l - 1])]
           g == [l \in 0 .. Depth - 1 |-> [x \in Field |-> Hash(x, x)]]
           z == zero_ladder(Empty)
<1>1. Depth \in Nat /\ Empty \in Field
  BY ShapeAssumption, FieldAssumption
<1>2. IsStep(g, Depth, Field)
  BY FieldAssumption DEF IsStep
<1>3. PICK f : IsRecursive(f, Depth, Field, Empty, g)
  <2> HIDE DEF g
  <2> QED BY <1>1, <1>2, Recursion
<1>4. ASSUME NEW l \in 0 .. Depth, l # 0
      PROVE  g[l - 1][f[l - 1]] = Hash(f[l - 1], f[l - 1])
  <2>1. l - 1 \in 0 .. Depth - 1 /\ l - 1 \in 0 .. Depth
    BY <1>1, <1>4
  <2>2. f[l - 1] \in Field
    BY <2>1, <1>3 DEF IsRecursive
  <2> QED BY <2>1, <2>2
<1>5. f = Body(f)
  <2> HIDE DEF g
  <2> QED BY <1>3, <1>4 DEF IsRecursive
<1>6. z = Body(z)
  <2>1. z = CHOOSE h : h = Body(h)
    BY DEF zero_ladder
  <2> QED BY <1>5, <2>1
<1> HIDE DEF z
<1>7. \A l \in 0 .. Depth : z[l] = IF l = 0 THEN Empty ELSE Hash(z[l - 1], z[l - 1])
  BY <1>6
<1>8. z[0] = Empty
  BY <1>1, <1>7
<1>9. ASSUME NEW l \in 0 .. Depth - 1 PROVE z[l + 1] = Hash(z[l], z[l])
  <2>1. l + 1 \in 0 .. Depth /\ l + 1 # 0 /\ (l + 1) - 1 = l
    BY <1>1
  <2> QED BY <2>1, <1>7
<1>10. z = [l \in 0 .. Depth |-> z[l]]
  BY <1>6, <1>7
<1>11. z \in [0 .. Depth -> Field]
  <2>1. \A l \in 0 .. Depth - 1 : z[l] \in Field => z[l + 1] \in Field
    BY <1>9, FieldAssumption
  <2> QED BY <1>1, <1>8, <2>1, <1>10, StaysInType
<1> QED BY <1>8, <1>9, <1>11 DEF z

LEMMA HalvingsEquations ==
  ASSUME NEW n \in Nat
  PROVE  /\ Halvings(n) \in [0 .. Depth -> Nat]
         /\ Halvings(n)[0] = n
         /\ \A l \in 0 .. Depth - 1 : Halvings(n)[l + 1] = Halvings(n)[l] \div 2
<1> DEFINE Body(f) == [l \in 0 .. Depth |-> IF l = 0 THEN n ELSE f[l - 1] \div 2]
           g == [l \in 0 .. Depth - 1 |-> [x \in Nat |-> x \div 2]]
           z == Halvings(n)
<1>1. Depth \in Nat
  BY ShapeAssumption
<1>2. IsStep(g, Depth, Nat)
  BY DEF IsStep
<1>3. PICK f : IsRecursive(f, Depth, Nat, n, g)
  <2> HIDE DEF g
  <2> QED BY <1>1, <1>2, Recursion
<1>4. ASSUME NEW l \in 0 .. Depth, l # 0
      PROVE  g[l - 1][f[l - 1]] = f[l - 1] \div 2
  <2>1. l - 1 \in 0 .. Depth - 1 /\ f[l - 1] \in Nat
    BY <1>1, <1>3, <1>4 DEF IsRecursive
  <2> QED BY <2>1
<1>5. f = Body(f)
  <2> HIDE DEF g
  <2> QED BY <1>3, <1>4 DEF IsRecursive
<1>6. z = Body(z)
  <2>1. z = CHOOSE h : h = Body(h)
    BY DEF Halvings
  <2> QED BY <1>5, <2>1
<1> HIDE DEF z
<1>7. \A l \in 0 .. Depth : z[l] = IF l = 0 THEN n ELSE z[l - 1] \div 2
  BY <1>6
<1>8. z[0] = n
  BY <1>1, <1>7
<1>9. ASSUME NEW l \in 0 .. Depth - 1 PROVE z[l + 1] = z[l] \div 2
  <2>1. l + 1 \in 0 .. Depth /\ l + 1 # 0 /\ (l + 1) - 1 = l
    BY <1>1
  <2> QED BY <2>1, <1>7
<1>10. z = [l \in 0 .. Depth |-> z[l]]
  BY <1>6, <1>7
<1>11. z \in [0 .. Depth -> Nat]
  <2>1. \A l \in 0 .. Depth - 1 : z[l] \in Nat => z[l + 1] \in Nat
    BY <1>9
  <2> QED BY <1>1, <1>8, <2>1, <1>10, StaysInType
<1> QED BY <1>8, <1>9, <1>11 DEF z

LEMMA LevelEquations ==
  ASSUME NEW lvs \in Seq(Field)
  PROVE  /\ Tree!Level(lvs) \in [0 .. Depth -> [Nat -> Field]]
         /\ \A i \in Nat :
              Tree!Level(lvs)[0][i] = IF i < Len(lvs) THEN lvs[i + 1] ELSE Empty
         /\ \A l \in 0 .. Depth - 1 : \A i \in Nat :
              Tree!Level(lvs)[l + 1][i]
                = Hash(Tree!Level(lvs)[l][2 * i], Tree!Level(lvs)[l][2 * i + 1])
<1> DEFINE bottom == [i \in Nat |-> IF i < Len(lvs) THEN lvs[i + 1] ELSE Empty]
           Above(row) == [i \in Nat |-> Hash(row[2 * i], row[2 * i + 1])]
           Body(f) == [l \in 0 .. Depth |-> IF l = 0 THEN bottom ELSE Above(f[l - 1])]
           V == [Nat -> Field]
           g == [l \in 0 .. Depth - 1 |-> [row \in V |-> Above(row)]]
           z == Tree!Level(lvs)
<1>1. Depth \in Nat /\ bottom \in V
  BY ShapeAssumption, FieldAssumption
<1>2. \A row \in V : Above(row) \in V
  BY FieldAssumption
<1>3. IsStep(g, Depth, V)
  <2> HIDE DEF V, Above
  <2> QED BY <1>2 DEF IsStep
<1>4. PICK f : IsRecursive(f, Depth, V, bottom, g)
  <2> HIDE DEF g, V, bottom
  <2> QED BY <1>1, <1>3, Recursion
<1>5. ASSUME NEW l \in 0 .. Depth, l # 0
      PROVE  g[l - 1][f[l - 1]] = Above(f[l - 1])
  <2> HIDE DEF V, Above
  <2>1. l - 1 \in 0 .. Depth - 1 /\ f[l - 1] \in V
    BY <1>1, <1>4, <1>5 DEF IsRecursive
  <2> QED BY <2>1
<1>6. f = Body(f)
  <2> HIDE DEF g, V, bottom, Above
  <2> QED BY <1>4, <1>5 DEF IsRecursive
<1>7. z = Body(z)
  <2>1. z = CHOOSE h : h = Body(h)
    BY DEF Tree!Level
  <2> HIDE DEF bottom, Above
  <2> QED BY <1>6, <2>1
<1> HIDE DEF z
<1>8. \A l \in 0 .. Depth : z[l] = IF l = 0 THEN bottom ELSE Above(z[l - 1])
  <2> HIDE DEF bottom, Above
  <2> QED BY <1>7
<1>9. z[0] = bottom
  <2> HIDE DEF bottom, Above
  <2> QED BY <1>1, <1>8
<1>10. ASSUME NEW l \in 0 .. Depth - 1 PROVE z[l + 1] = Above(z[l])
  <2> HIDE DEF bottom, Above
  <2>1. l + 1 \in 0 .. Depth /\ l + 1 # 0 /\ (l + 1) - 1 = l
    BY <1>1
  <2> QED BY <2>1, <1>8
<1>11. z \in [0 .. Depth -> V]
  <2> HIDE DEF bottom, Above, V
  <2>1. z = [l \in 0 .. Depth |-> z[l]]
    BY <1>7, <1>8
  <2>2. \A l \in 0 .. Depth - 1 : z[l] \in V => z[l + 1] \in V
    BY <1>2, <1>10
  <2>3. z[0] \in V
    BY <1>9, <1>1
  <2> QED BY <1>1, <2>1, <2>2, <2>3, StaysInType
<1>12. \A i \in Nat : z[0][i] = IF i < Len(lvs) THEN lvs[i + 1] ELSE Empty
  BY <1>9
<1>13. \A l \in 0 .. Depth - 1 : \A i \in Nat :
         z[l + 1][i] = Hash(z[l][2 * i], z[l][2 * i + 1])
  BY <1>10
<1> QED BY <1>11, <1>12, <1>13 DEF z

\* The locals of the loop of frontier_append, level by level.
Locals == [current : Field, index : Nat, changed : SUBSET ((0 .. Depth - 1) \X Field)]

LEMMA ClimbType ==
  ASSUME NEW front \in [0 .. Depth - 1 -> Field], NEW zs \in [0 .. Depth -> Field],
         NEW l \in 0 .. Depth - 1, NEW s \in Locals
  PROVE  Climb(front, zs, l, s) \in Locals
<1>1. Depth \in Nat /\ l \in 0 .. Depth
  BY ShapeAssumption
<1>2. s.current \in Field /\ s.index \in Nat /\ zs[l] \in Field /\ front[l] \in Field
      /\ s.index \div 2 \in Nat /\ s.changed \in SUBSET ((0 .. Depth - 1) \X Field)
  BY <1>1 DEF Locals
<1>3. Hash(s.current, zs[l]) \in Field /\ Hash(front[l], s.current) \in Field
  BY <1>2, FieldAssumption
<1>4. {<<l, s.current>>} \in SUBSET ((0 .. Depth - 1) \X Field)
  BY <1>2
<1>5. CASE s.index % 2 = 0
  BY <1>2, <1>3, <1>4, <1>5 DEF Climb, Changed, Locals
<1>6. CASE ~ (s.index % 2 = 0)
  BY <1>2, <1>3, <1>6 DEF Climb, Changed, Locals
<1> QED BY <1>5, <1>6

LEMMA ClimbEquations ==
  ASSUME NEW front \in [0 .. Depth - 1 -> Field], NEW zs \in [0 .. Depth -> Field],
         NEW index \in Nat, NEW leaf \in Field
  PROVE  LET z == ClimbFrom(front, zs, index, leaf)
         IN  /\ z \in [0 .. Depth -> Locals]
             /\ z[0] = [current |-> leaf, index |-> index, changed |-> {}]
             /\ \A l \in 0 .. Depth - 1 : z[l + 1] = Climb(front, zs, l, z[l])
<1> DEFINE start == [current |-> leaf, index |-> index, changed |-> {}]
           Up(l, s) == Climb(front, zs, l, s)
           Body(f) == [l \in 0 .. Depth |-> IF l = 0 THEN start ELSE Up(l - 1, f[l - 1])]
           g == [l \in 0 .. Depth - 1 |-> [s \in Locals |-> Up(l, s)]]
           z == ClimbFrom(front, zs, index, leaf)
<1>1. Depth \in Nat /\ start \in Locals
  BY ShapeAssumption DEF Locals
<1>2. \A l \in 0 .. Depth - 1 : \A s \in Locals : Up(l, s) \in Locals
  BY ClimbType
<1> HIDE DEF Up
<1>3. IsStep(g, Depth, Locals)
  BY <1>2 DEF IsStep
<1>4. PICK f : IsRecursive(f, Depth, Locals, start, g)
  <2> HIDE DEF g, start
  <2> QED BY <1>1, <1>3, Recursion
<1>5. ASSUME NEW l \in 0 .. Depth, l # 0
      PROVE  g[l - 1][f[l - 1]] = Up(l - 1, f[l - 1])
  <2>1. l - 1 \in 0 .. Depth - 1 /\ l - 1 \in 0 .. Depth
    BY <1>1, <1>5
  <2>2. f[l - 1] \in Locals
    BY <2>1, <1>4 DEF IsRecursive
  <2> QED BY <2>1, <2>2
<1>6. f = Body(f)
  <2> HIDE DEF g, start
  <2> QED BY <1>4, <1>5 DEF IsRecursive
<1>7. z = Body(z)
  <2>1. z = CHOOSE h : h = Body(h)
    BY DEF ClimbFrom, Up
  <2> HIDE DEF start
  <2> QED BY <1>6, <2>1
<1> HIDE DEF z
<1>8. \A l \in 0 .. Depth : z[l] = IF l = 0 THEN start ELSE Up(l - 1, z[l - 1])
  <2> HIDE DEF start
  <2> QED BY <1>7
<1>9. z[0] = start
  <2> HIDE DEF start
  <2> QED BY <1>1, <1>8
<1>10. ASSUME NEW l \in 0 .. Depth - 1 PROVE z[l + 1] = Up(l, z[l])
  <2> HIDE DEF start
  <2>1. l + 1 \in 0 .. Depth /\ l + 1 # 0 /\ (l + 1) - 1 = l
    BY <1>1
  <2> QED BY <2>1, <1>8
<1>11. z \in [0 .. Depth -> Locals]
  <2> HIDE DEF start
  <2>1. z = [l \in 0 .. Depth |-> z[l]]
    BY <1>7, <1>8
  <2>2. \A l \in 0 .. Depth - 1 : z[l] \in Locals => z[l + 1] \in Locals
    BY <1>2, <1>10
  <2>3. z[0] \in Locals
    BY <1>9, <1>1
  <2> QED BY <1>1, <2>1, <2>2, <2>3, StaysInType
<1> QED BY <1>9, <1>10, <1>11 DEF z, Up

(***************************************************************************)
(* Where the leaf at index n stands: node Halvings(n)[l] of level l.       *)
(***************************************************************************)
\* An index below the capacity reaches position 0 at the top of the tree.
LEMMA TopPosition ==
  ASSUME NEW n \in Nat, n < Capacity
  PROVE  Halvings(n)[Depth] = 0
<1> DEFINE H == Halvings(n)
           m == Depth % WordBits
           S == {l \in 0 .. Depth : IF l <= m THEN H[l] < Pow2[m - l] ELSE H[l] = 0}
<1>1. Depth \in Nat /\ WordBits \in Nat \ {0}
  BY ShapeAssumption
<1>2. m \in 0 .. WordBits /\ m <= Depth
  BY <1>1
<1>3. H \in [0 .. Depth -> Nat] /\ H[0] = n
      /\ \A l \in 0 .. Depth - 1 : H[l + 1] = H[l] \div 2
  BY HalvingsEquations
<1>4. Capacity = Pow2[m]
  BY DEF Capacity
<1> HIDE DEF H, m
<1>5. 0 \in S
  BY <1>1, <1>2, <1>3, <1>4
<1>6. ASSUME NEW l \in 0 .. Depth - 1, l \in S PROVE l + 1 \in S
  <2>1. l + 1 \in 0 .. Depth /\ l \in 0 .. Depth /\ H[l] \in Nat /\ H[l + 1] = H[l] \div 2
    BY <1>1, <1>3
  <2>2. CASE l + 1 <= m
    <3>1. m - (l + 1) \in 0 .. WordBits - 1 /\ (m - (l + 1)) + 1 = m - l
      BY <1>1, <1>2, <2>2
    <3>2. Pow2[m - l] = 2 * Pow2[m - (l + 1)] /\ Pow2[m - (l + 1)] \in Nat
      <4> DEFINE k == m - (l + 1)
      <4>1. k \in 0 .. WordBits - 1 /\ k \in 0 .. WordBits /\ k + 1 = m - l
        BY <3>1, <1>1
      <4> HIDE DEF k
      <4>2. Pow2[k + 1] = 2 * Pow2[k] /\ Pow2[k] \in Nat
        BY <4>1, Pow2Equations
      <4> QED BY <4>1, <4>2 DEF k
    <3>3. H[l] < Pow2[m - l]
      BY <1>6, <2>2, <1>2
    <3>4. H[l] \div 2 < Pow2[m - (l + 1)]
      BY <3>2, <3>3, <2>1
    <3> QED BY <3>4, <2>1, <2>2
  <2>3. CASE l = m
    <3>1. H[l] < Pow2[0]
      BY <1>6, <2>3, <1>2
    <3>2. H[l] = 0
      BY <3>1, Pow2Equations, <2>1
    <3> QED BY <3>2, <2>1, <2>3, <1>2
  <2>4. CASE l > m
    BY <1>6, <2>1, <2>4, <1>2
  <2> QED BY <2>2, <2>3, <2>4, <1>2
<1>7. Depth \in S
  <2> HIDE DEF S
  <2>1. \A l \in 0 .. Depth - 1 : l \in S => l + 1 \in S
    BY <1>6
  <2>2. \A l \in 0 .. Depth : l \in S
    BY <1>1, <1>5, <2>1, Induction
  <2> QED BY <2>2, <1>1
<1>8. CASE Depth <= m
  <2>1. Depth = m /\ H[Depth] < Pow2[0]
    BY <1>1, <1>2, <1>7, <1>8
  <2> QED BY <2>1, Pow2Equations, <1>1, <1>3 DEF H
<1>9. CASE ~ (Depth <= m)
  BY <1>7, <1>9 DEF H
<1> QED BY <1>8, <1>9

\* From n to n + 1 the position moves by one up to the first level whose bit
\* is clear in n, and not above it.
LEMMA NextPosition ==
  ASSUME NEW n \in Nat
  PROVE  \A l \in 0 .. Depth :
           /\ (\A k \in 0 .. l - 1 : Halvings(n)[k] % 2 = 1)
                => Halvings(n + 1)[l] = Halvings(n)[l] + 1
           /\ (\E k \in 0 .. l - 1 : Halvings(n)[k] % 2 = 0)
                => Halvings(n + 1)[l] = Halvings(n)[l]
<1> DEFINE H == Halvings(n)
           G == Halvings(n + 1)
           S == {l \in 0 .. Depth :
                   /\ (\A k \in 0 .. l - 1 : H[k] % 2 = 1) => G[l] = H[l] + 1
                   /\ (\E k \in 0 .. l - 1 : H[k] % 2 = 0) => G[l] = H[l]}
<1>1. Depth \in Nat /\ n + 1 \in Nat
  BY ShapeAssumption
<1>2. H \in [0 .. Depth -> Nat] /\ H[0] = n
      /\ \A l \in 0 .. Depth - 1 : H[l + 1] = H[l] \div 2
  BY HalvingsEquations
<1>3. G \in [0 .. Depth -> Nat] /\ G[0] = n + 1
      /\ \A l \in 0 .. Depth - 1 : G[l + 1] = G[l] \div 2
  BY <1>1, HalvingsEquations
<1> HIDE DEF H, G
<1>4. 0 \in S
  BY <1>1, <1>2, <1>3
<1>5. ASSUME NEW l \in 0 .. Depth - 1, l \in S PROVE l + 1 \in S
  <2>1. l + 1 \in 0 .. Depth /\ l \in 0 .. Depth /\ H[l] \in Nat /\ G[l] \in Nat
        /\ H[l + 1] = H[l] \div 2 /\ G[l + 1] = G[l] \div 2
        /\ 0 .. (l + 1) - 1 = (0 .. l - 1) \cup {l}
    <3> HIDE DEF S
    <3>1. l + 1 \in 0 .. Depth /\ l \in 0 .. Depth
      BY <1>1
    <3>2. H[l] \in Nat /\ G[l] \in Nat /\ H[l + 1] = H[l] \div 2 /\ G[l + 1] = G[l] \div 2
      BY <3>1, <1>2, <1>3
    <3>3. 0 .. (l + 1) - 1 = (0 .. l - 1) \cup {l}
      BY <1>1
    <3> QED BY <3>1, <3>2, <3>3
  <2>2. ASSUME \A k \in 0 .. (l + 1) - 1 : H[k] % 2 = 1 PROVE G[l + 1] = H[l + 1] + 1
    <3>1. H[l] % 2 = 1 /\ G[l] = H[l] + 1
      BY <2>1, <2>2, <1>5
    <3>2. (H[l] + 1) \div 2 = H[l] \div 2 + 1
      BY <3>1, <2>1
    <3> QED BY <3>1, <3>2, <2>1
  <2>3. ASSUME \E k \in 0 .. (l + 1) - 1 : H[k] % 2 = 0 PROVE G[l + 1] = H[l + 1]
    <3>1. CASE \E k \in 0 .. l - 1 : H[k] % 2 = 0
      BY <3>1, <2>1, <1>5
    <3>2. CASE ~ \E k \in 0 .. l - 1 : H[k] % 2 = 0
      <4>1. \A k \in 0 .. l - 1 : H[k] \in Nat
        BY <1>1, <1>2
      <4>2. \A k \in 0 .. l - 1 : H[k] % 2 = 1
        BY <3>2, <4>1
      <4>3. H[l] % 2 = 0
        BY <2>3, <2>1, <3>2
      <4>4. G[l] = H[l] + 1
        BY <4>2, <1>5
      <4>5. (H[l] + 1) \div 2 = H[l] \div 2
        BY <4>3, <2>1
      <4> QED BY <4>4, <4>5, <2>1
    <3> QED BY <3>1, <3>2
  <2> HIDE DEF S
  <2>4. S = {k \in 0 .. Depth :
                   /\ (\A j \in 0 .. k - 1 : H[j] % 2 = 1) => G[k] = H[k] + 1
                   /\ (\E j \in 0 .. k - 1 : H[j] % 2 = 0) => G[k] = H[k]}
    BY DEF S
  <2> QED BY <2>1, <2>2, <2>3, <2>4
<1>6. \A l \in 0 .. Depth : l \in S
  <2> HIDE DEF S
  <2>1. \A l \in 0 .. Depth - 1 : l \in S => l + 1 \in S
    BY <1>5
  <2> QED BY <1>1, <1>4, <2>1, Induction
<1> QED BY <1>6 DEF H, G

(***************************************************************************)
(* The tree of one more leaf.                                              *)
(***************************************************************************)
\* Appending a leaf changes, at each level, only the node above that leaf.
LEMMA OnlyPathChanges ==
  ASSUME NEW lvs \in Seq(Field), NEW leaf \in Field
  PROVE  \A l \in 0 .. Depth : \A i \in Nat :
           i # Halvings(Len(lvs))[l]
             => Tree!Level(Append(lvs, leaf))[l][i] = Tree!Level(lvs)[l][i]
<1> DEFINE n == Len(lvs)
           more == Append(lvs, leaf)
           H == Halvings(n)
           A == Tree!Level(lvs)
           B == Tree!Level(more)
           S == {l \in 0 .. Depth : \A i \in Nat : i # H[l] => B[l][i] = A[l][i]}
<1>1. Depth \in Nat /\ n \in Nat /\ more \in Seq(Field) /\ Len(more) = n + 1
      /\ \A i \in 1 .. n : more[i] = lvs[i]
  BY ShapeAssumption
<1>2. H \in [0 .. Depth -> Nat] /\ H[0] = n
      /\ \A l \in 0 .. Depth - 1 : H[l + 1] = H[l] \div 2
  BY <1>1, HalvingsEquations
<1>3. /\ \A i \in Nat : A[0][i] = IF i < n THEN lvs[i + 1] ELSE Empty
      /\ \A l \in 0 .. Depth - 1 : \A i \in Nat :
           A[l + 1][i] = Hash(A[l][2 * i], A[l][2 * i + 1])
  BY LevelEquations
<1> HIDE DEF more
<1>4. /\ \A i \in Nat : B[0][i] = IF i < n + 1 THEN more[i + 1] ELSE Empty
      /\ \A l \in 0 .. Depth - 1 : \A i \in Nat :
           B[l + 1][i] = Hash(B[l][2 * i], B[l][2 * i + 1])
  BY <1>1, LevelEquations
<1> HIDE DEF n, H, A, B
<1>5. 0 \in S
  <2>1. ASSUME NEW i \in Nat, i # n PROVE B[0][i] = A[0][i]
    <3>1. CASE i < n
      <4>1. i + 1 \in 1 .. n /\ i < n + 1
        BY <3>1, <1>1
      <4> QED BY <4>1, <3>1, <1>1, <1>3, <1>4
    <3>2. CASE ~ (i < n)
      <4>1. ~ (i < n + 1)
        BY <3>2, <2>1, <1>1
      <4> QED BY <4>1, <3>2, <1>3, <1>4
    <3> QED BY <3>1, <3>2
  <2> QED BY <2>1, <1>1, <1>2
<1>6. ASSUME NEW l \in 0 .. Depth - 1, l \in S PROVE l + 1 \in S
  <2>1. l + 1 \in 0 .. Depth /\ l \in 0 .. Depth
    BY <1>1
  <2>2. H[l] \in Nat /\ H[l + 1] = H[l] \div 2
    BY <2>1, <1>2
  <2>3. ASSUME NEW i \in Nat, i # H[l + 1] PROVE B[l + 1][i] = A[l + 1][i]
    <3>1. 2 * i \in Nat /\ 2 * i + 1 \in Nat /\ 2 * i # H[l] /\ 2 * i + 1 # H[l]
      BY <2>2, <2>3
    <3>2. B[l][2 * i] = A[l][2 * i] /\ B[l][2 * i + 1] = A[l][2 * i + 1]
      BY <3>1, <1>6
    <3> QED BY <3>2, <1>3, <1>4
  <2> QED BY <2>1, <2>3
<1>7. \A l \in 0 .. Depth : l \in S
  <2> HIDE DEF S
  <2>1. \A l \in 0 .. Depth - 1 : l \in S => l + 1 \in S
    BY <1>6
  <2> QED BY <1>1, <1>5, <2>1, Induction
<1> QED BY <1>7 DEF n, H, A, B, more

\* Right of the position of the next leaf every subtree is empty, and its
\* root is the entry of the zero ladder.
LEMMA EmptyToTheRight ==
  ASSUME NEW lvs \in Seq(Field)
  PROVE  \A l \in 0 .. Depth : \A i \in Nat :
           i > Halvings(Len(lvs))[l]
             => Tree!Level(lvs)[l][i] = zero_ladder(Empty)[l]
<1> DEFINE n == Len(lvs)
           H == Halvings(n)
           A == Tree!Level(lvs)
           Z == zero_ladder(Empty)
           S == {l \in 0 .. Depth : \A i \in Nat : i > H[l] => A[l][i] = Z[l]}
<1>1. Depth \in Nat /\ n \in Nat
  BY ShapeAssumption
<1>2. H \in [0 .. Depth -> Nat] /\ H[0] = n
      /\ \A l \in 0 .. Depth - 1 : H[l + 1] = H[l] \div 2
  BY <1>1, HalvingsEquations
<1>3. /\ \A i \in Nat : A[0][i] = IF i < n THEN lvs[i + 1] ELSE Empty
      /\ \A l \in 0 .. Depth - 1 : \A i \in Nat :
           A[l + 1][i] = Hash(A[l][2 * i], A[l][2 * i + 1])
  BY LevelEquations
<1>4. Z[0] = Empty /\ \A l \in 0 .. Depth - 1 : Z[l + 1] = Hash(Z[l], Z[l])
  BY ZeroLadderEquations
<1> HIDE DEF n, H, A, Z
<1>5. 0 \in S
  BY <1>1, <1>2, <1>3, <1>4
<1>6. ASSUME NEW l \in 0 .. Depth - 1, l \in S PROVE l + 1 \in S
  <2>1. l + 1 \in 0 .. Depth /\ l \in 0 .. Depth
    BY <1>1
  <2>2. H[l] \in Nat /\ H[l + 1] = H[l] \div 2
    BY <2>1, <1>2
  <2>3. ASSUME NEW i \in Nat, i > H[l + 1] PROVE A[l + 1][i] = Z[l + 1]
    <3>1. 2 * i \in Nat /\ 2 * i + 1 \in Nat /\ 2 * i > H[l] /\ 2 * i + 1 > H[l]
      BY <2>2, <2>3
    <3>2. A[l][2 * i] = Z[l] /\ A[l][2 * i + 1] = Z[l]
      BY <3>1, <1>6
    <3> QED BY <3>2, <1>3, <1>4
  <2> QED BY <2>1, <2>3
<1>7. \A l \in 0 .. Depth : l \in S
  <2> HIDE DEF S
  <2>1. \A l \in 0 .. Depth - 1 : l \in S => l + 1 \in S
    BY <1>6
  <2> QED BY <1>1, <1>5, <2>1, Induction
<1> QED BY <1>7 DEF n, H, A, Z

\* c is the first level whose bit is clear in n.
FirstClear(n, c) ==
  /\ Halvings(n)[c] % 2 = 0
  /\ \A k \in 0 .. c - 1 : Halvings(n)[k] % 2 = 1

\* Every bit of n below level l is set.
AllSet(n, l) == \A k \in 0 .. l - 1 : Halvings(n)[k] % 2 = 1

\* A frontier that fits the tree of lvs.
Fits(front, lvs) ==
  \A l \in 0 .. Depth - 1 :
    Halvings(Len(lvs))[l] % 2 = 1
      => front[l] = Tree!Level(lvs)[l][Halvings(Len(lvs))[l] - 1]

\* The loop invariant of frontier_append: entering level l, current is the
\* node above the new leaf in the tree that has it, and changed is that node
\* at the first clear level, once that level has been passed.
LoopInvariant(lvs, leaf, s, l) ==
  LET n == Len(lvs)
      B == Tree!Level(Append(lvs, leaf))
  IN  /\ s.index = Halvings(n)[l]
      /\ s.current = B[l][Halvings(n)[l]]
      /\ \/ AllSet(n, l) /\ s.changed = {}
         \/ \E c \in 0 .. l - 1 : FirstClear(n, c) /\ s.changed = {<<c, B[c][Halvings(n)[c]]>>}

LEMMA LoopInvariantHolds ==
  ASSUME NEW lvs \in Seq(Field), NEW leaf \in Field,
         NEW front \in [0 .. Depth - 1 -> Field], Fits(front, lvs)
  PROVE  \A l \in 0 .. Depth :
           LoopInvariant(lvs, leaf,
             ClimbFrom(front, zero_ladder(Empty), Len(lvs), leaf)[l], l)
<1> DEFINE n == Len(lvs)
           more == Append(lvs, leaf)
           H == Halvings(n)
           A == Tree!Level(lvs)
           B == Tree!Level(more)
           Z == zero_ladder(Empty)
           at == ClimbFrom(front, Z, n, leaf)
           S == {l \in 0 .. Depth : LoopInvariant(lvs, leaf, at[l], l)}
<1>1. Depth \in Nat /\ n \in Nat /\ more \in Seq(Field) /\ Len(more) = n + 1
      /\ more[n + 1] = leaf
  BY ShapeAssumption
<1>2. H \in [0 .. Depth -> Nat] /\ H[0] = n
      /\ \A l \in 0 .. Depth - 1 : H[l + 1] = H[l] \div 2
  BY <1>1, HalvingsEquations
<1>3. Z \in [0 .. Depth -> Field]
  BY ZeroLadderEquations
<1>4. /\ at \in [0 .. Depth -> Locals]
      /\ at[0] = [current |-> leaf, index |-> n, changed |-> {}]
      /\ \A l \in 0 .. Depth - 1 : at[l + 1] = Climb(front, Z, l, at[l])
  <2> HIDE DEF Z, n
  <2> QED BY <1>1, <1>3, ClimbEquations
<1>5. \A l \in 0 .. Depth : \A i \in Nat :
        (i # H[l] => B[l][i] = A[l][i]) /\ (i > H[l] => A[l][i] = Z[l])
  BY OnlyPathChanges, EmptyToTheRight
<1>6. \A l \in 0 .. Depth - 1 : H[l] % 2 = 1 => front[l] = A[l][H[l] - 1]
  BY DEF Fits
<1> HIDE DEF more
<1>7. /\ \A i \in Nat : B[0][i] = IF i < n + 1 THEN more[i + 1] ELSE Empty
      /\ \A l \in 0 .. Depth - 1 : \A i \in Nat :
           B[l + 1][i] = Hash(B[l][2 * i], B[l][2 * i + 1])
  BY <1>1, LevelEquations
<1> HIDE DEF n, H, A, B, Z, at
<1>8. \A s, l : LoopInvariant(lvs, leaf, s, l) <=>
        /\ s.index = H[l]
        /\ s.current = B[l][H[l]]
        /\ \/ AllSet(n, l) /\ s.changed = {}
           \/ \E c \in 0 .. l - 1 : FirstClear(n, c) /\ s.changed = {<<c, B[c][H[c]]>>}
  BY DEF LoopInvariant, n, H, B, more
<1>9. \A c : AllSet(n, c) /\ H[c] % 2 = 0 => FirstClear(n, c)
  BY DEF AllSet, FirstClear, H
<1>10. 0 \in S
  <2>1. AllSet(n, 0)
    BY DEF AllSet
  <2>2. B[0][H[0]] = leaf
    BY <1>1, <1>2, <1>7
  <2>3. at[0].index = H[0] /\ at[0].current = B[0][H[0]] /\ at[0].changed = {}
    BY <2>2, <1>2, <1>4
  <2>4. LoopInvariant(lvs, leaf, at[0], 0)
    BY <2>1, <2>3, <1>8
  <2> QED BY <2>4, <1>1
<1>11. ASSUME NEW l \in 0 .. Depth - 1, l \in S PROVE l + 1 \in S
  <2> DEFINE s == at[l]
             t == at[l + 1]
             p == H[l]
  <2>1. l + 1 \in 0 .. Depth /\ l \in 0 .. Depth
    BY <1>1
  <2>2. p \in Nat /\ H[l + 1] = p \div 2 /\ p \div 2 \in Nat
    BY <2>1, <1>2
  <2>3. t = Climb(front, Z, l, s)
    BY <1>4
  <2>4. LoopInvariant(lvs, leaf, s, l)
    BY <1>11
  <2>5. s.index = p /\ s.current = B[l][p]
    BY <2>4, <1>8
  <2>6. \/ AllSet(n, l) /\ s.changed = {}
        \/ \E c \in 0 .. l - 1 : FirstClear(n, c) /\ s.changed = {<<c, B[c][H[c]]>>}
    BY <2>4, <1>8
  <2>7. B[l + 1][p \div 2] = Hash(B[l][2 * (p \div 2)], B[l][2 * (p \div 2) + 1])
    BY <2>2, <1>7
  <2> HIDE DEF s, t, p
  <2>8. CASE p % 2 = 0
    <3>1. /\ t.current = Hash(s.current, Z[l])
          /\ t.index = p \div 2
          /\ t.changed = IF s.changed = {} THEN {<<l, s.current>>} ELSE s.changed
      BY <2>3, <2>5, <2>8 DEF Climb, Changed
    <3>2. 2 * (p \div 2) = p /\ p + 1 \in Nat /\ p + 1 # p /\ p + 1 > p
      BY <2>2, <2>8
    <3>3. B[l][p + 1] = Z[l]
      BY <3>2, <2>1, <1>5 DEF p
    <3>4. t.current = B[l + 1][p \div 2]
      BY <3>1, <3>2, <3>3, <2>5, <2>7
    <3>5. \E c \in 0 .. (l + 1) - 1 : FirstClear(n, c) /\ t.changed = {<<c, B[c][H[c]]>>}
      <4>1. CASE AllSet(n, l) /\ s.changed = {}
        <5>1. FirstClear(n, l)
          BY <4>1, <2>8, <1>9 DEF p
        <5>2. t.changed = {<<l, B[l][H[l]]>>}
          BY <4>1, <3>1, <2>5 DEF p
        <5>3. l \in 0 .. (l + 1) - 1
          BY <2>1
        <5> QED BY <5>1, <5>2, <5>3
      <4>2. CASE \E c \in 0 .. l - 1 : FirstClear(n, c) /\ s.changed = {<<c, B[c][H[c]]>>}
        <5>1. PICK c \in 0 .. l - 1 : FirstClear(n, c) /\ s.changed = {<<c, B[c][H[c]]>>}
          BY <4>2
        <5>2. t.changed = s.changed
          BY <5>1, <3>1
        <5>3. c \in 0 .. (l + 1) - 1
          BY <2>1
        <5> QED BY <5>1, <5>2, <5>3
      <4> QED BY <4>1, <4>2, <2>6
    <3>6. LoopInvariant(lvs, leaf, t, l + 1)
      BY <3>1, <3>4, <3>5, <2>2, <1>8
    <3> QED BY <3>6, <2>1 DEF t
  <2>9. CASE p % 2 = 1
    <3>1. /\ t.current = Hash(front[l], s.current)
          /\ t.index = p \div 2
          /\ t.changed = s.changed
      BY <2>3, <2>5, <2>9 DEF Climb
    <3>2. 2 * (p \div 2) + 1 = p /\ 2 * (p \div 2) = p - 1 /\ p - 1 \in Nat /\ p - 1 # p
      BY <2>2, <2>9
    <3>3. front[l] = A[l][p - 1]
      BY <2>9, <1>6 DEF p
    <3>4. B[l][p - 1] = front[l]
      BY <3>2, <3>3, <2>1, <1>5 DEF p
    <3>5. t.current = B[l + 1][p \div 2]
      BY <3>1, <3>2, <3>4, <2>5, <2>7
    <3>6. \/ AllSet(n, l + 1) /\ t.changed = {}
          \/ \E c \in 0 .. (l + 1) - 1 : FirstClear(n, c) /\ t.changed = {<<c, B[c][H[c]]>>}
      <4>1. CASE AllSet(n, l) /\ s.changed = {}
        <5>1. \A k \in 0 .. (l + 1) - 1 : k \in 0 .. l - 1 \/ k = l
          BY <2>1
        <5>2. AllSet(n, l + 1)
          BY <4>1, <5>1, <2>9 DEF AllSet, p, H
        <5> QED BY <4>1, <5>2, <3>1
      <4>2. CASE \E c \in 0 .. l - 1 : FirstClear(n, c) /\ s.changed = {<<c, B[c][H[c]]>>}
        <5>1. PICK c \in 0 .. l - 1 : FirstClear(n, c) /\ s.changed = {<<c, B[c][H[c]]>>}
          BY <4>2
        <5>2. c \in 0 .. (l + 1) - 1
          BY <2>1
        <5> QED BY <5>1, <5>2, <3>1
      <4> QED BY <4>1, <4>2, <2>6
    <3>7. LoopInvariant(lvs, leaf, t, l + 1)
      BY <3>1, <3>5, <3>6, <2>2, <1>8
    <3> QED BY <3>7, <2>1 DEF t
  <2> QED BY <2>8, <2>9, <2>2
<1>12. \A l \in 0 .. Depth : l \in S
  <2> HIDE DEF S
  <2>1. \A l \in 0 .. Depth - 1 : l \in S => l + 1 \in S
    BY <1>11
  <2> QED BY <1>1, <1>10, <2>1, Induction
<1> QED BY <1>12 DEF at, Z, n

(***************************************************************************)
(* The inductive invariant.  RootIsReference alone is not inductive: the   *)
(* next root is computed from the frontier and the zero ladder, so both    *)
(* must be known to hold nodes of the reference tree, and the index to be  *)
(* the number of leaves.                                                   *)
(***************************************************************************)
IInv ==
  /\ TypeOK
  /\ zeros = zero_ladder(Empty)
  /\ next_index = Len(leaves)
  /\ RootIsReference
  /\ FrontierHoldsLeftSubtrees

LEMMA LeavesAreFields == Seq(Appendable) \subseteq Seq(Field)
  BY FieldAssumption

LEMMA FrontierFits ==
  ASSUME next_index = Len(leaves)
  PROVE  FrontierHoldsLeftSubtrees <=> Fits(frontier, leaves)
BY DEF FrontierHoldsLeftSubtrees, Fits

LEMMA CapacityType == Capacity \in Nat
  BY ShapeAssumption, Pow2Equations DEF Capacity

\* The empty tree satisfies the invariant: its root is the top of the ladder.
LEMMA InitInvariant == Init => IInv
<1> SUFFICES ASSUME Init PROVE IInv
  OBVIOUS
<1> USE DEF Init
<1>1. Depth \in Nat /\ Empty \in Field /\ 0 \in Nat
  BY ShapeAssumption, FieldAssumption
<1>2. zero_ladder(Empty) \in [0 .. Depth -> Field]
  BY ZeroLadderEquations
<1>3. leaves \in Seq(Appendable) /\ leaves \in Seq(Field) /\ Len(leaves) = 0
  OBVIOUS
<1>4. Halvings(0) \in [0 .. Depth -> Nat] /\ Halvings(0)[0] = 0
      /\ \A l \in 0 .. Depth - 1 : Halvings(0)[l + 1] = Halvings(0)[l] \div 2
  BY HalvingsEquations
<1>5. \A l \in 0 .. Depth : Halvings(0)[l] = 0
  <2> DEFINE S == {l \in 0 .. Depth : Halvings(0)[l] = 0}
  <2>1. 0 \in S
    BY <1>1, <1>4
  <2>2. \A l \in 0 .. Depth - 1 : l \in S => l + 1 \in S
    BY <1>1, <1>4
  <2>3. \A l \in 0 .. Depth : l \in S
    <3> HIDE DEF S
    <3> QED BY <1>1, <2>1, <2>2, Induction
  <2> QED BY <2>3
<1>6. TypeOK
  BY <1>1, <1>2, <1>3, CapacityType DEF TypeOK
<1>7. RootIsReference
  <2> DEFINE A == Tree!Level(leaves)
             Z == zero_ladder(Empty)
             S == {l \in 0 .. Depth : \A i \in Nat : A[l][i] = Z[l]}
  <2>1. /\ \A i \in Nat : A[0][i] = IF i < Len(leaves) THEN leaves[i + 1] ELSE Empty
        /\ \A l \in 0 .. Depth - 1 : \A i \in Nat :
             A[l + 1][i] = Hash(A[l][2 * i], A[l][2 * i + 1])
    BY <1>3, LevelEquations
  <2>2. Z[0] = Empty /\ \A l \in 0 .. Depth - 1 : Z[l + 1] = Hash(Z[l], Z[l])
    BY ZeroLadderEquations
  <2>3. root = Z[Depth]
    OBVIOUS
  <2> HIDE DEF A, Z
  <2>4. 0 \in S
    BY <1>1, <1>3, <2>1, <2>2
  <2>5. ASSUME NEW l \in 0 .. Depth - 1, l \in S PROVE l + 1 \in S
    <3>1. l + 1 \in 0 .. Depth
      BY <1>1
    <3>2. ASSUME NEW i \in Nat PROVE A[l + 1][i] = Z[l + 1]
      <4>1. A[l][2 * i] = Z[l] /\ A[l][2 * i + 1] = Z[l]
        BY <2>5
      <4> QED BY <4>1, <2>1, <2>2
    <3> QED BY <3>1, <3>2
  <2>6. \A l \in 0 .. Depth : l \in S
    <3> HIDE DEF S
    <3>1. \A l \in 0 .. Depth - 1 : l \in S => l + 1 \in S
      BY <2>5
    <3> QED BY <1>1, <2>4, <3>1, Induction
  <2> QED BY <2>3, <2>6, <1>1 DEF RootIsReference, Tree!RootOf, A
<1>8. FrontierHoldsLeftSubtrees
  BY <1>1, <1>5 DEF FrontierHoldsLeftSubtrees
<1> QED BY <1>3, <1>6, <1>7, <1>8 DEF IInv

\* The frontier append of the tree, from a state of the invariant: it is
\* refused at a full tree only, its root is the reference root with the leaf,
\* and storing its one changed slot makes the frontier fit again.
LEMMA AppendIsCorrect ==
  ASSUME IInv, NEW leaf \in Appendable, NEW failing \in 0 .. Depth,
         NEW ins, ins = frontier_append(frontier, next_index, leaf, zeros, failing),
         ins.kind = "ok"
  PROVE  /\ next_index < Capacity
         /\ ins.changed_level \in 0 .. Depth - 1
         /\ ins.new_subtree \in Field
         /\ ins.new_root = Tree!RootOf(Append(leaves, leaf))
         /\ Fits([frontier EXCEPT ![ins.changed_level] = ins.new_subtree],
                 Append(leaves, leaf))
<1> DEFINE n == Len(leaves)
           more == Append(leaves, leaf)
           H == Halvings(n)
           G == Halvings(n + 1)
           A == Tree!Level(leaves)
           B == Tree!Level(more)
           end == ClimbFrom(frontier, zeros, next_index, leaf)[Depth]
           Result ==
             IF end.changed # {}
             THEN LET c == CHOOSE c \in end.changed : TRUE
                  IN  [kind |-> "ok", changed_level |-> c[1], new_subtree |-> c[2],
                       new_root |-> end.current]
             ELSE IF Depth = 0
                  THEN [kind |-> "panic"]
                  ELSE [kind |-> "ok", changed_level |-> Depth - 1,
                        new_subtree |-> frontier[Depth - 1], new_root |-> end.current]
<1>1. /\ Depth \in Nat /\ leaf \in Field /\ leaves \in Seq(Field) /\ n \in Nat
      /\ more \in Seq(Field) /\ Len(more) = n + 1 /\ n + 1 \in Nat
      /\ next_index = n /\ zeros = zero_ladder(Empty)
      /\ zeros \in [0 .. Depth -> Field] /\ frontier \in [0 .. Depth - 1 -> Field]
  BY ShapeAssumption, FieldAssumption, LeavesAreFields DEF IInv, TypeOK
<1>2. Fits(frontier, leaves)
  BY FrontierFits DEF IInv
<1>3. n < Capacity /\ ins = Result
  BY <1>1, CapacityType DEF frontier_append
<1>4. H \in [0 .. Depth -> Nat] /\ G \in [0 .. Depth -> Nat]
  BY <1>1, HalvingsEquations
<1>5. H[Depth] = 0
  BY <1>1, <1>3, TopPosition
<1>6. LoopInvariant(leaves, leaf, end, Depth)
  <2>1. Depth \in 0 .. Depth
    BY <1>1
  <2> QED BY <1>1, <1>2, <2>1, LoopInvariantHolds
<1>7. \A l \in 0 .. Depth :
        /\ AllSet(n, l) => G[l] = H[l] + 1
        /\ (\E k \in 0 .. l - 1 : H[k] % 2 = 0) => G[l] = H[l]
  BY <1>1, NextPosition DEF AllSet
<1>8. \A l \in 0 .. Depth : \A i \in Nat : i # H[l] => B[l][i] = A[l][i]
  BY <1>1, OnlyPathChanges
<1>9. \A l \in 0 .. Depth - 1 : H[l] % 2 = 1 => frontier[l] = A[l][H[l] - 1]
  BY <1>2 DEF Fits
<1>10. \A l \in 0 .. Depth : \A i \in Nat : B[l][i] \in Field
  BY <1>1, LevelEquations
<1>11. end.current = Tree!RootOf(more)
  BY <1>5, <1>6 DEF LoopInvariant, Tree!RootOf
<1>12. \A f : Fits(f, more) <=>
         \A l \in 0 .. Depth - 1 : G[l] % 2 = 1 => f[l] = B[l][G[l] - 1]
  BY <1>1 DEF Fits
<1>13. \/ AllSet(n, Depth) /\ end.changed = {}
       \/ \E c \in 0 .. Depth - 1 : FirstClear(n, c) /\ end.changed = {<<c, B[c][H[c]]>>}
  BY <1>6 DEF LoopInvariant
<1>14. \A l \in 0 .. Depth - 1 : AllSet(n, l) /\ H[l] % 2 = 1 => G[l] % 2 = 0
  <2> SUFFICES ASSUME NEW l \in 0 .. Depth - 1, AllSet(n, l), H[l] % 2 = 1
               PROVE  G[l] % 2 = 0
    OBVIOUS
  <2>1. l \in 0 .. Depth /\ H[l] \in Nat /\ G[l] = H[l] + 1
    BY <1>1, <1>4, <1>7
  <2> QED BY <2>1
<1>15. CASE AllSet(n, Depth) /\ end.changed = {}
  <2> DEFINE top == Depth - 1
  <2>1. Depth # 0 /\ ins = [kind |-> "ok", changed_level |-> top,
                            new_subtree |-> frontier[top], new_root |-> end.current]
    BY <1>3, <1>15
  <2>2. top \in 0 .. Depth - 1 /\ frontier[top] \in Field
    BY <1>1, <2>1
  <2>3. [frontier EXCEPT ![top] = frontier[top]] = frontier
    BY <1>1, <2>2
  <2>4. ASSUME NEW l \in 0 .. Depth - 1 PROVE G[l] % 2 = 0
    <3>1. l \in 0 .. Depth - 1 /\ \A k \in 0 .. l - 1 : k \in 0 .. Depth - 1
      BY <1>1
    <3>2. AllSet(n, l) /\ H[l] % 2 = 1
      BY <1>15, <3>1 DEF AllSet
    <3> QED BY <3>2, <1>14
  <2>5. Fits(frontier, more)
    BY <1>12, <2>4
  <2>6. /\ ins.changed_level = top /\ ins.new_subtree = frontier[top]
        /\ ins.new_root = end.current
    <3> HIDE DEF top, end
    <3> QED BY <2>1
  <2> HIDE DEF top, end, Result
  <2> QED BY <1>1, <1>3, <1>11, <2>2, <2>3, <2>5, <2>6
<1>16. CASE \E c \in 0 .. Depth - 1 : FirstClear(n, c) /\ end.changed = {<<c, B[c][H[c]]>>}
  <2>1. PICK c \in 0 .. Depth - 1 : FirstClear(n, c) /\ end.changed = {<<c, B[c][H[c]]>>}
    BY <1>16
  <2> DEFINE sub == B[c][H[c]]
             front == [frontier EXCEPT ![c] = sub]
  <2>2. ins = [kind |-> "ok", changed_level |-> c, new_subtree |-> sub,
               new_root |-> end.current]
    <3> HIDE DEF end, B, H
    <3>1. (CHOOSE x \in {<<c, B[c][H[c]]>>} : TRUE) = <<c, sub>>
      OBVIOUS
    <3>2. end.changed # {} /\ (CHOOSE x \in end.changed : TRUE) = <<c, sub>>
      BY <2>1, <3>1
    <3> DEFINE d == CHOOSE x \in end.changed : TRUE
    <3>3. d[1] = c /\ d[2] = sub
      <4>1. d = <<c, sub>>
        BY <3>2
      <4> HIDE DEF d, sub
      <4> QED BY <4>1
    <3>4. Result = [kind |-> "ok", changed_level |-> d[1], new_subtree |-> d[2],
                    new_root |-> end.current]
      <4> HIDE DEF sub
      <4> QED BY <3>2
    <3> HIDE DEF Result, d, sub
    <3> QED BY <1>3, <3>3, <3>4
  <2>3. c \in 0 .. Depth /\ H[c] \in Nat /\ sub \in Field
    BY <1>1, <1>4, <1>10
  <2>4. AllSet(n, c) /\ H[c] % 2 = 0
    BY <2>1 DEF FirstClear, AllSet
  <2>5. ASSUME NEW l \in 0 .. Depth - 1, G[l] % 2 = 1
        PROVE  front[l] = B[l][G[l] - 1]
    <3>1. l \in 0 .. Depth /\ H[l] \in Nat /\ G[l] \in Nat
      BY <1>1, <1>4
    <3>2. CASE l < c
      <4>1. l \in 0 .. c - 1 /\ \A k \in 0 .. l - 1 : k \in 0 .. c - 1
        BY <3>2, <1>1
      <4>2. AllSet(n, l) /\ H[l] % 2 = 1
        BY <2>4, <4>1 DEF AllSet
      <4>3. G[l] % 2 = 0
        BY <4>2, <1>14
      <4> QED BY <4>3, <2>5, <3>1
    <3>3. CASE l = c
      <4>1. G[c] = H[c] + 1
        BY <2>3, <2>4, <1>7
      <4>2. front[c] = sub /\ G[c] - 1 = H[c]
        BY <1>1, <2>3, <4>1
      <4> QED BY <3>3, <4>2
    <3>4. CASE l > c
      <4>1. c \in 0 .. l - 1
        BY <3>4, <1>1
      <4>2. G[l] = H[l]
        BY <4>1, <2>4, <3>1, <1>7
      <4>3. frontier[l] = A[l][H[l] - 1]
        BY <4>2, <2>5, <1>9
      <4>4. H[l] - 1 \in Nat /\ H[l] - 1 # H[l]
        BY <4>2, <2>5, <3>1
      <4>5. B[l][H[l] - 1] = A[l][H[l] - 1]
        BY <4>4, <3>1, <1>8
      <4>6. front[l] = frontier[l]
        BY <3>4, <1>1
      <4> QED BY <4>2, <4>3, <4>5, <4>6
    <3> QED BY <3>2, <3>3, <3>4
  <2>6. Fits(front, more)
    <3> HIDE DEF front
    <3> QED BY <1>12, <2>5
  <2>7. /\ ins.changed_level = c /\ ins.new_subtree = sub
        /\ ins.new_root = end.current
    <3> HIDE DEF sub, end
    <3> QED BY <2>2
  <2> HIDE DEF sub, end, Result
  <2> QED BY <1>1, <1>3, <1>11, <2>1, <2>3, <2>6, <2>7
<1> QED BY <1>13, <1>15, <1>16

LEMMA NextInvariant == IInv /\ [Next]_vars => IInv'
<1> SUFFICES ASSUME IInv, [Next]_vars PROVE IInv'
  OBVIOUS
<1>1. ASSUME NEW leaf \in Appendable, NEW failing \in 0 .. Depth, append(leaf, failing)
      PROVE  IInv'
  <2> DEFINE ins == frontier_append(frontier, next_index, leaf, zeros, failing)
  <2>1. zeros' = zeros
    BY <1>1 DEF append
  <2>2. CASE ins.kind = "ok"
    <3>1. /\ frontier' = [frontier EXCEPT ![ins.changed_level] = ins.new_subtree]
          /\ root' = ins.new_root
          /\ next_index' = next_index + 1
          /\ leaves' = Append(leaves, leaf)
      BY <1>1, <2>2 DEF append
    <3>2. /\ next_index < Capacity
          /\ ins.changed_level \in 0 .. Depth - 1
          /\ ins.new_subtree \in Field
          /\ ins.new_root = Tree!RootOf(Append(leaves, leaf))
          /\ Fits([frontier EXCEPT ![ins.changed_level] = ins.new_subtree],
                  Append(leaves, leaf))
      BY <2>2, AppendIsCorrect
    <3> HIDE DEF ins
    <3>3. /\ Depth \in Nat /\ leaves \in Seq(Appendable) /\ next_index = Len(leaves)
          /\ frontier \in [0 .. Depth - 1 -> Field] /\ next_index \in Nat
          /\ zeros \in [0 .. Depth -> Field] /\ zeros = zero_ladder(Empty)
      BY ShapeAssumption DEF IInv, TypeOK
    <3>4. leaves' \in Seq(Appendable) /\ Len(leaves') = next_index'
      BY <3>1, <3>3
    <3>5. root' \in Field
      <4>1. leaves' \in Seq(Field)
        BY <3>4, LeavesAreFields
      <4>2. Tree!Level(leaves')[Depth][0] \in Field
        BY <4>1, <3>3, LevelEquations
      <4> QED BY <4>2, <3>1, <3>2 DEF Tree!RootOf
    <3>6. next_index' \in 0 .. Capacity
      BY <3>1, <3>2, <3>3, CapacityType
    <3>7. frontier' \in [0 .. Depth - 1 -> Field]
      BY <3>1, <3>2, <3>3
    <3>8. TypeOK'
      BY <2>1, <3>3, <3>4, <3>5, <3>6, <3>7 DEF TypeOK
    <3>9. RootIsReference'
      BY <3>1, <3>2 DEF RootIsReference
    <3>10. FrontierHoldsLeftSubtrees'
      <4>1. Fits(frontier', leaves')
        BY <3>1, <3>2
      <4> QED BY <4>1, <3>4 DEF FrontierHoldsLeftSubtrees, Fits
    <3> QED BY <2>1, <3>3, <3>4, <3>8, <3>9, <3>10 DEF IInv
  <2>3. CASE ins.kind # "ok"
    <3>1. UNCHANGED <<zeros, frontier, root, next_index, leaves>>
      BY <1>1, <2>3 DEF append
    <3> QED
      BY <3>1 DEF IInv, TypeOK, RootIsReference, FrontierHoldsLeftSubtrees
  <2> QED BY <2>2, <2>3
<1>2. CASE UNCHANGED vars
  BY <1>2 DEF IInv, TypeOK, RootIsReference, FrontierHoldsLeftSubtrees, vars
<1> QED BY <1>1, <1>2 DEF Next

(***************************************************************************)
(* Theorems.                                                               *)
(***************************************************************************)
LEMMA Invariance == Spec => []IInv
<1> QED BY InitInvariant, NextInvariant, PTL DEF Spec

\* Whatever is appended, refused or fails, every slot of the tree keeps its
\* type and the index stays within the capacity that imt.rs:86 checks.
THEOREM TypeCorrectness == Spec => []TypeOK
<1>1. IInv => TypeOK
  BY DEF IInv
<1> QED BY <1>1, Invariance, PTL

\* The incremental root (imt.rs:182) is the root of the whole tree of the
\* accepted leaves, for every depth, hash and sequence of calls.
THEOREM RootCorrectness == Spec => []RootIsReference
<1>1. IInv => RootIsReference
  BY DEF IInv
<1> QED BY <1>1, Invariance, PTL

\* Each frontier slot the next append reads (imt.rs:105) holds the completed
\* left subtree it stands for.
THEOREM FrontierCorrectness == Spec => []FrontierHoldsLeftSubtrees
<1>1. IInv => FrontierHoldsLeftSubtrees
  BY DEF IInv
<1> QED BY <1>1, Invariance, PTL

\* The frontier tree implements the append-only Merkle tree: each append that
\* returns Ok is one append of the abstract tree, every other call a stutter.
THEOREM Refinement == Spec => ImplementsMerkleTree
<1>1. Init => Tree!Init
  BY InitInvariant DEF IInv, RootIsReference, Init, Tree!Init
<1>2. IInv /\ [Next]_vars => [Tree!Next]_<<leaves, root>>
  <2> SUFFICES ASSUME IInv, [Next]_vars PROVE [Tree!Next]_<<leaves, root>>
    OBVIOUS
  <2>1. ASSUME NEW leaf \in Appendable, NEW failing \in 0 .. Depth, append(leaf, failing)
        PROVE  [Tree!Next]_<<leaves, root>>
    <3> DEFINE ins == frontier_append(frontier, next_index, leaf, zeros, failing)
    <3>1. CASE ins.kind = "ok"
      <4>1. root' = ins.new_root /\ leaves' = Append(leaves, leaf)
        BY <2>1, <3>1 DEF append
      <4>2. ins.new_root = Tree!RootOf(Append(leaves, leaf))
        BY <3>1, AppendIsCorrect
      <4>3. Tree!AppendLeaf(leaf)
        BY <4>1, <4>2 DEF Tree!AppendLeaf
      <4> QED BY <4>3 DEF Tree!Next
    <3>2. CASE ins.kind # "ok"
      BY <2>1, <3>2 DEF append
    <3> QED BY <3>1, <3>2
  <2>2. CASE UNCHANGED vars
    BY <2>2 DEF vars
  <2> QED BY <2>1, <2>2 DEF Next
<1> QED BY <1>1, <1>2, Invariance, PTL DEF Spec, ImplementsMerkleTree, Tree!Spec

(***************************************************************************)
(* Refusals.  Below the width of the word the capacity is 2^Depth; only    *)
(* then, and where there is a level, is the check of imt.rs:86 exact.      *)
(***************************************************************************)
DepthFitsWord == Depth < WordBits

LEMMA CapacityIsExact ==
  ASSUME DepthFitsWord
  PROVE  /\ Capacity = Pow2[Depth] /\ ~ ShiftPanics
         /\ Depth \in 0 .. WordBits /\ WordBits \in Nat
<1>1. Depth \in Nat /\ WordBits \in Nat \ {0} /\ Depth < WordBits
  BY ShapeAssumption DEF DepthFitsWord
<1>2. Depth % WordBits = Depth
  BY <1>1
<1> QED BY <1>1, <1>2 DEF Capacity, ShiftPanics

\* What a call reports in a tree of the invariant.
LEMMA RefusalMeansFull ==
  ASSUME DepthFitsWord, Depth # 0, IInv,
         NEW leaf \in Appendable, NEW failing \in 0 .. Depth,
         NEW ins, ins = frontier_append(frontier, next_index, leaf, zeros, failing)
  PROVE  /\ ins.kind = "Merkle" => Len(leaves) = Pow2[Depth]
         /\ ins.kind # "panic"
<1> DEFINE end == ClimbFrom(frontier, zeros, next_index, leaf)[Depth]
           c == CHOOSE c \in end.changed : TRUE
           Result ==
             IF end.changed # {}
             THEN [kind |-> "ok", changed_level |-> c[1], new_subtree |-> c[2],
                   new_root |-> end.current]
             ELSE [kind |-> "ok", changed_level |-> Depth - 1,
                   new_subtree |-> frontier[Depth - 1], new_root |-> end.current]
<1>1. /\ DOMAIN zeros = 0 .. Depth /\ next_index = Len(leaves)
      /\ next_index \in 0 .. Capacity
  BY DEF IInv, TypeOK
<1>2. Capacity = Pow2[Depth] /\ ~ ShiftPanics /\ Capacity \in Nat
  BY CapacityIsExact, CapacityType
<1>3. ins = IF next_index >= Capacity THEN [kind |-> "Merkle"]
            ELSE IF failing < Depth THEN [kind |-> "Hash"]
            ELSE Result
  BY <1>1, <1>2 DEF frontier_append
<1>4. Result.kind = "ok"
  <2> HIDE DEF end, c
  <2> QED OBVIOUS
<1> HIDE DEF Result
<1>5. CASE next_index >= Capacity
  BY <1>1, <1>2, <1>3, <1>5
<1>6. CASE next_index < Capacity
  BY <1>1, <1>2, <1>3, <1>4, <1>6
<1> QED BY <1>1, <1>2, <1>5, <1>6

\* A tree of 1 to WordBits - 1 levels refuses a leaf only when it is full, and
\* never panics (imt.rs:86-90, 114).
THEOREM ExactCapacity ==
  ASSUME DepthFitsWord, Depth # 0
  PROVE  Spec => []RefusedOnlyWhenFull
<1>1. Init => RefusedOnlyWhenFull
  BY DEF Init, RefusedOnlyWhenFull
<1>2. IInv /\ RefusedOnlyWhenFull /\ [Next]_vars => RefusedOnlyWhenFull'
  <2> SUFFICES ASSUME IInv, RefusedOnlyWhenFull, [Next]_vars
               PROVE  RefusedOnlyWhenFull'
    OBVIOUS
  <2>1. ASSUME NEW leaf \in Appendable, NEW failing \in 0 .. Depth, append(leaf, failing)
        PROVE  RefusedOnlyWhenFull'
    <3> DEFINE ins == frontier_append(frontier, next_index, leaf, zeros, failing)
    <3>1. outcome' = ins /\ (ins.kind # "ok" => leaves' = leaves)
      BY <2>1 DEF append
    <3>2. /\ ins.kind = "Merkle" => Len(leaves) = Pow2[Depth]
          /\ ins.kind # "panic"
      BY RefusalMeansFull
    <3> HIDE DEF ins
    <3> QED BY <3>1, <3>2 DEF RefusedOnlyWhenFull
  <2>2. CASE UNCHANGED vars
    BY <2>2 DEF vars, RefusedOnlyWhenFull
  <2> QED BY <2>1, <2>2 DEF Next
<1> QED BY <1>1, <1>2, Invariance, PTL DEF Spec

(***************************************************************************)
(* Paths.  The node that a path puts at each level above a leaf, and the   *)
(* pair hashed there for the node of the next level.                       *)
(***************************************************************************)
Siblings == [0 .. Depth - 1 -> Field]

PairAbove(x, path, l) ==
  IF Halvings(path.leaf_index)[l] % 2 = 0
  THEN <<x, path.siblings[l]>> ELSE <<path.siblings[l], x>>

HashPair(pair) == Hash(pair[1], pair[2])

PathNodes(leaf, path) ==
  LET node[l \in 0 .. Depth] ==
        IF l = 0 THEN leaf ELSE HashPair(PairAbove(node[l - 1], path, l - 1))
  IN  node

LEMMA PairAboveType ==
  ASSUME NEW path, path.siblings \in Siblings, NEW l \in 0 .. Depth - 1, NEW x \in Field
  PROVE  /\ PairAbove(x, path, l) \in Field \X Field
         /\ HashPair(PairAbove(x, path, l)) \in Field
<1>1. path.siblings[l] \in Field
  BY DEF Siblings
<1>2. PairAbove(x, path, l) \in Field \X Field
  BY <1>1 DEF PairAbove
<1> QED BY <1>2, FieldAssumption DEF HashPair

LEMMA PathNodesEquations ==
  ASSUME NEW leaf \in Field, NEW path, path.siblings \in Siblings
  PROVE  /\ PathNodes(leaf, path) \in [0 .. Depth -> Field]
         /\ PathNodes(leaf, path)[0] = leaf
         /\ \A l \in 0 .. Depth - 1 :
              PathNodes(leaf, path)[l + 1]
                = HashPair(PairAbove(PathNodes(leaf, path)[l], path, l))
<1> DEFINE Up(l, x) == HashPair(PairAbove(x, path, l))
           Body(f) == [l \in 0 .. Depth |-> IF l = 0 THEN leaf ELSE Up(l - 1, f[l - 1])]
           g == [l \in 0 .. Depth - 1 |-> [x \in Field |-> Up(l, x)]]
           z == PathNodes(leaf, path)
<1>1. Depth \in Nat
  BY ShapeAssumption
<1>2. \A l \in 0 .. Depth - 1 : \A x \in Field : Up(l, x) \in Field
  BY PairAboveType
<1> HIDE DEF Up
<1>3. IsStep(g, Depth, Field)
  BY <1>2 DEF IsStep
<1>4. PICK f : IsRecursive(f, Depth, Field, leaf, g)
  <2> HIDE DEF g
  <2> QED BY <1>1, <1>3, Recursion
<1>5. ASSUME NEW l \in 0 .. Depth, l # 0
      PROVE  g[l - 1][f[l - 1]] = Up(l - 1, f[l - 1])
  <2>1. l - 1 \in 0 .. Depth - 1 /\ l - 1 \in 0 .. Depth
    BY <1>1, <1>5
  <2>2. f[l - 1] \in Field
    BY <2>1, <1>4 DEF IsRecursive
  <2> QED BY <2>1, <2>2
<1>6. f = Body(f)
  <2> HIDE DEF g
  <2> QED BY <1>4, <1>5 DEF IsRecursive
<1>7. z = Body(z)
  <2>1. z = CHOOSE h : h = Body(h)
    BY DEF PathNodes, Up
  <2> QED BY <1>6, <2>1
<1> HIDE DEF z
<1>8. \A l \in 0 .. Depth : z[l] = IF l = 0 THEN leaf ELSE Up(l - 1, z[l - 1])
  BY <1>7
<1>9. z[0] = leaf
  BY <1>1, <1>8
<1>10. ASSUME NEW l \in 0 .. Depth - 1 PROVE z[l + 1] = Up(l, z[l])
  <2>1. l + 1 \in 0 .. Depth /\ l + 1 # 0 /\ (l + 1) - 1 = l
    BY <1>1
  <2> QED BY <2>1, <1>8
<1>11. z \in [0 .. Depth -> Field]
  <2>1. z = [l \in 0 .. Depth |-> z[l]]
    BY <1>7, <1>8
  <2>2. \A l \in 0 .. Depth - 1 : z[l] \in Field => z[l + 1] \in Field
    BY <1>2, <1>10
  <2> QED BY <1>1, <1>9, <2>1, <2>2, StaysInType
<1> QED BY <1>9, <1>10, <1>11 DEF z, Up

\* root_from_inclusion_path (imt.rs:139-147) goes up the nodes of the path.
LEMMA ResolverClimbsPath ==
  ASSUME NEW leaf \in Field, NEW path,
         path.siblings \in Siblings, path.leaf_index \in Nat
  PROVE  root_from_inclusion_path(leaf, path) = PathNodes(leaf, path)[Depth]
<1> DEFINE N == PathNodes(leaf, path)
           H == Halvings(path.leaf_index)
           Turn(s, l) == [current |-> IF s.index % 2 = 0
                                      THEN Hash(s.current, path.siblings[l])
                                      ELSE Hash(path.siblings[l], s.current),
                          index   |-> s.index \div 2]
           start == [current |-> leaf, index |-> path.leaf_index]
           Body(f) == [l \in 0 .. Depth |-> IF l = 0 THEN start ELSE Turn(f[l - 1], l - 1)]
           w == [l \in 0 .. Depth |-> [current |-> N[l], index |-> H[l]]]
           z == CHOOSE h : h = Body(h)
<1>1. Depth \in Nat
  BY ShapeAssumption
<1>2. /\ N[0] = leaf
      /\ \A l \in 0 .. Depth - 1 : N[l + 1] = HashPair(PairAbove(N[l], path, l))
  BY PathNodesEquations
<1>3. H[0] = path.leaf_index /\ \A l \in 0 .. Depth - 1 : H[l + 1] = H[l] \div 2
  BY HalvingsEquations
<1>4. ASSUME NEW l \in 0 .. Depth - 1
      PROVE  Turn([current |-> N[l], index |-> H[l]], l)
               = [current |-> N[l + 1], index |-> H[l + 1]]
  <2>1. N[l + 1] = IF H[l] % 2 = 0 THEN Hash(N[l], path.siblings[l])
                                   ELSE Hash(path.siblings[l], N[l])
    <3> HIDE DEF N
    <3> QED BY <1>2 DEF HashPair, PairAbove
  <2> HIDE DEF N, H
  <2> QED BY <2>1, <1>3
<1>5. start = [current |-> N[0], index |-> H[0]]
  BY <1>2, <1>3
<1> HIDE DEF N, H, Turn, start
<1>6. w = Body(w)
  <2>1. ASSUME NEW l \in 0 .. Depth PROVE w[l] = Body(w)[l]
    <3>1. CASE l = 0
      BY <3>1, <1>1, <1>5
    <3>2. CASE l # 0
      <4>1. l - 1 \in 0 .. Depth - 1 /\ l - 1 \in 0 .. Depth /\ (l - 1) + 1 = l
        BY <3>2, <1>1
      <4> QED BY <3>2, <4>1, <1>4
    <3> QED BY <3>1, <3>2
  <2> QED BY <2>1
<1>7. z = Body(z)
  <2> HIDE DEF w
  <2> QED BY <1>6
<1>8. root_from_inclusion_path(leaf, path) = z[Depth].current
  BY DEF root_from_inclusion_path, Turn, start
<1> HIDE DEF z
<1>9. \A l \in 0 .. Depth : z[l] = IF l = 0 THEN start ELSE Turn(z[l - 1], l - 1)
  BY <1>7
<1> DEFINE S == {l \in 0 .. Depth : z[l] = [current |-> N[l], index |-> H[l]]}
<1>10. 0 \in S
  BY <1>1, <1>5, <1>9
<1>11. ASSUME NEW l \in 0 .. Depth - 1, l \in S PROVE l + 1 \in S
  <2>1. l + 1 \in 0 .. Depth /\ l + 1 # 0 /\ (l + 1) - 1 = l
    BY <1>1
  <2> QED BY <2>1, <1>4, <1>9, <1>11
<1>12. Depth \in S
  <2> HIDE DEF S
  <2> QED BY <1>1, <1>10, <1>11, Induction
<1> QED BY <1>8, <1>12 DEF N

\* Halving a quotient by a is dividing by 2 a.
LEMMA HalfOfQuotient ==
  ASSUME NEW n \in Nat, NEW a \in Nat \ {0}
  PROVE  (n \div a) \div 2 = n \div (2 * a)
<1> DEFINE q == n \div a
           r == n % a
           h == q \div 2
           b == q % 2
<1>1. n = a * q + r /\ q \in Nat /\ r \in 0 .. a - 1
  OBVIOUS
<1>2. q = 2 * h + b /\ h \in Nat /\ b \in 0 .. 1
  <2> HIDE DEF q
  <2> QED BY <1>1
<1> HIDE DEF q, r, h, b
<1>3. a * b \in Nat /\ a * b <= a
  <2>1. b = 0 \/ b = 1
    BY <1>2
  <2> QED BY <2>1
<1>4. a * q = a * (2 * h) + a * b
  BY <1>1, <1>2
<1>5. a * (2 * h) = (2 * a) * h
  BY <1>2
<1> DEFINE m == 2 * a
           t == a * b + r
<1>6. m \in Nat \ {0} /\ t \in 0 .. m - 1 /\ n = m * h + t
  <2>1. (2 * a) * h \in Nat
    BY <1>2
  <2> QED BY <1>1, <1>3, <1>4, <1>5, <2>1
<1>7. n \div m = h
  <2> HIDE DEF m, t
  <2> DEFINE k == n \div m
             s == n % m
  <2>1. n = m * k + s /\ k \in Nat /\ s \in 0 .. m - 1
    BY <1>6
  <2> HIDE DEF k, s
  <2>2. m * (k - h) = t - s
    BY <1>2, <1>6, <2>1
  <2>3. CASE k - h >= 1
    <3>1. m * (k - h) >= m
      BY <2>3, <1>2, <1>6, <2>1
    <3> QED BY <3>1, <2>2, <1>6, <2>1
  <2>4. CASE k - h <= -1
    <3>1. m * (k - h) <= -m
      BY <2>4, <1>2, <1>6, <2>1
    <3> QED BY <3>1, <2>2, <1>6, <2>1
  <2>5. k - h = 0 => k = h
    BY <1>2, <2>1
  <2> QED BY <2>3, <2>4, <2>5, <1>2, <2>1 DEF k
<1> QED BY <1>7 DEF h, q, m

\* The loop's halvings reach the positions that a shift by l gives.
LEMMA HalvingsArePositions ==
  ASSUME DepthFitsWord, NEW n \in Nat
  PROVE  \A l \in 0 .. Depth : n \div Pow2[l] = Halvings(n)[l]
<1> DEFINE H == Halvings(n)
           S == {l \in 0 .. Depth : Pow2[l] \in Nat \ {0} /\ n \div Pow2[l] = H[l]}
<1>1. Depth \in Nat /\ WordBits \in Nat /\ Depth < WordBits
  BY ShapeAssumption DEF DepthFitsWord
<1>2. H[0] = n /\ \A l \in 0 .. Depth - 1 : H[l + 1] = H[l] \div 2
  BY HalvingsEquations
<1> HIDE DEF H
<1>3. 0 \in S
  BY <1>1, <1>2, Pow2Equations
<1>4. ASSUME NEW l \in 0 .. Depth - 1, l \in S PROVE l + 1 \in S
  <2>1. Pow2[l + 1] = 2 * Pow2[l] /\ l + 1 \in 0 .. Depth
    BY <1>1, Pow2Equations
  <2>2. (n \div Pow2[l]) \div 2 = n \div (2 * Pow2[l])
    BY <1>4, HalfOfQuotient
  <2> QED BY <1>2, <1>4, <2>1, <2>2
<1>5. \A l \in 0 .. Depth : l \in S
  <2> HIDE DEF S
  <2> QED BY <1>1, <1>3, <1>4, Induction
<1> QED BY <1>5 DEF H

\* The direction bits lead a circuit up the same nodes (imt.rs:232-242).
LEMMA CircuitClimbsPath ==
  ASSUME DepthFitsWord, NEW leaf \in Field, NEW path,
         path.siblings \in Siblings, path.leaf_index \in Nat
  PROVE  CircuitRoot(leaf, path) = PathNodes(leaf, path)[Depth]
<1> DEFINE N == PathNodes(leaf, path)
           H == Halvings(path.leaf_index)
           left == circuit_indices(path)
           Turn(x, l) == IF left[l] = 1 THEN Hash(x, path.siblings[l])
                                        ELSE Hash(path.siblings[l], x)
           Body(f) == [l \in 0 .. Depth |-> IF l = 0 THEN leaf ELSE Turn(f[l - 1], l - 1)]
           z == CHOOSE h : h = Body(h)
<1>1. Depth \in Nat
  BY ShapeAssumption
<1>2. /\ N \in [0 .. Depth -> Field] /\ N[0] = leaf
      /\ \A l \in 0 .. Depth - 1 : N[l + 1] = HashPair(PairAbove(N[l], path, l))
  BY PathNodesEquations
<1>3. ASSUME NEW l \in 0 .. Depth - 1 PROVE left[l] = 1 <=> H[l] % 2 = 0
  <2>1. path.leaf_index \div Pow2[l] = H[l] /\ H[l] \in Nat
    <3>1. l \in 0 .. Depth
      BY <1>1
    <3>2. path.leaf_index \div Pow2[l] = H[l]
      BY <3>1, HalvingsArePositions
    <3>3. H \in [0 .. Depth -> Nat]
      BY HalvingsEquations
    <3> HIDE DEF H
    <3> QED BY <3>1, <3>2, <3>3
  <2>2. left[l] = 1 - (H[l] % 2)
    BY <2>1 DEF circuit_indices
  <2> HIDE DEF H, left
  <2> QED BY <2>1, <2>2
<1>4. ASSUME NEW l \in 0 .. Depth - 1 PROVE Turn(N[l], l) = N[l + 1]
  <2> HIDE DEF N, left
  <2> QED BY <1>2, <1>3 DEF HashPair, PairAbove
<1>5. CircuitRoot(leaf, path) = z[Depth]
  BY DEF CircuitRoot
<1> HIDE DEF N, H, Turn
<1>6. N = Body(N)
  <2>1. ASSUME NEW l \in 0 .. Depth PROVE N[l] = Body(N)[l]
    <3>1. CASE l = 0
      BY <3>1, <1>1, <1>2
    <3>2. CASE l # 0
      <4>1. l - 1 \in 0 .. Depth - 1 /\ (l - 1) + 1 = l
        BY <3>2, <1>1
      <4> QED BY <3>2, <4>1, <1>4
    <3> QED BY <3>1, <3>2
  <2> QED BY <1>2, <2>1
<1>7. z = Body(z)
  BY <1>6
<1> HIDE DEF z
<1>8. \A l \in 0 .. Depth : z[l] = IF l = 0 THEN leaf ELSE Turn(z[l - 1], l - 1)
  BY <1>7
<1> DEFINE S == {l \in 0 .. Depth : z[l] = N[l]}
<1>9. 0 \in S
  BY <1>1, <1>2, <1>8
<1>10. ASSUME NEW l \in 0 .. Depth - 1, l \in S PROVE l + 1 \in S
  <2>1. l + 1 \in 0 .. Depth /\ l + 1 # 0 /\ (l + 1) - 1 = l
    BY <1>1
  <2> QED BY <2>1, <1>4, <1>8, <1>10
<1>11. Depth \in S
  <2> HIDE DEF S
  <2> QED BY <1>1, <1>9, <1>10, Induction
<1> QED BY <1>5, <1>11 DEF N, z

\* What the tree of the accepted leaves hashes at a level, empty subtrees
\* beyond the leaves included, and what one path adds to it.  A path is only
\* worth as much as the hash: the theorems assume that no two different pairs
\* among these, at one level, have one hash, and nothing of other pairs.
TreePairs(l) ==
  {<<Tree!Level(leaves)[l][2 * p], Tree!Level(leaves)[l][2 * p + 1]>> : p \in Nat}

NoCollisionOn(leaf, path) ==
  \A l \in 0 .. Depth - 1 :
    \A a, b \in TreePairs(l) \cup {PairAbove(PathNodes(leaf, path)[l], path, l)} :
      HashPair(a) = HashPair(b) => a = b

NoCollisionAmong(paths) ==
  \A leaf \in Appendable, path \in paths : NoCollisionOn(leaf, path)

Positions == 0 .. Pow2[Depth] - 1

LEMMA PositionFacts ==
  ASSUME DepthFitsWord, NEW i \in Positions
  PROVE  /\ i \in Nat /\ Halvings(i) \in [0 .. Depth -> Nat]
         /\ Halvings(i)[0] = i /\ Halvings(i)[Depth] = 0
         /\ \A l \in 0 .. Depth - 1 : Halvings(i)[l + 1] = Halvings(i)[l] \div 2
<1>1. i \in Nat /\ i < Capacity
  <2>1. Capacity = Pow2[Depth] /\ Capacity \in Nat
    BY CapacityIsExact, CapacityType
  <2> QED BY <2>1 DEF Positions
<1>2. Halvings(i)[Depth] = 0
  BY <1>1, TopPosition
<1> QED BY <1>1, <1>2, HalvingsEquations

LEMMA TreeFacts ==
  ASSUME IInv
  PROVE  /\ Depth \in Nat /\ leaves \in Seq(Field) /\ Len(leaves) \in Nat
         /\ Tree!Level(leaves) \in [0 .. Depth -> [Nat -> Field]]
         /\ \A i \in Nat :
              Tree!Level(leaves)[0][i] = IF i < Len(leaves) THEN leaves[i + 1] ELSE Empty
         /\ \A l \in 0 .. Depth - 1 : \A i \in Nat :
              Tree!Level(leaves)[l + 1][i]
                = Hash(Tree!Level(leaves)[l][2 * i], Tree!Level(leaves)[l][2 * i + 1])
         /\ root = Tree!Level(leaves)[Depth][0]
<1>1. Depth \in Nat /\ leaves \in Seq(Field)
  BY ShapeAssumption, LeavesAreFields DEF IInv, TypeOK
<1>2. Len(leaves) \in Nat
  BY <1>1
<1>3. root = Tree!Level(leaves)[Depth][0]
  BY DEF IInv, RootIsReference, Tree!RootOf
<1> QED BY <1>1, <1>2, <1>3, LevelEquations

\* The node of a membership path and its sibling are the pair under the next
\* node of the tree.
LEMMA MembershipPairs ==
  ASSUME DepthFitsWord, IInv, NEW i \in Positions
  PROVE  LET A == Tree!Level(leaves)
             H == Halvings(i)
             path == MembershipPath(i)
         IN  /\ path.leaf_index = i /\ path.siblings \in Siblings
             /\ \A l \in 0 .. Depth - 1 :
                  /\ PairAbove(A[l][H[l]], path, l)
                       = <<A[l][2 * H[l + 1]], A[l][2 * H[l + 1] + 1]>>
                  /\ PairAbove(A[l][H[l]], path, l) \in TreePairs(l)
                  /\ HashPair(PairAbove(A[l][H[l]], path, l)) = A[l + 1][H[l + 1]]
<1> DEFINE A == Tree!Level(leaves)
           H == Halvings(i)
           path == MembershipPath(i)
<1>1. /\ i \in Nat /\ H \in [0 .. Depth -> Nat]
      /\ \A l \in 0 .. Depth - 1 : H[l + 1] = H[l] \div 2
  BY PositionFacts
<1>2. /\ Depth \in Nat /\ A \in [0 .. Depth -> [Nat -> Field]]
      /\ \A l \in 0 .. Depth - 1 : \A p \in Nat :
           A[l + 1][p] = Hash(A[l][2 * p], A[l][2 * p + 1])
  BY TreeFacts
<1>3. path.leaf_index = i
  BY DEF MembershipPath
<1>4. ASSUME NEW l \in 0 .. Depth - 1
      PROVE  path.siblings[l] = A[l][IF H[l] % 2 = 0 THEN H[l] + 1 ELSE H[l] - 1]
  <2>1. l \in 0 .. Depth
    BY <1>2
  <2>2. i \div Pow2[l] = H[l]
    BY <1>1, <2>1, HalvingsArePositions
  <2>3. path.siblings[l] = LET p == i \div Pow2[l]
                           IN  A[l][IF p % 2 = 0 THEN p + 1 ELSE p - 1]
    BY DEF MembershipPath
  <2> QED BY <2>2, <2>3
<1>5. DOMAIN path.siblings = 0 .. Depth - 1
      /\ path.siblings = [l \in 0 .. Depth - 1 |-> path.siblings[l]]
  BY DEF MembershipPath
<1>6. \A l \in 0 .. Depth - 1 : TreePairs(l) = {<<A[l][2 * p], A[l][2 * p + 1]>> : p \in Nat}
  BY DEF TreePairs
<1>7. Halvings(path.leaf_index) = H
  BY <1>3
<1> HIDE DEF A, H, path
<1>8. ASSUME NEW l \in 0 .. Depth - 1
      PROVE  /\ l \in 0 .. Depth /\ l + 1 \in 0 .. Depth
             /\ H[l] \in Nat /\ H[l + 1] \in Nat
             /\ H[l] % 2 = 0 => H[l] = 2 * H[l + 1]
             /\ H[l] % 2 # 0 => H[l] = 2 * H[l + 1] + 1
  <2>1. l \in 0 .. Depth /\ l + 1 \in 0 .. Depth
    BY <1>2
  <2>2. H[l] \in Nat /\ H[l + 1] = H[l] \div 2
    BY <1>1, <2>1
  <2> QED BY <2>1, <2>2
<1>9. path.siblings \in Siblings
  <2>1. ASSUME NEW l \in 0 .. Depth - 1 PROVE path.siblings[l] \in Field
    <3> DEFINE s == IF H[l] % 2 = 0 THEN H[l] + 1 ELSE H[l] - 1
    <3>1. s \in Nat
      BY <1>8
    <3> HIDE DEF s
    <3>2. A[l][s] \in Field
      BY <3>1, <1>2, <1>8
    <3> QED BY <3>2, <1>4 DEF s
  <2> QED BY <1>5, <2>1 DEF Siblings
<1>10. ASSUME NEW l \in 0 .. Depth - 1
       PROVE  PairAbove(A[l][H[l]], path, l) = <<A[l][2 * H[l + 1]], A[l][2 * H[l + 1] + 1]>>
  <2>1. CASE H[l] % 2 = 0
    BY <2>1, <1>4, <1>7, <1>8 DEF PairAbove
  <2>2. CASE H[l] % 2 # 0
    <3>1. H[l] - 1 = 2 * H[l + 1]
      BY <2>2, <1>8
    <3>2. path.siblings[l] = A[l][2 * H[l + 1]] /\ A[l][H[l]] = A[l][2 * H[l + 1] + 1]
      BY <2>2, <3>1, <1>4, <1>8
    <3> QED BY <2>2, <3>2, <1>7 DEF PairAbove
  <2> QED BY <2>1, <2>2
<1>11. ASSUME NEW l \in 0 .. Depth - 1
       PROVE  /\ PairAbove(A[l][H[l]], path, l) \in TreePairs(l)
              /\ HashPair(PairAbove(A[l][H[l]], path, l)) = A[l + 1][H[l + 1]]
  <2> DEFINE up == H[l + 1]
             pair == <<A[l][2 * up], A[l][2 * up + 1]>>
  <2>1. PairAbove(A[l][H[l]], path, l) = pair /\ up \in Nat
    BY <1>8, <1>10
  <2>2. pair \in TreePairs(l)
    BY <1>6, <2>1
  <2>3. Hash(pair[1], pair[2]) = A[l + 1][up]
    <3> HIDE DEF up
    <3> QED BY <1>2, <2>1
  <2> HIDE DEF pair
  <2> QED BY <2>1, <2>2, <2>3 DEF HashPair
<1> QED BY <1>3, <1>9, <1>10, <1>11 DEF A, H, path

\* The path of the leaf that is at a position goes up the nodes of the tree.
LEMMA MembershipClimbsTree ==
  ASSUME DepthFitsWord, IInv, NEW i \in Positions
  PROVE  PathNodes(Tree!Level(leaves)[0][i], MembershipPath(i))[Depth] = root
<1> DEFINE A == Tree!Level(leaves)
           H == Halvings(i)
           path == MembershipPath(i)
           N == PathNodes(A[0][i], path)
           S == {l \in 0 .. Depth : N[l] = A[l][H[l]]}
<1>1. /\ path.siblings \in Siblings
      /\ \A l \in 0 .. Depth - 1 :
           HashPair(PairAbove(A[l][H[l]], path, l)) = A[l + 1][H[l + 1]]
  BY MembershipPairs
<1>2. H[0] = i /\ H[Depth] = 0 /\ i \in Nat
  BY PositionFacts
<1>3. /\ Depth \in Nat /\ root = A[Depth][0]
      /\ A \in [0 .. Depth -> [Nat -> Field]]
  BY TreeFacts
<1>4. A[0][i] \in Field
  BY <1>2, <1>3
<1>5. /\ N[0] = A[0][i]
      /\ \A l \in 0 .. Depth - 1 : N[l + 1] = HashPair(PairAbove(N[l], path, l))
  BY <1>1, <1>4, PathNodesEquations
<1> HIDE DEF A, H, path, N
<1>6. 0 \in S
  BY <1>2, <1>3, <1>5
<1>7. ASSUME NEW l \in 0 .. Depth - 1, l \in S PROVE l + 1 \in S
  <2>1. l + 1 \in 0 .. Depth
    BY <1>3
  <2> QED BY <1>1, <1>5, <1>7, <2>1
<1>8. Depth \in S
  <2> HIDE DEF S
  <2>1. Depth \in Nat
    BY <1>3
  <2>2. \A l \in 0 .. Depth : l \in S
    BY <2>1, <1>6, <1>7, Induction
  <2> QED BY <2>1, <2>2
<1> QED BY <1>2, <1>3, <1>8 DEF A, N, path

\* Another leaf with that path differs from the tree at every level.
LEMMA OtherLeafMissesRoot ==
  ASSUME DepthFitsWord, IInv, NEW i \in Positions, NEW leaf \in Field,
         leaf # Tree!Level(leaves)[0][i], NoCollisionOn(leaf, MembershipPath(i))
  PROVE  PathNodes(leaf, MembershipPath(i))[Depth] # root
<1> DEFINE A == Tree!Level(leaves)
           H == Halvings(i)
           path == MembershipPath(i)
           N == PathNodes(leaf, path)
           S == {l \in 0 .. Depth : N[l] # A[l][H[l]]}
<1>1. /\ path.siblings \in Siblings
      /\ \A l \in 0 .. Depth - 1 :
           /\ PairAbove(A[l][H[l]], path, l) \in TreePairs(l)
           /\ HashPair(PairAbove(A[l][H[l]], path, l)) = A[l + 1][H[l + 1]]
  BY MembershipPairs
<1>2. H[0] = i /\ H[Depth] = 0 /\ i \in Nat
  BY PositionFacts
<1>3. Depth \in Nat /\ root = A[Depth][0]
  BY TreeFacts
<1>4. /\ N[0] = leaf
      /\ \A l \in 0 .. Depth - 1 : N[l + 1] = HashPair(PairAbove(N[l], path, l))
  BY <1>1, PathNodesEquations
<1>5. \A l \in 0 .. Depth - 1 :
        \A a, b \in TreePairs(l) \cup {PairAbove(N[l], path, l)} :
          HashPair(a) = HashPair(b) => a = b
  BY DEF NoCollisionOn
<1>6. leaf # A[0][i]
  OBVIOUS
<1> HIDE DEF A, H, path, N
<1>7. 0 \in S
  BY <1>2, <1>3, <1>4, <1>6
<1>8. ASSUME NEW l \in 0 .. Depth - 1, l \in S PROVE l + 1 \in S
  <2>1. l + 1 \in 0 .. Depth
    BY <1>3
  <2>2. PairAbove(N[l], path, l) # PairAbove(A[l][H[l]], path, l)
    BY <1>8 DEF PairAbove
  <2>3. HashPair(PairAbove(N[l], path, l)) # HashPair(PairAbove(A[l][H[l]], path, l))
    BY <1>1, <1>5, <2>2
  <2> QED BY <1>1, <1>4, <2>1, <2>3
<1>9. Depth \in S
  <2> HIDE DEF S
  <2>1. Depth \in Nat
    BY <1>3
  <2>2. \A l \in 0 .. Depth : l \in S
    BY <2>1, <1>7, <1>8, Induction
  <2> QED BY <2>1, <2>2
<1> QED BY <1>2, <1>3, <1>9 DEF A, N, path

\* In a tree of any depth below the word's width, a path of the tree resolves
\* exactly the leaf at its index to the published root, for the native
\* resolver and for a circuit (imt.rs:126-148, 228-242), unless the hash takes
\* two pairs at hand, at one level, for each other.
THEOREM PathCorrectness ==
  ASSUME DepthFitsWord
  PROVE  Spec => [](NoCollisionAmong({MembershipPath(i) : i \in Positions})
                      => PathsResolveToRoot)
<1>1. IInv => (NoCollisionAmong({MembershipPath(i) : i \in Positions})
                 => PathsResolveToRoot)
  <2> SUFFICES ASSUME IInv, NoCollisionAmong({MembershipPath(i) : i \in Positions}),
                      NEW i \in Positions, NEW leaf \in Appendable
               PROVE  LET path == MembershipPath(i)
                          holds == leaf = Tree!Level(leaves)[0][i]
                      IN  /\ PathInRange(path)
                          /\ holds <=> root_from_inclusion_path(leaf, path) = root
                          /\ holds <=> CircuitRoot(leaf, path) = root
    BY DEF PathsResolveToRoot, Positions
  <2> DEFINE path == MembershipPath(i)
  <2>1. path.leaf_index = i /\ path.siblings \in Siblings /\ i \in Nat /\ leaf \in Field
    BY MembershipPairs, PositionFacts, FieldAssumption
  <2>2. PathInRange(path)
    <3>1. ~ ShiftPanics /\ Capacity = Pow2[Depth] /\ Capacity \in Nat
      BY CapacityIsExact, CapacityType
    <3> QED BY <2>1, <3>1 DEF PathInRange, Positions
  <2>3. /\ root_from_inclusion_path(leaf, path) = PathNodes(leaf, path)[Depth]
        /\ CircuitRoot(leaf, path) = PathNodes(leaf, path)[Depth]
    <3> HIDE DEF path
    <3> QED BY <2>1, ResolverClimbsPath, CircuitClimbsPath
  <2>4. leaf = Tree!Level(leaves)[0][i] => PathNodes(leaf, path)[Depth] = root
    BY MembershipClimbsTree
  <2>5. leaf # Tree!Level(leaves)[0][i] => PathNodes(leaf, path)[Depth] # root
    <3>1. NoCollisionOn(leaf, path)
      BY DEF NoCollisionAmong
    <3> QED BY <2>1, <3>1, OtherLeafMissesRoot
  <2> QED BY <2>2, <2>3, <2>4, <2>5
<1> QED BY <1>1, Invariance, PTL

\* The tree that an empty path describes: the nodes of the path, and empty
\* subtrees beside them.
Lone(leaf, i, l, p) ==
  IF p = Halvings(i)[l] THEN PathNodes(leaf, empty_inclusion_path(i))[l] ELSE zeros[l]

LEMMA EmptyPathType ==
  ASSUME IInv, NEW i \in Nat
  PROVE  /\ empty_inclusion_path(i).leaf_index = i
         /\ empty_inclusion_path(i).siblings \in Siblings
         /\ \A l \in 0 .. Depth - 1 : empty_inclusion_path(i).siblings[l] = zeros[l]
<1>1. zeros \in [0 .. Depth -> Field] /\ Depth \in Nat
  BY ShapeAssumption DEF IInv, TypeOK
<1>2. \A l \in 0 .. Depth - 1 : l \in 0 .. Depth
  BY <1>1
<1> QED BY <1>1, <1>2 DEF empty_inclusion_path, Siblings

\* The empty subtree of a level is hashed from a pair that the tree hashes
\* too: beyond its leaves there is nothing else.
LEMMA ZeroPairs ==
  ASSUME IInv, NEW l \in 0 .. Depth - 1
  PROVE  /\ <<zeros[l], zeros[l]>> \in TreePairs(l)
         /\ Hash(zeros[l], zeros[l]) = zeros[l + 1]
<1> DEFINE A == Tree!Level(leaves)
           H == Halvings(Len(leaves))
           p == H[l] + 1
<1>1. Depth \in Nat /\ leaves \in Seq(Field) /\ Len(leaves) \in Nat
  BY TreeFacts
<1>2. l \in 0 .. Depth /\ H \in [0 .. Depth -> Nat]
  <2>1. H \in [0 .. Depth -> Nat]
    BY <1>1, HalvingsEquations
  <2> HIDE DEF H
  <2> QED BY <1>1, <2>1
<1>3. \A k \in Nat : k > H[l] => A[l][k] = zeros[l]
  <2>1. zeros = zero_ladder(Empty)
    BY DEF IInv
  <2> QED BY <1>1, <1>2, <2>1, EmptyToTheRight
<1>4. TreePairs(l) = {<<A[l][2 * k], A[l][2 * k + 1]>> : k \in Nat}
  BY DEF TreePairs
<1> HIDE DEF A, H
<1>5. p \in Nat /\ 2 * p > H[l] /\ 2 * p + 1 > H[l] /\ 2 * p \in Nat /\ 2 * p + 1 \in Nat
  BY <1>2
<1>6. A[l][2 * p] = zeros[l] /\ A[l][2 * p + 1] = zeros[l]
  BY <1>3, <1>5
<1>7. <<zeros[l], zeros[l]>> \in TreePairs(l)
  <2> HIDE DEF p
  <2> QED BY <1>4, <1>5, <1>6
<1>8. Hash(zeros[l], zeros[l]) = zeros[l + 1]
  BY ZeroLadderEquations DEF IInv
<1> QED BY <1>7, <1>8

LEMMA Parity ==
  ASSUME NEW n \in Nat, NEW p \in Nat
  PROVE  /\ n % 2 = 0 => (p = n \div 2 <=> n = 2 * p) /\ n # 2 * p + 1
         /\ n % 2 # 0 => (p = n \div 2 <=> n = 2 * p + 1) /\ n # 2 * p
OBVIOUS

LEMMA LoneIsATree ==
  ASSUME DepthFitsWord, IInv, NEW i \in Positions, NEW leaf \in Field,
         NEW l \in 0 .. Depth - 1, NEW p \in Nat
  PROVE  LET path == empty_inclusion_path(i)
             pair == <<Lone(leaf, i, l, 2 * p), Lone(leaf, i, l, 2 * p + 1)>>
         IN  /\ HashPair(pair) = Lone(leaf, i, l + 1, p)
             /\ pair \in TreePairs(l)
                           \cup {PairAbove(PathNodes(leaf, path)[l], path, l)}
<1> DEFINE path == empty_inclusion_path(i)
           N == PathNodes(leaf, path)
           H == Halvings(i)
           pair == <<Lone(leaf, i, l, 2 * p), Lone(leaf, i, l, 2 * p + 1)>>
<1>1. /\ i \in Nat /\ H \in [0 .. Depth -> Nat] /\ H[l + 1] = H[l] \div 2
      /\ Depth \in Nat /\ l \in 0 .. Depth
  BY ShapeAssumption, PositionFacts
<1>2. path.leaf_index = i /\ path.siblings \in Siblings /\ path.siblings[l] = zeros[l]
  BY <1>1, EmptyPathType
<1>3. N[l + 1] = HashPair(PairAbove(N[l], path, l))
  BY <1>2, PathNodesEquations
<1>4. /\ <<zeros[l], zeros[l]>> \in TreePairs(l)
      /\ Hash(zeros[l], zeros[l]) = zeros[l + 1]
  BY ZeroPairs
<1>5. \A k \in 0 .. Depth, q \in Nat :
        Lone(leaf, i, k, q) = IF q = H[k] THEN N[k] ELSE zeros[k]
  BY DEF Lone
<1>6. PairAbove(N[l], path, l) = IF H[l] % 2 = 0 THEN <<N[l], zeros[l]>>
                                                 ELSE <<zeros[l], N[l]>>
  BY <1>2 DEF PairAbove
<1>7. l + 1 \in 0 .. Depth /\ H[l] \in Nat /\ 2 * p \in Nat /\ 2 * p + 1 \in Nat
  BY <1>1
<1>8. /\ Lone(leaf, i, l, 2 * p) = IF 2 * p = H[l] THEN N[l] ELSE zeros[l]
      /\ Lone(leaf, i, l, 2 * p + 1) = IF 2 * p + 1 = H[l] THEN N[l] ELSE zeros[l]
      /\ Lone(leaf, i, l + 1, p) = IF p = H[l + 1] THEN N[l + 1] ELSE zeros[l + 1]
  BY <1>1, <1>5, <1>7
<1> HIDE DEF N, H, path
<1>9. CASE p = H[l + 1]
  <2>1. CASE H[l] % 2 = 0
    <3>1. H[l] = 2 * p /\ 2 * p + 1 # H[l]
      BY <1>1, <1>7, <1>9, <2>1, Parity
    <3>2. pair = PairAbove(N[l], path, l)
      BY <1>6, <1>8, <2>1, <3>1
    <3> QED BY <1>3, <1>8, <1>9, <3>2 DEF N, path
  <2>2. CASE H[l] % 2 # 0
    <3>1. H[l] = 2 * p + 1 /\ 2 * p # H[l]
      BY <1>1, <1>7, <1>9, <2>2, Parity
    <3>2. pair = PairAbove(N[l], path, l)
      BY <1>6, <1>8, <2>2, <3>1
    <3> QED BY <1>3, <1>8, <1>9, <3>2 DEF N, path
  <2> QED BY <2>1, <2>2
<1>10. CASE p # H[l + 1]
  <2>1. 2 * p # H[l] /\ 2 * p + 1 # H[l]
    BY <1>1, <1>7, <1>10, Parity
  <2>2. pair = <<zeros[l], zeros[l]>>
    BY <1>8, <2>1
  <2>3. HashPair(pair) = zeros[l + 1]
    BY <1>4, <2>2 DEF HashPair
  <2> QED BY <1>4, <1>8, <1>10, <2>2, <2>3
<1> QED BY <1>9, <1>10

\* A tree that is empty but for one leaf has the nodes of that leaf's path,
\* whatever the hash.
LEMMA LoneLeafResolves ==
  ASSUME DepthFitsWord, IInv, NEW i \in Positions, NEW leaf \in Field,
         \A j \in Positions :
           Tree!Level(leaves)[0][j] = IF j = i THEN leaf ELSE Empty
  PROVE  PathNodes(leaf, empty_inclusion_path(i))[Depth] = root
<1> DEFINE A == Tree!Level(leaves)
           N == PathNodes(leaf, empty_inclusion_path(i))
           H == Halvings(i)
           S == {l \in 0 .. Depth : \A p \in Nat : A[l][p] = Lone(leaf, i, l, p)}
<1>1. /\ Depth \in Nat /\ root = A[Depth][0] /\ Len(leaves) \in Nat
      /\ \A j \in Nat : A[0][j] = IF j < Len(leaves) THEN leaves[j + 1] ELSE Empty
      /\ \A l \in 0 .. Depth - 1 : \A p \in Nat :
           A[l + 1][p] = Hash(A[l][2 * p], A[l][2 * p + 1])
  BY TreeFacts
<1>2. i \in Nat /\ H[0] = i /\ H[Depth] = 0
  BY PositionFacts
<1>3. N[0] = leaf
  BY <1>2, EmptyPathType, PathNodesEquations
<1>4. zeros[0] = Empty
  BY ZeroLadderEquations DEF IInv
<1>5. Len(leaves) <= Pow2[Depth] /\ Pow2[Depth] \in Nat
  <2>1. Capacity = Pow2[Depth] /\ Capacity \in Nat
    BY CapacityIsExact, CapacityType
  <2>2. Len(leaves) \in 0 .. Capacity
    BY DEF IInv, TypeOK
  <2> QED BY <2>1, <2>2
<1>6. \A j \in Positions : A[0][j] = IF j = i THEN leaf ELSE Empty
  OBVIOUS
<1>7. \A l \in 0 .. Depth, p \in Nat :
        Lone(leaf, i, l, p) = IF p = H[l] THEN N[l] ELSE zeros[l]
  BY DEF Lone
<1> HIDE DEF A, N, H
<1>8. 0 \in S
  <2>1. ASSUME NEW p \in Nat PROVE A[0][p] = Lone(leaf, i, 0, p)
    <3>1. Lone(leaf, i, 0, p) = IF p = i THEN leaf ELSE Empty
      <4>1. 0 \in 0 .. Depth
        BY <1>1
      <4> QED BY <4>1, <1>2, <1>3, <1>4, <1>7
    <3>2. CASE p \in Positions
      BY <3>1, <3>2, <1>6
    <3>3. CASE p \notin Positions
      <4>1. ~ (p < Len(leaves)) /\ p # i
        BY <3>3, <1>1, <1>5 DEF Positions
      <4> QED BY <3>1, <4>1, <1>1
    <3> QED BY <3>2, <3>3
  <2> QED BY <2>1, <1>1
<1>9. ASSUME NEW l \in 0 .. Depth - 1, l \in S PROVE l + 1 \in S
  <2>1. l + 1 \in 0 .. Depth
    BY <1>1
  <2>2. ASSUME NEW p \in Nat PROVE A[l + 1][p] = Lone(leaf, i, l + 1, p)
    <3>1. 2 * p \in Nat /\ 2 * p + 1 \in Nat
      OBVIOUS
    <3>2. A[l][2 * p] = Lone(leaf, i, l, 2 * p) /\ A[l][2 * p + 1] = Lone(leaf, i, l, 2 * p + 1)
      BY <1>9, <3>1
    <3>3. HashPair(<<Lone(leaf, i, l, 2 * p), Lone(leaf, i, l, 2 * p + 1)>>)
            = Lone(leaf, i, l + 1, p)
      BY LoneIsATree
    <3> QED BY <1>1, <3>2, <3>3 DEF HashPair
  <2> QED BY <2>1, <2>2
<1>10. \A l \in 0 .. Depth : l \in S
  <2> HIDE DEF S
  <2>1. Depth \in Nat
    BY <1>1
  <2> QED BY <2>1, <1>8, <1>9, Induction
<1>11. A[Depth][0] = Lone(leaf, i, Depth, 0) /\ Depth \in 0 .. Depth
  BY <1>1, <1>10
<1>12. Lone(leaf, i, Depth, 0) = N[Depth]
  BY <1>2, <1>7, <1>11
<1> QED BY <1>1, <1>11, <1>12 DEF A, N

\* From the root down, a tree with the root of an empty path is the tree that
\* the path describes.
LEMMA ResolvedLeafIsLone ==
  ASSUME DepthFitsWord, IInv, NEW i \in Positions, NEW leaf \in Field,
         NoCollisionOn(leaf, empty_inclusion_path(i)),
         PathNodes(leaf, empty_inclusion_path(i))[Depth] = root
  PROVE  \A j \in Positions :
           Tree!Level(leaves)[0][j] = IF j = i THEN leaf ELSE Empty
<1> DEFINE A == Tree!Level(leaves)
           path == empty_inclusion_path(i)
           N == PathNodes(leaf, path)
           H == Halvings(i)
           S == {k \in 0 .. Depth :
                   \A p \in 0 .. Pow2[k] - 1 : A[Depth - k][p] = Lone(leaf, i, Depth - k, p)}
<1>1. /\ Depth \in Nat /\ root = A[Depth][0]
      /\ \A l \in 0 .. Depth - 1 : \A p \in Nat :
           A[l + 1][p] = Hash(A[l][2 * p], A[l][2 * p + 1])
  BY TreeFacts
<1>2. i \in Nat /\ H[0] = i /\ H[Depth] = 0
  BY PositionFacts
<1>3. N[0] = leaf
  BY <1>2, EmptyPathType, PathNodesEquations
<1>4. zeros[0] = Empty
  BY ZeroLadderEquations DEF IInv
<1>5. \A l \in 0 .. Depth, p \in Nat :
        Lone(leaf, i, l, p) = IF p = H[l] THEN N[l] ELSE zeros[l]
  BY DEF Lone
<1>6. \A l \in 0 .. Depth - 1 :
        \A a, b \in TreePairs(l) \cup {PairAbove(N[l], path, l)} :
          HashPair(a) = HashPair(b) => a = b
  BY DEF NoCollisionOn
<1>7. ASSUME NEW l \in 0 .. Depth - 1, NEW p \in Nat
      PROVE  <<A[l][2 * p], A[l][2 * p + 1]>> \in TreePairs(l)
  BY DEF TreePairs
<1>8. ASSUME NEW l \in 0 .. Depth - 1, NEW p \in Nat
      PROVE  LET pair == <<Lone(leaf, i, l, 2 * p), Lone(leaf, i, l, 2 * p + 1)>>
             IN  /\ HashPair(pair) = Lone(leaf, i, l + 1, p)
                 /\ pair \in TreePairs(l) \cup {PairAbove(N[l], path, l)}
  BY LoneIsATree
<1>9. N[Depth] = root
  OBVIOUS
<1>10. Depth < WordBits /\ WordBits \in Nat
  BY CapacityIsExact DEF DepthFitsWord
<1> HIDE DEF A, N, H, path
<1>11. 0 \in S
  <2>1. Lone(leaf, i, Depth, 0) = N[Depth]
    BY <1>1, <1>2, <1>5
  <2> QED BY <1>1, <1>9, <2>1, Pow2Equations
<1>12. ASSUME NEW k \in 0 .. Depth - 1, k \in S PROVE k + 1 \in S
  <2> DEFINE l == Depth - (k + 1)
  <2>1. /\ k + 1 \in 0 .. Depth /\ l \in 0 .. Depth - 1 /\ Depth - k = l + 1
        /\ k \in 0 .. WordBits - 1
    BY <1>1, <1>10
  <2>2. Pow2[k + 1] = 2 * Pow2[k] /\ Pow2[k] \in Nat
    BY <2>1, <1>10, Pow2Equations
  <2>3. \A q \in 0 .. Pow2[k] - 1 : A[l + 1][q] = Lone(leaf, i, l + 1, q)
    BY <1>12, <2>1
  <2> HIDE DEF l
  <2>4. ASSUME NEW p \in 0 .. Pow2[k + 1] - 1 PROVE A[l][p] = Lone(leaf, i, l, p)
    <3> DEFINE q == p \div 2
               a == <<A[l][2 * q], A[l][2 * q + 1]>>
               b == <<Lone(leaf, i, l, 2 * q), Lone(leaf, i, l, 2 * q + 1)>>
    <3>1. q \in 0 .. Pow2[k] - 1 /\ q \in Nat /\ (p = 2 * q \/ p = 2 * q + 1)
      BY <2>2
    <3> HIDE DEF q
    <3>2. HashPair(a) = A[l + 1][q]
      BY <1>1, <2>1, <3>1 DEF HashPair
    <3>3. HashPair(b) = Lone(leaf, i, l + 1, q)
          /\ b \in TreePairs(l) \cup {PairAbove(N[l], path, l)}
      BY <1>8, <2>1, <3>1
    <3>4. a \in TreePairs(l) \cup {PairAbove(N[l], path, l)}
      BY <1>7, <2>1, <3>1
    <3>5. HashPair(a) = HashPair(b)
      BY <2>3, <3>1, <3>2, <3>3
    <3>6. a = b
      <4> HIDE DEF a, b
      <4> QED BY <1>6, <2>1, <3>3, <3>4, <3>5
    <3>7. A[l][2 * q] = Lone(leaf, i, l, 2 * q)
          /\ A[l][2 * q + 1] = Lone(leaf, i, l, 2 * q + 1)
      BY <3>6
    <3> QED BY <3>1, <3>7
  <2> QED BY <2>1, <2>4 DEF l
<1>13. Depth \in S
  <2> HIDE DEF S
  <2>1. Depth \in Nat
    BY <1>1
  <2>2. \A k \in 0 .. Depth : k \in S
    BY <2>1, <1>11, <1>12, Induction
  <2> QED BY <2>1, <2>2
<1>14. \A p \in Positions : A[0][p] = Lone(leaf, i, 0, p)
  <2>1. Depth - Depth = 0
    BY <1>1
  <2> QED BY <1>13, <2>1 DEF Positions
<1>15. \A p \in Nat : Lone(leaf, i, 0, p) = IF p = i THEN leaf ELSE Empty
  <2>1. 0 \in 0 .. Depth
    BY <1>1
  <2> QED BY <2>1, <1>2, <1>3, <1>4, <1>5
<1>16. \A p \in Positions : p \in Nat
  BY PositionFacts
<1> QED BY <1>14, <1>15, <1>16 DEF A

\* The path handed out for a leaf of an otherwise-empty tree (imt.rs:187-195)
\* resolves to the root of a tree, of any depth below the word's width, as
\* long as the tree is that leaf and nothing else, and no longer, unless the
\* hash takes two pairs at hand for each other.
THEOREM EmptyPathCorrectness ==
  ASSUME DepthFitsWord
  PROVE  Spec => [](NoCollisionAmong({empty_inclusion_path(i) : i \in Positions})
                      => EmptyPathCertifiesLoneLeaf)
<1>1. IInv => (NoCollisionAmong({empty_inclusion_path(i) : i \in Positions})
                 => EmptyPathCertifiesLoneLeaf)
  <2> SUFFICES ASSUME IInv, NoCollisionAmong({empty_inclusion_path(i) : i \in Positions}),
                      NEW i \in Positions, NEW leaf \in Appendable
               PROVE  root_from_inclusion_path(leaf, empty_inclusion_path(i)) = root
                        <=> \A j \in Positions :
                              Tree!Level(leaves)[0][j] = IF j = i THEN leaf ELSE Empty
    BY DEF EmptyPathCertifiesLoneLeaf, Positions
  <2> DEFINE path == empty_inclusion_path(i)
  <2>1. i \in Nat /\ leaf \in Field
    BY PositionFacts, FieldAssumption
  <2>2. path.leaf_index \in Nat /\ path.siblings \in Siblings
    BY <2>1, EmptyPathType
  <2>3. root_from_inclusion_path(leaf, path) = PathNodes(leaf, path)[Depth]
    <3> HIDE DEF path
    <3> QED BY <2>1, <2>2, ResolverClimbsPath
  <2>4. NoCollisionOn(leaf, path)
    BY DEF NoCollisionAmong
  <2> QED BY <2>1, <2>3, <2>4, LoneLeafResolves, ResolvedLeafIsLone
<1> QED BY <1>1, Invariance, PTL
=============================================================================
