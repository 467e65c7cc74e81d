------------------------- MODULE DeriveEntityProofs -------------------------
(***************************************************************************)
(* Proofs about DeriveEntity, for structs of any number of fields and      *)
(* members of any values.                                                  *)
(***************************************************************************)
EXTENDS DeriveEntity, SequenceTheorems, FiniteSetTheorems, LevelInduction, TLAPS

-----------------------------------------------------------------------------
(***************************************************************************)
(* Sorting.                                                                *)
(***************************************************************************)
LEMMA GreatestExists ==
  ASSUME NEW S, IsFiniteSet(S), S # {}, NEW key \in [S -> Int]
  PROVE  \E m \in S : \A x \in S : key[x] <= key[m]
<1> DEFINE Has(T) == \E m \in T : \A x \in T : key[x] <= key[m]
           N == {n \in Nat : \A T \in SUBSET S : Cardinality(T) = n + 1 => Has(T)}
<1>1. \A T \in SUBSET S : IsFiniteSet(T) /\ Cardinality(T) \in Nat
  BY FS_Subset, FS_CardinalityType
<1>2. 0 \in N
  <2> SUFFICES ASSUME NEW T \in SUBSET S, Cardinality(T) = 1 PROVE Has(T)
    OBVIOUS
  <2>1. PICK x : T = {x}
    BY <1>1, FS_Singleton
  <2> QED BY <2>1
<1>3. ASSUME NEW n \in N PROVE n + 1 \in N
  <2> SUFFICES ASSUME NEW T \in SUBSET S, Cardinality(T) = (n + 1) + 1 PROVE Has(T)
    OBVIOUS
  <2>1. T # {}
    BY <1>1, FS_EmptySet
  <2>2. PICK x \in T : TRUE
    BY <2>1
  <2>3. Cardinality(T \ {x}) = n + 1 /\ T \ {x} \in SUBSET S
    BY <1>1, <2>2, FS_RemoveElement
  <2>4. PICK m \in T \ {x} : \A y \in T \ {x} : key[y] <= key[m]
    BY <2>3
  <2>5. key[x] \in Int /\ key[m] \in Int /\ \A y \in T : key[y] \in Int
    BY <2>2, <2>4
  <2>6. CASE key[x] <= key[m]
    BY <2>4, <2>6
  <2>7. CASE key[m] <= key[x]
    <3>1. \A y \in T : key[y] <= key[x]
      BY <2>4, <2>5, <2>7
    <3> QED BY <2>2, <3>1
  <2> QED BY <2>5, <2>6, <2>7
<1>4. N = Nat
  <2> HIDE DEF N
  <2>1. N \in SUBSET Nat
    BY DEF N
  <2> QED BY <1>2, <1>3, <2>1, NatInductionOnSets
<1>5. Cardinality(S) \in Nat /\ Cardinality(S) # 0
  BY <1>1, FS_EmptySet
<1>6. Cardinality(S) - 1 \in N /\ (Cardinality(S) - 1) + 1 = Cardinality(S)
  BY <1>4, <1>5
<1>7. Has(S)
  BY <1>6
<1> QED BY <1>7

IsSortedSeq(s, S, key) ==
  /\ s \in [1 .. Cardinality(S) -> S] /\ ToSet(s) = S
  /\ \A i, j \in DOMAIN s : i < j => key[s[i]] <= key[s[j]]

LEMMA SortedExists ==
  ASSUME NEW S, IsFiniteSet(S), NEW key \in [S -> Int]
  PROVE  \E s : IsSortedSeq(s, S, key)
<1> DEFINE N == {n \in Nat : \A T \in SUBSET S :
                   Cardinality(T) = n => \E s : IsSortedSeq(s, T, key)}
<1>1. \A T \in SUBSET S : IsFiniteSet(T) /\ Cardinality(T) \in Nat
  BY FS_Subset, FS_CardinalityType
<1>2. 0 \in N
  <2> SUFFICES ASSUME NEW T \in SUBSET S, Cardinality(T) = 0
               PROVE  \E s : IsSortedSeq(s, T, key)
    OBVIOUS
  <2>1. T = {}
    BY <1>1, FS_EmptySet
  <2> DEFINE s == [i \in 1 .. 0 |-> 0]
  <2>2. s \in [1 .. Cardinality(T) -> T] /\ DOMAIN s = {}
    OBVIOUS
  <2>3. ToSet(s) = T
    BY <2>1, <2>2 DEF ToSet
  <2> HIDE DEF s
  <2> QED BY <2>2, <2>3 DEF IsSortedSeq
<1>3. ASSUME NEW n \in N PROVE n + 1 \in N
  <2> SUFFICES ASSUME NEW T \in SUBSET S, Cardinality(T) = n + 1
               PROVE  \E s : IsSortedSeq(s, T, key)
    OBVIOUS
  <2>1. T # {} /\ [x \in T |-> key[x]] \in [T -> Int]
    BY <1>1, FS_EmptySet
  <2>2. PICK m \in T : \A x \in T : key[x] <= key[m]
    <3>1. \E m \in T : \A x \in T : [y \in T |-> key[y]][x] <= [y \in T |-> key[y]][m]
      BY <1>1, <2>1, GreatestExists
    <3> QED BY <3>1
  <2> DEFINE R == T \ {m}
  <2>3. Cardinality(R) = n /\ R \in SUBSET S
    BY <1>1, <2>2, FS_RemoveElement
  <2>4. PICK r : IsSortedSeq(r, R, key)
    BY <2>3
  <2> DEFINE s == [i \in 1 .. n + 1 |-> IF i = n + 1 THEN m ELSE r[i]]
  <2>5. /\ r \in [1 .. n -> R] /\ ToSet(r) = R
        /\ \A i, j \in 1 .. n : i < j => key[r[i]] <= key[r[j]]
    BY <2>3, <2>4 DEF IsSortedSeq
  <2>6. \A i \in 1 .. n + 1 : i = n + 1 \/ (i \in 1 .. n /\ i # n + 1)
    OBVIOUS
  <2>7. \A i \in 1 .. n : i \in 1 .. n + 1 /\ i # n + 1
    OBVIOUS
  <2>8. s[n + 1] = m /\ \A i \in 1 .. n : s[i] = r[i]
    BY <2>7
  <2>9. s \in [1 .. n + 1 -> T]
    BY <2>2, <2>5, <2>6
  <2> HIDE DEF s
  <2>10. ToSet(s) = T
    <3>1. ASSUME NEW x \in T PROVE \E i \in 1 .. n + 1 : s[i] = x
      <4>1. CASE x = m
        BY <2>8, <4>1
      <4>2. CASE x # m
        <5>1. PICK i \in 1 .. n : r[i] = x
          BY <2>5, <4>2 DEF ToSet
        <5> QED BY <2>7, <2>8, <5>1
      <4> QED BY <4>1, <4>2
    <3> QED BY <2>9, <3>1 DEF ToSet
  <2>11. ASSUME NEW i \in 1 .. n + 1, NEW j \in 1 .. n + 1, i < j
         PROVE  key[s[i]] <= key[s[j]]
    <3>1. i \in 1 .. n
      BY <2>11
    <3>2. CASE j = n + 1
      <4>1. s[i] \in T
        BY <2>9
      <4> QED BY <2>2, <2>8, <3>2, <4>1
    <3>3. CASE j # n + 1
      BY <2>5, <2>6, <2>8, <2>11, <3>1, <3>3
    <3> QED BY <3>2, <3>3
  <2>12. IsSortedSeq(s, T, key)
    BY <2>9, <2>10, <2>11 DEF IsSortedSeq
  <2> QED BY <2>12
<1>4. N = Nat
  <2> HIDE DEF N
  <2>1. N \in SUBSET Nat
    BY DEF N
  <2> QED BY <1>2, <1>3, <2>1, NatInductionOnSets
<1> QED BY <1>1, <1>4

\* Sorted has each element once, in the order of its key.
LEMMA SortedIs ==
  ASSUME NEW S, IsFiniteSet(S), NEW key \in [S -> Int]
  PROVE  /\ Sorted(S, key) \in Seq(S) /\ Len(Sorted(S, key)) = Cardinality(S)
         /\ ToSet(Sorted(S, key)) = S
         /\ \A i, j \in 1 .. Cardinality(S) :
              /\ i < j => key[Sorted(S, key)[i]] <= key[Sorted(S, key)[j]]
              /\ Sorted(S, key)[i] = Sorted(S, key)[j] => i = j
<1> DEFINE s == Sorted(S, key)
           n == Cardinality(S)
<1>1. n \in Nat /\ IsFiniteSet(1 .. n) /\ Cardinality(1 .. n) = n
  BY FS_CardinalityType, FS_Interval
<1>2. IsSortedSeq(s, S, key)
  BY SortedExists DEF Sorted, IsSortedSeq
<1> HIDE DEF s
<1>3. /\ s \in [1 .. n -> S] /\ ToSet(s) = S /\ DOMAIN s = 1 .. n
      /\ \A i, j \in 1 .. n : i < j => key[s[i]] <= key[s[j]]
  BY <1>2 DEF IsSortedSeq
<1>4. s \in Surjection(1 .. n, S)
  BY <1>3 DEF Surjection, ToSet
<1>5. s \in Injection(1 .. n, S)
  BY <1>1, <1>4, FS_SurjSameCardinalityImpliesInj
<1>6. \A i, j \in 1 .. n : s[i] = s[j] => i = j
  BY <1>5 DEF Injection, IsInjective
<1>7. s \in Seq(S) /\ Len(s) = n
  BY <1>1, <1>3
<1> QED BY <1>3, <1>6, <1>7 DEF s

-----------------------------------------------------------------------------
(***************************************************************************)
(* The inductive invariant: while no field was refused, the roles seen so  *)
(* far are those recorded; an accepted struct builds, and its groups are   *)
(* in order.                                                               *)
(***************************************************************************)
Carries(f, key) == key \in f.keys /\ "skip" \notin f.keys

RolesKnown ==
  \A i \in DOMAIN fields :
    /\ Carries(fields[i], "id_seed") <=> i = seed
    /\ Carries(fields[i], "owner") <=> i = owner

InOrder(group) ==
  \A i, j \in DOMAIN group :
    i < j /\ fields[group[i]].pos # NoPos => fields[group[i]].pos < fields[group[j]].pos

Typed ==
  /\ fields \in Seq(Declarable) /\ Len(fields) <= MaxFields
  /\ seed \in 0 .. Len(fields) /\ owner \in 0 .. Len(fields)
  /\ id_body \in Seq(1 .. Len(fields)) /\ body \in Seq(1 .. Len(fields))
  /\ outcome \in {"expanding", "rejected", "unbuildable", "accepted"}

IInv ==
  /\ Typed
  /\ outcome \in {"expanding", "accepted"} => RolesKnown
  /\ outcome = "accepted" => seed # 0 /\ Builds /\ InOrder(id_body) /\ InOrder(body)

\* A group as the loop or order_group leaves it has the members it had.
LEMMA GroupIsOrdered ==
  ASSUME Typed, NEW group \in Seq(1 .. Len(fields)), ~ order_group_fails(group)
  PROVE  /\ order_group(group) \in Seq(1 .. Len(fields))
         /\ ToSet(order_group(group)) = ToSet(group)
         /\ InOrder(order_group(group))
<1>1. CASE \A i \in DOMAIN group : fields[group[i]].pos = NoPos
  BY <1>1 DEF order_group, InOrder
<1>2. CASE ~ \A i \in DOMAIN group : fields[group[i]].pos = NoPos
  <2> DEFINE S == ToSet(group)
             key == [i \in S |-> fields[i].pos]
             s == Sorted(S, key)
  <2>1. /\ S \subseteq 1 .. Len(fields) /\ S = {group[i] : i \in DOMAIN group}
        /\ Len(fields) \in Nat /\ Len(group) \in Nat /\ DOMAIN group = 1 .. Len(group)
    BY DEF Typed, ToSet
  <2>2. IsFiniteSet(S)
    <3>1. IsFiniteSet(1 .. Len(fields))
      BY <2>1, FS_Interval
    <3> QED BY ONLY <2>1, <3>1, FS_Subset
  <2>3. \A i \in S : fields[i].pos \in Nat
    <3>1. \A i \in 1 .. Len(fields) : fields[i] \in Declarable
      BY DEF Typed
    <3>2. \A i \in DOMAIN group : fields[group[i]].pos # NoPos
      BY <1>2 DEF order_group_fails
    <3> QED BY <2>1, <3>1, <3>2, DeclarableAssumption
  <2>4. key \in [S -> Int]
    BY <2>3
  <2>5. \A x, y \in S : x # y => key[x] # key[y]
    <3>1. \A i, j \in DOMAIN group : i # j => fields[group[i]].pos # fields[group[j]].pos
      BY <1>2 DEF order_group_fails
    <3> QED BY <2>1, <3>1
  <2>6. order_group(group) = s
    BY <1>2 DEF order_group
  <2> HIDE DEF S, s, key
  <2>7. /\ s \in Seq(S) /\ Len(s) \in Nat /\ ToSet(s) = S
        /\ \A i, j \in 1 .. Len(s) :
             /\ i < j => key[s[i]] <= key[s[j]]
             /\ s[i] = s[j] => i = j
    BY <2>2, <2>4, SortedIs, FS_CardinalityType DEF s
  <2>8. s \in Seq(1 .. Len(fields))
    BY <2>1, <2>7
  <2>9. InOrder(s)
    <3> SUFFICES ASSUME NEW i \in 1 .. Len(s), NEW j \in 1 .. Len(s), i < j
                 PROVE  fields[s[i]].pos < fields[s[j]].pos
      BY <2>7 DEF InOrder
    <3>1. s[i] \in S /\ s[j] \in S /\ s[i] # s[j] /\ key[s[i]] <= key[s[j]]
      BY <2>7
    <3>2. key[s[i]] # key[s[j]] /\ key[s[i]] \in Int /\ key[s[j]] \in Int
      BY <2>4, <2>5, <3>1
    <3>3. key[s[i]] = fields[s[i]].pos /\ key[s[j]] = fields[s[j]].pos
      BY <3>1 DEF key
    <3> QED BY <3>1, <3>2, <3>3
  <2> QED BY <2>6, <2>7, <2>8, <2>9 DEF S
<1> QED BY <1>1, <1>2

LEMMA InvInit == Init => IInv
<1> SUFFICES ASSUME Init PROVE IInv
  OBVIOUS
<1> QED BY DeclarableAssumption DEF Init, IInv, Typed, RolesKnown

LEMMA InvExpand ==
  ASSUME IInv, NEW f \in Declarable, ExpandField(f)
  PROVE  IInv'
<1> DEFINE i == Len(fields) + 1
<1>1. /\ outcome = "expanding" /\ RolesKnown
      /\ fields' = Append(fields, f) /\ Len(fields) \in Nat /\ i \in Nat /\ i # 0
      /\ Len(fields) < MaxFields /\ MaxFields \in Nat /\ FieldIndex = i
  BY DeclarableAssumption DEF ExpandField, IInv, Typed, FieldIndex
<1>2. /\ fields' \in Seq(Declarable) /\ Len(fields') = i /\ Len(fields') <= MaxFields
      /\ DOMAIN fields' = 1 .. i /\ fields'[i] = f
      /\ \A j \in 1 .. i : j # i => j \in DOMAIN fields /\ fields'[j] = fields[j] /\ j < i
      /\ \A n \in 0 .. Len(fields) : n \in 0 .. i
      /\ \A g \in Seq(1 .. Len(fields)) : g \in Seq(1 .. i) /\ Append(g, i) \in Seq(1 .. i)
  BY <1>1 DEF IInv, Typed
<1>3. CASE Reject
  BY <1>2, <1>3 DEF Reject, IInv, Typed
<1>4. CASE /\ ~ Refuses(f)
           /\ seed' = (IF Carries(f, "id_seed") THEN i ELSE seed)
           /\ owner' = (IF Carries(f, "owner") THEN i ELSE owner)
           /\ id_body' = (IF Carries(f, "id_body") THEN Append(id_body, i) ELSE id_body)
           /\ body' = (IF Carries(f, "body") THEN Append(body, i) ELSE body)
           /\ UNCHANGED outcome
  <2>1. Typed'
    <3>1. seed' \in 0 .. i /\ owner' \in 0 .. i
      BY <1>1, <1>2, <1>4 DEF IInv, Typed
    <3>2. id_body' \in Seq(1 .. i) /\ body' \in Seq(1 .. i)
      BY <1>2, <1>4 DEF IInv, Typed
    <3> QED BY <1>1, <1>2, <1>4, <3>1, <3>2 DEF Typed
  <2>2. /\ Carries(f, "id_seed") => seed = 0
        /\ Carries(f, "owner") => owner = 0
    BY <1>4 DEF Refuses, SeedTwice, Carries
  <2>3. seed < i /\ owner < i /\ seed \in Nat /\ owner \in Nat
    BY <1>1 DEF IInv, Typed
  <2>4. \A j \in DOMAIN fields : j \in Nat /\ j # 0
    BY <1>1 DEF IInv, Typed
  <2>5. ASSUME NEW j \in 1 .. i
        PROVE  /\ Carries(fields'[j], "id_seed") <=> j = seed'
               /\ Carries(fields'[j], "owner") <=> j = owner'
    <3>1. CASE j = i
      BY <1>2, <1>4, <2>3, <3>1
    <3>2. CASE j # i
      <4>1. j \in DOMAIN fields /\ fields'[j] = fields[j]
        BY <1>2, <3>2
      <4>2. /\ Carries(fields[j], "id_seed") <=> j = seed
            /\ Carries(fields[j], "owner") <=> j = owner
        BY <1>1, <4>1 DEF RolesKnown
      <4> QED BY <1>4, <2>2, <2>4, <3>2, <4>1, <4>2
    <3> QED BY <3>1, <3>2
  <2>6. RolesKnown'
    BY <1>2, <2>5 DEF RolesKnown
  <2> QED BY <1>1, <1>4, <2>1, <2>6 DEF IInv
<1> QED BY <1>1, <1>3, <1>4 DEF ExpandField, Carries

LEMMA InvFinish ==
  ASSUME IInv, Finish
  PROVE  IInv'
<1>1. outcome = "expanding" /\ Typed /\ RolesKnown /\ fields' = fields
  BY DEF Finish, IInv
<1>2. CASE Reject
  BY <1>1, <1>2 DEF Reject, IInv, Typed
<1>3. CASE /\ seed # 0 /\ ~ order_group_fails(id_body) /\ ~ order_group_fails(body)
           /\ id_body' = order_group(id_body) /\ body' = order_group(body)
           /\ outcome' = (IF Builds THEN "accepted" ELSE "unbuildable")
           /\ UNCHANGED <<seed, owner>>
  <2>1. /\ id_body' \in Seq(1 .. Len(fields)) /\ body' \in Seq(1 .. Len(fields))
        /\ InOrder(id_body') /\ InOrder(body')
    BY <1>1, <1>3, GroupIsOrdered DEF Typed
  <2>2. Typed' /\ RolesKnown'
    BY <1>1, <1>3, <2>1 DEF Typed, RolesKnown
  <2>3. InOrder(id_body)' /\ InOrder(body)'
    BY <1>1, <2>1 DEF InOrder
  <2>4. ToSet(id_body') = ToSet(id_body) /\ ToSet(body') = ToSet(body)
    BY <1>1, <1>3, GroupIsOrdered DEF Typed
  <2>5. Builds' <=> Builds
    BY <1>1, <1>3, <2>4 DEF Builds
  <2> QED BY <1>3, <2>2, <2>3, <2>5 DEF IInv
<1> QED BY <1>2, <1>3 DEF Finish

LEMMA InvNext == IInv /\ [Next]_vars => IInv'
<1> SUFFICES ASSUME IInv, [Next]_vars PROVE IInv'
  OBVIOUS
<1>1. CASE \E f \in Declarable : ExpandField(f)
  BY <1>1, InvExpand
<1>2. CASE Finish
  BY <1>2, InvFinish
<1>3. CASE UNCHANGED vars
  BY <1>3 DEF vars, IInv, Typed, RolesKnown, Builds, InOrder
<1> QED BY <1>1, <1>2, <1>3 DEF Next

LEMMA InvAlways == Spec => []IInv
BY InvInit, InvNext, PTL DEF Spec

\* The expansion keeps its types, and an accepted struct has a seed.
THEOREM TypeCorrectness == Spec => []TypeOK
<1>1. IInv => TypeOK
  <2> SUFFICES ASSUME IInv PROVE TypeOK
    OBVIOUS
  <2>1. ToSet(id_body) \subseteq DOMAIN fields /\ ToSet(body) \subseteq DOMAIN fields
    BY DEF IInv, Typed, ToSet
  <2> QED BY <2>1 DEF IInv, Typed, TypeOK
<1> QED BY <1>1, InvAlways, PTL

\* However many fields are declared, no second seed or owner takes the place of the
\* first unseen.
THEOREM Roles == Spec => []RolesAreUnambiguous
<1>1. IInv => RolesAreUnambiguous
  BY DEF IInv, RolesKnown, Carries, RolesAreUnambiguous
<1> QED BY <1>1, InvAlways, PTL

\* Positions, where there are any, are the fold order of each group.
THEOREM Order == Spec => []PositionsDecideOrder
<1>1. IInv => PositionsDecideOrder
  BY DEF IInv, InOrder, PositionsDecideOrder
<1> QED BY <1>1, InvAlways, PTL

-----------------------------------------------------------------------------
(***************************************************************************)
(* Instances: finitely many, with a member of its type for each field.     *)
(***************************************************************************)
LEMMA ImageIsFinite ==
  ASSUME NEW S, IsFiniteSet(S), NEW f
  PROVE  IsFiniteSet({f[x] : x \in S})
<1> DEFINE T == {f[x] : x \in S}
           g == [x \in S |-> f[x]]
<1>1. g \in Surjection(S, T)
  BY DEF Surjection
<1> HIDE DEF g, T
<1>2. IsFiniteSet(T)
  BY <1>1, FS_Surjection
<1> QED BY <1>2 DEF T

LEMMA SeqsAreFinite ==
  ASSUME NEW S, IsFiniteSet(S), NEW n \in Nat
  PROVE  IsFiniteSet(SeqsUpTo(S, n))
<1> DEFINE N == {k \in Nat : IsFiniteSet([1 .. k -> S])}
<1>1. 0 \in N
  <2> DEFINE z == [i \in 1 .. 0 |-> 0]
  <2>1. \A f \in [1 .. 0 -> S] : f = z
    OBVIOUS
  <2>2. IsFiniteSet({z}) /\ [1 .. 0 -> S] \in SUBSET {z}
    <3> HIDE DEF z
    <3> QED BY <2>1, FS_Singleton
  <2> HIDE DEF z
  <2>3. IsFiniteSet([1 .. 0 -> S])
    BY <2>2, FS_Subset
  <2> QED BY <2>3
<1>2. ASSUME NEW k \in N PROVE k + 1 \in N
  <2> DEFINE P == [1 .. k -> S] \X S
             ext == [p \in P |-> [i \in 1 .. k + 1 |-> IF i = k + 1 THEN p[2] ELSE p[1][i]]]
             T == [1 .. k + 1 -> S]
  <2>0. k \in Nat /\ IsFiniteSet([1 .. k -> S])
    OBVIOUS
  <2>1. IsFiniteSet(P)
    BY <2>0, FS_Product
  <2>2. IsFiniteSet({ext[p] : p \in P})
    <3> HIDE DEF P, ext
    <3> QED BY <2>1, ImageIsFinite
  <2>3. ASSUME NEW t \in T PROVE t \in {ext[p] : p \in P}
    <3> DEFINE h == [i \in 1 .. k |-> t[i]]
    <3>1. \A i \in 1 .. k : i \in 1 .. k + 1 /\ i # k + 1
      BY <2>0
    <3>2. k + 1 \in 1 .. k + 1 /\ \A i \in 1 .. k + 1 : i # k + 1 => i \in 1 .. k
      BY <2>0
    <3>3. h \in [1 .. k -> S] /\ t[k + 1] \in S
      BY <3>1, <3>2
    <3>4. <<h, t[k + 1]>> \in P
      BY <3>3
    <3>5. t = [i \in 1 .. k + 1 |-> IF i = k + 1 THEN t[k + 1] ELSE h[i]]
      BY <3>2
    <3>6. ext[<<h, t[k + 1]>>] = t
      <4> DEFINE p == <<h, t[k + 1]>>
      <4>1. p[1] = h /\ p[2] = t[k + 1]
        OBVIOUS
      <4> HIDE DEF h, p
      <4>2. ext[p] = [i \in 1 .. k + 1 |-> IF i = k + 1 THEN p[2] ELSE p[1][i]]
        BY <3>4 DEF p
      <4> HIDE DEF ext
      <4>3. ext[p] = t
        BY <3>5, <4>1, <4>2
      <4> QED BY <4>3 DEF p
    <3> HIDE DEF ext, P, h
    <3> QED BY <3>4, <3>6
  <2> HIDE DEF P, ext
  <2>4. IsFiniteSet(T)
    BY <2>2, <2>3, FS_Subset
  <2> QED BY <2>4
<1>3. N = Nat
  <2> HIDE DEF N
  <2>1. N \in SUBSET Nat
    BY DEF N
  <2> QED BY <1>1, <1>2, <2>1, NatInductionOnSets
<1> DEFINE L == 0 .. n
           f == [k \in L |-> [1 .. k -> S]]
           F == {f[k] : k \in L}
<1>4. IsFiniteSet(F)
  <2>1. IsFiniteSet(L)
    BY FS_Interval
  <2> HIDE DEF f, L
  <2> QED BY <2>1, ImageIsFinite
<1>5. \A T \in F : IsFiniteSet(T)
  BY <1>3
<1>6. SeqsUpTo(S, n) = UNION F
  BY DEF SeqsUpTo
<1> HIDE DEF F
<1> QED BY <1>4, <1>5, <1>6, FS_UNION

LEMMA MembersAreFinite ==
  ASSUME NEW type
  PROVE  IsFiniteSet(MembersOf(type))
<1>1. IsFiniteSet(0 .. Modulus - 1) /\ IsFiniteSet(0 .. LimbBase * LimbBase - 1)
  BY FS_Interval, WidthAssumption
<1>2. IsFiniteSet(Ints) /\ IsFiniteSet(Wides)
  BY <1>1, ValueAssumption, FS_Subset
<1>3. IsFiniteSet(SeqsUpTo(Bytes, MaxLen))
  BY ValueAssumption, DeclarableAssumption, SeqsAreFinite
<1>4. \/ MembersOf(type) = Ints \/ MembersOf(type) = Bytes \/ MembersOf(type) = Wides
      \/ MembersOf(type) = SeqsUpTo(Bytes, MaxLen)
  BY Zenon DEF MembersOf
<1> QED BY <1>2, <1>3, <1>4, ValueAssumption

Member == UNION {MembersOf(type) : type \in Types}

\* The instances with one more member, that of field n.
Extended(n, X) == {Append(x, v) : x \in X, v \in MembersOf(fields[n].type)}

\* f has the sets of instances of the first fields.
IsInstances(f) ==
  f = [n \in 0 .. Len(fields) |-> IF n = 0 THEN {<<>>} ELSE Extended(n, f[n - 1])]

LEMMA InstancesRecursion ==
  ASSUME Typed
  PROVE  \E f : /\ Instances = f[Len(fields)] /\ f[0] = {<<>>}
                /\ \A n \in 1 .. Len(fields) : f[n] = Extended(n, f[n - 1])
<1> DEFINE d == Len(fields)
           V == SUBSET Seq(Member)
           a == {<<>>}
           g == [l \in 0 .. d - 1 |-> [X \in V |-> Extended(l + 1, X)]]
<1>1. d \in Nat /\ \A i \in 1 .. d : fields[i].type \in Types
  BY DeclarableAssumption DEF Typed
<1>2. \A i \in 1 .. d : MembersOf(fields[i].type) \subseteq Member
  BY <1>1 DEF Member
<1>3. a \in V
  OBVIOUS
<1>4. ASSUME NEW n \in 1 .. d, NEW X \in V PROVE Extended(n, X) \in V
  BY <1>2 DEF Extended
<1>5. IsStep(g, d, V)
  <2> HIDE DEF V
  <2>1. \A l \in 0 .. d - 1 : l + 1 \in 1 .. d
    BY <1>1
  <2> QED BY <1>4, <2>1 DEF IsStep
<1>6. PICK h : IsRecursive(h, d, V, a, g)
  <2> HIDE DEF V, g, a
  <2> QED BY <1>1, <1>3, <1>5, Recursion
<1>7. ASSUME NEW n \in 0 .. d, n # 0
      PROVE  g[n - 1][h[n - 1]] = Extended(n, h[n - 1])
  <2>1. n - 1 \in 0 .. d - 1 /\ n - 1 \in 0 .. d /\ (n - 1) + 1 = n
    BY <1>1, <1>7
  <2>2. h[n - 1] \in V
    BY <2>1, <1>6 DEF IsRecursive
  <2> HIDE DEF V
  <2> QED BY <2>1, <2>2
<1>8. IsInstances(h)
  <2> HIDE DEF g, V
  <2> QED BY <1>6, <1>7 DEF IsRecursive, IsInstances
<1> DEFINE f == CHOOSE f : IsInstances(f)
<1>9. Instances = f[d]
  BY DEF Instances, IsInstances, Extended
<1>10. IsInstances(f)
  BY <1>8
<1> HIDE DEF f
<1>11. \A n \in 0 .. d : f[n] = IF n = 0 THEN a ELSE Extended(n, f[n - 1])
  BY <1>10 DEF IsInstances
<1>12. f[0] = a /\ \A n \in 1 .. d : f[n] = Extended(n, f[n - 1])
  BY <1>1, <1>11
<1> QED BY <1>9, <1>12

FirstMembers(x, n) ==
  /\ x \in Seq(Member) /\ Len(x) = n
  /\ \A i \in 1 .. n : x[i] \in MembersOf(fields[i].type)

LEMMA ExtendedIs ==
  ASSUME Typed, NEW n \in 0 .. Len(fields) - 1, NEW X, IsFiniteSet(X),
         \A x \in X : FirstMembers(x, n)
  PROVE  /\ IsFiniteSet(Extended(n + 1, X))
         /\ \A y \in Extended(n + 1, X) : FirstMembers(y, n + 1)
<1> DEFINE M == MembersOf(fields[n + 1].type)
           P == X \X M
           app == [p \in P |-> Append(p[1], p[2])]
<1>1. /\ n \in Nat /\ n + 1 \in 1 .. Len(fields)
      /\ fields[n + 1].type \in Types /\ M \subseteq Member
  BY DeclarableAssumption DEF Typed, Member
<1>2. Extended(n + 1, X) = {app[p] : p \in P}
  <2>1. \A x \in X, v \in M : <<x, v>> \in P /\ app[<<x, v>>] = Append(x, v)
    OBVIOUS
  <2>2. \A p \in P : p[1] \in X /\ p[2] \in M /\ app[p] = Append(p[1], p[2])
    OBVIOUS
  <2>3. \A y : y \in Extended(n + 1, X) <=> \E x \in X, v \in M : y = Append(x, v)
    BY DEF Extended
  <2> HIDE DEF app, P, M
  <2>4. ASSUME NEW y \in Extended(n + 1, X) PROVE \E p \in P : y = app[p]
    <3>1. PICK x \in X, v \in M : y = Append(x, v)
      BY <2>3
    <3>2. <<x, v>> \in P /\ app[<<x, v>>] = y
      BY <2>1, <3>1
    <3> QED BY <3>2
  <2>5. \A p \in P : app[p] \in Extended(n + 1, X)
    BY <2>2, <2>3
  <2> QED BY <2>4, <2>5
<1>3. IsFiniteSet(Extended(n + 1, X))
  <2>1. IsFiniteSet(P)
    BY MembersAreFinite, FS_Product
  <2> HIDE DEF P, app
  <2> QED BY <1>2, <2>1, ImageIsFinite
<1>4. ASSUME NEW x \in X, NEW v \in M PROVE FirstMembers(Append(x, v), n + 1)
  <2>1. /\ x \in Seq(Member) /\ Len(x) = n /\ v \in Member
        /\ \A i \in 1 .. n : x[i] \in MembersOf(fields[i].type)
    BY <1>1 DEF FirstMembers
  <2>2. /\ Append(x, v) \in Seq(Member) /\ Len(Append(x, v)) = n + 1
        /\ \A i \in 1 .. n : Append(x, v)[i] = x[i]
        /\ Append(x, v)[n + 1] = v
    BY <2>1, AppendProperties
  <2>3. \A i \in 1 .. n + 1 : i \in 1 .. n \/ i = n + 1
    BY <1>1
  <2> QED BY <2>1, <2>2, <2>3 DEF FirstMembers
<1>5. \A y \in Extended(n + 1, X) : \E x \in X, v \in M : y = Append(x, v)
  BY DEF Extended
<1> HIDE DEF M
<1> QED BY <1>3, <1>4, <1>5

LEMMA InstancesAre ==
  ASSUME Typed
  PROVE  /\ IsFiniteSet(Instances)
         /\ \A x \in Instances : FirstMembers(x, Len(fields))
<1>1. PICK f : /\ Instances = f[Len(fields)] /\ f[0] = {<<>>}
               /\ \A n \in 1 .. Len(fields) : f[n] = Extended(n, f[n - 1])
  BY InstancesRecursion
<1> DEFINE d == Len(fields)
           Fits(X, n) == IsFiniteSet(X) /\ \A x \in X : FirstMembers(x, n)
           S == {n \in 0 .. d : Fits(f[n], n)}
<1>2. d \in Nat
  BY DEF Typed
<1>3. 0 \in S
  <2>1. IsFiniteSet({<<>>})
    BY FS_Singleton
  <2>2. FirstMembers(<<>>, 0)
    BY DEF FirstMembers
  <2>3. Fits(f[0], 0)
    BY <1>1, <2>1, <2>2
  <2> QED BY <1>2, <2>3
<1>4. ASSUME NEW n \in 0 .. d - 1, n \in S PROVE n + 1 \in S
  <2>1. n + 1 \in 1 .. d /\ n + 1 \in 0 .. d /\ (n + 1) - 1 = n
    BY <1>2
  <2>2. f[n + 1] = Extended(n + 1, f[n])
    BY <1>1, <2>1
  <2>3. Fits(f[n + 1], n + 1)
    BY <1>4, <2>2, ExtendedIs
  <2> QED BY <2>1, <2>3
<1>5. \A n \in 0 .. d : n \in S
  <2> HIDE DEF S
  <2> QED BY <1>2, <1>3, <1>4, Induction
<1>6. Fits(f[d], d)
  BY <1>2, <1>5
<1> QED BY <1>1, <1>6

-----------------------------------------------------------------------------
(***************************************************************************)
(* The producer's sets.                                                    *)
(***************************************************************************)
\* The element of canonical bytes is the bytes.
LEMMA CanonicalElement ==
  ASSUME NEW b \in Bytes, IsCanonical(b)
  PROVE  ToElement(b) = b /\ b \in 0 .. Modulus - 1
BY WidthAssumption, ValueAssumption DEF IsCanonical, ToElement

LEMMA SortSetIs ==
  ASSUME NEW v \in Seq(Bytes), \A k \in DOMAIN v : IsCanonical(v[k])
  PROVE  /\ ToSet(sort_set(v)) = ToSet(v)
         /\ SortedSetAccepts(sort_set(v))
<1> DEFINE S == ToSet(v)
           key == [b \in S |-> ToElement(b)]
           s == Sorted(S, key)
<1>1. Len(v) \in Nat /\ DOMAIN v = 1 .. Len(v) /\ S = {v[k] : k \in 1 .. Len(v)}
  BY DEF ToSet
<1>2. \A b \in S : b \in Bytes /\ IsCanonical(b) /\ ToElement(b) = b /\ b \in Int
  BY <1>1, CanonicalElement
<1>3. IsFiniteSet(S)
  <2>1. IsFiniteSet(Bytes) /\ S \subseteq Bytes
    BY <1>2, ValueAssumption
  <2> HIDE DEF S
  <2> QED BY <2>1, FS_Subset
<1>4. key \in [S -> Int]
  BY <1>2
<1>5. sort_set(v) = s
  BY DEF sort_set
<1> HIDE DEF S, key, s
<1>6. /\ s \in Seq(S) /\ ToSet(s) = S /\ Len(s) \in Nat /\ DOMAIN s = 1 .. Len(s)
      /\ \A i, j \in 1 .. Len(s) :
           /\ i < j => key[s[i]] <= key[s[j]]
           /\ s[i] = s[j] => i = j
  BY <1>3, <1>4, SortedIs, FS_CardinalityType DEF s
<1>7. \A i \in 1 .. Len(s) : s[i] \in S
  BY <1>6
<1>8. \A b \in S : key[b] = ToElement(b)
  BY DEF key
<1>9. StrictlyAscending(s)
  <2> SUFFICES ASSUME NEW i \in 1 .. Len(s) - 1
               PROVE  ToElement(s[i]) < ToElement(s[i + 1])
    BY DEF StrictlyAscending
  <2>1. i \in 1 .. Len(s) /\ i + 1 \in 1 .. Len(s) /\ i < i + 1 /\ i # i + 1
    BY <1>6
  <2>2. s[i] \in S /\ s[i + 1] \in S /\ s[i] # s[i + 1] /\ key[s[i]] <= key[s[i + 1]]
    BY <1>6, <1>7, <2>1
  <2> QED BY <1>2, <1>8, <2>2
<1>10. SortedSetAccepts(s)
  BY <1>2, <1>6, <1>7, <1>9 DEF SortedSetAccepts
<1> QED BY <1>5, <1>6, <1>10 DEF S

\* What is folded has a type that can be: of the vectors, those of bytes32, and the
\* alias only if it is limbed.
LEMMA FoldedTypes ==
  ASSUME IInv, outcome = "accepted", NEW i \in Folded
  PROVE  /\ i \in 1 .. Len(fields)
         /\ fields[i].type \in {"u64", "bytes32", "uint256", "Vec<bytes32>", "Ids"}
         /\ fields[i].type = "Ids" => "limbed" \in fields[i].keys
<1>1. Typed /\ seed # 0 /\ Builds
  BY DEF IInv
<1>2. i = seed \/ i \in ToSet(id_body) \cup ToSet(body)
  BY DEF Folded
<1>3. i \in 1 .. Len(fields)
  BY <1>1, <1>2 DEF Typed, ToSet
<1>4. fields[i].type \in Types
  BY <1>1, <1>3, DeclarableAssumption DEF Typed
<1>5. CASE i = seed
  BY <1>1, <1>3, <1>5 DEF Builds, IsFieldElement
<1>6. CASE BoundHolds(fields[i])
  <2>1. fields[i].type # "Vec<uint256>"
    BY <1>6 DEF BoundHolds, IsFieldElement, vec_elem
  <2>2. fields[i].type = "Ids" => "limbed" \in fields[i].keys
    BY <1>6 DEF BoundHolds, IsFieldElement, vec_elem
  <2> QED BY <1>3, <1>4, <2>1, <2>2 DEF Types
<1> QED BY <1>1, <1>2, <1>5, <1>6 DEF Builds

\* A vector's member is a sequence of bytes32, of fewer elements than the field has.
LEMMA VectorMember ==
  ASSUME NEW v \in SeqsUpTo(Bytes, MaxLen)
  PROVE  v \in Seq(Bytes) /\ Len(v) \in 0 .. MaxLen
<1>1. PICK k \in 0 .. MaxLen : v \in [1 .. k -> Bytes]
  BY DEF SeqsUpTo
<1>2. k \in Nat
  BY DeclarableAssumption
<1> QED BY <1>1, <1>2

\* What a producer sorts the encoder accepts, and it is the same set.
THEOREM Producers == Spec => []ProducersNeverTrip
<1>1. ASSUME IInv PROVE ProducersNeverTrip
  <2> SUFFICES ASSUME outcome = "accepted", NEW x \in Instances, NEW i \in Folded,
                      vec_elem(fields[i].type), \A k \in DOMAIN x[i] : IsCanonical(x[i][k])
               PROVE  /\ SortedSetAccepts(sort_set(x[i]))
                      /\ ToSet(sort_set(x[i])) = ToSet(x[i])
    BY DEF ProducersNeverTrip
  <2>1. i \in 1 .. Len(fields) /\ fields[i].type = "Vec<bytes32>"
    BY <1>1, FoldedTypes DEF vec_elem
  <2>2. x[i] \in MembersOf("Vec<bytes32>")
    BY <1>1, <2>1, InstancesAre DEF IInv, FirstMembers
  <2>3. x[i] \in Seq(Bytes)
    BY <2>2, VectorMember DEF MembersOf
  <2> QED BY <2>3, SortSetIs
<1> QED BY <1>1, InvAlways, PTL

-----------------------------------------------------------------------------
(***************************************************************************)
(* Sequences that tell where they end.                                     *)
(***************************************************************************)
\* From the first element of either, the two have the same length.
Delimited(p, q) ==
  /\ Len(p) >= 1 /\ Len(q) >= 1
  /\ p[1] = q[1] => Len(p) = Len(q)

\* Concatenation, which the provers take apart when it is not hidden.
Joined(p, s) == p \o s

LEMMA JoinedIs ==
  ASSUME NEW p \in Seq(Int), NEW s \in Seq(Int)
  PROVE  /\ Joined(p, s) \in Seq(Int) /\ Len(Joined(p, s)) = Len(p) + Len(s)
         /\ \A i \in 1 .. Len(p) + Len(s) :
              Joined(p, s)[i] = IF i <= Len(p) THEN p[i] ELSE s[i - Len(p)]
BY ConcatProperties DEF Joined

LEMMA JoinedTells ==
  ASSUME NEW p \in Seq(Int), NEW q \in Seq(Int), NEW s \in Seq(Int), NEW t \in Seq(Int),
         Delimited(p, q), Joined(p, s) = Joined(q, t)
  PROVE  p = q /\ s = t
<1>1. Len(p) \in Nat /\ Len(q) \in Nat /\ Len(s) \in Nat /\ Len(t) \in Nat
  BY LenProperties
<1>2. /\ Len(Joined(p, s)) = Len(p) + Len(s)
      /\ \A i \in 1 .. Len(p) + Len(s) : Joined(p, s)[i] = IF i <= Len(p) THEN p[i] ELSE s[i - Len(p)]
  BY JoinedIs
<1>3. /\ Len(Joined(q, t)) = Len(q) + Len(t)
      /\ \A i \in 1 .. Len(q) + Len(t) : Joined(q, t)[i] = IF i <= Len(q) THEN q[i] ELSE t[i - Len(q)]
  BY JoinedIs
<1>4. p[1] = q[1]
  <2>1. 1 \in 1 .. Len(p) + Len(s) /\ 1 \in 1 .. Len(q) + Len(t)
    BY <1>1 DEF Delimited
  <2>2. Joined(p, s)[1] = p[1] /\ Joined(q, t)[1] = q[1]
    BY <1>1, <1>2, <1>3, <2>1 DEF Delimited
  <2> QED BY <2>2
<1>5. Len(p) = Len(q) /\ Len(s) = Len(t)
  BY <1>1, <1>2, <1>3, <1>4 DEF Delimited
<1>6. \A i \in 1 .. Len(p) : p[i] = q[i]
  <2> SUFFICES ASSUME NEW i \in 1 .. Len(p) PROVE p[i] = q[i]
    OBVIOUS
  <2>1. i \in 1 .. Len(p) + Len(s) /\ i <= Len(p)
    BY <1>1
  <2> QED BY <1>2, <1>3, <1>5, <2>1
<1>7. \A i \in 1 .. Len(s) : s[i] = t[i]
  <2> SUFFICES ASSUME NEW i \in 1 .. Len(s) PROVE s[i] = t[i]
    OBVIOUS
  <2>1. /\ Len(p) + i \in 1 .. Len(p) + Len(s) /\ ~ (Len(p) + i <= Len(p))
        /\ (Len(p) + i) - Len(p) = i
    BY <1>1
  <2> QED BY <1>2, <1>3, <1>5, <2>1
<1> QED BY <1>5, <1>6, <1>7, SeqEqual

LEMMA FlattenRecursion ==
  ASSUME NEW p \in Seq(Seq(Int)), Len(p) # 0
  PROVE  \E f : /\ FlattenSeq(p) = f[Len(p)] /\ f \in [1 .. Len(p) -> Seq(Int)]
                /\ f[1] = p[1]
                /\ \A i \in 1 .. Len(p) - 1 : f[i + 1] = Joined(f[i], p[i + 1])
<1> DEFINE n == Len(p)
           V == Seq(Int)
           d == n - 1
           g == [l \in 0 .. d - 1 |-> [X \in V |-> X \o p[l + 2]]]
           Body(f) == [i \in 1 .. n |-> IF i = 1 THEN p[i] ELSE f[i - 1] \o p[i]]
<1>1. n \in Nat /\ n >= 1 /\ d \in Nat /\ \A i \in 1 .. n : p[i] \in V
  BY LenProperties, ElementOfSeq
<1>2. \A X \in V, i \in 1 .. n : X \o p[i] \in V
  BY <1>1, ConcatProperties
<1>3. IsStep(g, d, V)
  <2> HIDE DEF V
  <2>1. \A l \in 0 .. d - 1 : l + 2 \in 1 .. n
    BY <1>1
  <2> QED BY <1>2, <2>1 DEF IsStep
<1>4. PICK h : IsRecursive(h, d, V, p[1], g)
  <2>1. p[1] \in V
    BY <1>1
  <2> HIDE DEF V, g, d
  <2> QED BY <1>1, <1>3, <2>1, Recursion
<1> DEFINE k == [i \in 1 .. n |-> h[i - 1]]
<1>5. h[0] = p[1] /\ h \in [0 .. d -> V]
  <2>1. 0 \in 0 .. d
    BY <1>1
  <2> HIDE DEF V, g, d
  <2> QED BY <1>4, <2>1 DEF IsRecursive
<1>6. ASSUME NEW i \in 1 .. n, i # 1 PROVE k[i] = k[i - 1] \o p[i]
  <2>1. /\ i - 1 \in 0 .. d /\ i - 1 # 0 /\ i - 1 \in 1 .. n
        /\ (i - 1) - 1 \in 0 .. d - 1 /\ (i - 1) - 1 \in 0 .. d
        /\ ((i - 1) - 1) + 2 = i
    BY <1>1, <1>6
  <2>2. h[i - 1] = g[(i - 1) - 1][h[(i - 1) - 1]]
    BY <1>4, <2>1 DEF IsRecursive
  <2>3. h[(i - 1) - 1] \in V
    BY <1>5, <2>1
  <2> HIDE DEF V, d
  <2>4. g[(i - 1) - 1][h[(i - 1) - 1]] = h[(i - 1) - 1] \o p[i]
    BY <2>1, <2>3
  <2> QED BY <2>1, <2>2, <2>4
<1>7. k = Body(k)
  <2>1. k[1] = p[1]
    BY <1>1, <1>5
  <2>2. k = [i \in 1 .. n |-> k[i]]
    OBVIOUS
  <2> HIDE DEF k
  <2> QED BY <1>6, <2>1, <2>2
<1> DEFINE f == CHOOSE f : f = Body(f)
<1>8. FlattenSeq(p) = f[n]
  BY DEF FlattenSeq
<1>9. f = Body(f)
  BY <1>7
<1> HIDE DEF f
<1>10. f[1] = p[1] /\ \A i \in 1 .. n - 1 : f[i + 1] = f[i] \o p[i + 1]
  <2>1. \A i \in 1 .. n : f[i] = IF i = 1 THEN p[i] ELSE f[i - 1] \o p[i]
    BY <1>9
  <2>2. \A i \in 1 .. n - 1 : i + 1 \in 1 .. n /\ i + 1 # 1 /\ (i + 1) - 1 = i
    BY <1>1
  <2>3. 1 \in 1 .. n
    BY <1>1
  <2> QED BY <2>1, <2>2, <2>3
<1>11. f \in [1 .. n -> V]
  <2> DEFINE S == {l \in 0 .. d : f[l + 1] \in V}
  <2>1. 0 \in S
    BY <1>1, <1>10
  <2>2. ASSUME NEW l \in 0 .. d - 1, l \in S PROVE l + 1 \in S
    <3>1. l + 1 \in 1 .. n - 1 /\ l + 1 \in 0 .. d /\ (l + 1) + 1 \in 1 .. n
      BY <1>1
    <3> HIDE DEF V
    <3> QED BY <1>2, <1>10, <2>2, <3>1
  <2>3. \A l \in 0 .. d : l \in S
    <3> HIDE DEF S, d
    <3> QED BY <1>1, <2>1, <2>2, Induction
  <2>4. \A i \in 1 .. n : i - 1 \in 0 .. d /\ (i - 1) + 1 = i
    BY <1>1
  <2>5. \A i \in 1 .. n : f[i] \in V
    <3> HIDE DEF V
    <3> QED BY <2>3, <2>4
  <2> QED BY <1>9, <2>5
<1>12. \A i \in 1 .. n - 1 : f[i + 1] = Joined(f[i], p[i + 1])
  BY <1>10 DEF Joined
<1> QED BY <1>8, <1>10, <1>11, <1>12

LEMMA FlattenType ==
  ASSUME NEW p \in Seq(Seq(Int))
  PROVE  FlattenSeq(p) \in Seq(Int)
<1>1. CASE Len(p) = 0
  <2>1. p = <<>>
    BY <1>1, EmptySeq
  <2> QED BY <1>1, <2>1 DEF FlattenSeq
<1>2. CASE Len(p) # 0
  <2>1. Len(p) \in 1 .. Len(p)
    BY <1>2, LenProperties
  <2>2. PICK f : FlattenSeq(p) = f[Len(p)] /\ f \in [1 .. Len(p) -> Seq(Int)]
    BY <1>2, FlattenRecursion
  <2> QED BY <2>1, <2>2
<1> QED BY <1>1, <1>2

LEMMA JoinedAssociates ==
  ASSUME NEW a \in Seq(Int), NEW b \in Seq(Int), NEW u \in Seq(Int)
  PROVE  /\ Joined(Joined(a, b), u) = Joined(a, Joined(b, u))
         /\ Joined(b, u) \in Seq(Int)
<1>1. Joined(b, u) \in Seq(Int)
  BY JoinedIs
<1>2. Joined(Joined(a, b), u) = Joined(a, Joined(b, u))
  <2> DEFINE ab == Joined(a, b)
             bu == Joined(b, u)
             l == Joined(ab, u)
             r == Joined(a, bu)
  <2>1. Len(a) \in Nat /\ Len(b) \in Nat /\ Len(u) \in Nat
    BY LenProperties
  <2>2. /\ ab \in Seq(Int) /\ Len(ab) = Len(a) + Len(b)
        /\ \A i \in 1 .. Len(a) + Len(b) : ab[i] = IF i <= Len(a) THEN a[i] ELSE b[i - Len(a)]
    BY JoinedIs
  <2>3. /\ bu \in Seq(Int) /\ Len(bu) = Len(b) + Len(u)
        /\ \A i \in 1 .. Len(b) + Len(u) : bu[i] = IF i <= Len(b) THEN b[i] ELSE u[i - Len(b)]
    BY JoinedIs
  <2> HIDE DEF ab, bu
  <2>4. /\ l \in Seq(Int) /\ Len(l) = Len(ab) + Len(u)
        /\ \A i \in 1 .. Len(ab) + Len(u) : l[i] = IF i <= Len(ab) THEN ab[i] ELSE u[i - Len(ab)]
    BY <2>2, JoinedIs
  <2>5. /\ r \in Seq(Int) /\ Len(r) = Len(a) + Len(bu)
        /\ \A i \in 1 .. Len(a) + Len(bu) : r[i] = IF i <= Len(a) THEN a[i] ELSE bu[i - Len(a)]
    BY <2>3, JoinedIs
  <2> HIDE DEF l, r
  <2>6. \A i \in 1 .. Len(l) : l[i] = r[i]
    <3> SUFFICES ASSUME NEW i \in 1 .. Len(a) + Len(b) + Len(u) PROVE l[i] = r[i]
      BY <2>2, <2>4
    <3>0. /\ l[i] = IF i <= Len(a) + Len(b) THEN ab[i] ELSE u[i - (Len(a) + Len(b))]
          /\ r[i] = IF i <= Len(a) THEN a[i] ELSE bu[i - Len(a)]
      <4>1. i \in 1 .. Len(ab) + Len(u) /\ i \in 1 .. Len(a) + Len(bu)
        BY <2>1, <2>2, <2>3
      <4> QED BY <2>2, <2>4, <2>5, <4>1
    <3>1. CASE i <= Len(a)
      <4>1. i \in 1 .. Len(a) + Len(b) /\ i <= Len(a) + Len(b)
        BY <2>1, <3>1
      <4>2. ab[i] = a[i]
        BY <2>2, <3>1, <4>1
      <4> QED BY <3>0, <3>1, <4>1, <4>2
    <3>2. CASE ~ (i <= Len(a)) /\ i <= Len(a) + Len(b)
      <4>1. /\ i - Len(a) \in 1 .. Len(b) + Len(u) /\ i - Len(a) <= Len(b)
            /\ i \in 1 .. Len(a) + Len(b)
        BY <2>1, <3>2
      <4>2. ab[i] = b[i - Len(a)] /\ bu[i - Len(a)] = b[i - Len(a)]
        BY <2>2, <2>3, <3>2, <4>1
      <4> QED BY <3>0, <3>2, <4>2
    <3>3. CASE ~ (i <= Len(a) + Len(b))
      <4>1. /\ i - Len(a) \in 1 .. Len(b) + Len(u) /\ ~ (i - Len(a) <= Len(b))
            /\ ~ (i <= Len(a)) /\ (i - Len(a)) - Len(b) = i - (Len(a) + Len(b))
        BY <2>1, <3>3
      <4>2. bu[i - Len(a)] = u[i - (Len(a) + Len(b))]
        BY <2>3, <4>1
      <4> QED BY <3>0, <3>3, <4>1, <4>2
    <3> QED BY <3>1, <3>2, <3>3
  <2>7. Len(l) = Len(r)
    BY <2>1, <2>2, <2>3, <2>4, <2>5
  <2>8. l = r
    BY <2>4, <2>5, <2>6, <2>7, SeqEqual
  <2> QED BY <2>8 DEF l, r, ab, bu
<1> QED BY <1>1, <1>2

AllDelimited(p, q) == Len(p) = Len(q) /\ \A i \in 1 .. Len(p) : Delimited(p[i], q[i])

SameParts(p, q) == \A i \in 1 .. Len(p) : p[i] = q[i]

\* Flattened sequences of delimited parts, whatever follows them, have the same parts.
LEMMA FlattenTells ==
  ASSUME NEW p \in Seq(Seq(Int)), NEW q \in Seq(Seq(Int)), AllDelimited(p, q),
         NEW s \in Seq(Int), NEW t \in Seq(Int),
         Joined(FlattenSeq(p), s) = Joined(FlattenSeq(q), t)
  PROVE  SameParts(p, q) /\ s = t
<1>0. Len(p) = Len(q) /\ \A i \in 1 .. Len(p) : Delimited(p[i], q[i])
  BY DEF AllDelimited
<1>1. CASE Len(p) = 0
  <2>1. p = <<>> /\ q = <<>>
    BY <1>0, <1>1, EmptySeq
  <2>2. FlattenSeq(p) = <<>> /\ FlattenSeq(q) = <<>>
    BY <1>1, <2>1 DEF FlattenSeq
  <2>3. s = t
    BY <2>2, ConcatEmptySeq DEF Joined
  <2> QED BY <1>1, <2>3 DEF SameParts
<1>2. CASE Len(p) # 0
  <2> DEFINE n == Len(p)
             V == Seq(Int)
  <2>1. n \in Nat /\ n >= 1 /\ \A i \in 1 .. n : p[i] \in V /\ q[i] \in V
    BY <1>0, <1>2, LenProperties, ElementOfSeq
  <2>2. PICK f : /\ FlattenSeq(p) = f[n] /\ f \in [1 .. n -> V] /\ f[1] = p[1]
                 /\ \A i \in 1 .. n - 1 : f[i + 1] = Joined(f[i], p[i + 1])
    BY <1>0, <1>2, FlattenRecursion
  <2>3. PICK h : /\ FlattenSeq(q) = h[n] /\ h \in [1 .. n -> V] /\ h[1] = q[1]
                 /\ \A i \in 1 .. n - 1 : h[i + 1] = Joined(h[i], q[i + 1])
    BY <1>0, <1>2, FlattenRecursion
  <2> DEFINE Same(i) == \A u, v \in V : Joined(f[i], u) = Joined(h[i], v) =>
                          (\A j \in 1 .. i : p[j] = q[j]) /\ u = v
             S == {l \in 0 .. n - 1 : Same(l + 1)}
  <2> HIDE DEF V
  <2>4. 0 \in S
    <3>1. ASSUME NEW u \in V, NEW v \in V, Joined(f[1], u) = Joined(h[1], v)
          PROVE  p[1] = q[1] /\ u = v
      <4>1. p[1] \in V /\ q[1] \in V /\ Delimited(p[1], q[1]) /\ Joined(p[1], u) = Joined(q[1], v)
        BY <1>0, <2>1, <2>2, <2>3, <3>1
      <4> QED BY <4>1, JoinedTells DEF V
    <3>2. \A j \in 1 .. 1 : j = 1
      OBVIOUS
    <3>3. Same(1)
      BY <3>1, <3>2
    <3> HIDE DEF Same
    <3> QED BY <2>1, <3>3
  <2>5. ASSUME NEW l \in 0 .. (n - 1) - 1, l \in S PROVE l + 1 \in S
    <3> DEFINE i == l + 1
    <3>1. i \in 1 .. n - 1 /\ i \in 1 .. n /\ i + 1 \in 1 .. n /\ l + 1 \in 0 .. n - 1
      BY <2>1
    <3>2. Same(i)
      BY <2>5
    <3> HIDE DEF i
    <3>3. ASSUME NEW u \in V, NEW v \in V, Joined(f[i + 1], u) = Joined(h[i + 1], v)
          PROVE  (\A j \in 1 .. i + 1 : p[j] = q[j]) /\ u = v
      <4>1. /\ f[i] \in V /\ h[i] \in V /\ p[i + 1] \in V /\ q[i + 1] \in V
            /\ f[i + 1] = Joined(f[i], p[i + 1]) /\ h[i + 1] = Joined(h[i], q[i + 1])
        BY <2>1, <2>2, <2>3, <3>1
      <4> DEFINE a == f[i]  b == p[i + 1]  c == h[i]  e == q[i + 1]
      <4>2. /\ a \in Seq(Int) /\ b \in Seq(Int) /\ u \in Seq(Int)
            /\ c \in Seq(Int) /\ e \in Seq(Int) /\ v \in Seq(Int)
        BY <4>1 DEF V
      <4> HIDE DEF a, b, c, e
      <4>3. /\ Joined(Joined(a, b), u) = Joined(a, Joined(b, u)) /\ Joined(b, u) \in V
            /\ Joined(Joined(c, e), v) = Joined(c, Joined(e, v)) /\ Joined(e, v) \in V
        <5>1. /\ Joined(Joined(a, b), u) = Joined(a, Joined(b, u))
              /\ Joined(b, u) \in Seq(Int)
          BY ONLY <4>2, JoinedAssociates
        <5>2. /\ Joined(Joined(c, e), v) = Joined(c, Joined(e, v))
              /\ Joined(e, v) \in Seq(Int)
          BY ONLY <4>2, JoinedAssociates
        <5> QED BY <5>1, <5>2 DEF V
      <4>4. (\A j \in 1 .. i : p[j] = q[j]) /\ Joined(b, u) = Joined(e, v)
        BY <3>2, <3>3, <4>1, <4>3 DEF a, b, c, e
      <4>5. p[i + 1] = q[i + 1] /\ u = v
        <5>1. Delimited(b, e)
          BY <1>0, <3>1 DEF b, e
        <5>2. b = e /\ u = v
          BY <4>2, <4>4, <5>1, JoinedTells
        <5> QED BY <5>2 DEF b, e
      <4>6. \A j \in 1 .. i + 1 : j \in 1 .. i \/ j = i + 1
        BY <3>1
      <4> QED BY <4>4, <4>5, <4>6
    <3>4. Same(i + 1)
      BY <3>3
    <3> HIDE DEF Same
    <3> QED BY <3>1, <3>4 DEF i
  <2>6. \A l \in 0 .. n - 1 : l \in S
    <3>1. n - 1 \in Nat
      BY <2>1
    <3> HIDE DEF S
    <3> QED BY <2>4, <2>5, <3>1, Induction
  <2>7. Same(n)
    <3>1. n - 1 \in 0 .. n - 1 /\ (n - 1) + 1 = n
      BY <2>1
    <3> HIDE DEF Same
    <3> QED BY <2>6, <3>1
  <2> QED BY <2>2, <2>3, <2>7 DEF V, SameParts
<1> QED BY <1>1, <1>2

-----------------------------------------------------------------------------
(***************************************************************************)
(* What the generated impl encodes.                                        *)
(***************************************************************************)
\* No field is limbed whose type is the alias: codec.rs has no length for it.
NoLimbedAlias == \A f \in Declarable : f.type = "Ids" => "limbed" \notin f.keys

Encodable == {"u64", "bytes32", "uint256", "Vec<bytes32>"}

\* A member's encoding is a sequence whose first element tells its length, and it
\* tells the member.
Tells(p, q, v, w) ==
  /\ p \in Seq(Int) /\ q \in Seq(Int)
  /\ Delimited(p, q)
  /\ p = q => v = w

LEMMA OneElementTells ==
  ASSUME NEW v \in 0 .. Modulus - 1, NEW w \in 0 .. Modulus - 1
  PROVE  Tells(<<ToElement(v)>>, <<ToElement(w)>>, v, w)
<1>1. ToElement(v) = v /\ ToElement(w) = w
  BY WidthAssumption DEF ToElement
<1> QED BY <1>1 DEF Tells, Delimited

LEMMA LimbsTell ==
  ASSUME NEW v \in Nat, NEW w \in Nat
  PROVE  Tells(u256_limbs_be(v), u256_limbs_be(w), v, w)
<1> DEFINE l(n) == n % LimbBase
           h(n) == n \div LimbBase
<1>1. \A n \in Nat : l(n) \in Int /\ h(n) \in Int /\ n = LimbBase * h(n) + l(n)
  BY WidthAssumption
<1>2. \A n : u256_limbs_be(n) = <<l(n), h(n)>>
  BY DEF u256_limbs_be
<1> HIDE DEF l, h
<1>3. u256_limbs_be(v) = u256_limbs_be(w) => l(v) = l(w) /\ h(v) = h(w)
  BY <1>2
<1>4. u256_limbs_be(v) = u256_limbs_be(w) => v = w
  BY <1>1, <1>3
<1>5. /\ u256_limbs_be(v) \in Seq(Int) /\ u256_limbs_be(w) \in Seq(Int)
      /\ Len(u256_limbs_be(v)) = 2 /\ Len(u256_limbs_be(w)) = 2
  <2>1. \A a, b \in Int : <<a, b>> \in Seq(Int) /\ Len(<<a, b>>) = 2
    OBVIOUS
  <2>2. l(v) \in Int /\ h(v) \in Int /\ l(w) \in Int /\ h(w) \in Int
    BY <1>1
  <2> QED BY <1>2, <2>1, <2>2
<1> QED BY <1>4, <1>5 DEF Tells, Delimited

\* A set's encoding begins with its length.
LEMMA SortedSetIs ==
  ASSUME NEW v \in Seq(Bytes), Len(v) \in 0 .. MaxLen, SortedSetAccepts(v)
  PROVE  /\ SortedSetEncode(v) \in Seq(Int) /\ Len(SortedSetEncode(v)) = Len(v) + 1
         /\ SortedSetEncode(v)[1] = Len(v)
         /\ \A k \in 1 .. Len(v) : SortedSetEncode(v)[k + 1] = v[k]
<1>1. Len(v) \in Nat /\ Len(v) % Modulus = Len(v)
  BY WidthAssumption, ValueAssumption, DeclarableAssumption
<1>2. \A k \in 1 .. Len(v) : v[k] \in Bytes /\ ToElement(v[k]) = v[k] /\ v[k] \in Int
  BY CanonicalElement DEF SortedSetAccepts
<1>3. /\ SliceEncode(v) \in Seq(Int) /\ Len(SliceEncode(v)) = Len(v)
      /\ \A k \in 1 .. Len(v) : SliceEncode(v)[k] = v[k]
  BY <1>1, <1>2 DEF SliceEncode
<1> DEFINE e == <<Len(v)>>
           s == SliceEncode(v)
           c == SortedSetEncode(v)
<1>4. c = e \o s
  BY <1>1 DEF SortedSetEncode
<1>5. e \in Seq(Int) /\ Len(e) = 1 /\ e[1] = Len(v)
  BY <1>1
<1> HIDE DEF e, s, c
<1>6. /\ c \in Seq(Int) /\ Len(c) = 1 + Len(v)
      /\ \A i \in 1 .. 1 + Len(v) : c[i] = IF i <= 1 THEN e[i] ELSE s[i - 1]
  <2>1. s \in Seq(Int) /\ Len(s) = Len(v)
    BY <1>3 DEF s
  <2>2. c = Joined(e, s)
    BY <1>4 DEF Joined
  <2>3. /\ Joined(e, s) \in Seq(Int) /\ Len(Joined(e, s)) = Len(e) + Len(s)
        /\ \A i \in 1 .. Len(e) + Len(s) :
             Joined(e, s)[i] = IF i <= Len(e) THEN e[i] ELSE s[i - Len(e)]
    BY ONLY <1>5, <2>1, JoinedIs
  <2> QED BY <1>5, <2>1, <2>2, <2>3
<1>7. 1 \in 1 .. 1 + Len(v) /\ 1 + Len(v) = Len(v) + 1
  BY <1>1
<1>8. \A k \in 1 .. Len(v) : k + 1 \in 1 .. 1 + Len(v) /\ ~ (k + 1 <= 1) /\ (k + 1) - 1 = k
  BY <1>1
<1>9. \A k \in 1 .. Len(v) : c[k + 1] = v[k]
  <2>1. \A k \in 1 .. Len(v) : s[k] = v[k]
    BY <1>3 DEF s
  <2> QED BY <1>6, <1>8, <2>1
<1>10. c[1] = Len(v)
  BY <1>5, <1>6, <1>7
<1> QED BY <1>6, <1>7, <1>9, <1>10 DEF c

LEMMA SetsTell ==
  ASSUME NEW v \in Seq(Bytes), Len(v) \in 0 .. MaxLen, SortedSetAccepts(v),
         NEW w \in Seq(Bytes), Len(w) \in 0 .. MaxLen, SortedSetAccepts(w)
  PROVE  Tells(SortedSetEncode(v), SortedSetEncode(w), v, w)
<1> DEFINE p == SortedSetEncode(v)
           q == SortedSetEncode(w)
<1>1. /\ p \in Seq(Int) /\ Len(p) = Len(v) + 1 /\ p[1] = Len(v)
      /\ \A k \in 1 .. Len(v) : p[k + 1] = v[k]
  BY SortedSetIs
<1>2. /\ q \in Seq(Int) /\ Len(q) = Len(w) + 1 /\ q[1] = Len(w)
      /\ \A k \in 1 .. Len(w) : q[k + 1] = w[k]
  BY SortedSetIs
<1>3. Len(v) \in Nat /\ Len(w) \in Nat
  BY LenProperties
<1> HIDE DEF p, q
<1>4. Delimited(p, q)
  BY <1>1, <1>2, <1>3 DEF Delimited
<1>5. ASSUME p = q PROVE v = w
  <2>1. Len(v) = Len(w) /\ \A k \in 1 .. Len(v) : v[k] = w[k]
    BY <1>1, <1>2, <1>5
  <2> QED BY <2>1, SeqEqual
<1>6. Tells(p, q, v, w)
  BY <1>1, <1>2, <1>4, <1>5 DEF Tells
<1> QED BY <1>6 DEF p, q

LEMMA MembersTell ==
  ASSUME NEW i, fields[i].type \in Encodable,
         NEW v \in MembersOf(fields[i].type), EncodeSucceeds(i, v),
         NEW w \in MembersOf(fields[i].type), EncodeSucceeds(i, w)
  PROVE  Tells(EncodeMember(i, v), EncodeMember(i, w), v, w)
<1> DEFINE type == fields[i].type
<1>1. CASE type = "u64"
  <2>1. v \in 0 .. Modulus - 1 /\ w \in 0 .. Modulus - 1
    BY <1>1, ValueAssumption DEF MembersOf
  <2>2. EncodeMember(i, v) = <<ToElement(v)>> /\ EncodeMember(i, w) = <<ToElement(w)>>
    BY <1>1 DEF EncodeMember, vec_elem
  <2> QED BY <2>1, <2>2, OneElementTells
<1>2. CASE type = "bytes32"
  <2>1. v \in Bytes /\ w \in Bytes /\ IsCanonical(v) /\ IsCanonical(w)
    BY <1>2 DEF MembersOf, EncodeSucceeds, vec_elem
  <2>2. v \in 0 .. Modulus - 1 /\ w \in 0 .. Modulus - 1
    BY <2>1, CanonicalElement
  <2>3. EncodeMember(i, v) = <<ToElement(v)>> /\ EncodeMember(i, w) = <<ToElement(w)>>
    BY <1>2 DEF EncodeMember, vec_elem
  <2> QED BY <2>2, <2>3, OneElementTells
<1>3. CASE type = "uint256"
  <2>1. v \in Wides /\ w \in Wides
    BY <1>3 DEF MembersOf
  <2>2. v \in Nat /\ w \in Nat
    BY <2>1, ValueAssumption
  <2>3. EncodeMember(i, v) = u256_limbs_be(v) /\ EncodeMember(i, w) = u256_limbs_be(w)
    BY <1>3 DEF EncodeMember, vec_elem
  <2> QED BY <2>2, <2>3, LimbsTell
<1>4. CASE type = "Vec<bytes32>"
  <2>1. v \in SeqsUpTo(Bytes, MaxLen) /\ w \in SeqsUpTo(Bytes, MaxLen)
    BY <1>4 DEF MembersOf
  <2>2. SortedSetAccepts(v) /\ SortedSetAccepts(w)
    BY <1>4 DEF EncodeSucceeds, vec_elem
  <2>3. EncodeMember(i, v) = SortedSetEncode(v) /\ EncodeMember(i, w) = SortedSetEncode(w)
    BY <1>4 DEF EncodeMember, vec_elem
  <2> QED BY <2>1, <2>2, <2>3, VectorMember, SetsTell
<1> QED BY <1>1, <1>2, <1>3, <1>4 DEF Encodable

-----------------------------------------------------------------------------
(***************************************************************************)
(* The preimage.                                                           *)
(***************************************************************************)
\* The encodings of a group's members.
Encoded(group, x) == [k \in DOMAIN group |-> EncodeMember(group[k], x[group[k]])]

AcceptedPair(x, y) ==
  /\ IInv /\ outcome = "accepted" /\ NoLimbedAlias
  /\ x \in Instances /\ y \in Instances /\ Hashable(x) /\ Hashable(y)

LEMMA FoldedTells ==
  ASSUME NEW x, NEW y, AcceptedPair(x, y), NEW i \in Folded
  PROVE  Tells(EncodeMember(i, x[i]), EncodeMember(i, y[i]), x[i], y[i])
<1>1. IInv /\ Typed /\ outcome = "accepted" /\ NoLimbedAlias
  BY DEF AcceptedPair, IInv
<1>2. /\ i \in 1 .. Len(fields)
      /\ fields[i].type \in {"u64", "bytes32", "uint256", "Vec<bytes32>", "Ids"}
      /\ fields[i].type = "Ids" => "limbed" \in fields[i].keys
  BY <1>1, FoldedTypes
<1>3. fields[i] \in Declarable
  BY <1>1, <1>2 DEF Typed
<1>4. fields[i].type \in Encodable
  BY <1>1, <1>2, <1>3 DEF NoLimbedAlias, Encodable
<1>5. FirstMembers(x, Len(fields)) /\ FirstMembers(y, Len(fields))
  BY <1>1, InstancesAre DEF AcceptedPair
<1>6. x[i] \in MembersOf(fields[i].type) /\ y[i] \in MembersOf(fields[i].type)
  BY <1>2, <1>5 DEF FirstMembers
<1>7. EncodeSucceeds(i, x[i]) /\ EncodeSucceeds(i, y[i])
  BY DEF AcceptedPair, Hashable
<1> QED BY <1>4, <1>6, <1>7, MembersTell

LEMMA GroupEncodes ==
  ASSUME NEW x, NEW y, AcceptedPair(x, y), NEW group \in {id_body, body}
  PROVE  /\ Encoded(group, x) \in Seq(Seq(Int)) /\ Encoded(group, y) \in Seq(Seq(Int))
         /\ Len(Encoded(group, x)) = Len(group) /\ Len(Encoded(group, y)) = Len(group)
         /\ Len(group) \in Nat /\ DOMAIN group = 1 .. Len(group)
         /\ \A k \in 1 .. Len(group) :
              Tells(Encoded(group, x)[k], Encoded(group, y)[k], x[group[k]], y[group[k]])
<1>1. Len(group) \in Nat /\ DOMAIN group = 1 .. Len(group)
  BY LenProperties DEF AcceptedPair, IInv, Typed
<1>2. \A k \in DOMAIN group : group[k] \in Folded
  BY DEF Folded, ToSet
<1>3. \A k \in DOMAIN group :
        Tells(EncodeMember(group[k], x[group[k]]), EncodeMember(group[k], y[group[k]]),
              x[group[k]], y[group[k]])
  BY <1>2, FoldedTells
<1>4. /\ \A k \in 1 .. Len(group) : EncodeMember(group[k], x[group[k]]) \in Seq(Int)
      /\ \A k \in 1 .. Len(group) : EncodeMember(group[k], y[group[k]]) \in Seq(Int)
  BY <1>1, <1>3 DEF Tells
<1>5. Encoded(group, x) \in Seq(Seq(Int)) /\ Len(Encoded(group, x)) = Len(group)
  BY <1>1, <1>4 DEF Encoded
<1>6. Encoded(group, y) \in Seq(Seq(Int)) /\ Len(Encoded(group, y)) = Len(group)
  BY <1>1, <1>4 DEF Encoded
<1>7. \A k \in 1 .. Len(group) :
        Tells(Encoded(group, x)[k], Encoded(group, y)[k], x[group[k]], y[group[k]])
  BY <1>1, <1>3 DEF Encoded
<1> QED BY <1>1, <1>5, <1>6, <1>7

\* A group's encoding, whatever follows it, tells the group's members.
LEMMA GroupTells ==
  ASSUME NEW x, NEW y, AcceptedPair(x, y), NEW group \in {id_body, body},
         NEW s \in Seq(Int), NEW t \in Seq(Int),
         Joined(EncodeGroup(group, x), s) = Joined(EncodeGroup(group, y), t)
  PROVE  (\A k \in DOMAIN group : x[group[k]] = y[group[k]]) /\ s = t
<1> DEFINE p == Encoded(group, x)
           q == Encoded(group, y)
<1>1. EncodeGroup(group, x) = FlattenSeq(p) /\ EncodeGroup(group, y) = FlattenSeq(q)
  BY DEF EncodeGroup, Encoded
<1>2. /\ p \in Seq(Seq(Int)) /\ q \in Seq(Seq(Int))
      /\ Len(p) = Len(group) /\ Len(q) = Len(group)
      /\ DOMAIN group = 1 .. Len(group)
      /\ \A k \in 1 .. Len(group) : Tells(p[k], q[k], x[group[k]], y[group[k]])
  BY GroupEncodes
<1> HIDE DEF p, q
<1>3. AllDelimited(p, q)
  BY <1>2 DEF Tells, AllDelimited
<1>4. SameParts(p, q) /\ s = t
  <2>1. Joined(FlattenSeq(p), s) = Joined(FlattenSeq(q), t)
    BY <1>1
  <2>2. p \in Seq(Seq(Int)) /\ q \in Seq(Seq(Int)) /\ s \in Seq(Int) /\ t \in Seq(Int)
    BY <1>2
  <2> QED BY ONLY <1>3, <2>1, <2>2, FlattenTells
<1> QED BY <1>2, <1>4 DEF Tells, SameParts

LEMMA SeedEncodes ==
  ASSUME NEW x, NEW y, AcceptedPair(x, y)
  PROVE  seed \in Folded /\ \A v : EncodeMember(seed, v) = <<ToElement(v)>>
<1>1. Builds
  BY DEF AcceptedPair, IInv
<1>2. fields[seed].type \in {"u64", "bytes32"}
  BY <1>1 DEF Builds, IsFieldElement
<1>3. \A v : EncodeMember(seed, v) = <<ToElement(v)>>
  BY <1>2 DEF EncodeMember, vec_elem
<1> QED BY <1>3 DEF Folded

LEMMA PreimageIs ==
  ASSUME NEW x, NEW y, AcceptedPair(x, y)
  PROVE  /\ EncodeGroup(id_body, x) \in Seq(Int) /\ EncodeGroup(body, x) \in Seq(Int)
         /\ EncodeMember(seed, x[seed]) \in Seq(Int)
         /\ Preimage(x) = Joined(EncodeMember(seed, x[seed]),
                                 Joined(EncodeGroup(id_body, x), EncodeGroup(body, x)))
<1> DEFINE e == EncodeMember(seed, x[seed])
           g == EncodeGroup(id_body, x)
           h == EncodeGroup(body, x)
<1>1. g \in Seq(Int) /\ h \in Seq(Int)
  <2>1. Encoded(id_body, x) \in Seq(Seq(Int)) /\ Encoded(body, x) \in Seq(Seq(Int))
    BY GroupEncodes
  <2>2. g = FlattenSeq(Encoded(id_body, x)) /\ h = FlattenSeq(Encoded(body, x))
    BY DEF EncodeGroup, Encoded
  <2> QED BY <2>1, <2>2, FlattenType
<1>2. e \in Seq(Int) /\ e = <<ToElement(x[seed])>>
  BY SeedEncodes, FoldedTells DEF Tells
<1>3. Preimage(x) = Joined(Joined(<<ToElement(x[seed])>>, g), h)
  BY DEF Preimage, Joined
<1> HIDE DEF e, g, h
<1>4. Joined(Joined(e, g), h) = Joined(e, Joined(g, h))
  BY ONLY <1>1, <1>2, JoinedAssociates
<1>5. Preimage(x) = Joined(e, Joined(g, h))
  BY <1>2, <1>3, <1>4
<1> QED BY <1>1, <1>2, <1>5 DEF e, g, h

\* No two instances that differ in a folded member have one preimage.
LEMMA PreimageTells ==
  ASSUME NEW x, NEW y, AcceptedPair(x, y), Preimage(x) = Preimage(y)
  PROVE  \A i \in Folded : x[i] = y[i]
<1> DEFINE e(z) == EncodeMember(seed, z[seed])
           g(z) == EncodeGroup(id_body, z)
           h(z) == EncodeGroup(body, z)
<1>1. AcceptedPair(y, x)
  BY DEF AcceptedPair
<1>2. /\ e(x) \in Seq(Int) /\ g(x) \in Seq(Int) /\ h(x) \in Seq(Int)
      /\ Preimage(x) = Joined(e(x), Joined(g(x), h(x)))
  BY PreimageIs
<1>3. /\ e(y) \in Seq(Int) /\ g(y) \in Seq(Int) /\ h(y) \in Seq(Int)
      /\ Preimage(y) = Joined(e(y), Joined(g(y), h(y)))
  BY <1>1, PreimageIs
<1>4. Tells(e(x), e(y), x[seed], y[seed])
  BY SeedEncodes, FoldedTells
<1>5. ASSUME NEW s \in Seq(Int), NEW t \in Seq(Int), Joined(g(x), s) = Joined(g(y), t)
      PROVE  (\A k \in DOMAIN id_body : x[id_body[k]] = y[id_body[k]]) /\ s = t
  BY <1>5, GroupTells
<1>6. ASSUME NEW s \in Seq(Int), NEW t \in Seq(Int), Joined(h(x), s) = Joined(h(y), t)
      PROVE  (\A k \in DOMAIN body : x[body[k]] = y[body[k]]) /\ s = t
  BY <1>6, GroupTells
<1> HIDE DEF e, g, h
<1>7. Joined(g(x), h(x)) \in Seq(Int) /\ Joined(g(y), h(y)) \in Seq(Int)
  BY <1>2, <1>3, JoinedIs
<1>8. e(x) = e(y) /\ Joined(g(x), h(x)) = Joined(g(y), h(y))
  <2>1. Joined(e(x), Joined(g(x), h(x))) = Joined(e(y), Joined(g(y), h(y)))
    BY <1>2, <1>3
  <2>2. Delimited(e(x), e(y))
    BY <1>4 DEF Tells
  <2> QED BY <1>2, <1>3, <1>7, <2>1, <2>2, JoinedTells
<1>9. x[seed] = y[seed]
  BY <1>4, <1>8 DEF Tells
<1>10. (\A k \in DOMAIN id_body : x[id_body[k]] = y[id_body[k]]) /\ h(x) = h(y)
  BY <1>2, <1>3, <1>5, <1>8
<1>11. \A k \in DOMAIN body : x[body[k]] = y[body[k]]
  <2>1. <<>> \in Seq(Int) /\ Joined(h(x), <<>>) = Joined(h(y), <<>>)
    BY <1>10
  <2> QED BY <1>6, <2>1
<1> QED BY <1>9, <1>10, <1>11 DEF Folded, ToSet

LEMMA PreimageOfFolded ==
  ASSUME NEW x, NEW y, \A i \in Folded : x[i] = y[i]
  PROVE  Preimage(x) = Preimage(y)
<1>1. ASSUME NEW group \in {id_body, body} PROVE EncodeGroup(group, x) = EncodeGroup(group, y)
  <2>1. \A k \in DOMAIN group : x[group[k]] = y[group[k]]
    BY DEF Folded, ToSet
  <2>2. Encoded(group, x) = Encoded(group, y)
    BY <2>1 DEF Encoded
  <2> QED BY <2>2 DEF EncodeGroup, Encoded
<1>2. x[seed] = y[seed]
  BY DEF Folded
<1> QED BY <1>1, <1>2 DEF Preimage

\* Functions that tell the same elements of a finite set apart have as many values.
LEMMA SameImages ==
  ASSUME NEW H, IsFiniteSet(H), NEW f, NEW g,
         \A x, y \in H : f[x] = f[y] <=> g[x] = g[y]
  PROVE  Cardinality({f[x] : x \in H}) = Cardinality({g[x] : x \in H})
<1> DEFINE A == {f[x] : x \in H}
           B == {g[x] : x \in H}
           of(a) == CHOOSE x \in H : f[x] = a
           b == [a \in A |-> g[of(a)]]
<1>1. \A a \in A : of(a) \in H /\ f[of(a)] = a
  OBVIOUS
<1>2. IsFiniteSet(A)
  BY ImageIsFinite
<1> HIDE DEF of
<1>3. b \in [A -> B]
  BY <1>1
<1>4. ASSUME NEW a \in A, NEW c \in A, b[a] = b[c] PROVE a = c
  <2>1. g[of(a)] = g[of(c)] /\ of(a) \in H /\ of(c) \in H
    BY <1>1, <1>4
  <2>2. f[of(a)] = f[of(c)]
    BY <2>1
  <2> QED BY <1>1, <2>2
<1>5. ASSUME NEW x \in H PROVE \E a \in A : b[a] = g[x]
  <2>1. f[x] \in A /\ of(f[x]) \in H /\ f[of(f[x])] = f[x]
    BY <1>1
  <2>2. g[of(f[x])] = g[x]
    BY <2>1
  <2> QED BY <2>1, <2>2
<1>6. \A z \in B : \E x \in H : z = g[x]
  OBVIOUS
<1> HIDE DEF A, B, b
<1>7. b \in Bijection(A, B)
  BY <1>3, <1>4, <1>5, <1>6 DEF Bijection, Injection, Surjection, IsInjective
<1>8. Cardinality(B) = Cardinality(A)
  BY <1>2, <1>7, FS_Bijection DEF ExistsBijection
<1> QED BY <1>8 DEF A, B

\* Without limbed aliases, an accepted struct's preimage loses nothing of what it
\* folds, whatever its fields are and in whatever order.
THEOREM Injectivity ==
  ASSUME NoLimbedAlias
  PROVE  Spec => []PreimageIsInjective
<1>1. ASSUME IInv PROVE PreimageIsInjective
  <2> SUFFICES ASSUME outcome = "accepted"
               PROVE  LET hashed == {x \in Instances : Hashable(x)}
                      IN  Cardinality({Preimage(x) : x \in hashed})
                            = Cardinality({[i \in Folded |-> x[i]] : x \in hashed})
    BY DEF PreimageIsInjective
  <2> DEFINE H == {x \in Instances : Hashable(x)}
             f == [x \in H |-> Preimage(x)]
             g == [x \in H |-> [i \in Folded |-> x[i]]]
  <2>1. IsFiniteSet(H)
    <3>1. IsFiniteSet(Instances)
      BY <1>1, InstancesAre DEF IInv
    <3>2. H \subseteq Instances
      OBVIOUS
    <3> HIDE DEF H
    <3> QED BY <3>1, <3>2, FS_Subset
  <2>2. ASSUME NEW x \in H, NEW y \in H PROVE f[x] = f[y] <=> g[x] = g[y]
    <3>1. AcceptedPair(x, y)
      BY <1>1 DEF AcceptedPair
    <3> HIDE DEF H
    <3>2. f[x] = Preimage(x) /\ f[y] = Preimage(y)
      OBVIOUS
    <3>3. g[x] = [i \in Folded |-> x[i]] /\ g[y] = [i \in Folded |-> y[i]]
      OBVIOUS
    <3>4. g[x] = g[y] <=> \A i \in Folded : x[i] = y[i]
      BY <3>3
    <3> HIDE DEF f, g
    <3> QED BY <3>1, <3>2, <3>4, PreimageTells, PreimageOfFolded
  <2>3. {Preimage(x) : x \in H} = {f[x] : x \in H}
    <3> HIDE DEF H
    <3> QED OBVIOUS
  <2>4. {[i \in Folded |-> x[i]] : x \in H} = {g[x] : x \in H}
    <3> HIDE DEF H
    <3> QED OBVIOUS
  <2>5. Cardinality({f[x] : x \in H}) = Cardinality({g[x] : x \in H})
    <3> HIDE DEF H, f, g
    <3> QED BY <2>1, <2>2, SameImages
  <2> QED BY <2>3, <2>4, <2>5
<1> QED BY <1>1, InvAlways, PTL
=============================================================================
