-------------------------- MODULE ByteCodecProofs ---------------------------
(***************************************************************************)
(* Proofs about ByteCodec: what is written is what is read, for bytes in   *)
(* any base, keys of any length and fields of any size that fits them.     *)
(***************************************************************************)
EXTENDS ByteCodec, SequenceTheorems, LevelInduction, TLAPS

LEMMA CodecSizes ==
  /\ Order \in Nat \ {0} /\ ByteBase \in Nat \ {0} /\ KeyLen \in Nat \ {0}
  /\ Modulus \in Nat \ {0} /\ LimbBase \in Nat \ {0}
BY CodecAssumption, WidthAssumption

(***************************************************************************)
(* Division.                                                               *)
(***************************************************************************)
LEMMA TimesIsMonotone ==
  ASSUME NEW n \in Nat, NEW p \in Int, NEW q \in Int, p <= q
  PROVE  n * p <= n * q
<1>1. n * (q - p) >= 0
  OBVIOUS
<1>2. n * (q - p) = n * q - n * p
  OBVIOUS
<1> QED BY <1>1, <1>2

LEMMA Division ==
  ASSUME NEW x \in Int, NEW n \in Nat \ {0}
  PROVE  /\ x = n * (x \div n) + (x % n)
         /\ x \div n \in Int /\ x % n \in 0 .. n - 1
OBVIOUS

LEMMA DivisionIsUnique ==
  ASSUME NEW n \in Nat \ {0}, NEW q \in Int, NEW r \in 0 .. n - 1
  PROVE  (n * q + r) \div n = q /\ (n * q + r) % n = r
<1> DEFINE x == n * q + r
           k == x \div n
           s == x % n
<1>1. x \in Int /\ x = n * k + s /\ k \in Int /\ s \in 0 .. n - 1
  BY Division
<1>2. x = n * q + r
  OBVIOUS
<1> HIDE DEF x, k, s
<1>3. ~ (k + 1 <= q)
  <2> SUFFICES ASSUME k + 1 <= q PROVE FALSE
    OBVIOUS
  <2>1. n * (k + 1) <= n * q
    BY <1>1, TimesIsMonotone
  <2>2. n * (k + 1) = n * k + n
    BY <1>1
  <2> QED BY <1>1, <1>2, <2>1, <2>2
<1>4. ~ (q + 1 <= k)
  <2> SUFFICES ASSUME q + 1 <= k PROVE FALSE
    OBVIOUS
  <2>1. n * (q + 1) <= n * k
    BY <1>1, TimesIsMonotone
  <2>2. n * (q + 1) = n * q + n
    OBVIOUS
  <2> QED BY <1>1, <1>2, <2>1, <2>2
<1>5. k = q
  BY <1>1, <1>3, <1>4
<1>6. s = r
  BY <1>1, <1>2, <1>5
<1> QED BY <1>5, <1>6 DEF x, k, s

LEMMA QuotientIsLess ==
  ASSUME NEW a \in Nat, NEW n \in Nat \ {0}, NEW p \in Nat, a < n * p
  PROVE  a \div n < p /\ a \div n \in Nat
<1> DEFINE k == a \div n
           s == a % n
<1>1. a = n * k + s /\ k \in Int /\ s \in 0 .. n - 1
  BY Division
<1>2. k \in Nat
  OBVIOUS
<1> HIDE DEF k, s
<1>3. ~ (p <= k)
  <2> SUFFICES ASSUME p <= k PROVE FALSE
    OBVIOUS
  <2>1. n * p <= n * k
    BY <1>1, TimesIsMonotone
  <2> QED BY <1>1, <2>1
<1> QED BY <1>1, <1>2, <1>3 DEF k

(***************************************************************************)
(* The equations of the recursive functions.                               *)
(***************************************************************************)
LEMMA PowerEquations ==
  /\ Power \in [0 .. KeyLen -> Nat]
  /\ Power[0] = 1
  /\ \A k \in 0 .. KeyLen - 1 : Power[k + 1] = ByteBase * Power[k]
<1> DEFINE Body(f) == [k \in 0 .. KeyLen |-> IF k = 0 THEN 1 ELSE ByteBase * f[k - 1]]
           g == [l \in 0 .. KeyLen - 1 |-> [x \in Nat |-> ByteBase * x]]
<1>1. KeyLen \in Nat /\ 1 \in Nat /\ \A x \in Nat : ByteBase * x \in Nat
  BY CodecSizes
<1>2. IsStep(g, KeyLen, Nat)
  BY <1>1 DEF IsStep
<1>3. PICK f : IsRecursive(f, KeyLen, Nat, 1, g)
  <2> HIDE DEF g
  <2> QED BY <1>1, <1>2, Recursion
<1>4. ASSUME NEW k \in 0 .. KeyLen, k # 0
      PROVE  g[k - 1][f[k - 1]] = ByteBase * f[k - 1]
  <2>1. k - 1 \in 0 .. KeyLen - 1 /\ k - 1 \in 0 .. KeyLen
    BY <1>1, <1>4
  <2>2. f[k - 1] \in Nat
    BY <2>1, <1>3 DEF IsRecursive
  <2> QED BY <2>1, <2>2
<1>5. f = Body(f)
  <2> HIDE DEF g
  <2> QED BY <1>3, <1>4 DEF IsRecursive
<1>6. Power = Body(Power)
  BY <1>5 DEF Power
<1>7. \A k \in 0 .. KeyLen : Power[k] = IF k = 0 THEN 1 ELSE ByteBase * Power[k - 1]
  BY <1>6
<1>8. Power[0] = 1
  BY <1>1, <1>7
<1>9. ASSUME NEW k \in 0 .. KeyLen - 1 PROVE Power[k + 1] = ByteBase * Power[k]
  <2>1. k + 1 \in 0 .. KeyLen /\ k + 1 # 0 /\ (k + 1) - 1 = k
    BY <1>1
  <2> QED BY <2>1, <1>7
<1>10. Power = [k \in 0 .. KeyLen |-> Power[k]]
  BY <1>6, <1>7
<1>11. Power \in [0 .. KeyLen -> Nat]
  <2>1. \A k \in 0 .. KeyLen - 1 : Power[k] \in Nat => Power[k + 1] \in Nat
    BY <1>1, <1>9
  <2> QED BY <1>1, <1>8, <2>1, <1>10, StaysInType
<1> QED BY <1>8, <1>9, <1>11

LEMMA QuotientsEquations ==
  ASSUME NEW n \in Nat
  PROVE  /\ Quotients(n) \in [0 .. KeyLen -> Nat]
         /\ Quotients(n)[0] = n
         /\ \A k \in 0 .. KeyLen - 1 : Quotients(n)[k + 1] = Quotients(n)[k] \div ByteBase
<1> DEFINE Body(f) == [k \in 0 .. KeyLen |-> IF k = 0 THEN n ELSE f[k - 1] \div ByteBase]
           g == [l \in 0 .. KeyLen - 1 |-> [x \in Nat |-> x \div ByteBase]]
           q == Quotients(n)
<1>1. KeyLen \in Nat /\ \A x \in Nat : x \div ByteBase \in Nat
  BY CodecSizes
<1>2. IsStep(g, KeyLen, Nat)
  BY <1>1 DEF IsStep
<1>3. PICK f : IsRecursive(f, KeyLen, Nat, n, g)
  <2> HIDE DEF g
  <2> QED BY <1>1, <1>2, Recursion
<1>4. ASSUME NEW k \in 0 .. KeyLen, k # 0
      PROVE  g[k - 1][f[k - 1]] = f[k - 1] \div ByteBase
  <2>1. k - 1 \in 0 .. KeyLen - 1 /\ k - 1 \in 0 .. KeyLen
    BY <1>1, <1>4
  <2>2. f[k - 1] \in Nat
    BY <2>1, <1>3 DEF IsRecursive
  <2> QED BY <2>1, <2>2
<1>5. f = Body(f)
  <2> HIDE DEF g
  <2> QED BY <1>3, <1>4 DEF IsRecursive
<1>6. q = Body(q)
  <2>1. q = CHOOSE h : h = Body(h)
    BY DEF Quotients
  <2> QED BY <1>5, <2>1
<1> HIDE DEF q
<1>7. \A k \in 0 .. KeyLen : q[k] = IF k = 0 THEN n ELSE q[k - 1] \div ByteBase
  BY <1>6
<1>8. q[0] = n
  BY <1>1, <1>7
<1>9. ASSUME NEW k \in 0 .. KeyLen - 1 PROVE q[k + 1] = q[k] \div ByteBase
  <2>1. k + 1 \in 0 .. KeyLen /\ k + 1 # 0 /\ (k + 1) - 1 = k
    BY <1>1
  <2> QED BY <2>1, <1>7
<1>10. q = [k \in 0 .. KeyLen |-> q[k]]
  BY <1>6, <1>7
<1>11. q \in [0 .. KeyLen -> Nat]
  <2>1. \A k \in 0 .. KeyLen - 1 : q[k] \in Nat => q[k + 1] \in Nat
    BY <1>1, <1>9
  <2> QED BY <1>1, <1>8, <2>1, <1>10, StaysInType
<1> QED BY <1>8, <1>9, <1>11 DEF q

LEMMA HornerEquations ==
  ASSUME NEW bytes \in Seq(Nat)
  PROVE  /\ Horner(bytes) \in [0 .. Len(bytes) -> Nat]
         /\ Horner(bytes)[0] = 0
         /\ \A k \in 0 .. Len(bytes) - 1 :
              Horner(bytes)[k + 1] = Horner(bytes)[k] * ByteBase + bytes[k + 1]
<1> DEFINE d == Len(bytes)
           Body(f) == [k \in 0 .. d |-> IF k = 0 THEN 0 ELSE f[k - 1] * ByteBase + bytes[k]]
           g == [l \in 0 .. d - 1 |-> [x \in Nat |-> x * ByteBase + bytes[l + 1]]]
           v == Horner(bytes)
<1>1. d \in Nat /\ 0 \in Nat /\ \A k \in 1 .. d : bytes[k] \in Nat
  BY LenProperties, ElementOfSeq
<1>2. \A x \in Nat, y \in Nat : x * ByteBase + y \in Nat
  BY CodecSizes
<1>3. v = CHOOSE h : h = Body(h)
  BY DEF Horner
<1> HIDE DEF d, v
<1>4. IsStep(g, d, Nat)
  <2>1. ASSUME NEW l \in 0 .. d - 1, NEW x \in Nat PROVE x * ByteBase + bytes[l + 1] \in Nat
    <3>1. l + 1 \in 1 .. d
      BY <1>1
    <3> QED BY <3>1, <1>1, <1>2
  <2> QED BY <2>1 DEF IsStep
<1>5. PICK f : IsRecursive(f, d, Nat, 0, g)
  <2> HIDE DEF g
  <2> QED BY <1>1, <1>4, Recursion
<1>6. ASSUME NEW k \in 0 .. d, k # 0
      PROVE  g[k - 1][f[k - 1]] = f[k - 1] * ByteBase + bytes[k]
  <2>1. k - 1 \in 0 .. d - 1 /\ k - 1 \in 0 .. d /\ (k - 1) + 1 = k
    BY <1>1, <1>6
  <2>2. f[k - 1] \in Nat
    BY <2>1, <1>5 DEF IsRecursive
  <2> QED BY <2>1, <2>2
<1>7. f = Body(f)
  <2> HIDE DEF g
  <2> QED BY <1>5, <1>6 DEF IsRecursive
<1>8. v = Body(v)
  BY <1>3, <1>7
<1>9. \A k \in 0 .. d : v[k] = IF k = 0 THEN 0 ELSE v[k - 1] * ByteBase + bytes[k]
  BY <1>8
<1>10. v[0] = 0
  BY <1>1, <1>9
<1>11. ASSUME NEW k \in 0 .. d - 1 PROVE v[k + 1] = v[k] * ByteBase + bytes[k + 1]
  <2>1. k + 1 \in 0 .. d /\ k + 1 # 0 /\ (k + 1) - 1 = k
    BY <1>1
  <2> QED BY <2>1, <1>9
<1>12. v = [k \in 0 .. d |-> v[k]]
  BY <1>8, <1>9
<1>13. v \in [0 .. d -> Nat]
  <2>1. ASSUME NEW k \in 0 .. d - 1, v[k] \in Nat PROVE v[k + 1] \in Nat
    <3>1. k + 1 \in 1 .. d
      BY <1>1
    <3> QED BY <2>1, <3>1, <1>1, <1>2, <1>11
  <2> QED BY <1>1, <1>10, <2>1, <1>12, StaysInType
<1> QED BY <1>10, <1>11, <1>13 DEF v, d

-----------------------------------------------------------------------------
(***************************************************************************)
(* Numbers and their bytes.                                                *)
(***************************************************************************)
Byte == 0 .. ByteBase - 1

LEMMA LeBytesType ==
  ASSUME NEW n \in Nat
  PROVE  /\ LeBytes(n) \in Seq(Byte) /\ Len(LeBytes(n)) = KeyLen
         /\ \A i \in 1 .. KeyLen : LeBytes(n)[i] = Quotients(n)[i - 1] % ByteBase
<1>1. ASSUME NEW i \in 1 .. KeyLen
      PROVE  Quotients(n)[i - 1] % ByteBase \in Byte
  <2>1. Quotients(n)[i - 1] \in Nat
    BY QuotientsEquations, CodecSizes
  <2>2. \A x \in Nat : x % ByteBase \in Byte
    BY CodecSizes, Division DEF Byte
  <2> QED BY <2>1, <2>2
<1>2. LeBytes(n) \in [1 .. KeyLen -> Byte]
  BY <1>1 DEF LeBytes
<1>3. \A i \in 1 .. KeyLen : LeBytes(n)[i] = Quotients(n)[i - 1] % ByteBase
  BY DEF LeBytes
<1>4. LeBytes(n) \in Seq(Byte) /\ Len(LeBytes(n)) = KeyLen
  <2> HIDE DEF Byte
  <2> QED BY <1>2, CodecSizes
<1> QED BY <1>3, <1>4

LEMMA ReverseType ==
  ASSUME NEW S, NEW s \in Seq(S)
  PROVE  /\ Reverse(s) \in Seq(S) /\ Len(Reverse(s)) = Len(s)
         /\ \A i \in 1 .. Len(s) : Reverse(s)[i] = s[(Len(s) - i) + 1]
<1> DEFINE n == Len(s)
           r == [i \in 1 .. n |-> s[(n - i) + 1]]
<1>1. n \in Nat /\ \A i \in 1 .. n : s[i] \in S
  BY LenProperties, ElementOfSeq
<1>2. r = Reverse(s)
  BY DEF Reverse
<1> HIDE DEF n
<1>3. \A i \in 1 .. n : s[(n - i) + 1] \in S
  <2>1. \A i \in 1 .. n : (n - i) + 1 \in 1 .. n
    BY <1>1
  <2> QED BY <1>1, <2>1
<1>4. r \in [1 .. n -> S] /\ \A i \in 1 .. n : r[i] = s[(n - i) + 1]
  BY <1>3
<1> HIDE DEF r
<1>5. r \in Seq(S) /\ Len(r) = n
  BY <1>1, <1>4
<1> QED BY <1>2, <1>4, <1>5 DEF n

LEMMA BytesAreNumbers == Byte \subseteq Nat /\ Seq(Byte) \subseteq Seq(Nat)
<1>1. Byte \subseteq Nat
  BY DEF Byte
<1> HIDE DEF Byte
<1> QED BY <1>1, SeqMonotonic

LEMMA FromBeType ==
  ASSUME NEW bytes \in Seq(Byte)
  PROVE  FromBe(bytes) \in Nat
<1>1. bytes \in Seq(Nat) /\ Len(bytes) \in 0 .. Len(bytes)
  BY BytesAreNumbers, LenProperties
<1> QED BY <1>1, HornerEquations DEF FromBe

\* Of a number that fits, no quotient is left when all bytes are taken.
LEMMA QuotientsVanish ==
  ASSUME NEW n \in Nat, n < Power[KeyLen]
  PROVE  Quotients(n)[KeyLen] = 0
<1> DEFINE q == Quotients(n)
           S == {k \in 0 .. KeyLen : q[k] < Power[KeyLen - k]}
<1>1. KeyLen \in Nat /\ ByteBase \in Nat \ {0}
  BY CodecSizes
<1>2. /\ q \in [0 .. KeyLen -> Nat] /\ q[0] = n
      /\ \A k \in 0 .. KeyLen - 1 : q[k + 1] = q[k] \div ByteBase
  BY QuotientsEquations
<1>3. /\ Power \in [0 .. KeyLen -> Nat] /\ Power[0] = 1
      /\ \A k \in 0 .. KeyLen - 1 : Power[k + 1] = ByteBase * Power[k]
  BY PowerEquations
<1> HIDE DEF q
<1>4. 0 \in S
  BY <1>1, <1>2
<1>5. ASSUME NEW k \in 0 .. KeyLen - 1, k \in S PROVE k + 1 \in S
  <2> DEFINE j == KeyLen - (k + 1)
             p == Power[j]
  <2>1. j \in 0 .. KeyLen - 1 /\ j + 1 = KeyLen - k /\ j \in 0 .. KeyLen /\ k \in 0 .. KeyLen
        /\ k + 1 \in 0 .. KeyLen
    BY <1>1
  <2>2. q[k] < Power[j + 1] /\ Power[j + 1] = ByteBase * Power[j]
    BY <1>3, <1>5, <2>1
  <2>3. q[k] \in Nat /\ Power[j] \in Nat
    BY <1>2, <1>3, <2>1
  <2> HIDE DEF j
  <2>4. q[k] \div ByteBase < Power[j]
    BY <1>1, <2>2, <2>3, QuotientIsLess
  <2>5. q[k + 1] = q[k] \div ByteBase
    BY <1>2
  <2> QED BY <2>1, <2>4, <2>5 DEF j
<1>6. \A k \in 0 .. KeyLen : k \in S
  <2> HIDE DEF S
  <2> QED BY <1>1, <1>4, <1>5, Induction
<1>7. KeyLen \in 0 .. KeyLen /\ KeyLen - KeyLen = 0
  BY <1>1
<1>8. q[KeyLen] < 1 /\ q[KeyLen] \in Nat
  BY <1>2, <1>3, <1>6, <1>7
<1> QED BY <1>8 DEF q

\* The bytes of a number that fits are its big-endian form when they are reversed.
LEMMA BytesAreRead ==
  ASSUME NEW n \in Nat, n < Power[KeyLen]
  PROVE  FromBe(Reverse(LeBytes(n))) = n
<1> DEFINE q == Quotients(n)
           b == Reverse(LeBytes(n))
           v == Horner(b)
           S == {k \in 0 .. KeyLen : v[k] = q[KeyLen - k]}
<1>1. KeyLen \in Nat /\ ByteBase \in Nat \ {0}
  BY CodecSizes
<1>2. /\ q \in [0 .. KeyLen -> Nat] /\ q[0] = n /\ q[KeyLen] = 0
      /\ \A k \in 0 .. KeyLen - 1 : q[k + 1] = q[k] \div ByteBase
  BY QuotientsEquations, QuotientsVanish
<1>3. /\ LeBytes(n) \in Seq(Byte) /\ Len(LeBytes(n)) = KeyLen
      /\ \A i \in 1 .. KeyLen : LeBytes(n)[i] = q[i - 1] % ByteBase
  BY LeBytesType
<1>4. /\ b \in Seq(Byte) /\ Len(b) = KeyLen
      /\ \A i \in 1 .. KeyLen : b[i] = LeBytes(n)[(KeyLen - i) + 1]
  BY <1>3, ReverseType
<1>5. FromBe(b) = v[KeyLen]
  BY <1>4 DEF FromBe
<1> HIDE DEF b
<1>6. v[0] = 0 /\ \A k \in 0 .. KeyLen - 1 : v[k + 1] = v[k] * ByteBase + b[k + 1]
  BY <1>4, BytesAreNumbers, HornerEquations
<1> HIDE DEF v, q
<1>7. 0 \in S
  BY <1>1, <1>2, <1>6
<1>8. ASSUME NEW k \in 0 .. KeyLen - 1, k \in S PROVE k + 1 \in S
  <2> DEFINE j == KeyLen - (k + 1)
  <2>1. /\ j \in 0 .. KeyLen - 1 /\ j \in 0 .. KeyLen /\ j + 1 = KeyLen - k
        /\ k + 1 \in 1 .. KeyLen /\ (KeyLen - (k + 1)) + 1 = j + 1
        /\ j + 1 \in 1 .. KeyLen /\ (j + 1) - 1 = j /\ k + 1 \in 0 .. KeyLen
    BY <1>1
  <2>2. b[k + 1] = q[j] % ByteBase
    BY <1>3, <1>4, <2>1
  <2>3. v[k] = q[j] \div ByteBase
    BY <1>2, <1>8, <2>1
  <2>4. q[j] \in Nat
    BY <1>2, <2>1
  <2>5. v[k + 1] = v[k] * ByteBase + b[k + 1]
    BY <1>6
  <2>6. q[j] = ByteBase * (q[j] \div ByteBase) + (q[j] % ByteBase)
        /\ q[j] \div ByteBase \in Int
    <3>1. \A x \in Nat : x = ByteBase * (x \div ByteBase) + (x % ByteBase)
                         /\ x \div ByteBase \in Int
      BY <1>1, Division
    <3> QED BY <2>4, <3>1
  <2> HIDE DEF j
  <2>7. v[k + 1] = q[j]
    BY <1>1, <2>2, <2>3, <2>5, <2>6
  <2> QED BY <2>1, <2>7 DEF j
<1>9. \A k \in 0 .. KeyLen : k \in S
  <2> HIDE DEF S
  <2> QED BY <1>1, <1>7, <1>8, Induction
<1>10. KeyLen \in 0 .. KeyLen /\ KeyLen - KeyLen = 0
  BY <1>1
<1>11. v[KeyLen] = n
  BY <1>2, <1>9, <1>10
<1> QED BY <1>5, <1>11 DEF b

LEMMA NumbersReduce ==
  ASSUME NEW n \in Nat, n < Power[KeyLen]
  PROVE  field_from_be32(Reverse(LeBytes(n))) = n % Modulus
BY BytesAreRead DEF field_from_be32, ToElement

LEMMA ElementType ==
  ASSUME NEW bytes \in Seq(Byte)
  PROVE  field_from_be32(bytes) \in 0 .. Modulus - 1
<1>1. \A x \in Nat : x % Modulus \in 0 .. Modulus - 1
  BY CodecSizes, Division
<1>2. FromBe(bytes) \in Nat
  BY FromBeType
<1> QED BY <1>1, <1>2 DEF field_from_be32, ToElement

-----------------------------------------------------------------------------
(***************************************************************************)
(* Points.                                                                 *)
(***************************************************************************)
LEMMA NegativeIs ==
  ASSUME NEW P \in 0 .. Order - 1
  PROVE  Negative(P) = IF P = 0 THEN 0 ELSE Order - P
<1>1. Order \in Nat \ {0}
  BY CodecSizes
<1>2. CASE P = 0
  <2>1. (Order * 1 + 0) % Order = 0 /\ Order * 1 + 0 = Order - P
    BY <1>1, <1>2, DivisionIsUnique
  <2> QED BY <1>2, <2>1 DEF Negative
<1>3. CASE P # 0
  <2>1. Order - P \in 0 .. Order - 1 /\ Order * 0 + (Order - P) = Order - P
    BY <1>1, <1>3
  <2>2. (Order * 0 + (Order - P)) % Order = Order - P
    BY <1>1, <2>1, DivisionIsUnique
  <2> QED BY <1>3, <2>1, <2>2 DEF Negative
<1> QED BY <1>2, <1>3

\* The order is odd: a point is its own negative only at infinity.
LEMMA NegativeDiffers ==
  ASSUME NEW P \in 1 .. Order - 1
  PROVE  P # Order - P
<1> SUFFICES ASSUME P = Order - P PROVE FALSE
  OBVIOUS
<1>1. Order = 2 * P + 0
  BY CodecSizes
<1>2. Order % 2 = 0
  BY <1>1, DivisionIsUnique
<1> QED BY <1>2, CodecAssumption

\* A point and its negative, and no other, have one x.
LEMMA XCoordinates ==
  ASSUME NEW P \in 1 .. Order - 1
  PROVE  /\ x_of(P) \in 1 .. Order - 1 /\ x_of(P) \in Nat /\ x_of(P) < Modulus
         /\ Negative(P) = Order - P /\ Negative(P) \in 1 .. Order - 1
         /\ x_of(P) = P \/ x_of(P) = Negative(P)
         /\ x_of(P) < Negative(x_of(P)) /\ x_of(x_of(P)) = x_of(P)
         /\ Negative(x_of(P)) \in 1 .. Order - 1
         /\ x_of(Negative(x_of(P))) = x_of(P)
<1>1. Order \in Nat \ {0} /\ P \in 0 .. Order - 1
  BY CodecSizes
<1>2. Negative(P) = Order - P /\ Negative(P) \in 1 .. Order - 1 /\ P # Order - P
  BY <1>1, NegativeIs, NegativeDiffers
<1>3. Negative(Order - P) = P
  BY <1>1, NegativeIs
<1>4. x_of(P) = IF P < Order - P THEN P ELSE Order - P
  BY <1>2 DEF x_of
<1>5. x_of(P) < Modulus
  BY <1>1, CodecAssumption DEF IsCanonical
<1>6. CASE P < Order - P
  <2>1. x_of(P) = P /\ x_of(Order - P) = P
    BY <1>1, <1>2, <1>3, <1>6 DEF x_of
  <2> QED BY <1>1, <1>2, <1>5, <1>6, <2>1
<1>7. CASE ~ (P < Order - P)
  <2>1. x_of(P) = Order - P /\ x_of(Order - P) = Order - P
    BY <1>1, <1>2, <1>3, <1>7 DEF x_of
  <2> QED BY <1>1, <1>2, <1>3, <1>5, <1>7, <2>1
<1> QED BY <1>6, <1>7

LEMMA SameX ==
  ASSUME NEW P \in 1 .. Order - 1, NEW Q \in 1 .. Order - 1, x_of(P) = x_of(Q)
  PROVE  UpToSign(P, Q)
<1>1. Order \in Nat
  BY CodecSizes
<1>2. /\ x_of(P) = P \/ x_of(P) = Order - P
      /\ x_of(Q) = Q \/ (x_of(Q) = Order - Q /\ Negative(Q) = Order - Q)
  BY XCoordinates
<1>3. Negative(Q) = Order - Q
  BY XCoordinates
<1> QED BY <1>1, <1>2, <1>3 DEF UpToSign

LEMMA Signs ==
  ASSUME NEW P \in 1 .. Order - 1, NEW Q, UpToSign(Q, P)
  PROVE  /\ Q \in 1 .. Order - 1 /\ x_of(Q) = x_of(P) /\ UpToSign(P, Q)
         /\ Q = P \/ Q = Order - P
<1>1. CASE Q = P
  BY <1>1 DEF UpToSign
<1>2. CASE Q = Negative(P)
  <2>1. Order \in Nat /\ Q = Order - P /\ Q \in 1 .. Order - 1
    BY <1>2, CodecSizes, XCoordinates
  <2>2. Negative(Q) = Order - Q
    BY <2>1, XCoordinates
  <2>3. P = Negative(Q) /\ P # Q
    BY <2>1, <2>2, NegativeDiffers
  <2>4. x_of(Q) = x_of(P)
    BY <1>2, <2>1, <2>3 DEF x_of
  <2> QED BY <2>1, <2>3, <2>4 DEF UpToSign
<1> QED BY <1>1, <1>2 DEF UpToSign

-----------------------------------------------------------------------------
(***************************************************************************)
(* Keys and secrets.                                                       *)
(***************************************************************************)
LEMMA FlagsFit ==
  /\ FlagUnit \in Nat \ {0} /\ Modulus <= FlagUnit
  /\ Power[KeyLen] \in Nat /\ 4 * FlagUnit <= Power[KeyLen]
<1>1. Power[KeyLen] \in Nat
  BY PowerEquations, CodecSizes
<1>2. FlagUnit \in Int /\ 4 * FlagUnit <= Power[KeyLen]
  <2> DEFINE p == Power[KeyLen]
  <2> HIDE DEF p
  <2>1. p \in Nat
    BY <1>1 DEF p
  <2>2. p \div 4 \in Int /\ 4 * (p \div 4) <= p
    BY <2>1
  <2> QED BY <2>2 DEF p, FlagUnit
<1>3. Modulus <= FlagUnit /\ Modulus \in Nat \ {0}
  BY CodecSizes, CodecAssumption
<1> QED BY <1>1, <1>2, <1>3

\* Whatever is read is a point.
LEMMA KeyType ==
  ASSUME NEW bytes, public_key_from_bytes(bytes).kind = "ok"
  PROVE  public_key_from_bytes(bytes).value \in 0 .. Order - 1
<1> DEFINE n == FromBe(Reverse(Read(bytes)))
           points == {P \in 1 .. Order - 1 : x_of(P) = n % FlagUnit /\ Flag(P) = n \div FlagUnit}
<1>1. CASE public_key_from_bytes(bytes) = Ok(Identity)
  BY <1>1, CodecSizes DEF Ok, Identity
<1>2. CASE points # {} /\ public_key_from_bytes(bytes) = Ok(CHOOSE P \in points : TRUE)
  <2>1. (CHOOSE P \in points : TRUE) \in points
    BY <1>2
  <2> QED BY <1>2, <2>1, CodecSizes DEF Ok
<1> QED BY <1>1, <1>2 DEF public_key_from_bytes, Err

\* The bytes of a number are all read.
LEMMA AllIsRead ==
  ASSUME NEW n \in Nat
  PROVE  ~ TooShort(LeBytes(n)) /\ Read(LeBytes(n)) = LeBytes(n)
<1>1. LeBytes(n) \in Seq(Byte) /\ Len(LeBytes(n)) = KeyLen /\ KeyLen \in Nat
  BY LeBytesType, CodecSizes
<1> QED BY <1>1, SubSeqFull DEF TooShort, Read

\* A compressed point, under either flag of a sign, is read as a point with its x.
LEMMA KeyReads ==
  ASSUME NEW P \in 1 .. Order - 1, NEW flag \in {YIsPositive, YIsNegative}
  PROVE  LET key == public_key_from_bytes(LeBytes(x_of(P) + flag * FlagUnit))
         IN  /\ key.kind = "ok" /\ UpToSign(key.value, P)
             /\ flag = Flag(P) => key.value = P
<1> DEFINE x == x_of(P)
           m == x + flag * FlagUnit
           bytes == LeBytes(m)
           points == {Q \in 1 .. Order - 1 : x_of(Q) = x /\ Flag(Q) = flag}
           key == public_key_from_bytes(bytes)
<1>1. /\ x \in 1 .. Order - 1 /\ x \in Nat /\ x < Modulus
      /\ FlagUnit \in Nat \ {0} /\ Modulus <= FlagUnit /\ flag \in 0 .. 2
      /\ Order \in Nat /\ Modulus \in Nat
  BY XCoordinates, FlagsFit, CodecSizes DEF YIsPositive, YIsNegative
<1>2. m \in Nat /\ m < Power[KeyLen] /\ m % FlagUnit = x /\ m \div FlagUnit = flag
  <2> HIDE DEF x
  <2>1. m = FlagUnit * flag + x /\ x \in 0 .. FlagUnit - 1
    BY <1>1
  <2>2. FlagUnit * flag <= FlagUnit * 2
    BY <1>1, TimesIsMonotone
  <2>3. m % FlagUnit = x /\ m \div FlagUnit = flag
    BY <1>1, <2>1, DivisionIsUnique
  <2> HIDE DEF m
  <2> QED BY <1>1, <2>1, <2>2, <2>3, FlagsFit
<1>3. ~ TooShort(bytes) /\ Read(bytes) = bytes
  <2> HIDE DEF m
  <2> QED BY <1>2, AllIsRead
<1>4. FromBe(Reverse(Read(bytes))) = m
  BY <1>2, <1>3, BytesAreRead
<1>5. IsCanonical(x) /\ flag # PointAtInfinity
  BY <1>1 DEF IsCanonical, YIsPositive, YIsNegative, PointAtInfinity
<1>6. points # {}
  <2>1. CASE flag = YIsPositive
    <3>1. x_of(x) = x /\ Flag(x) = YIsPositive
      BY <1>1, XCoordinates DEF Flag, Identity
    <3> QED BY <1>1, <2>1, <3>1
  <2>2. CASE flag = YIsNegative
    <3>1. Negative(x) \in 1 .. Order - 1 /\ x_of(Negative(x)) = x /\ Negative(x) # x
      BY <1>1, XCoordinates
    <3>2. Flag(Negative(x)) = YIsNegative
      BY <1>1, <3>1 DEF Flag, Identity
    <3> QED BY <2>2, <3>1, <3>2
  <2> QED BY <2>1, <2>2
<1> HIDE DEF m, bytes
<1>7. key = Ok(CHOOSE Q \in points : TRUE)
  BY <1>2, <1>3, <1>4, <1>5, <1>6 DEF public_key_from_bytes
<1>8. key.kind = "ok" /\ key.value \in points
  BY <1>6, <1>7 DEF Ok
<1>9. UpToSign(key.value, P)
  BY <1>8, SameX
<1>10. ASSUME flag = Flag(P) PROVE key.value = P
  <2>1. key.value = P \/ key.value = Order - P
    BY <1>9, Signs
  <2>2. ASSUME key.value = Order - P PROVE FALSE
    <3>1. P # Order - P /\ P # 0 /\ Order - P # 0 /\ P \in Nat
      BY <1>1, NegativeDiffers
    <3>2. x = P \/ x = Order - P
      BY XCoordinates
    <3>3. Flag(Order - P) = Flag(P) /\ x_of(Order - P) = x
      BY <1>8, <1>10, <2>2
    <3> QED BY <3>1, <3>2, <3>3 DEF Flag, Identity, YIsPositive, YIsNegative
  <2> QED BY <2>1, <2>2
<1> QED BY <1>8, <1>9, <1>10 DEF bytes, m

LEMMA KeyIsWritten ==
  ASSUME CodecBytes = KeyLen, NEW P \in 1 .. Order - 1
  PROVE  /\ public_key_to_bytes(P) = Ok(LeBytes(x_of(P) + Flag(P) * FlagUnit))
         /\ public_key_to_bytes(P).value \in Seq(Byte)
         /\ Flag(P) \in {YIsPositive, YIsNegative}
<1>1. Flag(P) \in {YIsPositive, YIsNegative}
  BY DEF Flag, Identity
<1>2. x_of(P) + Flag(P) * FlagUnit \in Nat
  BY <1>1, XCoordinates, FlagsFit DEF YIsPositive, YIsNegative
<1> DEFINE m == x_of(P) + Flag(P) * FlagUnit
<1>3. LeBytes(m) \in Seq(Byte) /\ Len(LeBytes(m)) = KeyLen
  BY <1>2, LeBytesType
<1>4. public_key_to_bytes(P) = Ok(LeBytes(m))
  BY <1>3 DEF public_key_to_bytes, serialize
<1> HIDE DEF m
<1>5. Ok(LeBytes(m)).value = LeBytes(m)
  BY DEF Ok
<1> QED BY <1>1, <1>3, <1>4, <1>5 DEF m

\* A key that was shipped whole is the key that is read.
LEMMA KeyReturns ==
  ASSUME CodecBytes = KeyLen, NEW P \in 1 .. Order - 1
  PROVE  public_key_from_bytes(public_key_to_bytes(P).value).value = P
<1> DEFINE b == LeBytes(x_of(P) + Flag(P) * FlagUnit)
<1>1. public_key_to_bytes(P).value = b /\ b \in Seq(Byte) /\ Flag(P) \in {YIsPositive, YIsNegative}
  BY KeyIsWritten DEF Ok
<1>2. public_key_from_bytes(b).value = P
  BY <1>1, KeyReads
<1> QED BY <1>1, <1>2

\* A scalar fits its bytes: the x of half the order is the half, and below the modulus.
LEMMA ScalarsFit == Order < Power[KeyLen]
<1> DEFINE h == Order \div 2
<1>1. Order \in Nat \ {0} /\ Order % 2 = 1 /\ Modulus \in Nat \ {0}
  BY CodecSizes, CodecAssumption
<1>2. Order = 2 * h + 1 /\ h \in 0 .. Order - 1
  BY <1>1
<1>3. FlagUnit \in Nat /\ Modulus <= FlagUnit /\ 4 * FlagUnit <= Power[KeyLen]
      /\ Power[KeyLen] \in Nat
  BY FlagsFit
<1> HIDE DEF h
<1>4. x_of(h) = h
  <2>1. Negative(h) = IF h = 0 THEN 0 ELSE Order - h
    BY <1>2, NegativeIs
  <2> QED BY <1>1, <1>2, <2>1 DEF x_of
<1>5. h < Modulus
  BY <1>2, <1>4, CodecAssumption DEF IsCanonical
<1> QED BY <1>1, <1>2, <1>3, <1>5

\* A scalar returns from its bytes.
LEMMA SecretReturns ==
  ASSUME CodecBytes = KeyLen, NEW sk \in 0 .. Order - 1
  PROVE  secret_from_bytes(secret_to_bytes(sk).value) = Ok(sk)
<1>1. sk \in Nat /\ sk < Power[KeyLen] /\ ~ (sk >= Order)
  <2>1. Order \in Nat /\ Power[KeyLen] \in Nat
    BY CodecSizes, FlagsFit
  <2> QED BY <2>1, ScalarsFit
<1>2. secret_to_bytes(sk).value = LeBytes(sk)
  BY <1>1, LeBytesType DEF secret_to_bytes, serialize, Ok
<1>3. FromBe(Reverse(Read(LeBytes(sk)))) = sk
  BY <1>1, AllIsRead, BytesAreRead
<1> QED BY <1>1, <1>2, <1>3, AllIsRead DEF secret_from_bytes
=============================================================================
