--------------------------- MODULE FsEpochProofs ----------------------------
(***************************************************************************)
(* Proofs about FsEpoch, for fields of any width, any hash and any number  *)
(* of epochs and damaged deliveries.                                       *)
(***************************************************************************)
EXTENDS FsEpoch, SequenceTheorems, LevelInduction, TLAPS

(***************************************************************************)
(* Splitting and joining sequences of symbols.                             *)
(***************************************************************************)
LEMMA WordsAreSeqs ==
  ASSUME NEW n \in Nat, NEW w \in Words(Symbol, n)
  PROVE  w \in Seq(Symbol) /\ Len(w) = n
BY DEF Words

LEMMA Widths ==
  /\ U32Len \in Nat /\ HashLen \in Nat /\ G2_EIP2537_LEN \in Nat
  /\ TailLen \in Nat /\ MaxByte \in Nat \ {0}
BY WidthAssumption DEF G2_EIP2537_LEN, TailLen

LEMMA TakeType ==
  ASSUME NEW s \in Seq(Symbol), NEW n \in Nat, n <= Len(s)
  PROVE  /\ TakeHead(s, n) \in Words(Symbol, n) /\ TakeHead(s, n) \in Seq(Symbol)
         /\ Len(TakeHead(s, n)) = n
         /\ \A i \in 1 .. n : TakeHead(s, n)[i] = s[i]
         /\ Rest(s, n) \in Seq(Symbol) /\ Len(Rest(s, n)) = Len(s) - n
         /\ \A i \in 1 .. Len(s) - n : Rest(s, n)[i] = s[n + i]
<1> DEFINE l == Len(s)
<1>1. l \in Nat /\ \A i \in 1 .. l : s[i] \in Symbol
  BY LenProperties, ElementOfSeq
<1>2. /\ SubSeq(s, 1, n) \in Seq(Symbol)
      /\ Len(SubSeq(s, 1, n)) = IF 1 <= n THEN n - 1 + 1 ELSE 0
      /\ \A i \in 1 .. n - 1 + 1 : SubSeq(s, 1, n)[i] = s[1 + i - 1]
  <2>1. \A i \in 1 .. n : s[i] \in Symbol
    BY <1>1
  <2> QED BY <2>1, SubSeqProperties
<1>3. /\ SubSeq(s, n + 1, l) \in Seq(Symbol)
      /\ Len(SubSeq(s, n + 1, l)) = IF n + 1 <= l THEN l - (n + 1) + 1 ELSE 0
      /\ \A i \in 1 .. l - (n + 1) + 1 : SubSeq(s, n + 1, l)[i] = s[(n + 1) + i - 1]
  <2>1. \A i \in n + 1 .. l : s[i] \in Symbol
    BY <1>1
  <2> HIDE DEF l
  <2> QED BY <1>1, <2>1, SubSeqProperties
<1>4. Len(SubSeq(s, 1, n)) = n /\ \A i \in 1 .. n : SubSeq(s, 1, n)[i] = s[i]
  BY <1>2
<1>5. SubSeq(s, 1, n) \in [1 .. n -> Symbol]
  BY <1>2, <1>4, LenProperties
<1>6. /\ Len(SubSeq(s, n + 1, l)) = l - n
      /\ \A i \in 1 .. l - n : SubSeq(s, n + 1, l)[i] = s[n + i]
  <2> DEFINE r == SubSeq(s, n + 1, l)
  <2>1. n <= l /\ l \in Nat /\ (l - (n + 1)) + 1 = l - n
        /\ \A i \in 1 .. l - n : ((n + 1) + i) - 1 = n + i
    BY <1>1
  <2>2. /\ Len(r) = IF n + 1 <= l THEN l - n ELSE 0
        /\ \A i \in 1 .. l - n : r[i] = s[((n + 1) + i) - 1]
    BY <1>3, <2>1
  <2> HIDE DEF l, r
  <2>3. Len(r) = l - n
    BY <2>1, <2>2
  <2>4. \A i \in 1 .. l - n : r[i] = s[n + i]
    BY <2>1, <2>2
  <2> QED BY <2>3, <2>4 DEF r
<1> QED BY <1>2, <1>3, <1>4, <1>5, <1>6 DEF TakeHead, Rest, Words

\* The head and the rest make up the whole, and a whole gives its parts back.
LEMMA TakeJoins ==
  ASSUME NEW s \in Seq(Symbol), NEW n \in Nat, n <= Len(s)
  PROVE  TakeHead(s, n) \o Rest(s, n) = s
<1>1. Len(s) \in Nat
  BY LenProperties
<1>2. /\ 1 \in 1 .. Len(s) + 1 /\ n \in 1 - 1 .. Len(s) /\ Len(s) \in n .. Len(s)
  BY <1>1
<1>3. SubSeq(s, 1, n) \o SubSeq(s, n + 1, Len(s)) = SubSeq(s, 1, Len(s))
  BY <1>2, ConcatAdjacentSubSeq
<1> QED BY <1>3, SubSeqFull DEF TakeHead, Rest

LEMMA TakeSplits ==
  ASSUME NEW s \in Seq(Symbol), NEW t \in Seq(Symbol)
  PROVE  /\ s \o t \in Seq(Symbol) /\ Len(s \o t) = Len(s) + Len(t)
         /\ TakeHead(s \o t, Len(s)) = s /\ Rest(s \o t, Len(s)) = t
BY ConcatProperties, SubSeqProperties, SeqEqual DEF TakeHead, Rest

\* Taking n symbols and then k is taking n + k.
LEMMA RestOfRest ==
  ASSUME NEW s \in Seq(Symbol), NEW n \in Nat, NEW k \in Nat, n + k <= Len(s)
  PROVE  Rest(Rest(s, n), k) = Rest(s, n + k)
<1>1. Len(s) \in Nat /\ n <= Len(s) /\ n + k \in Nat
  BY LenProperties
<1> DEFINE r == Rest(s, n)
<1>2. r \in Seq(Symbol) /\ Len(r) = Len(s) - n /\ \A i \in 1 .. Len(s) - n : r[i] = s[n + i]
  BY <1>1, TakeType
<1>3. /\ Rest(s, n + k) \in Seq(Symbol) /\ Len(Rest(s, n + k)) = Len(s) - (n + k)
      /\ \A i \in 1 .. Len(s) - (n + k) : Rest(s, n + k)[i] = s[(n + k) + i]
  BY <1>1, TakeType
<1> HIDE DEF r
<1>4. k <= Len(r)
  BY <1>1, <1>2
<1>5. /\ Rest(r, k) \in Seq(Symbol) /\ Len(Rest(r, k)) = Len(r) - k
      /\ \A i \in 1 .. Len(r) - k : Rest(r, k)[i] = r[k + i]
  BY <1>2, <1>4, TakeType
<1>6. Len(Rest(r, k)) = Len(Rest(s, n + k))
  <2>1. (Len(s) - n) - k = Len(s) - (n + k)
    BY <1>1
  <2> QED BY <2>1, <1>2, <1>3, <1>5
<1>7. ASSUME NEW i \in 1 .. Len(Rest(r, k)) PROVE Rest(r, k)[i] = Rest(s, n + k)[i]
  <2>1. i \in 1 .. Len(r) - k /\ k + i \in 1 .. Len(s) - n
        /\ i \in 1 .. Len(s) - (n + k) /\ n + (k + i) = (n + k) + i
    BY <1>1, <1>2, <1>5
  <2> QED BY <2>1, <1>2, <1>3, <1>5
<1>8. Rest(r, k) = Rest(s, n + k)
  BY <1>3, <1>5, <1>6, <1>7, SeqEqual
<1> QED BY <1>8 DEF r

LEMMA TakeAll ==
  ASSUME NEW s \in Seq(Symbol)
  PROVE  TakeHead(s, Len(s)) = s
BY SubSeqFull DEF TakeHead

-----------------------------------------------------------------------------
(***************************************************************************)
(* The encoding.                                                           *)
(***************************************************************************)
\* What new accepts it returns as it is.
LEMMA NewAccepts ==
  ASSUME NEW e \in Entries
  PROVE  /\ new(e).kind = "ok" => new(e) = Ok(e)
         /\ new(e).kind = "ok" <=> /\ e.dst # <<>> /\ Len(e.dst) <= MaxByte
                                   /\ e.pk_att # Zeros(G2_EIP2537_LEN)
                                   /\ ~ PaddingSet(e.pk_att)
<1>1. CASE e.dst = <<>>
  BY <1>1 DEF new, Err
<1>2. CASE e.dst # <<>> /\ Len(e.dst) > MaxByte
  <2>1. ~ (Len(e.dst) <= MaxByte)
    BY <1>2, WidthAssumption, LenProperties DEF Entries
  <2> QED BY <1>2, <2>1 DEF new, Err, MAX_DST_LEN
<1>3. CASE e.dst # <<>> /\ ~ (Len(e.dst) > MaxByte)
  <2>1. Len(e.dst) <= MaxByte
    BY <1>3, WidthAssumption, LenProperties DEF Entries
  <2> QED BY <1>3, <2>1 DEF new, Ok, Err, MAX_DST_LEN
<1> QED BY <1>1, <1>2, <1>3

Valid(e) == e \in Entries /\ new(e).kind = "ok"

LEMMA FieldTypes ==
  ASSUME NEW e \in Entries
  PROVE  /\ e.epoch \in Seq(Symbol) /\ Len(e.epoch) = U32Len
         /\ e.pk_att \in Seq(Symbol) /\ Len(e.pk_att) = G2_EIP2537_LEN
         /\ e.dst \in Seq(Symbol) /\ Len(e.dst) \in Nat
         /\ e.start_wwd \in Seq(Symbol) /\ Len(e.start_wwd) = U32Len
         /\ e.members_hash \in Seq(Symbol) /\ Len(e.members_hash) = HashLen
         /\ e.prev_hash \in Seq(Symbol) /\ Len(e.prev_hash) = HashLen
BY Widths, WordsAreSeqs, LenProperties DEF Entries

\* The length byte is the length of every dst that new accepts.
LEMMA LengthByte ==
  ASSUME NEW n \in 1 .. MaxByte
  PROVE  AsU8(n) = n /\ AsU8(n) \in Symbol
BY WidthAssumption DEF AsU8, Byte

LEMMA SymbolSeq ==
  ASSUME NEW x \in Symbol
  PROVE  <<x>> \in Seq(Symbol) /\ Len(<<x>>) = 1 /\ <<x>>[1] = x
OBVIOUS

LEMMA VersionIsSymbol == EPOCH_ENCODING_VERSION \in Symbol
BY WidthAssumption DEF EPOCH_ENCODING_VERSION, Byte

\* What is encoded is decoded, and nothing else is (fs_epoch.rs:123-127).
LEMMA EncodingDecodes ==
  ASSUME NEW e, Valid(e)
  PROVE  canonical_bytes(e) \in Seq(Symbol) /\ decode(canonical_bytes(e)) = Ok(e)
<1> DEFINE n  == Len(e.dst)
           t6 == e.members_hash \o e.prev_hash
           t5 == e.start_wwd \o t6
           t4 == e.dst \o t5
           t3 == <<AsU8(n)>> \o t4
           t2 == e.pk_att \o t3
           t1 == e.epoch \o t2
           b  == <<EPOCH_ENCODING_VERSION>> \o t1
           head == 1 + U32Len + G2_EIP2537_LEN
<1>1. e \in Entries /\ new(e) = Ok(e) /\ n \in 1 .. MaxByte
  BY NewAccepts, FieldTypes, EmptySeq, Widths DEF Valid
<1>epoch. e.epoch \in Seq(Symbol) /\ Len(e.epoch) = U32Len
  BY <1>1, FieldTypes
<1>pk_att. e.pk_att \in Seq(Symbol) /\ Len(e.pk_att) = G2_EIP2537_LEN
  BY <1>1, FieldTypes
<1>dst. e.dst \in Seq(Symbol) /\ Len(e.dst) = n
  BY <1>1, FieldTypes
<1>start. e.start_wwd \in Seq(Symbol) /\ Len(e.start_wwd) = U32Len
  BY <1>1, FieldTypes
<1>members. e.members_hash \in Seq(Symbol) /\ Len(e.members_hash) = HashLen
  BY <1>1, FieldTypes
<1>prev. e.prev_hash \in Seq(Symbol) /\ Len(e.prev_hash) = HashLen
  BY <1>1, FieldTypes
<1>2. /\ AsU8(n) = n /\ <<AsU8(n)>> \in Seq(Symbol) /\ Len(<<AsU8(n)>>) = 1
      /\ <<AsU8(n)>>[1] = n
  BY <1>1, LengthByte, SymbolSeq
<1> HIDE DEF n
<1>3. t6 \in Seq(Symbol) /\ Len(t6) = HashLen + HashLen
      /\ TakeHead(t6, HashLen) = e.members_hash /\ Rest(t6, HashLen) = e.prev_hash
  <2>1. e.members_hash \in Seq(Symbol) /\ e.prev_hash \in Seq(Symbol)
    BY <1>members, <1>prev
  <2>2. /\ t6 \in Seq(Symbol) /\ Len(t6) = Len(e.members_hash) + Len(e.prev_hash)
        /\ TakeHead(t6, Len(e.members_hash)) = e.members_hash
        /\ Rest(t6, Len(e.members_hash)) = e.prev_hash
    BY <2>1, TakeSplits
  <2> QED BY <2>2, <1>members, <1>prev
<1> HIDE DEF t6
<1>4. t5 \in Seq(Symbol) /\ Len(t5) = U32Len + (HashLen + HashLen)
      /\ TakeHead(t5, U32Len) = e.start_wwd /\ Rest(t5, U32Len) = t6
  BY <1>start, <1>3, TakeSplits
<1> HIDE DEF t5
<1>5. t4 \in Seq(Symbol) /\ Len(t4) = n + Len(t5)
      /\ TakeHead(t4, n) = e.dst /\ Rest(t4, n) = t5
  BY <1>dst, <1>4, TakeSplits
<1> HIDE DEF t4
<1>6. t3 \in Seq(Symbol) /\ Len(t3) = 1 + Len(t4) /\ Rest(t3, 1) = t4 /\ t3[1] = n
  <2>1. TakeHead(t3, 1) = <<AsU8(n)>> /\ Rest(t3, 1) = t4 /\ t3 \in Seq(Symbol)
        /\ Len(t3) = 1 + Len(t4)
    BY <1>2, <1>5, TakeSplits
  <2>2. 1 <= Len(t3)
    BY <2>1, <1>5, LenProperties
  <2>3. TakeHead(t3, 1)[1] = t3[1]
    BY <2>1, <2>2, TakeType
  <2> QED BY <2>1, <2>3, <1>2
<1> HIDE DEF t3
<1>7. t2 \in Seq(Symbol) /\ Len(t2) = G2_EIP2537_LEN + Len(t3)
      /\ TakeHead(t2, G2_EIP2537_LEN) = e.pk_att /\ Rest(t2, G2_EIP2537_LEN) = t3
  BY <1>pk_att, <1>6, TakeSplits
<1> HIDE DEF t2
<1>8. t1 \in Seq(Symbol) /\ Len(t1) = U32Len + Len(t2)
      /\ TakeHead(t1, U32Len) = e.epoch /\ Rest(t1, U32Len) = t2
  BY <1>epoch, <1>7, TakeSplits
<1> HIDE DEF t1
<1>9. b \in Seq(Symbol) /\ Len(b) = 1 + Len(t1) /\ Rest(b, 1) = t1 /\ b # <<>>
      /\ b[1] = EPOCH_ENCODING_VERSION
  <2>1. TakeHead(b, 1) = <<EPOCH_ENCODING_VERSION>> /\ Rest(b, 1) = t1 /\ b \in Seq(Symbol)
        /\ Len(b) = 1 + Len(t1)
    <3>1. <<EPOCH_ENCODING_VERSION>> \in Seq(Symbol) /\ Len(<<EPOCH_ENCODING_VERSION>>) = 1
      BY VersionIsSymbol, SymbolSeq
    <3> QED BY <1>8, <3>1, TakeSplits
  <2>2. 1 <= Len(b)
    BY <2>1, <1>8, LenProperties
  <2>3. TakeHead(b, 1)[1] = b[1]
    BY <2>1, <2>2, TakeType
  <2> QED BY <2>1, <2>2, <2>3, VersionIsSymbol, SymbolSeq
<1> HIDE DEF b
<1>10. /\ Len(t6) = HashLen + HashLen /\ Len(t5) = TailLen /\ Len(t4) \in Nat
       /\ Len(t4) >= n /\ Len(b) = head + 1 + Len(t4)
       /\ U32Len + HashLen <= Len(t5) /\ HashLen <= Len(t6)
  <2>1. Len(t4) \in Nat /\ n \in Nat
    BY <1>1, <1>5, LenProperties, Widths
  <2>2. Len(t5) = TailLen
    BY <1>4, Widths DEF TailLen
  <2>3. Len(b) = 1 + (U32Len + (G2_EIP2537_LEN + (1 + Len(t4))))
    BY <1>6, <1>7, <1>8, <1>9
  <2>4. Len(t4) = n + TailLen
    BY <1>5, <2>2
  <2> QED BY <2>1, <2>2, <2>3, <2>4, <1>3, Widths DEF TailLen
<1>11. Rest(b, 1 + U32Len) = t2
  BY <1>8, <1>9, <1>10, Widths, RestOfRest
<1>12. Rest(b, head) = t3
  BY <1>7, <1>9, <1>10, <1>11, Widths, RestOfRest
<1>13. Rest(b, head + 1) = t4 /\ b[head + 1] = n
  <2>1. head \in Nat /\ head <= Len(b) /\ 1 \in 1 .. Len(b) - head /\ head + 1 <= Len(b)
    BY <1>10, Widths
  <2>2. Rest(b, head)[1] = b[head + 1]
    BY <2>1, <1>9, TakeType
  <2>3. Rest(Rest(b, head), 1) = Rest(b, head + 1)
    BY <2>1, <1>9, RestOfRest
  <2> QED BY <2>2, <2>3, <1>6, <1>12
<1>14. Rest(t5, U32Len + HashLen) = e.prev_hash
  BY <1>3, <1>4, <1>10, Widths, RestOfRest
<1>15. TakeHead(e.prev_hash, HashLen) = e.prev_hash
  BY <1>1, FieldTypes, TakeAll
<1>16. [epoch |-> e.epoch, pk_att |-> e.pk_att, dst |-> e.dst, start_wwd |-> e.start_wwd,
        members_hash |-> e.members_hash, prev_hash |-> e.prev_hash] = e
  BY <1>1 DEF Entries
<1>17. DecodeTail(e.epoch, e.pk_att, t4, n) = Ok(e)
  BY <1>1, <1>3, <1>4, <1>5, <1>10, <1>14, <1>15, <1>16 DEF DecodeTail, CanTake, IsTail
<1>18. decode(b) = Ok(e)
  <2>1. CanTake(b, head + 1)
    BY <1>10, Widths DEF CanTake
  <2> QED
    BY <2>1, <1>7, <1>8, <1>9, <1>11, <1>13, <1>17 DEF decode
<1>19. canonical_bytes(e) = b
  BY DEF canonical_bytes, n, b, t1, t2, t3, t4, t5, t6
<1> QED BY <1>9, <1>18, <1>19

LEMMA TakeOne ==
  ASSUME NEW s \in Seq(Symbol), 1 <= Len(s)
  PROVE  TakeHead(s, 1) = <<s[1]>> /\ s[1] \in Symbol
<1> DEFINE h == TakeHead(s, 1)
<1>1. h \in Seq(Symbol) /\ Len(h) = 1 /\ \A i \in 1 .. 1 : h[i] = s[i]
  BY TakeType
<1> HIDE DEF h
<1>2. h[1] = s[1] /\ h = <<h[1]>> /\ h[1] \in Symbol
  BY <1>1
<1> QED BY <1>2 DEF h

\* What decodes is the encoding of what it decodes to (fs_epoch.rs:231-232).
LEMMA DecodingEncodes ==
  ASSUME NEW bytes \in Seq(Symbol), decode(bytes).kind = "ok"
  PROVE  /\ Valid(decode(bytes).entry)
         /\ decode(bytes) = Ok(decode(bytes).entry)
         /\ canonical_bytes(decode(bytes).entry) = bytes
<1> DEFINE head  == 1 + U32Len + G2_EIP2537_LEN
           rest  == Rest(bytes, head + 1)
           n     == bytes[head + 1]
           tail  == Rest(rest, n)
           last  == Rest(tail, U32Len)
           e     == [epoch        |-> TakeHead(Rest(bytes, 1), U32Len),
                     pk_att       |-> TakeHead(Rest(bytes, 1 + U32Len), G2_EIP2537_LEN),
                     dst          |-> TakeHead(rest, n),
                     start_wwd    |-> TakeHead(tail, U32Len),
                     members_hash |-> TakeHead(last, HashLen),
                     prev_hash    |-> TakeHead(Rest(tail, U32Len + HashLen), HashLen)]
<1>1. /\ bytes # <<>> /\ bytes[1] = EPOCH_ENCODING_VERSION /\ head + 1 <= Len(bytes)
      /\ n <= Len(rest) /\ Len(tail) = TailLen /\ decode(bytes) = new(e)
  <2>1. bytes # <<>> /\ bytes[1] = EPOCH_ENCODING_VERSION /\ CanTake(bytes, head + 1)
    BY DEF decode, Err
  <2>2. decode(bytes) = DecodeTail(e.epoch, e.pk_att, rest, n)
    BY <2>1 DEF decode
  <2>3. CanTake(rest, n) /\ IsTail(tail)
    BY <2>2 DEF DecodeTail, Err
  <2>4. decode(bytes) = new(e)
    BY <2>2, <2>3 DEF DecodeTail
  <2> QED BY <2>1, <2>3, <2>4 DEF CanTake, IsTail
<1>2. head \in Nat /\ Len(bytes) \in Nat /\ 1 <= Len(bytes) /\ 1 + U32Len <= Len(bytes)
      /\ head <= Len(bytes) /\ TailLen - U32Len = HashLen + HashLen
  BY <1>1, Widths, LenProperties DEF TailLen
<1>3. n \in Nat /\ rest \in Seq(Symbol)
  <2>1. n \in Symbol
    BY <1>1, <1>2, ElementOfSeq
  <2>2. head + 1 \in Nat
    BY <1>2
  <2>3. rest \in Seq(Symbol)
    BY <2>2, <1>1, TakeType
  <2> QED BY <2>1, <2>3, WidthAssumption
<1> HIDE DEF head
<1>4. Rest(bytes, 1) \in Seq(Symbol) /\ <<EPOCH_ENCODING_VERSION>> \o Rest(bytes, 1) = bytes
  <2>1. TakeHead(bytes, 1) = <<EPOCH_ENCODING_VERSION>>
    BY <1>1, <1>2, TakeOne
  <2> QED BY <2>1, <1>2, TakeType, TakeJoins
<1>5. /\ e.epoch \in Words(Symbol, U32Len)
      /\ e.epoch \o Rest(bytes, 1 + U32Len) = Rest(bytes, 1)
  <2>1. U32Len <= Len(Rest(bytes, 1)) /\ Rest(Rest(bytes, 1), U32Len) = Rest(bytes, 1 + U32Len)
    <3>1. Len(Rest(bytes, 1)) = Len(bytes) - 1
      BY <1>2, TakeType
    <3>2. 1 \in Nat /\ U32Len \in Nat /\ 1 + U32Len <= Len(bytes)
      BY <1>2, Widths
    <3>3. Rest(Rest(bytes, 1), U32Len) = Rest(bytes, 1 + U32Len)
      BY <3>2, RestOfRest
    <3> QED BY <3>1, <3>2, <3>3, <1>2
  <2>2. U32Len \in Nat /\ Rest(bytes, 1) \in Seq(Symbol)
    BY <1>4, Widths
  <2>3. TakeHead(Rest(bytes, 1), U32Len) \in Words(Symbol, U32Len)
    BY <2>1, <2>2, TakeType
  <2>4. TakeHead(Rest(bytes, 1), U32Len) \o Rest(Rest(bytes, 1), U32Len) = Rest(bytes, 1)
    BY <2>1, <2>2, TakeJoins
  <2> QED BY <2>1, <2>3, <2>4
<1>6. /\ e.pk_att \in Words(Symbol, G2_EIP2537_LEN)
      /\ e.pk_att \o Rest(bytes, head) = Rest(bytes, 1 + U32Len)
  <2> DEFINE m == 1 + U32Len
             g == G2_EIP2537_LEN
             r == Rest(bytes, m)
  <2>1. m \in Nat /\ g \in Nat /\ m + g = head /\ m + g <= Len(bytes) /\ m <= Len(bytes)
    BY <1>2, Widths DEF head
  <2> HIDE DEF m, g
  <2>2. r \in Seq(Symbol) /\ Len(r) = Len(bytes) - m
    BY <2>1, TakeType
  <2>3. g <= Len(r)
    BY <2>1, <2>2, <1>2
  <2>4. Rest(r, g) = Rest(bytes, head)
    BY <2>1, RestOfRest
  <2> HIDE DEF r
  <2>5. TakeHead(r, g) \in Words(Symbol, g)
    BY <2>1, <2>2, <2>3, TakeType
  <2>6. TakeHead(r, g) \o Rest(r, g) = r
    BY <2>1, <2>2, <2>3, TakeJoins
  <2> QED BY <2>4, <2>5, <2>6 DEF r, m, g
<1>7. <<n>> \o rest = Rest(bytes, head)
  <2>1. /\ Rest(bytes, head) \in Seq(Symbol) /\ 1 <= Len(Rest(bytes, head))
        /\ Rest(bytes, head)[1] = n
    BY <1>1, <1>2, TakeType
  <2>2. TakeHead(Rest(bytes, head), 1) = <<n>> /\ Rest(Rest(bytes, head), 1) = rest
    BY <2>1, <1>1, <1>2, TakeOne, RestOfRest
  <2> QED BY <2>1, <2>2, TakeJoins
<1>8. /\ e.dst \in Seq(Symbol) /\ Len(e.dst) = n /\ e.dst \o tail = rest
      /\ tail \in Seq(Symbol)
  <2> HIDE DEF rest, n
  <2> QED BY <1>1, <1>3, TakeType, TakeJoins
<1> HIDE DEF rest, n
<1>9. /\ e.start_wwd \in Words(Symbol, U32Len) /\ e.start_wwd \o last = tail
      /\ last \in Seq(Symbol) /\ Len(last) = HashLen + HashLen
  <2>1. U32Len <= Len(tail)
    BY <1>1, Widths DEF TailLen
  <2>2. tail \in Seq(Symbol) /\ U32Len \in Nat
    BY <1>8, Widths
  <2> HIDE DEF tail
  <2>3. /\ TakeHead(tail, U32Len) \in Words(Symbol, U32Len)
        /\ last \in Seq(Symbol) /\ Len(last) = Len(tail) - U32Len
    BY <2>1, <2>2, TakeType
  <2>4. TakeHead(tail, U32Len) \o last = tail
    BY <2>1, <2>2, TakeJoins
  <2>5. Len(tail) - U32Len = HashLen + HashLen
    BY <1>1, <1>2
  <2> QED BY <2>3, <2>4, <2>5
<1>10. /\ e.members_hash \in Words(Symbol, HashLen) /\ e.prev_hash \in Words(Symbol, HashLen)
       /\ e.members_hash \o e.prev_hash = last
  <2>1. HashLen <= Len(last) /\ U32Len + HashLen <= Len(tail)
    BY <1>1, <1>9, Widths DEF TailLen
  <2>2. Rest(last, HashLen) = Rest(tail, U32Len + HashLen)
    BY <2>1, <1>8, Widths, RestOfRest
  <2>3. Rest(last, HashLen) \in Seq(Symbol) /\ Len(Rest(last, HashLen)) = HashLen
    BY <2>1, <1>9, Widths, TakeType
  <2>4. e.prev_hash = Rest(last, HashLen) /\ e.prev_hash \in Words(Symbol, HashLen)
    BY <2>2, <2>3, Widths, TakeType, TakeAll
  <2>5. e.members_hash \in Words(Symbol, HashLen)
        /\ e.members_hash \o Rest(last, HashLen) = last
    BY <2>1, <1>9, Widths, TakeType, TakeJoins
  <2> QED BY <2>4, <2>5
<1>11. e \in Entries
  BY <1>5, <1>6, <1>8, <1>9, <1>10 DEF Entries
<1> HIDE DEF e
<1>12. Valid(e) /\ decode(bytes) = Ok(e)
  BY <1>1, <1>11, NewAccepts DEF Valid
<1>13. AsU8(Len(e.dst)) = n
  <2>1. n \in 1 .. MaxByte
    BY <1>3, <1>8, <1>11, <1>12, NewAccepts, EmptySeq, Widths DEF Valid
  <2> QED BY <2>1, <1>8, LengthByte
<1>14. canonical_bytes(e) = bytes
  <2>1. e.dst \o (e.start_wwd \o (e.members_hash \o e.prev_hash)) = rest
    BY <1>8, <1>9, <1>10
  <2> QED BY <2>1, <1>4, <1>5, <1>6, <1>7, <1>13 DEF canonical_bytes
<1>15. decode(bytes).entry = e
  BY <1>12 DEF Ok
<1> QED BY <1>12, <1>14, <1>15

LEMMA EncodingIsInjective ==
  ASSUME NEW e, NEW f, Valid(e), Valid(f), canonical_bytes(e) = canonical_bytes(f)
  PROVE  e = f
<1>1. Ok(e) = Ok(f)
  BY EncodingDecodes
<1> QED BY <1>1 DEF Ok

-----------------------------------------------------------------------------
(***************************************************************************)
(* The bytes of an integer.                                                *)
(***************************************************************************)
LEMMA QuotientsEquations ==
  ASSUME NEW n \in Nat
  PROVE  /\ Quotients(n) \in [0 .. U32Len -> Nat]
         /\ Quotients(n)[0] = n
         /\ \A k \in 0 .. U32Len - 1 :
              Quotients(n)[k + 1] = Quotients(n)[k] \div (MaxByte + 1)
<1> DEFINE B == MaxByte + 1
           Body(f) == [k \in 0 .. U32Len |-> IF k = 0 THEN n ELSE f[k - 1] \div B]
           g == [k \in 0 .. U32Len - 1 |-> [x \in Nat |-> x \div B]]
           q == Quotients(n)
<1>1. U32Len \in Nat
  BY Widths
<1>2. \A x \in Nat : x \div B \in Nat
  BY Widths
<1>3. PICK f : IsRecursive(f, U32Len, Nat, n, g)
  <2>1. IsStep(g, U32Len, Nat)
    BY <1>2 DEF IsStep
  <2> HIDE DEF g
  <2> QED BY <2>1, <1>1, Recursion
<1>4. ASSUME NEW k \in 0 .. U32Len, k # 0
      PROVE  g[k - 1][f[k - 1]] = f[k - 1] \div B
  <2>1. k - 1 \in 0 .. U32Len - 1 /\ k - 1 \in 0 .. U32Len
    BY <1>1, <1>4
  <2>2. f[k - 1] \in Nat
    BY <2>1, <1>3 DEF IsRecursive
  <2> HIDE DEF B
  <2> QED BY <2>1, <2>2
<1>5. f = Body(f)
  <2> HIDE DEF g, B
  <2> QED BY <1>3, <1>4 DEF IsRecursive
<1>6. q = Body(q)
  <2>1. q = CHOOSE h : h = Body(h)
    BY DEF Quotients
  <2> QED BY <1>5, <2>1
<1> HIDE DEF q
<1>7. \A k \in 0 .. U32Len : q[k] = IF k = 0 THEN n ELSE q[k - 1] \div B
  BY <1>6
<1>8. q[0] = n
  BY <1>1, <1>7
<1>9. ASSUME NEW k \in 0 .. U32Len - 1 PROVE q[k + 1] = q[k] \div B
  <2>1. k + 1 \in 0 .. U32Len /\ k + 1 # 0 /\ (k + 1) - 1 = k
    BY <1>1
  <2> QED BY <2>1, <1>7
<1>10. q = [k \in 0 .. U32Len |-> q[k]]
  BY <1>6, <1>7
<1>11. q \in [0 .. U32Len -> Nat]
  <2>1. \A k \in 0 .. U32Len - 1 : q[k] \in Nat => q[k + 1] \in Nat
    BY <1>2, <1>9
  <2> QED BY <1>1, <1>8, <2>1, <1>10, StaysInType
<1> QED BY <1>8, <1>9, <1>11 DEF q

LEMMA ToBeType ==
  ASSUME NEW n \in Nat
  PROVE  ToBe(n) \in Words(Symbol, U32Len)
<1>1. ASSUME NEW i \in 1 .. U32Len
      PROVE  Quotients(n)[U32Len - i] % (MaxByte + 1) \in Symbol
  <2>1. Quotients(n)[U32Len - i] \in Nat
    BY QuotientsEquations, Widths
  <2> QED BY <2>1, WidthAssumption DEF Byte
<1> QED BY <1>1 DEF ToBe, Words

LEMMA Division ==
  ASSUME NEW x \in Nat, NEW B \in Nat \ {0}
  PROVE  x = B * (x \div B) + (x % B)
OBVIOUS

\* No two epochs have the same number.
LEMMA ToBeIsInjective ==
  ASSUME NEW a \in 0 .. MaxEpochs - 1, NEW b \in 0 .. MaxEpochs - 1, ToBe(a) = ToBe(b)
  PROVE  a = b
<1> DEFINE B == MaxByte + 1
           p == Quotients(a)
           q == Quotients(b)
           S == {l \in 0 .. U32Len : p[U32Len - l] = q[U32Len - l]}
<1>1. a \in Nat /\ b \in Nat /\ U32Len \in Nat /\ B \in Nat \ {0}
  BY EpochAssumption, Widths
<1>2. /\ p \in [0 .. U32Len -> Nat] /\ p[0] = a
      /\ \A k \in 0 .. U32Len - 1 : p[k + 1] = p[k] \div B
  BY <1>1, QuotientsEquations
<1>3. /\ q \in [0 .. U32Len -> Nat] /\ q[0] = b
      /\ \A k \in 0 .. U32Len - 1 : q[k + 1] = q[k] \div B
  BY <1>1, QuotientsEquations
<1>4. ASSUME NEW k \in 0 .. U32Len - 1 PROVE p[k] % B = q[k] % B
  <2>1. U32Len - k \in 1 .. U32Len /\ U32Len - (U32Len - k) = k
    BY <1>1
  <2>2. ToBe(a)[U32Len - k] = p[k] % B /\ ToBe(b)[U32Len - k] = q[k] % B
    BY <2>1 DEF ToBe
  <2> QED BY <2>2
<1>5. p[U32Len] = 0 /\ q[U32Len] = 0
  BY EpochAssumption
<1> HIDE DEF p, q, B
<1>6. 0 \in S
  BY <1>1, <1>5
<1>7. ASSUME NEW l \in 0 .. U32Len - 1, l \in S PROVE l + 1 \in S
  <2> DEFINE k == U32Len - (l + 1)
  <2>1. k \in 0 .. U32Len - 1 /\ k + 1 = U32Len - l
    BY <1>1
  <2>2. p[k + 1] = q[k + 1]
    BY <2>1, <1>7
  <2> HIDE DEF k
  <2>3. p[k] \in Nat /\ q[k] \in Nat /\ p[k] \div B = q[k] \div B
    <3>1. k \in 0 .. U32Len /\ k + 1 \in 0 .. U32Len
      BY <2>1, <1>1
    <3>2. p[k + 1] = p[k] \div B /\ q[k + 1] = q[k] \div B
      BY <2>1, <1>2, <1>3
    <3>3. p[k] \in Nat /\ q[k] \in Nat
      BY <3>1, <1>2, <1>3
    <3> QED BY <2>2, <3>2, <3>3
  <2>4. p[k] = q[k]
    <3>1. p[k] = B * (p[k] \div B) + (p[k] % B) /\ q[k] = B * (q[k] \div B) + (q[k] % B)
      BY <2>3, <1>1, Division
    <3> QED BY <3>1, <2>1, <2>3, <1>4
  <2> QED BY <2>4, <1>1 DEF k
<1>8. \A l \in 0 .. U32Len : l \in S
  <2> HIDE DEF S
  <2> QED BY <1>1, <1>6, <1>7, Induction
<1>9. U32Len \in S /\ U32Len - U32Len = 0
  BY <1>1, <1>8
<1> QED BY <1>2, <1>3, <1>9

-----------------------------------------------------------------------------
(***************************************************************************)
(* The inductive invariant.  TLC cannot enumerate the inputs of the hash,  *)
(* so its type is a hypothesis of the theorems and not an assumption.      *)
(***************************************************************************)
HashIsTyped == \A bytes \in Seq(Symbol) : Keccak(bytes) \in Words(Symbol, HashLen)

Signatures ==
  {InfinitySignature}
    \cup [by : Words(Symbol, G2_EIP2537_LEN), dst : Seq(Symbol), message : Words(Symbol, HashLen)]

Links == [entry : Entries, sig_prev : Signatures]

\* Every entry has its number, names the one before and is signed by its committee.
Linked(c) ==
  /\ c \in Seq(Links) /\ Len(c) <= MaxEpochs
  /\ \A i \in 1 .. Len(c) : Valid(c[i].entry) /\ c[i].entry.epoch = ToBe(i - 1)
  /\ c # <<>> => c[1].sig_prev = InfinitySignature
  /\ \A i \in 1 .. Len(c) - 1 :
       /\ c[i + 1].entry.prev_hash = digest(c[i].entry)
       /\ c[i + 1].sig_prev = Signature(c[i].entry, digest(c[i + 1].entry))

\* The node holds some bytes, their decoding and a signature that was given with an
\* entry, if not with this one.
NodeFits(n, c) ==
  /\ n.input \in Seq(Symbol)
  /\ n.output = Err("none") \/ (n.output = decode(n.input) /\ c # <<>>)
  /\ n.sig_prev = InfinitySignature \/ \E i \in 1 .. Len(c) : n.sig_prev = c[i].sig_prev

IInv ==
  /\ Linked(chain)
  /\ NodeFits(node, chain)
  /\ contract \in Seq(Entries)
  /\ faults \in 0 .. Faults

LEMMA DigestType ==
  ASSUME HashIsTyped, NEW e, Valid(e)
  PROVE  digest(e) \in Words(Symbol, HashLen)
BY EncodingDecodes DEF digest, HashIsTyped

LEMMA LinkAt ==
  ASSUME NEW c, Linked(c), NEW i \in 1 .. Len(c)
  PROVE  c[i] \in Links /\ Valid(c[i].entry)
BY ElementOfSeq DEF Linked

LEMMA LastLink ==
  ASSUME NEW c, Linked(c), c # <<>>
  PROVE  Len(c) \in 1 .. Len(c) /\ Len(c) \in Nat /\ Valid(LastOf(c).entry)
<1>1. Len(c) \in Nat \ {0}
  BY EmptySeq DEF Linked
<1> QED BY <1>1, LinkAt DEF LastOf

\* The service's fields are arguments new can be called with.
LEMMA NextFieldsType ==
  ASSUME HashIsTyped, Linked(chain),
         NEW pk_att \in Keys, NEW dst \in Tags, NEW start_wwd \in Days,
         NEW members_hash \in Members
  PROVE  NextFields(pk_att, dst, start_wwd, members_hash) \in Entries
<1>1. ToBe(Len(chain)) \in Words(Symbol, U32Len)
  BY LenProperties, ToBeType DEF Linked
<1>2. Zeros(HashLen) \in Words(Symbol, HashLen)
  BY WidthAssumption DEF Zeros, Words, Byte
<1>3. chain # <<>> => digest(LastOf(chain).entry) \in Words(Symbol, HashLen)
  BY LastLink, DigestType
<1> QED
  BY <1>1, <1>2, <1>3, FieldAssumption DEF NextFields, Entries

LEMMA DamagedType ==
  ASSUME NEW bytes \in Seq(Symbol), NEW d \in Damaged(bytes)
  PROVE  d \in Seq(Symbol)
<1>1. Len(bytes) \in Nat /\ \A i \in 1 .. Len(bytes) : bytes[i] \in Symbol
  BY LenProperties, ElementOfSeq
<1>2. CASE d = SubSeq(bytes, 1, Len(bytes) - 1)
  <2>1. Len(bytes) - 1 \in Int /\ \A i \in 1 .. Len(bytes) - 1 : bytes[i] \in Symbol
    BY <1>1
  <2> QED BY <1>2, <2>1, SubSeqProperties
<1>3. CASE \E b \in Byte : d = Append(bytes, b)
  BY <1>3, WidthAssumption, AppendProperties
<1>4. CASE \E i \in 1 .. Len(bytes), b \in Byte : d = [bytes EXCEPT ![i] = b]
  BY <1>4, WidthAssumption, ExceptSeq
<1> QED BY <1>2, <1>3, <1>4 DEF Damaged

LEMMA InvInit == Init => IInv
<1> SUFFICES ASSUME Init PROVE IInv
  OBVIOUS
<1>1. Linked(<<>>)
  BY EmptySeq, EpochAssumption DEF Linked
<1>2. NodeFits(node, <<>>)
  BY EmptySeq DEF Init, NodeFits
<1> QED BY <1>1, <1>2, EmptySeq, EpochAssumption DEF Init, IInv

\* A chain with one more valid entry, linked to the last, is still linked.
LEMMA LinkedGrows ==
  ASSUME HashIsTyped, NEW c, Linked(c), Len(c) < MaxEpochs, NEW e, Valid(e),
         e.epoch = ToBe(Len(c)),
         c # <<>> => e.prev_hash = digest(LastOf(c).entry)
  PROVE  LET link == [entry    |-> e,
                      sig_prev |-> IF c = <<>> THEN InfinitySignature
                                   ELSE Signature(LastOf(c).entry, digest(e))]
         IN  link \in Links /\ Linked(Append(c, link))
<1> DEFINE sig == IF c = <<>> THEN InfinitySignature
                  ELSE Signature(LastOf(c).entry, digest(e))
           link == [entry |-> e, sig_prev |-> sig]
           d == Append(c, link)
<1>1. c \in Seq(Links) /\ Len(c) \in Nat
  BY LenProperties DEF Linked
<1>2. sig \in Signatures
  <2>1. CASE c = <<>>
    BY <2>1 DEF Signatures
  <2>2. CASE c # <<>>
    <3>1. LastOf(c).entry \in Entries
      BY <2>2, LastLink DEF Valid
    <3>2. LastOf(c).entry.pk_att \in Words(Symbol, G2_EIP2537_LEN)
          /\ LastOf(c).entry.dst \in Seq(Symbol)
      BY <3>1 DEF Entries
    <3>3. digest(e) \in Words(Symbol, HashLen)
      BY DigestType
    <3> QED BY <2>2, <3>2, <3>3 DEF Signatures, Signature
  <2> QED BY <2>1, <2>2
<1>3. link \in Links /\ link.entry = e /\ link.sig_prev = sig
  BY <1>2 DEF Links, Valid
<1>4. sig = IF c = <<>> THEN InfinitySignature ELSE Signature(LastOf(c).entry, digest(e))
  OBVIOUS
<1> HIDE DEF link, sig
<1>5. /\ d \in Seq(Links) /\ Len(d) = Len(c) + 1 /\ d # <<>>
      /\ \A i \in 1 .. Len(c) : d[i] = c[i]
      /\ d[Len(c) + 1] = link
  BY <1>1, <1>3, AppendProperties
<1> HIDE DEF d
<1>6. Len(d) <= MaxEpochs
  BY <1>1, <1>5, EpochAssumption
<1>7. ASSUME NEW i \in 1 .. Len(d)
      PROVE  Valid(d[i].entry) /\ d[i].entry.epoch = ToBe(i - 1)
  <2>1. CASE i = Len(c) + 1
    <3>1. i - 1 = Len(c)
      BY <2>1, <1>1
    <3> QED BY <2>1, <3>1, <1>3, <1>5
  <2>2. CASE i # Len(c) + 1
    <3>1. i \in 1 .. Len(c)
      BY <2>2, <1>1, <1>5
    <3> QED BY <3>1, <1>5 DEF Linked
  <2> QED BY <2>1, <2>2
<1>8. d[1].sig_prev = InfinitySignature
  <2>1. CASE c = <<>>
    <3>1. Len(c) = 0
      BY <2>1, EmptySeq
    <3> QED BY <2>1, <3>1, <1>3, <1>4, <1>5
  <2>2. CASE c # <<>>
    <3>1. 1 \in 1 .. Len(c)
      BY <2>2, LastLink
    <3> QED BY <2>2, <3>1, <1>5 DEF Linked
  <2> QED BY <2>1, <2>2
<1>9. ASSUME NEW i \in 1 .. Len(d) - 1
      PROVE  /\ d[i + 1].entry.prev_hash = digest(d[i].entry)
             /\ d[i + 1].sig_prev = Signature(d[i].entry, digest(d[i + 1].entry))
  <2>1. i \in 1 .. Len(c) /\ d[i] = c[i] /\ c # <<>>
    BY <1>1, <1>5, EmptySeq
  <2>2. CASE i = Len(c)
    BY <2>1, <2>2, <1>3, <1>4, <1>5 DEF LastOf
  <2>3. CASE i # Len(c)
    <3>1. i \in 1 .. Len(c) - 1 /\ i + 1 \in 1 .. Len(c)
      BY <2>1, <2>3, <1>1
    <3>2. d[i + 1] = c[i + 1]
      BY <3>1, <1>5
    <3> QED BY <2>1, <3>1, <3>2 DEF Linked
  <2> QED BY <2>2, <2>3
<1>10. Linked(d)
  BY <1>5, <1>6, <1>7, <1>8, <1>9 DEF Linked
<1> QED BY <1>3, <1>10 DEF d, link, sig

LEMMA BuildStep ==
  ASSUME HashIsTyped, IInv, NEW pk_att \in Keys, NEW dst \in Tags, NEW start_wwd \in Days,
         NEW members_hash \in Members, Build(pk_att, dst, start_wwd, members_hash)
  PROVE  IInv' /\ \E link \in Links : chain' = Append(chain, link)
<1> DEFINE e == NextFields(pk_att, dst, start_wwd, members_hash)
           link == [entry    |-> e,
                    sig_prev |-> IF chain = <<>> THEN InfinitySignature
                                 ELSE Signature(LastOf(chain).entry, digest(e))]
<1>1. Linked(chain) /\ Len(chain) < MaxEpochs
  BY DEF IInv, Build
<1>2. Valid(e) /\ new(e) = Ok(e)
  BY NextFieldsType, NewAccepts DEF IInv, Build, Valid
<1>3. e.epoch = ToBe(Len(chain)) /\ (chain # <<>> => e.prev_hash = digest(LastOf(chain).entry))
  BY DEF NextFields
<1>4. chain' = Append(chain, link) /\ UNCHANGED <<node, contract, faults>>
  BY <1>2 DEF Build, Ok, signing_message
<1>5. link \in Links /\ Linked(Append(chain, link))
  <2> HIDE DEF e
  <2> QED BY <1>1, <1>2, <1>3, LinkedGrows
<1> HIDE DEF link
<1>6. PICK c, d, n : c = chain /\ d = chain' /\ n = node
  OBVIOUS
<1>7. /\ Len(c) \in Nat /\ Len(d) = Len(c) + 1 /\ d # <<>>
      /\ \A i \in 1 .. Len(c) : d[i] = c[i]
  BY <1>1, <1>4, <1>5, <1>6, AppendProperties, LenProperties DEF Linked
<1>8. NodeFits(n, c)
  BY <1>6 DEF IInv
<1>9. NodeFits(n, d)
  BY <1>7, <1>8 DEF NodeFits
<1>10. Linked(d)
  BY <1>4, <1>5, <1>6
<1>11. Linked(chain') /\ NodeFits(node', chain')
  BY <1>4, <1>6, <1>9, <1>10
<1> QED BY <1>4, <1>5, <1>11 DEF IInv

LEMMA DeliverStep ==
  ASSUME IInv, NEW bytes \in Seq(Symbol), NEW sig_prev,
         sig_prev = InfinitySignature \/ \E i \in 1 .. Len(chain) : sig_prev = chain[i].sig_prev,
         chain # <<>>, Deliver(bytes, sig_prev), faults' \in 0 .. Faults
  PROVE  IInv'
<1>1. NodeFits([input |-> bytes, output |-> decode(bytes), sig_prev |-> sig_prev], chain)
  BY DEF NodeFits
<1>2. Linked(chain') /\ NodeFits(node', chain')
  BY <1>1 DEF IInv, Deliver
<1> QED BY <1>2 DEF IInv, Deliver

LEMMA EncodedAt ==
  ASSUME IInv, NEW i \in DOMAIN chain
  PROVE  /\ i \in 1 .. Len(chain) /\ chain # <<>>
         /\ canonical_bytes(chain[i].entry) \in Seq(Symbol)
<1>1. i \in 1 .. Len(chain) /\ Len(chain) \in Nat
  BY LenProperties DEF IInv, Linked
<1>2. chain # <<>>
  BY <1>1, EmptySeq
<1> QED BY <1>1, <1>2, LinkAt, EncodingDecodes DEF IInv

LEMMA RelayStep ==
  ASSUME IInv, NEW i \in DOMAIN chain, NEW j \in DOMAIN chain,
         Relay(i) \/ RelayDamaged(i) \/ RelayMispaired(i, j)
  PROVE  IInv' /\ UNCHANGED <<chain, contract>>
<1>1. /\ i \in 1 .. Len(chain) /\ j \in 1 .. Len(chain) /\ chain # <<>>
      /\ canonical_bytes(chain[i].entry) \in Seq(Symbol) /\ faults \in 0 .. Faults
  BY EncodedAt DEF IInv
<1>2. CASE Relay(i)
  BY <1>1, <1>2, DeliverStep DEF Relay, Deliver
<1>3. CASE RelayMispaired(i, j)
  BY <1>1, <1>3, DeliverStep DEF RelayMispaired, Deliver
<1>4. CASE RelayDamaged(i)
  <2>1. PICK bytes \in Damaged(canonical_bytes(chain[i].entry)),
             sig_prev \in {chain[i].sig_prev, InfinitySignature} : Deliver(bytes, sig_prev)
    BY <1>4 DEF RelayDamaged
  <2>2. bytes \in Seq(Symbol)
    BY <1>1, DamagedType
  <2>3. faults' \in 0 .. Faults
    BY <1>1, <1>4, EpochAssumption DEF RelayDamaged
  <2> QED BY <1>1, <2>1, <2>2, <2>3, DeliverStep DEF Deliver
<1> QED BY <1>2, <1>3, <1>4

LEMMA DecodedNode ==
  ASSUME IInv, node.output.kind = "ok"
  PROVE  /\ node.output = decode(node.input) /\ node.input \in Seq(Symbol) /\ chain # <<>>
         /\ Valid(node.output.entry) /\ canonical_bytes(node.output.entry) = node.input
<1>1. node.output # Err("none")
  BY DEF Err
<1>2. /\ node.output = decode(node.input) /\ node.input \in Seq(Symbol) /\ chain # <<>>
  BY <1>1 DEF IInv, NodeFits
<1> QED BY <1>2, DecodingEncodes

LEMMA SubmitStep ==
  ASSUME IInv, Submit
  PROVE  IInv'
<1>1. contract' = Append(contract, node.output.entry) /\ node.output.entry \in Entries
  BY DecodedNode DEF Submit, Valid
<1>2. contract' \in Seq(Entries)
  BY <1>1, AppendProperties DEF IInv
<1>3. Linked(chain') /\ NodeFits(node', chain')
  BY DEF IInv, Submit
<1> QED BY <1>2, <1>3 DEF IInv, Submit

LEMMA InvNext ==
  ASSUME HashIsTyped
  PROVE  IInv /\ [Next]_vars => IInv'
<1> SUFFICES ASSUME IInv, [Next]_vars PROVE IInv'
  OBVIOUS
<1>1. ASSUME NEW pk_att \in Keys, NEW dst \in Tags, NEW start_wwd \in Days,
             NEW members_hash \in Members, Build(pk_att, dst, start_wwd, members_hash)
      PROVE  IInv'
  BY <1>1, BuildStep
<1>2. ASSUME NEW i \in DOMAIN chain,
             Relay(i) \/ RelayDamaged(i) \/ \E j \in DOMAIN chain : RelayMispaired(i, j)
      PROVE  IInv'
  BY <1>2, RelayStep
<1>3. CASE Submit
  BY <1>3, SubmitStep
<1>4. CASE UNCHANGED vars
  <2>1. Linked(chain') /\ NodeFits(node', chain')
    BY <1>4 DEF IInv, vars
  <2> QED BY <1>4, <2>1 DEF IInv, vars
<1> QED BY <1>1, <1>2, <1>3, <1>4 DEF Next

LEMMA Invariance ==
  ASSUME HashIsTyped
  PROVE  Spec => []IInv
BY InvInit, InvNext, PTL DEF Spec

-----------------------------------------------------------------------------
(***************************************************************************)
(* The contract's checks.                                                  *)
(***************************************************************************)
\* The padding that the contract slices out of a limb is zero where new finds no byte set.
LEMMA PaddingIsZero ==
  ASSUME NEW pk_att, NEW limb \in 0 .. Limbs - 1
  PROVE  SubSeq(pk_att, limb * LimbLen + 1, limb * LimbLen + PadLen) = Zeros(PadLen)
           <=> \A i \in 1 .. PadLen : pk_att[limb * LimbLen + i] = 0
<1> DEFINE from == limb * LimbLen
           S == {pk_att[k] : k \in from + 1 .. from + PadLen} \cup {0}
           pad == SubSeq(pk_att, from + 1, from + PadLen)
<1>1. from \in Nat /\ PadLen \in Nat
  BY WidthAssumption
<1> HIDE DEF from
<1>2. \A k \in from + 1 .. from + PadLen : pk_att[k] \in S
  OBVIOUS
<1> HIDE DEF S
<1>3. /\ pad \in Seq(S)
      /\ Len(pad) = IF from + 1 <= from + PadLen THEN (from + PadLen) - (from + 1) + 1 ELSE 0
      /\ \A i \in 1 .. (from + PadLen) - (from + 1) + 1 : pad[i] = pk_att[(from + 1) + i - 1]
  BY <1>1, <1>2, SubSeqProperties
<1>4. Len(pad) = PadLen /\ \A i \in 1 .. PadLen : pad[i] = pk_att[from + i]
  <2>1. (from + PadLen) - (from + 1) + 1 = PadLen /\ \A i \in Nat : (from + 1) + i - 1 = from + i
    BY <1>1
  <2> QED BY <1>1, <1>3, <2>1
<1> HIDE DEF pad
<1>5. pad = [i \in 1 .. PadLen |-> pad[i]]
  BY <1>3, <1>4, LenProperties
<1>6. pad = Zeros(PadLen) <=> \A i \in 1 .. PadLen : pk_att[from + i] = 0
  BY <1>4, <1>5 DEF Zeros
<1> QED BY <1>6 DEF from, pad

LEMMA ChecksAgree ==
  ASSUME NEW e \in Entries
  PROVE  Requires(e) <=> new(e).kind = "ok"
<1>1. Len(e.dst) \in Nat /\ (e.dst = <<>> <=> Len(e.dst) = 0) /\ Len(e.pk_att) = G2_EIP2537_LEN
  BY FieldTypes, EmptySeq DEF Entries
<1>2. (\A limb \in 0 .. Limbs - 1 :
         SubSeq(e.pk_att, limb * LimbLen + 1, limb * LimbLen + PadLen) = Zeros(PadLen))
       <=> ~ PaddingSet(e.pk_att)
  BY PaddingIsZero DEF PaddingSet
<1> QED BY <1>1, <1>2, NewAccepts DEF Requires

-----------------------------------------------------------------------------
(***************************************************************************)
(* The theorems.                                                           *)
(***************************************************************************)
\* Every field of what is built, decoded and accepted has its width.
THEOREM TypeCorrectness ==
  ASSUME HashIsTyped
  PROVE  Spec => []TypeOK
<1>1. IInv => TypeOK
  <2> SUFFICES ASSUME IInv PROVE TypeOK
    OBVIOUS
  <2>1. \A i \in DOMAIN chain : chain[i].entry \in Entries
    BY EncodedAt, LinkAt DEF IInv, Valid
  <2>2. node.output.kind = "ok" => node.output.entry \in Entries
    BY DecodedNode DEF Valid
  <2>3. \A i \in DOMAIN contract : contract[i] \in Entries
    BY LenProperties, ElementOfSeq DEF IInv
  <2> QED BY <2>1, <2>2, <2>3 DEF IInv, TypeOK
<1> QED BY <1>1, Invariance, PTL

\* Whatever new accepts, the bytes it encodes to decode to it (fs_epoch.rs:123-127).
THEOREM Decodability ==
  ASSUME HashIsTyped
  PROVE  Spec => []BuiltEntriesDecode
<1>1. IInv => BuiltEntriesDecode
  BY EncodedAt, LinkAt, EncodingDecodes DEF IInv, BuiltEntriesDecode
<1> QED BY <1>1, Invariance, PTL

\* Whatever bytes reach the node, if they decode they are the one encoding of what they
\* decode to (fs_epoch.rs:231-232).
THEOREM Canonicity ==
  ASSUME HashIsTyped
  PROVE  Spec => []EncodingIsCanonical
<1>1. IInv => EncodingIsCanonical
  BY DecodedNode DEF EncodingIsCanonical
<1> QED BY <1>1, Invariance, PTL

\* The contract's five checks reject exactly what new rejects (fs_epoch.rs:57-58).
THEOREM CheckAgreement ==
  ASSUME HashIsTyped
  PROVE  Spec => []ContractRejectsWhatNewRejects
<1>1. IInv => ContractRejectsWhatNewRejects
  BY NextFieldsType, ChecksAgree DEF IInv, ContractRejectsWhatNewRejects
<1> QED BY <1>1, Invariance, PTL

-----------------------------------------------------------------------------
(***************************************************************************)
(* The refinement.  It needs that the hash tells apart what is hashed: no  *)
(* hash of fixed width tells all bytes apart, so this is said of the       *)
(* entries of the chain and the one at the node, in each state.            *)
(***************************************************************************)
Hashed ==
  {canonical_bytes(chain[i].entry) : i \in DOMAIN chain}
    \cup {n.input : n \in {m \in {node} : m.output.kind = "ok"}}

NoCollision == \A x \in Hashed, y \in Hashed : Keccak(x) = Keccak(y) => x = y

\* What the contract accepted is the beginning of the chain.
Follows ==
  Len(contract) <= Len(chain) /\ \A i \in 1 .. Len(contract) : contract[i] = chain[i].entry

LEMMA ChainIsHashed ==
  ASSUME IInv, NoCollision, NEW i \in 1 .. Len(chain), NEW e, Valid(e),
         canonical_bytes(e) \in Hashed, digest(e) = digest(chain[i].entry)
  PROVE  e = chain[i].entry
<1>1. i \in DOMAIN chain /\ Valid(chain[i].entry)
  BY LinkAt, LenProperties DEF IInv, Linked
<1>2. canonical_bytes(chain[i].entry) \in Hashed
  BY <1>1 DEF Hashed
<1>3. canonical_bytes(e) = canonical_bytes(chain[i].entry)
  BY <1>2 DEF NoCollision, digest
<1> QED BY <1>1, <1>3, EncodingIsInjective

\* Entries differ by their number.
LEMMA EntriesDiffer ==
  ASSUME IInv, NEW i \in 1 .. Len(chain), NEW j \in 1 .. Len(chain),
         chain[i].entry = chain[j].entry
  PROVE  i = j
<1>1. ToBe(i - 1) = ToBe(j - 1)
  BY DEF IInv, Linked
<1>2. Len(chain) \in Nat /\ Len(chain) <= MaxEpochs
  BY LenProperties DEF IInv, Linked
<1>3. i - 1 \in 0 .. MaxEpochs - 1 /\ j - 1 \in 0 .. MaxEpochs - 1
  BY <1>2, EpochAssumption
<1> QED BY <1>1, <1>3, ToBeIsInjective

LEMMA AcceptsNext ==
  ASSUME IInv, NoCollision, Follows, Submit
  PROVE  /\ Len(contract) < Len(chain)
         /\ contract' = Append(contract, chain[Len(contract) + 1].entry)
<1> DEFINE e == node.output.entry
           n == Len(contract)
<1>1. /\ Valid(e) /\ canonical_bytes(e) = node.input /\ chain # <<>>
      /\ Accepts(e, node.sig_prev) /\ contract' = Append(contract, e)
  BY DecodedNode DEF Submit
<1>2. canonical_bytes(e) \in Hashed
  BY <1>1 DEF Hashed, Submit
<1>3. n \in Nat /\ Len(chain) \in Nat \ {0} /\ (contract = <<>> <=> n = 0)
  BY <1>1, EmptySeq, LenProperties DEF IInv, Linked
<1> SUFFICES n < Len(chain) /\ e = chain[n + 1].entry
  BY <1>1
<1>4. CASE contract = <<>>
  <2>1. digest(e) = digest(chain[1].entry)
    BY <1>1, <1>4 DEF Accepts
  <2>2. 1 \in 1 .. Len(chain) /\ n = 0
    BY <1>3, <1>4
  <2> QED BY <2>1, <2>2, <1>1, <1>2, <1>3, ChainIsHashed
<1>5. CASE contract # <<>>
  <2> DEFINE head == LastOf(contract)
  <2>1. /\ e.prev_hash = digest(head)
        /\ node.sig_prev = Signature(head, digest(e)) /\ node.sig_prev # InfinitySignature
    BY <1>1, <1>5 DEF Accepts, Verifies, signing_message
  <2>2. n \in 1 .. Len(chain) /\ head = chain[n].entry
    BY <1>3, <1>5 DEF Follows, LastOf
  <2>3. PICK j \in 1 .. Len(chain) : node.sig_prev = chain[j].sig_prev
    BY <2>1 DEF IInv, NodeFits
  <2>4. j # 1
    BY <1>1, <2>1, <2>3 DEF IInv, Linked
  <2>5. j - 1 \in 1 .. Len(chain) - 1 /\ j - 1 \in 1 .. Len(chain) /\ (j - 1) + 1 = j
    BY <1>3, <2>4
  <2>6. /\ chain[j].entry.prev_hash = digest(chain[j - 1].entry)
        /\ chain[j].sig_prev = Signature(chain[j - 1].entry, digest(chain[j].entry))
    BY <2>5 DEF IInv, Linked
  <2>7. digest(e) = digest(chain[j].entry)
    BY <2>1, <2>3, <2>6 DEF Signature
  <2>8. e = chain[j].entry
    BY <2>7, <1>1, <1>2, ChainIsHashed
  <2>9. chain[n].entry = chain[j - 1].entry
    <3>1. Valid(chain[n].entry) /\ canonical_bytes(chain[n].entry) \in Hashed
      <4>1. n \in DOMAIN chain
        BY <2>2, LenProperties DEF IInv, Linked
      <4> QED BY <4>1, <2>2, LinkAt DEF IInv, Hashed
    <3>2. digest(chain[n].entry) = digest(chain[j - 1].entry)
      BY <2>1, <2>2, <2>6, <2>8
    <3> QED BY <3>1, <3>2, <2>5, ChainIsHashed
  <2>10. n = j - 1
    BY <2>2, <2>5, <2>9, EntriesDiffer
  <2> QED BY <2>5, <2>8, <2>10, <1>3
<1> QED BY <1>4, <1>5

\* The history that Handoff sees.
EntriesOf(c) == [i \in DOMAIN c |-> c[i].entry]

LEMMA HistoryGrows ==
  ASSUME NEW c \in Seq(Links), NEW link \in Links
  PROVE  /\ Len(EntriesOf(c)) = Len(c)
         /\ Len(EntriesOf(Append(c, link))) = Len(EntriesOf(c)) + 1
         /\ SubSeq(EntriesOf(Append(c, link)), 1, Len(EntriesOf(c))) = EntriesOf(c)
<1> DEFINE d == Append(c, link)
           h == EntriesOf(c)
           k == EntriesOf(d)
<1>1. /\ Len(c) \in Nat /\ DOMAIN c = 1 .. Len(c)
      /\ \A i \in 1 .. Len(c) : c[i].entry \in Entries
  <2>1. \A i \in 1 .. Len(c) : c[i] \in Links
    BY ElementOfSeq
  <2> QED BY <2>1, LenProperties DEF Links
<1>2. /\ d \in Seq(Links) /\ Len(d) = Len(c) + 1 /\ DOMAIN d = 1 .. Len(d)
      /\ \A i \in 1 .. Len(c) : d[i] = c[i]
      /\ \A i \in 1 .. Len(d) : d[i].entry \in Entries
  <2>1. /\ d \in Seq(Links) /\ Len(d) = Len(c) + 1
        /\ \A i \in 1 .. Len(c) : d[i] = c[i]
    BY AppendProperties
  <2> HIDE DEF d
  <2>2. \A i \in 1 .. Len(d) : d[i] \in Links
    BY <2>1, ElementOfSeq
  <2> QED BY <2>1, <2>2, LenProperties DEF Links
<1> HIDE DEF d
<1>3. h \in Seq(Entries) /\ Len(h) = Len(c) /\ \A i \in 1 .. Len(c) : h[i] = c[i].entry
  BY <1>1 DEF EntriesOf
<1>4. k \in Seq(Entries) /\ Len(k) = Len(d) /\ \A i \in 1 .. Len(d) : k[i] = d[i].entry
  BY <1>1, <1>2 DEF EntriesOf
<1> HIDE DEF h, k
<1>5. SubSeq(k, 1, Len(h)) = h
  <2> DEFINE p == SubSeq(k, 1, Len(h))
  <2>1. \A i \in 1 .. Len(h) : k[i] \in Entries /\ k[i] = h[i]
    BY <1>1, <1>2, <1>3, <1>4, ElementOfSeq
  <2>2. /\ p \in Seq(Entries)
        /\ Len(p) = IF 1 <= Len(h) THEN Len(h) - 1 + 1 ELSE 0
        /\ \A i \in 1 .. Len(h) - 1 + 1 : p[i] = k[1 + i - 1]
    BY <2>1, <1>1, <1>3, SubSeqProperties
  <2>3. Len(p) = Len(h) /\ \A i \in 1 .. Len(h) : p[i] = k[i]
    BY <2>2, <1>1, <1>3
  <2> HIDE DEF p
  <2>4. p = h
    BY <2>1, <2>2, <2>3, <1>3, SeqEqual
  <2> QED BY <2>4 DEF p
<1> QED BY <1>2, <1>3, <1>4, <1>5 DEF h, k, d

LEMMA FollowsInit == Init => Follows /\ Followed!Init
BY EmptySeq DEF Init, Follows, Followed!Init

LEMMA FollowsNext ==
  ASSUME HashIsTyped
  PROVE  IInv /\ NoCollision /\ Follows /\ [Next]_vars
           => Follows' /\ [Followed!Next]_<<EntriesOf(chain), contract>>
<1> SUFFICES ASSUME IInv, NoCollision, Follows, [Next]_vars
             PROVE  Follows' /\ [Followed!Next]_<<EntriesOf(chain), contract>>
  OBVIOUS
<1>1. /\ Len(contract) \in Nat /\ contract \in Seq(Entries)
      /\ chain \in Seq(Links) /\ Len(chain) \in Nat /\ DOMAIN chain = 1 .. Len(chain)
  BY LenProperties DEF IInv, Linked
<1>2. ASSUME NEW pk_att \in Keys, NEW dst \in Tags, NEW start_wwd \in Days,
             NEW members_hash \in Members, Build(pk_att, dst, start_wwd, members_hash)
      PROVE  Follows' /\ Followed!Extend
  <2>1. PICK link \in Links : chain' = Append(chain, link)
    BY <1>2, BuildStep
  <2>2. contract' = contract
    BY <1>2 DEF Build
  <2>3. Len(chain') = Len(chain) + 1 /\ \A i \in 1 .. Len(chain) : chain'[i] = chain[i]
    BY <1>1, <2>1, AppendProperties
  <2>4. Follows'
    BY <1>1, <2>2, <2>3 DEF Follows
  <2>5. Followed!Extend
    BY <1>1, <2>1, <2>2, HistoryGrows DEF Followed!Extend, EntriesOf
  <2> QED BY <2>4, <2>5
<1>3. ASSUME NEW i \in DOMAIN chain,
             Relay(i) \/ RelayDamaged(i) \/ \E j \in DOMAIN chain : RelayMispaired(i, j)
      PROVE  UNCHANGED <<chain, contract>>
  BY <1>3, RelayStep
<1>4. CASE Submit
  <2>1. /\ Len(contract) < Len(chain) /\ chain' = chain
        /\ contract' = Append(contract, chain[Len(contract) + 1].entry)
    BY <1>4, AcceptsNext DEF Submit
  <2>2. Len(contract) + 1 \in 1 .. Len(chain)
    BY <1>1, <2>1
  <2>3. chain[Len(contract) + 1].entry \in Entries
    BY <2>2, LinkAt DEF IInv, Valid
  <2>4. /\ Len(contract') = Len(contract) + 1
        /\ \A i \in 1 .. Len(contract) : contract'[i] = contract[i]
        /\ contract'[Len(contract) + 1] = chain[Len(contract) + 1].entry
    BY <1>1, <2>1, <2>3, AppendProperties
  <2>5. Follows'
    BY <1>1, <2>1, <2>4 DEF Follows
  <2>6. /\ Len(EntriesOf(chain)) = Len(chain)
        /\ EntriesOf(chain)[Len(contract) + 1] = chain[Len(contract) + 1].entry
    BY <1>1, <2>2 DEF EntriesOf
  <2>7. Followed!Accept
    BY <2>1, <2>6 DEF Followed!Accept, EntriesOf
  <2> QED BY <2>5, <2>7 DEF Followed!Next, EntriesOf
<1>5. CASE UNCHANGED <<chain, contract>>
  BY <1>5 DEF Follows, EntriesOf
<1> QED
  BY <1>2, <1>3, <1>4, <1>5 DEF Next, vars, Followed!Next

\* However entries are reordered, repeated, damaged and paired with signatures of others
\* or of nobody, the contract takes the next entry of the chain, once, and nothing else,
\* unless the hash takes two of the encodings at hand for each other (fs_epoch.rs:5-10,
\* 23-25).
THEOREM Refinement ==
  ASSUME HashIsTyped
  PROVE  Spec /\ []NoCollision => ImplementsHandoff
<1>1. Init => Follows /\ Followed!Init
  BY FollowsInit
<1>2. IInv /\ NoCollision /\ Follows /\ [Next]_vars
        => Follows' /\ [Followed!Next]_<<[i \in DOMAIN chain |-> chain[i].entry], contract>>
  BY FollowsNext DEF EntriesOf
<1>3. Spec => []IInv
  BY Invariance
<1> QED
  BY <1>1, <1>2, <1>3, PTL DEF Spec, ImplementsHandoff, Followed!Spec
=============================================================================
