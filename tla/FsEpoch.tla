------------------------------ MODULE FsEpoch -------------------------------
(***************************************************************************)
(* Fingerprint-service epochs: the canonical encoding of protocol/fs_epoch *)
(* and the hand-off it serves.  The service builds each entry with new,    *)
(* chains it to its predecessor by digest and has the predecessor's        *)
(* committee sign it; an L2 node relays the bytes; an L2 contract holds    *)
(* the raw fields, checks them itself and recomputes the digest.  The node *)
(* and the contract are outside the repository and are modelled as the     *)
(* module's documentation requires them to be.                             *)
(*                                                                         *)
(* A field of fixed width is the sequence of its symbols, big-endian, so   *)
(* an integer is its bytes.  The bytes of dst and of pk_att, and the       *)
(* length byte, are numbers in 0 .. MaxByte; a hash may use symbols of its *)
(* own, of which a toy hash needs more than there are toy bytes.           *)
(***************************************************************************)
EXTENDS Integers, Sequences

CONSTANTS
  MaxByte,          \* u8::MAX (255), hence also MAX_DST_LEN
  U32Len,           \* bytes of a u32 (4)
  HashLen,          \* symbols of a hash (32 bytes)
  Limbs, LimbLen, PadLen,   \* pk_att: limbs (4), their length (64) and padding (16)
  Symbol,           \* every symbol of an encoding
  Keccak(_),        \* keccak256, a sequence of HashLen symbols
  Keys, Tags, Days, Members,  \* the fields the service is asked to build entries from
  MaxEpochs,        \* bound: entries the service builds
  Faults            \* bound: damaged deliveries

EPOCH_ENCODING_VERSION == 1

\* Variant: one too high.
MAX_DST_LEN_OneMore == MaxByte + 1

MAX_DST_LEN == MaxByte
G2_EIP2537_LEN == Limbs * LimbLen

Byte == 0 .. MaxByte
Words(S, n) == [1 .. n -> S]    \* fields of fixed width
Zeros(n) == [i \in 1 .. n |-> 0]

ASSUME WidthAssumption ==
  /\ MaxByte \in Nat \ {0}
  /\ U32Len \in Nat /\ HashLen \in Nat
  /\ Limbs \in Nat /\ LimbLen \in Nat /\ PadLen \in 0 .. LimbLen
  /\ Byte \subseteq Symbol /\ Symbol \subseteq Nat

ASSUME FieldAssumption ==
  /\ Keys \subseteq Words(Symbol, G2_EIP2537_LEN) /\ Tags \subseteq Seq(Symbol)
  /\ Days \subseteq Words(Symbol, U32Len) /\ Members \subseteq Words(Symbol, HashLen)

-----------------------------------------------------------------------------
(***************************************************************************)
(* The entry.                                                              *)
(***************************************************************************)
\* The arguments new can be called with: pk_att and the hashes are arrays.
Entries ==
  [epoch : Words(Symbol, U32Len), pk_att : Words(Symbol, G2_EIP2537_LEN),
   dst : Seq(Symbol), start_wwd : Words(Symbol, U32Len),
   members_hash : Words(Symbol, HashLen), prev_hash : Words(Symbol, HashLen)]

Ok(entry) == [kind |-> "ok", entry |-> entry]
Err(kind) == [kind |-> kind]

\* Some limb of pk_att has a padding byte that is not zero.  Variant: the first has.
PaddingSet_FirstLimb(pk_att) == \E i \in 1 .. PadLen : pk_att[i] # 0

PaddingSet(pk_att) ==
  \E limb \in 0 .. Limbs - 1, i \in 1 .. PadLen : pk_att[limb * LimbLen + i] # 0

new(e) ==
  IF e.dst = <<>> THEN Err("EmptyDst")
  ELSE IF Len(e.dst) > MAX_DST_LEN THEN Err("DstTooLong")
  ELSE IF e.pk_att = Zeros(G2_EIP2537_LEN) THEN Err("PkAttInfinity")
  ELSE IF PaddingSet(e.pk_att) THEN Err("PkAttPadding")
  ELSE Ok(e)

\* dst.len() as u8: the cast drops what does not fit.
AsU8(n) == n % (MaxByte + 1)

\* Variant: the two hashes change places.
canonical_bytes_HashesSwapped(e) ==
  <<EPOCH_ENCODING_VERSION>> \o (e.epoch \o (e.pk_att \o (<<AsU8(Len(e.dst))>>
    \o (e.dst \o (e.start_wwd \o (e.prev_hash \o e.members_hash))))))

canonical_bytes(e) ==
  <<EPOCH_ENCODING_VERSION>> \o (e.epoch \o (e.pk_att \o (<<AsU8(Len(e.dst))>>
    \o (e.dst \o (e.start_wwd \o (e.members_hash \o e.prev_hash))))))

\* Variant: the bytes themselves.
digest_NotHashed(e) == canonical_bytes(e)

digest(e) == Keccak(canonical_bytes(e))

\* What the predecessor's committee signs.  Variant: the link alone.
signing_message_PrevHash(e) == e.prev_hash

signing_message(e) == digest(e)

\* take, take_array and take_u32: the head of n symbols and the rest.
CanTake(bytes, n) == n <= Len(bytes)
TakeHead(bytes, n) == SubSeq(bytes, 1, n)
Rest(bytes, n) == SubSeq(bytes, n + 1, Len(bytes))

\* The fields after dst, and nothing else.  Variant: what follows them is ignored.
TailLen == U32Len + HashLen + HashLen
IsTail_TrailingIgnored(tail) == CanTake(tail, TailLen)

IsTail(tail) == Len(tail) = TailLen

\* The fields after the length byte.
DecodeTail(epoch, pk_att, rest, dst_len) ==
  LET tail == Rest(rest, dst_len)
  IN  IF ~ CanTake(rest, dst_len) \/ ~ IsTail(tail) THEN Err("Malformed")
      ELSE new([epoch        |-> epoch,
                pk_att       |-> pk_att,
                dst          |-> TakeHead(rest, dst_len),
                start_wwd    |-> TakeHead(tail, U32Len),
                members_hash |-> TakeHead(Rest(tail, U32Len), HashLen),
                prev_hash    |-> TakeHead(Rest(tail, U32Len + HashLen), HashLen)])

decode(bytes) ==
  LET head == 1 + U32Len + G2_EIP2537_LEN
  IN  IF bytes = <<>> THEN Err("Malformed")
      ELSE IF bytes[1] # EPOCH_ENCODING_VERSION THEN Err("UnsupportedVersion")
      ELSE IF ~ CanTake(bytes, head + 1) THEN Err("Malformed")
      ELSE DecodeTail(TakeHead(Rest(bytes, 1), U32Len),
                      TakeHead(Rest(bytes, 1 + U32Len), G2_EIP2537_LEN),
                      Rest(bytes, head + 1),
                      bytes[head + 1])

-----------------------------------------------------------------------------
(***************************************************************************)
(* The hand-off.                                                           *)
(***************************************************************************)
VARIABLES
  chain,      \* the service: the entries it built, each with its signature
  node,       \* the node: the last bytes it received, and their decoding
  contract,   \* the contract: the entries it accepted
  faults      \* damaged deliveries so far

vars == <<chain, node, contract, faults>>

\* u32::to_be_bytes: the quotients of n by the powers of the base, of which each byte
\* is the last digit.
Quotients(n) ==
  LET shifted[k \in 0 .. U32Len] == IF k = 0 THEN n ELSE shifted[k - 1] \div (MaxByte + 1)
  IN  shifted

ToBe(n) == [i \in 1 .. U32Len |-> Quotients(n)[U32Len - i] % (MaxByte + 1)]

\* Epochs are counted in a u32.
ASSUME EpochAssumption ==
  /\ MaxEpochs \in Nat /\ Faults \in Nat
  /\ \A n \in 0 .. MaxEpochs - 1 : Quotients(n)[U32Len] = 0

\* A committee's signature over a message, under a domain separation tag.
Signature(entry, message) == [by |-> entry.pk_att, dst |-> entry.dst, message |-> message]

\* All zero: the point at infinity, which a bare pairing check takes for a signature
\* of anyone's over anything.  An entry without a predecessor carries it.
InfinitySignature == [message |-> <<>>]
Verifies(entry, message, sig_prev) ==
  sig_prev \in {InfinitySignature, Signature(entry, message)}

Init ==
  /\ chain = <<>>
  /\ node = [input |-> <<>>, output |-> Err("none"), sig_prev |-> InfinitySignature]
  /\ contract = <<>>
  /\ faults = 0

LastOf(seq) == seq[Len(seq)]

\* The fields of the next epoch, linked to the last.
NextFields(pk_att, dst, start_wwd, members_hash) ==
  [epoch        |-> ToBe(Len(chain)),
   pk_att       |-> pk_att,
   dst          |-> dst,
   start_wwd    |-> start_wwd,
   members_hash |-> members_hash,
   prev_hash    |-> IF chain = <<>> THEN Zeros(HashLen) ELSE digest(LastOf(chain).entry)]

\* The service is asked for the next epoch; fields that new refuses change nothing.
Build(pk_att, dst, start_wwd, members_hash) ==
  LET built == new(NextFields(pk_att, dst, start_wwd, members_hash))
  IN  /\ Len(chain) < MaxEpochs
      /\ built.kind = "ok"
      /\ chain' = Append(chain,
           [entry    |-> built.entry,
            sig_prev |-> IF chain = <<>> THEN InfinitySignature
                         ELSE Signature(LastOf(chain).entry, signing_message(built.entry))])
      /\ UNCHANGED <<node, contract, faults>>

Deliver(bytes, sig_prev) ==
  /\ node' = [input |-> bytes, output |-> decode(bytes), sig_prev |-> sig_prev]
  /\ UNCHANGED <<chain, contract>>

\* Any entry, at any time, any number of times, with its signature.
Relay(i) ==
  /\ Deliver(canonical_bytes(chain[i].entry), chain[i].sig_prev)
  /\ UNCHANGED faults

\* An entry with the signature of another.
RelayMispaired(i, j) ==
  /\ Deliver(canonical_bytes(chain[i].entry), chain[j].sig_prev)
  /\ UNCHANGED faults

\* One symbol lost at the end, one too many, or one changed.
Damaged(bytes) ==
  {SubSeq(bytes, 1, Len(bytes) - 1)}
    \cup {Append(bytes, b) : b \in Byte}
    \cup {[bytes EXCEPT ![i] = b] : i \in 1 .. Len(bytes), b \in Byte}

RelayDamaged(i) ==
  /\ faults < Faults
  /\ faults' = faults + 1
  /\ \E bytes \in Damaged(canonical_bytes(chain[i].entry)),
        sig_prev \in {chain[i].sig_prev, InfinitySignature} : Deliver(bytes, sig_prev)

\* The five checks the contract makes of raw fields.
Requires(e) ==
  /\ Len(e.pk_att) = G2_EIP2537_LEN
  /\ Len(e.dst) >= 1
  /\ Len(e.dst) <= MaxByte
  /\ e.pk_att # Zeros(G2_EIP2537_LEN)
  /\ \A limb \in 0 .. Limbs - 1 :
       SubSeq(e.pk_att, limb * LimbLen + 1, limb * LimbLen + PadLen) = Zeros(PadLen)

\* The genesis digest is pinned out of band; a successor names the head by
\* digest and has a signature of the head's committee, under the head's tag.
Accepts(e, sig_prev) ==
  /\ Requires(e)
  /\ \/ /\ contract = <<>>
        /\ digest(e) = digest(chain[1].entry)
     \/ /\ contract # <<>>
        /\ e.epoch # ToBe(0)
        /\ e.prev_hash = digest(LastOf(contract))
        /\ sig_prev # InfinitySignature
        /\ Verifies(LastOf(contract), signing_message(e), sig_prev)

Submit ==
  /\ node.output.kind = "ok"
  /\ Accepts(node.output.entry, node.sig_prev)
  /\ contract' = Append(contract, node.output.entry)
  /\ UNCHANGED <<chain, node, faults>>

Next ==
  \/ \E pk_att \in Keys, dst \in Tags, start_wwd \in Days, members_hash \in Members :
       Build(pk_att, dst, start_wwd, members_hash)
  \/ \E i \in DOMAIN chain :
       Relay(i) \/ RelayDamaged(i) \/ \E j \in DOMAIN chain : RelayMispaired(i, j)
  \/ Submit

Spec == Init /\ [][Next]_vars

\* The node relays what the contract lacks, again and again, and submits what it
\* decoded.
RelayNext == Len(contract) < Len(chain) /\ Relay(Len(contract) + 1)

FairSpec == Spec /\ SF_vars(RelayNext) /\ SF_vars(Submit)

-----------------------------------------------------------------------------
(***************************************************************************)
(* Properties.                                                             *)
(***************************************************************************)
TypeOK ==
  /\ \A i \in DOMAIN chain : chain[i].entry \in Entries
  /\ node.output.kind = "ok" => node.output.entry \in Entries
  /\ \A i \in DOMAIN contract : contract[i] \in Entries
  /\ faults \in 0 .. Faults

\* Whatever new accepts, also at the bounds of dst, encodes to bytes that
\* decode to it (fs_epoch.rs:123-127).
BuiltEntriesDecode ==
  \A i \in DOMAIN chain :
    decode(canonical_bytes(chain[i].entry)) = Ok(chain[i].entry)

\* Bytes that decode, damaged ones too, are the one encoding of what they
\* decode to (fs_epoch.rs:231-232).
EncodingIsCanonical ==
  node.output.kind = "ok" => canonical_bytes(node.output.entry) = node.input

\* Whatever the service may be asked next, the contract's five checks reject exactly
\* what new rejects (fs_epoch.rs:57-58).
ContractRejectsWhatNewRejects ==
  \A pk_att \in Keys, dst \in Tags, start_wwd \in Days, members_hash \in Members :
    LET e == NextFields(pk_att, dst, start_wwd, members_hash)
    IN  Requires(e) <=> new(e).kind = "ok"

\* However entries are reordered, repeated, paired with the signature of another or of
\* nobody, and damaged on the way, the contract follows the service: it takes the next
\* entry of the service's chain, once, and nothing else (fs_epoch.rs:5-10, 23-25).
Followed == INSTANCE Handoff WITH
  history  <- [i \in DOMAIN chain |-> chain[i].entry],
  accepted <- contract

ImplementsHandoff == Followed!Spec

\* An entry the service builds, whatever its dst, never wedges the hand-off: the
\* contract catches up with the service again and again (fs_epoch.rs:23-25).
HandoffProgresses == Followed!Progress
=============================================================================
