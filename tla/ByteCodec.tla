----------------------------- MODULE ByteCodec ------------------------------
(***************************************************************************)
(* The byte codec of codec.rs (trait Codec): field elements, secrets and   *)
(* public keys as they cross a network or an FFI boundary.  A byte string  *)
(* is a sequence of digits in base ByteBase, of any length where the code  *)
(* takes a slice.                                                          *)
(*                                                                         *)
(* A point of the embedded curve is written as its logarithm, so that [a]P *)
(* is a product and the negative of a point has its x-coordinate.  The     *)
(* compressed form of a point is x, little-endian, with two flags in the   *)
(* top bits of the last byte.                                              *)
(***************************************************************************)
EXTENDS FieldCodec

CONSTANTS
  Order,          \* of the embedded curve's group
  ByteBase,       \* 256
  KeyLen,         \* bytes of a compressed key or scalar (32)
  CodecBytes      \* Codec::Bytes

Identity == 0
Negative(P) == (Order - P) % Order
x_of(P) == IF P < Negative(P) THEN P ELSE Negative(P)
UpToSign(P, Q) == P = Q \/ P = Negative(Q)

\* ByteBase ^ k
Power[k \in 0 .. KeyLen] == IF k = 0 THEN 1 ELSE ByteBase * Power[k - 1]

FlagUnit == Power[KeyLen] \div 4
YIsPositive == 0
PointAtInfinity == 1
YIsNegative == 2

ASSUME CodecAssumption ==
  /\ Order \in Nat /\ Order % 2 = 1                \* a prime, and not 2
  /\ ByteBase \in Nat /\ 4 <= ByteBase
  /\ KeyLen \in Nat \ {0} /\ CodecBytes \in Nat
  /\ Modulus <= FlagUnit                           \* two spare bits
  /\ \A P \in 0 .. Order - 1 : IsCanonical(x_of(P))

Ok(value) == [kind |-> "ok", value |-> value]
Err(kind) == [kind |-> kind]

-----------------------------------------------------------------------------
Quotients(n) ==
  LET shifted[k \in 0 .. KeyLen] == IF k = 0 THEN n ELSE shifted[k - 1] \div ByteBase
  IN  shifted

LeBytes(n) == [i \in 1 .. KeyLen |-> Quotients(n)[i - 1] % ByteBase]

\* The number that the bytes up to each are the big-endian form of.
Horner(bytes) ==
  LET value[k \in 0 .. Len(bytes)] ==
        IF k = 0 THEN 0 ELSE value[k - 1] * ByteBase + bytes[k]
  IN  value

FromBe(bytes) == Horner(bytes)[Len(bytes)]

field_to_be_bytes(f) == Reverse(LeBytes(f))

\* Any bytes have an element: two strings may have one.
field_from_be32(bytes) == ToElement(FromBe(bytes))

\* An Err, and no truncation, where the suite gives the wrong size.
serialize(bytes) == IF Len(bytes) = CodecBytes THEN Ok(bytes) ELSE Err("Signature")

\* deserialize_compressed reads as many bytes as it needs and leaves the rest.
Read(bytes) == SubSeq(bytes, 1, KeyLen)
TooShort(bytes) == Len(bytes) < KeyLen

secret_to_bytes(sk) == serialize(LeBytes(sk))

\* A number that is not reduced is refused: no two strings of KeyLen bytes have one scalar.
secret_from_bytes(bytes) ==
  LET sk == FromBe(Reverse(Read(bytes)))
  IN  IF TooShort(bytes) \/ sk >= Order THEN Err("Signature") ELSE Ok(sk)

Flag(P) == CASE P = Identity -> PointAtInfinity
             [] P # Identity /\ P = x_of(P) -> YIsPositive
             [] OTHER -> YIsNegative

public_key_to_bytes(P) == serialize(LeBytes(x_of(P) + Flag(P) * FlagUnit))

\* x is canonical and not both flags are set; at infinity x is not looked at, and
\* elsewhere it is that of a point.
public_key_from_bytes(bytes) ==
  LET n == FromBe(Reverse(Read(bytes)))
      x == n % FlagUnit
      flag == n \div FlagUnit
      points == {P \in 1 .. Order - 1 : x_of(P) = x /\ Flag(P) = flag}
  IN  IF TooShort(bytes) \/ ~ IsCanonical(x) THEN Err("Signature")
      ELSE IF flag = PointAtInfinity THEN Ok(Identity)
      ELSE IF points = {} THEN Err("Signature")
      ELSE Ok(CHOOSE P \in points : TRUE)
=============================================================================
