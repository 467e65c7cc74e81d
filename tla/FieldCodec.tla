----------------------------- MODULE FieldCodec -----------------------------
(***************************************************************************)
(* The field encoding of codec.rs: how the members of an entity become     *)
(* elements of the proving field, for a field with Modulus elements.       *)
(*                                                                         *)
(* A fixed-width byte string is the number it is the big-endian form of.   *)
(* A bytes32 may be Modulus or more; a limb, an integer of at most 128     *)
(* bits, a bool and an address may not.                                    *)
(***************************************************************************)
EXTENDS Integers, SequencesExt

CONSTANTS
  Modulus,     \* elements of the field
  LimbBase     \* 2^128: a uint256 is two limbs

ASSUME WidthAssumption ==
  /\ LimbBase \in Nat \ {0}
  /\ Modulus \in Nat
  /\ LimbBase < Modulus    \* a limb is less than the modulus

\* The bytes have a canonical element.
IsCanonical(bytes) == bytes < Modulus

\* The element of bytes, reduced (field_from_be_bytes); for canonical bytes
\* nothing is lost (field_from_be_bytes_canonical).
ToElement(bytes) == bytes % Modulus

\* [lo, hi].
u256_limbs_be(n) == <<n % LimbBase, n \div LimbBase>>

StrictlyAscending(seq) ==
  \A i \in 1 .. Len(seq) - 1 : ToElement(seq[i]) < ToElement(seq[i + 1])

\* SortedSet::encode succeeds.
SortedSetAccepts(seq) ==
  /\ \A i \in DOMAIN seq : IsCanonical(seq[i])
  /\ StrictlyAscending(seq)

\* A slice, a Vec and an array: each element in order, and no length.
SliceEncode(seq) == [i \in DOMAIN seq |-> ToElement(seq[i])]

\* SortedSet::encode, where it succeeds.  Variant: the length is left out.
SortedSetEncode_NoLength(seq) == SliceEncode(seq)

SortedSetEncode(seq) == <<Len(seq) % Modulus>> \o SliceEncode(seq)

\* The elements of a finite set, ascending by their keys.
Sorted(S, key) ==
  CHOOSE s \in [1 .. Cardinality(S) -> S] :
    /\ ToSet(s) = S
    /\ \A i, j \in DOMAIN s : i < j => key[s[i]] <= key[s[j]]

\* The producer's normaliser, for canonical items: one of each value, ascending.
\* Variant: duplicates stay.
sort_set_KeepsDuplicates(items) ==
  SortSeq(items, LAMBDA a, b : ToElement(a) < ToElement(b))

sort_set(items) == Sorted(ToSet(items), [n \in ToSet(items) |-> ToElement(n)])
=============================================================================
