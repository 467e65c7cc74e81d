------------------------------ MODULE MCFsEpoch -----------------------------
(***************************************************************************)
(* FsEpoch over bytes 0 .. 2, so that dst has one or two bytes; a key of   *)
(* two limbs of two bytes, the first of which is padding; integers and     *)
(* hashes of one symbol.  The hash is a polynomial modulo a prime, which   *)
(* the numbers of TLC can hold and which no two encodings of the runs      *)
(* share.                                                                  *)
(***************************************************************************)
EXTENDS FsEpoch, SequencesExt

Prime == 30000001
MCSymbol == 0 .. Prime - 1
MCKeccak(bytes) == << FoldLeft(LAMBDA h, b : (h * 64 + b + 7) % Prime, 1, bytes) >>

\* A good key, which all committees then share, so that only what is signed ties a
\* signature to its entry; the point at infinity; padding set in the second limb.
MCKeys == {<<0, 1, 0, 2>>, <<0, 0, 0, 0>>, <<0, 1, 1, 2>>}
\* No byte, one, as many as the length byte can say, and one more.
MCTags == {<<>>, <<1>>, <<2, 1>>, <<1, 1, 1>>}
MCDays == {<<1>>}
MCMembers == {<<1>>}
=============================================================================
