----------------------------- MODULE MCOwnership -----------------------------
(***************************************************************************)
(* Ownership over a field of 13 elements and a curve of order 17 over it,  *)
(* with three bytes of two bits: x of four bits and two flags.  15 is the  *)
(* negative of 2, and 0 the key no generator should give.  Few keys of     *)
(* many, so that products do not coincide by chance.  Limbs have three     *)
(* bits: 1 and 14 have one element, 1 and 9 one low limb and 1 and 8 the   *)
(* digits of each other.  What version 1 and sender 1 sign is verified as  *)
(* any of 64 submissions.                                                  *)
(***************************************************************************)
EXTENDS Ownership

MCConsent == [c \in Clients |-> IF c = "alice" THEN 3 ELSE 5]
MCCommitmentIds == {1, 8, 9, 14}
MCWanted ==
  {sub \in Submissions :
     /\ sub.version = 1 /\ sub.sender = 1 /\ sub.host_chain_id = 1
     /\ <<sub.commitment_id, sub.l2_chain_id>> \in {<<1, 1>>, <<8, 2>>}}
=============================================================================
