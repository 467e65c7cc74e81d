------------------------------- MODULE Claims -------------------------------
(***************************************************************************)
(* What the protocol promises the holder of an nft, with no key, byte or   *)
(* signature in it: an nft belongs to the client it was issued to, claims  *)
(* on it come of that client one at a time, and nothing else, the issue of *)
(* another nft included, makes a chain accept a claim.                     *)
(***************************************************************************)
EXTENDS Sequences

CONSTANTS Clients

VARIABLES
  owner,    \* owner[i]: the client nft i was issued to
  claims    \* what a chain accepts: a client's claim on an nft, for a submission

Init ==
  /\ owner = <<>>
  /\ claims = {}

Issue ==
  /\ \E client \in Clients : owner' = Append(owner, client)
  /\ UNCHANGED claims

Claim ==
  /\ UNCHANGED owner
  /\ \E c \in claims' :
       /\ owner[c.nft] = c.by
       /\ claims' = claims \cup {c}

Next == Issue \/ Claim

Spec == Init /\ [][Next]_<<owner, claims>>
=============================================================================
