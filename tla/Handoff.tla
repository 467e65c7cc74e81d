------------------------------- MODULE Handoff ------------------------------
(***************************************************************************)
(* What the epochs' digests and signatures are for: a history that grows   *)
(* at its end, and a follower that takes the next entry of it and nothing  *)
(* else, each entry once and in order.                                     *)
(***************************************************************************)
EXTENDS Naturals, Sequences

VARIABLES
  history,    \* the epochs there have been
  accepted    \* what the follower knows of them

Init ==
  /\ history = <<>>
  /\ accepted = <<>>

Extend ==
  /\ Len(history') = Len(history) + 1
  /\ SubSeq(history', 1, Len(history)) = history
  /\ UNCHANGED accepted

Accept ==
  /\ Len(accepted) < Len(history)
  /\ accepted' = Append(accepted, history[Len(accepted) + 1])
  /\ UNCHANGED history

Next == Extend \/ Accept

Spec == Init /\ [][Next]_<<history, accepted>>

\* The follower does not fall behind for ever.
Progress == []<>(accepted = history)
=============================================================================
