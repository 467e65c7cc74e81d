----------------------------- MODULE ReleaseLine ----------------------------
(***************************************************************************)
(* What users of the crates see of a release: versions are tagged one      *)
(* after the other, only tagged ones are published, the derive crate       *)
(* first, only published ones are announced with signed artifacts, and     *)
(* nothing that was tagged, published or announced is taken back.          *)
(***************************************************************************)
EXTENDS Naturals

CONSTANTS Versions, Core, Derive

VARIABLES
  tagged,      \* the last version
  published,   \* the versions of each crate
  announced    \* the release entry of each version: none, bare or signed

Init ==
  /\ tagged = 0
  /\ published = [c \in {Core, Derive} |-> {}]
  /\ announced = [v \in Versions |-> "none"]

Tag ==
  /\ tagged' = tagged + 1
  /\ UNCHANGED <<published, announced>>

Publish ==
  /\ \E v \in 1 .. tagged, c \in {Core, Derive} :
       /\ v \notin published[c]
       /\ c = Core => v \in published[Derive]
       /\ published' = [published EXCEPT ![c] = @ \cup {v}]
  /\ UNCHANGED <<tagged, announced>>

Announce ==
  /\ \E v \in 1 .. tagged :
       \/ /\ announced[v] = "none"
          /\ announced' = [announced EXCEPT ![v] = "bare"]
       \/ /\ announced[v] # "signed"
          /\ v \in published[Core]
          /\ announced' = [announced EXCEPT ![v] = "signed"]
  /\ UNCHANGED <<tagged, published>>

Next == Tag \/ Publish \/ Announce

Spec == Init /\ [][Next]_<<tagged, published, announced>>
=============================================================================
