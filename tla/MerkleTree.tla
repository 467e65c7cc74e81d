----------------------------- MODULE MerkleTree -----------------------------
(***************************************************************************)
(* What an append-only Merkle tree promises, with nothing incremental in   *)
(* it: the tree is the sequence of its leaves, and its root is the one the *)
(* textbook definition computes from all of them, every missing leaf being *)
(* the empty leaf.  Imt.tla is the frontier tree of imt.rs and is shown to *)
(* implement this module.                                                  *)
(***************************************************************************)
EXTENDS Integers, Sequences

CONSTANTS
  Field,        \* S::Field: the values a node of the tree can have
  Empty,        \* the empty leaf, S::Field::zero()
  Hash(_, _),   \* the node hash S::Hash([left, right])
  Depth,        \* number of levels above the leaves
  Appendable    \* the leaves an application appends

\* Imt, which declares the same constants, states what is assumed of them.

VARIABLES
  leaves,       \* every leaf appended so far, in order
  root          \* the root the tree publishes

(***************************************************************************)
(* Level(lvs)[l][i] is the i-th node, from the left, of level l of the     *)
(* tree whose first leaves are lvs and whose other leaves are empty.       *)
(* Positions are not bounded: beyond the tree every node is an empty       *)
(* subtree, which no definition below reads.                               *)
(***************************************************************************)
Level(lvs) ==
  LET level[l \in 0 .. Depth] ==
        IF l = 0
        THEN [i \in Nat |-> IF i < Len(lvs) THEN lvs[i + 1] ELSE Empty]
        ELSE [i \in Nat |-> Hash(level[l - 1][2 * i], level[l - 1][2 * i + 1])]
  IN  level

RootOf(lvs) == Level(lvs)[Depth][0]

Init ==
  /\ leaves = <<>>
  /\ root = RootOf(<<>>)

AppendLeaf(leaf) ==
  /\ leaves' = Append(leaves, leaf)
  /\ root' = RootOf(leaves')

Next == \E leaf \in Appendable : AppendLeaf(leaf)

Spec == Init /\ [][Next]_<<leaves, root>>
=============================================================================
