-------------------------------- MODULE Imt ---------------------------------
(***************************************************************************)
(* The incremental Merkle tree of protocol/imt.rs: a tree of Depth levels  *)
(* that keeps one left subtree per level (the frontier) in place of its    *)
(* leaves, so that an append costs Depth hashes and O(Depth) state.        *)
(*                                                                         *)
(* `append` takes &mut self: one call runs at a time, so it is one action. *)
(* The hash is fallible in the code, and an error at any level leaves the  *)
(* call through `?`; a panic leaves it by unwinding.  Both happen in the   *)
(* stateless kernel, before the first assignment to the tree.              *)
(***************************************************************************)
EXTENDS Integers, Sequences

CONSTANTS
  Field, Empty, Hash(_, _), Depth, Appendable,  \* as in MerkleTree
  WordBits,     \* width of u64, the type of the leaf index (64 in the code)
  Checked       \* TRUE: overflow checks on (dev profile), FALSE: release

ASSUME FieldAssumption ==
  /\ Empty \in Field
  /\ Appendable \subseteq Field
  /\ \A x, y \in Field : Hash(x, y) \in Field

ASSUME ShapeAssumption ==
  /\ Depth \in Nat
  /\ WordBits \in Nat \ {0}
  /\ Checked \in BOOLEAN

VARIABLES
  zeros,        \* zeros[l]: root of the all-empty subtree of height l
  frontier,     \* frontier[l]: the left subtree waiting at level l
  next_index,   \* where the next leaf goes
  root,         \* the current root
  outcome,      \* what the last call of append returned
  leaves        \* history variable: the leaves appended, which no code keeps

vars == <<zeros, frontier, next_index, root, outcome, leaves>>

-----------------------------------------------------------------------------
(***************************************************************************)
(* Machine arithmetic: 1u64 << depth.                                      *)
(***************************************************************************)
Pow2[k \in 0 .. WordBits] == IF k = 0 THEN 1 ELSE 2 * Pow2[k - 1]

\* A shift by the width or more panics where overflow is checked, and is
\* masked to the low bits of the shift amount where it is not.
ShiftPanics == Depth >= WordBits /\ Checked

\* Variant: one leaf too many is taken.
Capacity_OneMore == Pow2[Depth % WordBits] + 1

Capacity == Pow2[Depth % WordBits]

-----------------------------------------------------------------------------
(***************************************************************************)
(* The stateless algorithms.                                               *)
(***************************************************************************)
zero_ladder(empty_leaf) ==
  LET ladder[l \in 0 .. Depth] ==
        IF l = 0 THEN empty_leaf ELSE Hash(ladder[l - 1], ladder[l - 1])
  IN  ladder

\* `changed`, the Option of the code as a set of at most one <<level, subtree>>:
\* the subtree accumulated at the first clear bit.  Variant: at the last one.
Changed_LastClearBit(l, s) == {<<l, s.current>>}

Changed(l, s) == IF s.changed = {} THEN {<<l, s.current>>} ELSE s.changed

\* One turn of the loop of frontier_append.
Climb(front, zs, l, s) ==
  IF s.index % 2 = 0
  THEN [current |-> Hash(s.current, zs[l]),
        index |-> s.index \div 2, changed |-> Changed(l, s)]
  ELSE [current |-> Hash(front[l], s.current),
        index |-> s.index \div 2, changed |-> s.changed]

\* The locals of the loop on entry to each level, and after the last one.
ClimbFrom(front, zs, index, leaf) ==
  LET at[l \in 0 .. Depth] ==
        IF l = 0
        THEN [current |-> leaf, index |-> index, changed |-> {}]
        ELSE Climb(front, zs, l - 1, at[l - 1])
  IN  at

\* frontier_append(front, index, leaf, zs) when the hash fails at level
\* `failing`, or nowhere when failing = Depth.  depth is frontier.len().
frontier_append(front, index, leaf, zs, failing) ==
  IF DOMAIN zs # 0 .. Depth THEN [kind |-> "Merkle"]
  ELSE IF ShiftPanics THEN [kind |-> "panic"]
  ELSE IF index >= Capacity THEN [kind |-> "Merkle"]
  ELSE IF failing < Depth THEN [kind |-> "Hash"]
  ELSE LET end == ClimbFrom(front, zs, index, leaf)[Depth]
       IN  IF end.changed # {}
           THEN LET c == CHOOSE c \in end.changed : TRUE
                IN  [kind          |-> "ok",
                     changed_level |-> c[1],
                     new_subtree   |-> c[2],
                     new_root      |-> end.current]
           ELSE IF Depth = 0
                THEN [kind |-> "panic"]     \* depth - 1 underflows
                ELSE [kind          |-> "ok",
                      changed_level |-> Depth - 1,
                      new_subtree   |-> front[Depth - 1],
                      new_root      |-> end.current]

-----------------------------------------------------------------------------
(***************************************************************************)
(* The tree.                                                               *)
(***************************************************************************)
Init ==
  /\ zeros = zero_ladder(Empty)
  /\ frontier = [l \in 0 .. Depth - 1 |-> Empty]
  /\ next_index = 0
  /\ root = zero_ladder(Empty)[Depth]
  /\ outcome = [kind |-> "new"]
  /\ leaves = <<>>

\* Variant: a call counts whether or not it stored its leaf.
append_CountsEveryCall(leaf, failing) ==
  LET ins == frontier_append(frontier, next_index, leaf, zeros, failing)
  IN  /\ outcome' = ins
      /\ next_index' = next_index + 1
      /\ UNCHANGED <<zeros, frontier, root, leaves>>

append(leaf, failing) ==
  LET ins == frontier_append(frontier, next_index, leaf, zeros, failing)
  IN  /\ outcome' = ins
      /\ zeros' = zeros
      /\ \/ /\ ins.kind = "ok"
            /\ frontier' = [frontier EXCEPT ![ins.changed_level] = ins.new_subtree]
            /\ root' = ins.new_root
            /\ next_index' = next_index + 1
            /\ leaves' = Append(leaves, leaf)
         \/ /\ ins.kind # "ok"
            /\ UNCHANGED <<frontier, root, next_index, leaves>>

Next == \E leaf \in Appendable, failing \in 0 .. Depth : append(leaf, failing)

Spec == Init /\ [][Next]_vars

-----------------------------------------------------------------------------
(***************************************************************************)
(* Inclusion paths.                                                        *)
(***************************************************************************)
\* Variant: the zero subtree of the parent's level in place of the sibling's.
empty_inclusion_path_OneLevelUp(index) ==
  [leaf_index |-> index, siblings |-> [l \in 0 .. Depth - 1 |-> zeros[l + 1]]]

\* The siblings empty_inclusion_path hands out, whatever the tree holds.
empty_inclusion_path(index) ==
  [leaf_index |-> index, siblings |-> [l \in 0 .. Depth - 1 |-> zeros[l]]]

\* The path's own check of its index against its own depth, and the root it
\* resolves a leaf to.
PathInRange(path) == ~ ShiftPanics /\ path.leaf_index < Capacity

root_from_inclusion_path(leaf, path) ==
  LET at[l \in 0 .. Depth] ==
        IF l = 0 THEN [current |-> leaf, index |-> path.leaf_index]
        ELSE LET s == at[l - 1]
                 sibling == path.siblings[l - 1]
             IN  [current |-> IF s.index % 2 = 0
                              THEN Hash(s.current, sibling)
                              ELSE Hash(sibling, s.current),
                  index   |-> s.index \div 2]
  IN  at[Depth].current

\* Variant: the bits of the index themselves.
circuit_indices_NotComplemented(path) ==
  [l \in 0 .. Depth - 1 |-> (path.leaf_index \div Pow2[l]) % 2]

\* 1 at the levels where the node is the left child, 0 where it is the right.
circuit_indices(path) ==
  [l \in 0 .. Depth - 1 |-> 1 - ((path.leaf_index \div Pow2[l]) % 2)]

\* What a circuit computes from a path: it sees the direction bits, and not
\* the leaf's index.
CircuitRoot(leaf, path) ==
  LET left == circuit_indices(path)
      at[l \in 0 .. Depth] ==
        IF l = 0 THEN leaf
        ELSE IF left[l - 1] = 1
             THEN Hash(at[l - 1], path.siblings[l - 1])
             ELSE Hash(path.siblings[l - 1], at[l - 1])
  IN  at[Depth]

-----------------------------------------------------------------------------
(***************************************************************************)
(* Properties.                                                             *)
(***************************************************************************)
Tree == INSTANCE MerkleTree WITH leaves <- leaves, root <- root

\* Every slot has its type and the index stays in the tree and in its word.
TypeOK ==
  /\ zeros \in [0 .. Depth -> Field]
  /\ frontier \in [0 .. Depth - 1 -> Field]
  /\ next_index \in 0 .. Capacity
  /\ root \in Field
  /\ leaves \in Seq(Appendable)

\* After any sequence of appends, refused, failed and panicking calls, the
\* root the tree publishes (imt.rs:182) is the root of all the leaves it has
\* accepted, computed from scratch.
RootIsReference == root = Tree!RootOf(leaves)

\* next_index >> l, by the halvings the loop of frontier_append performs.
Halvings(n) ==
  LET half[l \in 0 .. Depth] == IF l = 0 THEN n ELSE half[l - 1] \div 2
  IN  half

\* A frontier slot that the next append can read (imt.rs:105), which is one
\* whose bit is set in next_index, holds the completed left subtree beside
\* the insertion point.  The other slots may hold subtrees left behind.
FrontierHoldsLeftSubtrees ==
  \A l \in 0 .. Depth - 1 :
    LET p == Halvings(next_index)[l]
    IN  p % 2 = 1 => frontier[l] = Tree!Level(leaves)[l][p - 1]

\* At a depth between 1 and 63 the tree takes every leaf until it is full: the
\* index overflow (imt.rs:86-90) is reported at 2^Depth leaves and no earlier,
\* and no call panics.
RefusedOnlyWhenFull ==
  /\ outcome.kind = "Merkle" => Len(leaves) = Pow2[Depth]
  /\ outcome.kind # "panic"

\* error.rs:47-50 lists "bad depth" among the failures of a tree operation
\* that are reported as Error::Merkle: at no depth is one a panic.
BadDepthIsReported == outcome.kind # "panic"

\* The path issued for a leaf of an otherwise-empty tree resolves to the root
\* for exactly as long as that holds (imt.rs:187-195): the leaf is there and
\* every other leaf, of those appended later too, is the empty one.
EmptyPathCertifiesLoneLeaf ==
  \A i \in 0 .. Pow2[Depth] - 1 : \A leaf \in Appendable :
    root_from_inclusion_path(leaf, empty_inclusion_path(i)) = root
      <=> \A j \in 0 .. Pow2[Depth] - 1 :
            Tree!Level(leaves)[0][j] = IF j = i THEN leaf ELSE Empty

\* The membership path of position i: the sibling of each node above it.
MembershipPath(i) ==
  [leaf_index |-> i,
   siblings   |-> [l \in 0 .. Depth - 1 |->
                     LET p == i \div Pow2[l]
                     IN  Tree!Level(leaves)[l][IF p % 2 = 0 THEN p + 1 ELSE p - 1]]]

\* A path of the reference tree resolves a leaf to the published root if and
\* only if it is the leaf at that index, through the index's bits as through
\* the direction bits a circuit is given (imt.rs:126-148, 228-242).
PathsResolveToRoot ==
  \A i \in 0 .. Pow2[Depth] - 1 : \A leaf \in Appendable :
    LET path == MembershipPath(i)
        holds == leaf = Tree!Level(leaves)[0][i]
    IN  /\ PathInRange(path)
        /\ holds <=> root_from_inclusion_path(leaf, path) = root
        /\ holds <=> CircuitRoot(leaf, path) = root

\* The frontier tree implements the append-only Merkle tree.
ImplementsMerkleTree == Tree!Spec
=============================================================================
