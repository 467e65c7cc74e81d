\* Three levels, eight leaves, a word wider than the depth.
CONSTANTS
  Field <- MCField
  Empty = 0
  Hash <- MCHash
  Depth = 3
  Appendable <- MCAppendable
  WordBits = 5
  Checked = TRUE
SPECIFICATION Spec
INVARIANTS
  TypeOK
  RootIsReference
  FrontierHoldsLeftSubtrees
  RefusedOnlyWhenFull
  EmptyPathCertifiesLoneLeaf
  PathsResolveToRoot
PROPERTY ImplementsMerkleTree
