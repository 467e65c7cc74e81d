\* A tree of no level: its only leaf would be its root.
CONSTANTS
  Field <- MCField
  Empty = 0
  Hash <- MCHash
  Depth = 0
  Appendable <- MCAppendable
  WordBits = 3
  Checked = FALSE
SPECIFICATION Spec
INVARIANT BadDepthIsReported
