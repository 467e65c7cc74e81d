\* A field whose attribute has no role.
CONSTANTS
  Modulus = 3
  LimbBase = 2
  Declarable <- RolelessDeclarable
  NoPos = NoPos
  MaxFields = 3
  Ints = {0, 1}
  Bytes <- MCBytes
  Wides = {0, 1, 2, 3}
  MaxLen = 2
SPECIFICATION Spec
CHECK_DEADLOCK FALSE
INVARIANT NothingSilentlyOmitted
