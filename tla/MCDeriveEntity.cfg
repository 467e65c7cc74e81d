\* Structs of up to three fields; an expansion ends.
CONSTANTS
  Modulus = 3
  LimbBase = 2
  Declarable <- MCDeclarable
  NoPos = NoPos
  MaxFields = 3
  Ints = {0, 1}
  Bytes <- MCBytes
  Wides = {0, 1, 2, 3}
  MaxLen = 2
SPECIFICATION Spec
CHECK_DEADLOCK FALSE
INVARIANTS
  TypeOK
  PreimageIsInjective
  PositionsDecideOrder
  RolesAreUnambiguous
  ProducersNeverTrip
