\* Genesis and two successors, one damaged delivery.
CONSTANTS
  MaxByte = 2
  U32Len = 1
  HashLen = 1
  Limbs = 2
  LimbLen = 2
  PadLen = 1
  Symbol <- MCSymbol
  Keccak <- MCKeccak
  Keys <- MCKeys
  Tags <- MCTags
  Days <- MCDays
  Members <- MCMembers
  MaxEpochs = 3
  Faults = 1
SPECIFICATION FairSpec
INVARIANTS
  TypeOK
  BuiltEntriesDecode
  EncodingIsCanonical
  ContractRejectsWhatNewRejects
PROPERTIES
  ImplementsHandoff
  HandoffProgresses
