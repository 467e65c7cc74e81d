\* Two nfts, one signature.  Two senders, chains and versions.
CONSTANTS
  Modulus = 13
  LimbBase = 8
  Order = 17
  ByteBase = 4
  KeyLen = 3
  CodecBytes = 3
  Clients = {"alice", "bob"}
  Consent <- MCConsent
  OpaqueKeys = {0, 2, 4, 15}
  Senders = {1, 2}
  CommitmentIds <- MCCommitmentIds
  ChainIds = {1, 2}
  Versions = {1, 2}
  Wanted <- MCWanted
  MaxIssued = 2
  MaxSignatures = 1
SPECIFICATION Spec
INVARIANTS
  TypeOK
  RecipientReconstructs
  OnlyRecipientOwns
  OneKeyPerNft
  AcceptedExactlyWhereMeant
PROPERTY ImplementsClaims
