\* Two calls, at most one retry each; the generator of aux may repeat itself.
CONSTANTS
  Scalar <- MCScalar
  Zero = 0
  Plus <- MCPlus
  Minus <- MCMinus
  Times <- MCTimes
  Point <- MCPoint
  Identity = 1
  AddPoints <- MCAddPoints
  mul_generator <- MCGenerator
  mul_point <- MCMulPoint
  x_of <- MCX
  Bytes32 <- MCBytes
  ZeroBytes <- MCZeroBytes
  field_to_be32 <- MCToBytes
  from_be_bytes_mod_order <- MCFromBytes
  Keys = {0, 3}
  Message = {m1, m2}
  Aux = {a1, a2}
  Counters = 3
  Failed = Failed
  MaxRetries = 1
  MaxCalls = 2
SPECIFICATION FairSpec
CHECK_DEADLOCK FALSE
INVARIANTS
  TypeOK
  SignaturesVerify
  NonceServesOneMessage
PROPERTY SignReturns
