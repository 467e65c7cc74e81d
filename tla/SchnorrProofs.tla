--------------------------- MODULE SchnorrProofs ----------------------------
(***************************************************************************)
(* Proofs about Schnorr, for every group, every pair of hashes and any     *)
(* number of calls and retries.                                            *)
(***************************************************************************)
EXTENDS Schnorr, TLAPS

(***************************************************************************)
(* What is kept of a returned signature: it is made as sign_bytes makes it *)
(* from its nonce, and the hash values it was made from are the kept ones. *)
(***************************************************************************)
ResponseOf(a) == Response(a.k, from_be_bytes_mod_order(a.sig.e), a.sk)
InputOf(a) == ChallengeInput(x_of(mul_generator(a.k)), mul_generator(a.sk), a.message)

WellMade(a) ==
  /\ mul_generator(a.k) # Identity
  /\ mul_generator(a.sk) # Identity
  /\ from_be_bytes_mod_order(a.sig.e) # Zero
  /\ ResponseOf(a) # Zero
  /\ a.sig.s = field_to_be32(ResponseOf(a))

ChallengeKept(a) == InputOf(a) \in DOMAIN challenges /\ challenges[InputOf(a)] = a.sig.e

NonceKept(a) ==
  \E aux \in Aux, counter \in 0 .. Counters - 1 :
    /\ <<a.sk, aux, counter, a.message>> \in DOMAIN nonces
    /\ nonces[<<a.sk, aux, counter, a.message>>] = a.k

IInv ==
  /\ TypeOK
  /\ \A a \in signed : WellMade(a) /\ ChallengeKept(a) /\ NonceKept(a)

-----------------------------------------------------------------------------
(***************************************************************************)
(* The hashes.                                                             *)
(***************************************************************************)
\* A value of a typed hash is typed.
LEMMA ValuesTyped ==
  ASSUME NEW hash, NEW input, NEW any, \A x \in DOMAIN hash : hash[x] \in any,
         NEW value \in Values(hash, input, any)
  PROVE  /\ value \in any
         /\ \A x \in DOMAIN Extend(hash, input, value) :
              Extend(hash, input, value)[x] \in any
BY DEF Values, Extend

\* The verifier's point is the signer's: [s]G + [e]pk = [k - e sk]G + [e sk]G.
LEMMA VerifierRecoversR ==
  ASSUME NEW k \in Scalar, NEW e \in Scalar, NEW sk \in Scalar
  PROVE  AddPoints(mul_generator(Response(k, e, sk)), mul_point(mul_generator(sk), e))
           = mul_generator(k)
<1> DEFINE t == Times(e, sk)
<1>1. t \in Scalar /\ Minus(k, t) \in Scalar
  BY GroupAssumption
<1>2. mul_point(mul_generator(sk), e) = mul_generator(t)
  BY GroupAssumption
<1>3. AddPoints(mul_generator(Minus(k, t)), mul_generator(t)) = mul_generator(Plus(Minus(k, t), t))
  BY <1>1, GroupAssumption
<1>4. Plus(Minus(k, t), t) = k
  BY <1>1, GroupAssumption
<1> QED BY <1>2, <1>3, <1>4 DEF Response

-----------------------------------------------------------------------------
(***************************************************************************)
(* The invariant.                                                          *)
(***************************************************************************)
LEMMA InvInit == Init => IInv
BY BoundAssumption DEF Init, IInv, TypeOK, Calls, Idle

\* Signatures stay good while the hashes are only extended.
LEMMA SignedStay ==
  ASSUME IInv,
         \A x \in DOMAIN nonces : x \in DOMAIN nonces' /\ nonces'[x] = nonces[x],
         \A x \in DOMAIN challenges : x \in DOMAIN challenges' /\ challenges'[x] = challenges[x]
  PROVE  \A a \in signed : WellMade(a) /\ ChallengeKept(a)' /\ NonceKept(a)'
<1> SUFFICES ASSUME NEW a \in signed
             PROVE  WellMade(a) /\ ChallengeKept(a)' /\ NonceKept(a)'
  OBVIOUS
<1>1. WellMade(a) /\ ChallengeKept(a) /\ NonceKept(a)
  BY DEF IInv
<1>2. ChallengeKept(a)'
  BY <1>1 DEF ChallengeKept, InputOf
<1>3. NonceKept(a)'
  BY <1>1 DEF NonceKept
<1> QED BY <1>1, <1>2, <1>3

LEMMA InvSign ==
  ASSUME IInv, NEW sk \in Keys, NEW message \in Message, NEW aux \in Aux,
         Sign(sk, message, aux)
  PROVE  IInv'
<1>1. call' \in Calls
  BY BoundAssumption, GroupAssumption DEF Sign, Calls
<1>2. calls' \in 0 .. MaxCalls
  BY BoundAssumption DEF Sign, IInv, TypeOK
<1>3. nonces' = nonces /\ challenges' = challenges /\ signed' = signed
  BY DEF Sign
<1>4. TypeOK'
  BY <1>1, <1>2, <1>3 DEF IInv, TypeOK
<1>5. \A a \in signed : WellMade(a) /\ ChallengeKept(a)' /\ NonceKept(a)'
  BY <1>3, SignedStay
<1> QED BY <1>3, <1>4, <1>5 DEF IInv, WellMade, ResponseOf

LEMMA RetryTyped ==
  ASSUME call \in Calls, call.status = "looping", Retry
  PROVE  call' \in Calls
<1>1. call \in [status : {"looping"}, sk : Scalar, message : Message, aux : Aux,
                counter : 0 .. Counters - 1]
  BY DEF Calls, Idle
<1>2. (call.counter + 1) % Counters \in 0 .. Counters - 1
  BY <1>1, BoundAssumption
<1> QED BY <1>1, <1>2 DEF Retry, Calls

LEMMA InvIterate ==
  ASSUME IInv, Iterate
  PROVE  IInv'
<1> DEFINE pk == mul_generator(call.sk)
<1>1. /\ call.sk \in Scalar /\ call.message \in Message /\ call.aux \in Aux
      /\ call.counter \in 0 .. Counters - 1
      /\ call \in Calls /\ call.status = "looping"
  BY DEF IInv, TypeOK, Calls, Idle, Iterate
<1>2. PICK k \in Values(nonces, NonceInput(call), Scalar) :
        /\ nonces' = Extend(nonces, NonceInput(call), k)
        /\ \/ Retry /\ UNCHANGED challenges
           \/ ReturnError /\ UNCHANGED challenges
           \/ /\ mul_generator(k) # Identity
              /\ pk # Identity
              /\ Respond(k, pk)
  BY DEF Iterate
<1>3. /\ k \in Scalar
      /\ \A x \in DOMAIN nonces' : nonces'[x] \in Scalar
  BY <1>2, ValuesTyped DEF IInv, TypeOK
<1>4. /\ NonceInput(call) \in DOMAIN nonces' /\ nonces'[NonceInput(call)] = k
      /\ \A x \in DOMAIN nonces : x \in DOMAIN nonces' /\ nonces'[x] = nonces[x]
  <2>1. /\ DOMAIN Extend(nonces, NonceInput(call), k) = DOMAIN nonces \cup {NonceInput(call)}
        /\ Extend(nonces, NonceInput(call), k)[NonceInput(call)] = k
        /\ \A x \in DOMAIN nonces : Extend(nonces, NonceInput(call), k)[x] = nonces[x]
    BY <1>2 DEF Values, Extend
  <2> QED BY <1>2, <2>1
<1>5. Idle \in Calls
  BY DEF Calls
<1>6. CASE Retry /\ UNCHANGED challenges
  <2>1. call' \in Calls /\ signed' = signed /\ calls' = calls
    BY <1>1, <1>6, RetryTyped DEF Retry
  <2>2. TypeOK'
    BY <1>3, <1>6, <2>1 DEF IInv, TypeOK
  <2>3. \A a \in signed : WellMade(a) /\ ChallengeKept(a)' /\ NonceKept(a)'
    BY <1>4, <1>6, SignedStay
  <2> QED BY <2>1, <2>2, <2>3 DEF IInv, WellMade, ResponseOf
<1>7. CASE ReturnError /\ UNCHANGED challenges
  <2>1. call' \in Calls /\ signed' = signed /\ calls' = calls
    BY <1>5, <1>7 DEF ReturnError
  <2>2. TypeOK'
    BY <1>3, <1>7, <2>1 DEF IInv, TypeOK
  <2>3. \A a \in signed : WellMade(a) /\ ChallengeKept(a)' /\ NonceKept(a)'
    BY <1>4, <1>7, SignedStay
  <2> QED BY <2>1, <2>2, <2>3 DEF IInv, WellMade, ResponseOf
<1>8. CASE mul_generator(k) # Identity /\ pk # Identity /\ Respond(k, pk)
  <2> DEFINE input == ChallengeInput(x_of(mul_generator(k)), pk, call.message)
  <2>1. PICK e_bytes \in Values(challenges, input, Bytes32 \cup {Failed}) :
          LET e == from_be_bytes_mod_order(e_bytes)
              s == Response(k, e, call.sk)
          IN  /\ challenges' = Extend(challenges, input, e_bytes)
              /\ \/ e_bytes = Failed /\ ReturnError
                 \/ e_bytes # Failed /\ (e = Zero \/ s = Zero) /\ Retry
                 \/ e_bytes # Failed /\ e # Zero /\ s # Zero /\ Return(k, s, e_bytes)
    BY <1>8 DEF Respond
  <2>2. /\ e_bytes \in Bytes32 \cup {Failed}
        /\ \A x \in DOMAIN challenges' : challenges'[x] \in Bytes32 \cup {Failed}
    BY <2>1, ValuesTyped DEF IInv, TypeOK
  <2>3. /\ input \in DOMAIN challenges' /\ challenges'[input] = e_bytes
        /\ \A x \in DOMAIN challenges : x \in DOMAIN challenges' /\ challenges'[x] = challenges[x]
    <3>1. /\ DOMAIN Extend(challenges, input, e_bytes) = DOMAIN challenges \cup {input}
          /\ Extend(challenges, input, e_bytes)[input] = e_bytes
          /\ \A x \in DOMAIN challenges : Extend(challenges, input, e_bytes)[x] = challenges[x]
      BY <2>1 DEF Values, Extend
    <3> QED BY <2>1, <3>1
  <2>4. \A a \in signed : WellMade(a) /\ ChallengeKept(a)' /\ NonceKept(a)'
    BY <1>4, <2>3, SignedStay
  <2>5. CASE ReturnError \/ Retry
    <3>1. call' \in Calls /\ signed' = signed /\ calls' = calls
      BY <1>1, <1>5, <2>5, RetryTyped DEF ReturnError, Retry
    <3>2. TypeOK'
      BY <1>3, <2>2, <3>1 DEF IInv, TypeOK
    <3> QED BY <2>4, <3>1, <3>2 DEF IInv, WellMade, ResponseOf
  <2>6. CASE LET e == from_be_bytes_mod_order(e_bytes)
                 s == Response(k, e, call.sk)
             IN  e_bytes # Failed /\ e # Zero /\ s # Zero /\ Return(k, s, e_bytes)
    <3> DEFINE e == from_be_bytes_mod_order(e_bytes)
               s == Response(k, e, call.sk)
    <3>0. PICK new : new = [sk |-> call.sk, message |-> call.message, k |-> k,
                            sig |-> Signature(s, e_bytes)]
      OBVIOUS
    <3>1. /\ e_bytes \in Bytes32 /\ e # Zero /\ s # Zero
          /\ call' = Idle /\ calls' = calls /\ signed' = signed \cup {new}
      BY <2>2, <2>6, <3>0 DEF Return
    <3>2. e \in Scalar /\ s \in Scalar /\ field_to_be32(s) \in Bytes32
      <4>1. e \in Scalar
        BY <3>1, BytesAssumption
      <4>2. s \in Scalar
        BY <1>1, <1>3, <4>1, GroupAssumption DEF Response
      <4> QED BY <4>1, <4>2, BytesAssumption
    <3>3. /\ new.sk = call.sk /\ new.message = call.message /\ new.k = k
          /\ new.sig.e = e_bytes /\ new.sig.s = field_to_be32(s)
          /\ new \in [sk : Scalar, message : Message, k : Scalar,
                      sig : [s : Bytes32, e : Bytes32]]
      BY <1>1, <1>3, <3>0, <3>1, <3>2 DEF Signature
    <3> HIDE DEF s, e
    <3>4. TypeOK'
      BY <1>3, <1>5, <2>2, <3>1, <3>3 DEF IInv, TypeOK
    <3>5. WellMade(new)
      BY <1>8, <3>1, <3>3 DEF WellMade, ResponseOf, s, e
    <3>6. ChallengeKept(new)'
      BY <2>3, <3>3 DEF ChallengeKept, InputOf
    <3>7. NonceKept(new)'
      BY <1>1, <1>4, <3>3 DEF NonceKept, NonceInput
    <3>8. \A a \in signed' : WellMade(a) /\ ChallengeKept(a)' /\ NonceKept(a)'
      BY <2>4, <3>1, <3>5, <3>6, <3>7
    <3> QED BY <3>4, <3>8 DEF IInv, WellMade, ResponseOf
  <2> QED BY <2>1, <2>5, <2>6
<1> QED BY <1>2, <1>6, <1>7, <1>8

LEMMA InvNext == IInv /\ [Next]_vars => IInv'
<1> SUFFICES ASSUME IInv, [Next]_vars PROVE IInv'
  OBVIOUS
<1>1. CASE Next
  BY <1>1, InvSign, InvIterate DEF Next
<1>2. CASE UNCHANGED vars
  BY <1>2 DEF vars, IInv, TypeOK, WellMade, ResponseOf, ChallengeKept, InputOf, NonceKept
<1> QED BY <1>1, <1>2

LEMMA Invariance == Spec => []IInv
BY InvInit, InvNext, PTL DEF Spec

-----------------------------------------------------------------------------
(***************************************************************************)
(* Theorems.                                                               *)
(***************************************************************************)
\* The signing loop keeps its types, for any group and any hashes.
THEOREM TypeCorrectness == Spec => []TypeOK
<1>1. IInv => TypeOK
  BY DEF IInv
<1> QED BY <1>1, Invariance, PTL

LEMMA WellMadeVerifies ==
  ASSUME TypeOK, NEW a \in signed, WellMade(a), ChallengeKept(a)
  PROVE  verify_bytes(mul_generator(a.sk), a.sig, a.message)
<1> DEFINE e == from_be_bytes_mod_order(a.sig.e)
           s == ResponseOf(a)
<1>1. a.sk \in Scalar /\ a.k \in Scalar /\ a.sig.s \in Bytes32 /\ a.sig.e \in Bytes32
  BY DEF TypeOK
<1>2. e \in Scalar /\ s \in Scalar
  <2>1. e \in Scalar
    BY <1>1, BytesAssumption
  <2>2. QED BY <1>1, <2>1, GroupAssumption DEF ResponseOf, Response
<1>3. from_be_bytes_mod_order(a.sig.s) = s
  BY <1>2, BytesAssumption DEF WellMade
<1>4. a.sig.s # ZeroBytes
  BY <1>2, BytesAssumption DEF WellMade
<1>5. a.sig.e # ZeroBytes
  BY BytesAssumption DEF WellMade
<1>6. AddPoints(mul_generator(s), mul_point(mul_generator(a.sk), e)) = mul_generator(a.k)
  BY <1>1, <1>2, VerifierRecoversR DEF ResponseOf
<1> QED BY <1>3, <1>4, <1>5, <1>6 DEF verify_bytes, WellMade, ChallengeKept, InputOf

\* Every returned signature verifies, for any group and any hashes.
THEOREM SignatureCorrectness == Spec => []SignaturesVerify
<1>1. IInv => SignaturesVerify
  BY WellMadeVerifies DEF IInv, SignaturesVerify
<1> QED BY <1>1, Invariance, PTL

LEMMA EqualNonces ==
  ASSUME IInv, NEW a \in signed, NEW b \in signed, a.sk = b.sk,
         x_of(mul_generator(a.k)) = x_of(mul_generator(b.k)), ~ NonceCollision(a.sk)
  PROVE  a = b
<1>1. /\ WellMade(a) /\ ChallengeKept(a) /\ NonceKept(a)
      /\ WellMade(b) /\ ChallengeKept(b) /\ NonceKept(b)
      /\ a \in [sk : Scalar, message : Message, k : Scalar, sig : [s : Bytes32, e : Bytes32]]
      /\ b \in [sk : Scalar, message : Message, k : Scalar, sig : [s : Bytes32, e : Bytes32]]
  BY DEF IInv, TypeOK
<1>2. PICK auxa \in Aux, counta \in 0 .. Counters - 1 :
        /\ <<a.sk, auxa, counta, a.message>> \in DOMAIN nonces
        /\ nonces[<<a.sk, auxa, counta, a.message>>] = a.k
  BY <1>1 DEF NonceKept
<1>3. PICK auxb \in Aux, countb \in 0 .. Counters - 1 :
        /\ <<b.sk, auxb, countb, b.message>> \in DOMAIN nonces
        /\ nonces[<<b.sk, auxb, countb, b.message>>] = b.k
  BY <1>1 DEF NonceKept
<1>4. <<a.sk, auxa, counta, a.message>> = <<b.sk, auxb, countb, b.message>>
  BY <1>2, <1>3 DEF NonceCollision
<1>5. a.message = b.message /\ a.k = b.k
  BY <1>2, <1>3, <1>4
<1>6. a.sig.e = b.sig.e
  BY <1>1, <1>5 DEF ChallengeKept, InputOf
<1>7. a.sig.s = b.sig.s
  BY <1>1, <1>5, <1>6 DEF WellMade, ResponseOf
<1> QED BY <1>1, <1>5, <1>6, <1>7

\* No nonce of a key serves two messages unless the nonce hash collides, whatever
\* the caller's generator gives.
THEOREM NonceCorrectness == Spec => []NonceServesOneMessage
<1>1. IInv => NonceServesOneMessage
  BY EqualNonces DEF NonceServesOneMessage
<1> QED BY <1>1, Invariance, PTL
=============================================================================
