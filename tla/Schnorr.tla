------------------------------ MODULE Schnorr -------------------------------
(***************************************************************************)
(* Schnorr signatures over an embedded curve, primitive/signature.rs: the  *)
(* signing loop with its retries and error paths, and verification.        *)
(*                                                                         *)
(* The field and the curve are any group with the laws of GroupAssumption. *)
(* The two hashes, of the nonce and of the challenge, are unknown          *)
(* functions: a value is chosen when an input is first hashed and kept.    *)
(* 32-byte strings are not scalars: there are more of them, and            *)
(* from_be_bytes_mod_order maps several to one.                            *)
(***************************************************************************)
EXTENDS Integers

CONSTANTS
  Scalar, Zero,                            \* the curve's scalar field
  Plus(_, _), Minus(_, _), Times(_, _),
  Point, Identity, AddPoints(_, _),        \* the curve
  mul_generator(_), mul_point(_, _),       \* [a]G and [a]P
  x_of(_),                                 \* affine x: a point and its negative share it
  Bytes32, ZeroBytes,                      \* 32-byte strings, the one of zero bytes
  field_to_be32(_), from_be_bytes_mod_order(_),
  Keys,             \* the secret keys; keypair can sample any scalar, zero too
  Message,          \* what is signed, as bytes
  Aux,              \* what the caller's generator may give; one value if it is broken
  Counters,         \* values of the retry counter (2^32)
  Failed,           \* model value: the Pedersen point of a challenge is the identity
  MaxRetries,       \* bound: draws in a row that are of no use
  MaxCalls          \* bound: calls of sign

ASSUME GroupAssumption ==
  /\ Zero \in Scalar /\ Keys \subseteq Scalar
  /\ \A a, b \in Scalar :
       /\ Plus(a, b) \in Scalar /\ Minus(a, b) \in Scalar /\ Times(a, b) \in Scalar
       /\ Plus(Minus(a, b), b) = a
       /\ AddPoints(mul_generator(a), mul_generator(b)) = mul_generator(Plus(a, b))
       /\ mul_point(mul_generator(a), b) = mul_generator(Times(b, a))
  /\ \A a \in Scalar : mul_generator(a) \in Point

ASSUME BytesAssumption ==
  /\ \A a \in Scalar :
       /\ field_to_be32(a) \in Bytes32
       /\ from_be_bytes_mod_order(field_to_be32(a)) = a
       /\ field_to_be32(a) = ZeroBytes <=> a = Zero
  /\ \A b \in Bytes32 : from_be_bytes_mod_order(b) \in Scalar
  /\ from_be_bytes_mod_order(ZeroBytes) = Zero
  /\ Failed \notin Bytes32

ASSUME BoundAssumption ==
  /\ Counters \in Nat \ {0}
  /\ MaxRetries \in 0 .. Counters - 1
  /\ MaxCalls \in Nat

VARIABLES
  call,        \* the call of sign_bytes that is running
  nonces,      \* the nonce hash, where it has been evaluated
  challenges,  \* the challenge hash, where it has been evaluated
  signed,      \* signatures returned so far, with what they are over
  calls        \* calls so far

vars == <<call, nonces, challenges, signed, calls>>

Idle == [status |-> "idle"]

Init ==
  /\ call = Idle
  /\ nonces = << >>
  /\ challenges = << >>
  /\ signed = {}
  /\ calls = 0

-----------------------------------------------------------------------------
(***************************************************************************)
(* Hashing: the kept value of an input, or any for a new one.              *)
(***************************************************************************)
Values(hash, input, any) ==
  IF input \in DOMAIN hash THEN {hash[input]} ELSE any

Extend(hash, input, value) ==
  [x \in DOMAIN hash \cup {input} |-> IF x = input THEN value ELSE hash[x]]

\* What derive_nonce hashes.  Variant: the message is left out.
NonceInput_NoMessage(c) == <<c.sk, c.aux, c.counter>>

NonceInput(c) == <<c.sk, c.aux, c.counter, c.message>>

\* What challenge_bytes hashes.
ChallengeInput(rx, pk, message) == <<rx, pk, message>>

-----------------------------------------------------------------------------
(***************************************************************************)
(* sign_bytes.                                                             *)
(***************************************************************************)
Sign(sk, message, aux) ==
  /\ call = Idle
  /\ calls < MaxCalls
  /\ call' = [status |-> "looping", sk |-> sk, message |-> message, aux |-> aux, counter |-> 0]
  /\ calls' = calls + 1
  /\ UNCHANGED <<nonces, challenges, signed>>

\* continue, after counter.wrapping_add(1).  Variant: the counter stays.
Retry_SameCounter ==
  /\ call.counter < MaxRetries
  /\ UNCHANGED <<call, signed, calls>>

Retry ==
  /\ call.counter < MaxRetries
  /\ call' = [call EXCEPT !.counter = (@ + 1) % Counters]
  /\ UNCHANGED <<signed, calls>>

\* Variant: the error is dropped and the zeroed buffer is returned.
ReturnError_ZeroedSignature ==
  /\ call' = Idle
  /\ signed' = signed \cup {[sk |-> call.sk, message |-> call.message,
                             sig |-> [s |-> ZeroBytes, e |-> ZeroBytes]]}
  /\ UNCHANGED calls

ReturnError ==
  /\ call' = Idle
  /\ UNCHANGED <<signed, calls>>

\* Variant: the challenge is reduced before it is written.
Signature_ReducedChallenge(s, e_bytes) ==
  [s |-> field_to_be32(s), e |-> field_to_be32(from_be_bytes_mod_order(e_bytes))]

Signature(s, e_bytes) == [s |-> field_to_be32(s), e |-> e_bytes]

Return(k, s, e_bytes) ==
  /\ call' = Idle
  /\ signed' = signed \cup
       {[sk |-> call.sk, message |-> call.message, k |-> k, sig |-> Signature(s, e_bytes)]}
  /\ UNCHANGED calls

\* s = k - e * sk.
Response(k, e, sk) == Minus(k, Times(e, sk))

\* The loop body once there is a nonce: challenge, response, and their checks.
Respond(k, pk) ==
  LET r == mul_generator(k)
      input == ChallengeInput(x_of(r), pk, call.message)
  IN  \E e_bytes \in Values(challenges, input, Bytes32 \cup {Failed}) :
        LET e == from_be_bytes_mod_order(e_bytes)
            s == Response(k, e, call.sk)
        IN  /\ challenges' = Extend(challenges, input, e_bytes)
            /\ \/ e_bytes = Failed /\ ReturnError
               \/ e_bytes # Failed /\ (e = Zero \/ s = Zero) /\ Retry
               \/ e_bytes # Failed /\ e # Zero /\ s # Zero /\ Return(k, s, e_bytes)

Iterate ==
  /\ call.status = "looping"
  /\ LET pk == mul_generator(call.sk)
     IN  \E k \in Values(nonces, NonceInput(call), Scalar) :
           /\ nonces' = Extend(nonces, NonceInput(call), k)
           /\ \/ /\ k = Zero \/ mul_generator(k) = Identity
                 /\ Retry
                 /\ UNCHANGED challenges
              \/ /\ k # Zero /\ mul_generator(k) # Identity
                 /\ pk = Identity
                 /\ ReturnError
                 /\ UNCHANGED challenges
              \/ /\ k # Zero /\ mul_generator(k) # Identity
                 /\ pk # Identity
                 /\ Respond(k, pk)

Next ==
  \/ \E sk \in Keys, message \in Message, aux \in Aux : Sign(sk, message, aux)
  \/ Iterate

Spec == Init /\ [][Next]_vars

\* The loop does not yield: once called, sign_bytes runs.
FairSpec == Spec /\ WF_vars(Iterate)

-----------------------------------------------------------------------------
(***************************************************************************)
(* verify_bytes.                                                           *)
(***************************************************************************)
verify_bytes(pk, sig, message) ==
  LET s == from_be_bytes_mod_order(sig.s)
      e == from_be_bytes_mod_order(sig.e)
      r == AddPoints(mul_generator(s), mul_point(pk, e))
      input == ChallengeInput(x_of(r), pk, message)
  IN  /\ sig.s # ZeroBytes /\ sig.e # ZeroBytes
      /\ r # Identity
      /\ pk # Identity
      /\ input \in DOMAIN challenges
      /\ challenges[input] = sig.e

-----------------------------------------------------------------------------
(***************************************************************************)
(* Properties.                                                             *)
(***************************************************************************)
Calls ==
  {Idle} \cup [status : {"looping"}, sk : Scalar, message : Message, aux : Aux,
               counter : 0 .. Counters - 1]

TypeOK ==
  /\ call \in Calls
  /\ \A q \in DOMAIN nonces : nonces[q] \in Scalar
  /\ \A q \in DOMAIN challenges : challenges[q] \in Bytes32 \cup {Failed}
  /\ signed \subseteq [sk : Scalar, message : Message, k : Scalar,
                       sig : [s : Bytes32, e : Bytes32]]
  /\ calls \in 0 .. MaxCalls

\* Every signature that sign returns verifies, whatever was retried on the way
\* and also when the challenge is not below the group order (signature.rs:95-97).
SignaturesVerify ==
  \A a \in signed : verify_bytes(mul_generator(a.sk), a.sig, a.message)

\* Two hashed nonce inputs of one key gave nonces whose R cannot be told apart.
NonceCollision(sk) ==
  \E p, q \in DOMAIN nonces :
    /\ p # q /\ p[1] = sk /\ q[1] = sk
    /\ x_of(mul_generator(nonces[p])) = x_of(mul_generator(nonces[q]))

\* Two signatures of one key with one R are the same signature, or the key can be
\* computed from them: short of a collision of the nonce hash this never happens,
\* with a constant generator too (signature.rs:101-108).
NonceServesOneMessage ==
  \A a, b \in signed :
    /\ a.sk = b.sk
    /\ x_of(mul_generator(a.k)) = x_of(mul_generator(b.k))
    => a = b \/ NonceCollision(a.sk)

\* The loop ends if one of the first MaxRetries + 1 draws is of use.
SignReturns == call.status = "looping" ~> call.status = "idle"
=============================================================================
