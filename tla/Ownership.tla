------------------------------ MODULE Ownership ------------------------------
(***************************************************************************)
(* From an issued key to an accepted submission: the consent box and the   *)
(* signers of protocol/key.rs over the exchange of primitive/exchange.rs,  *)
(* and the formulas of suite.rs that tie a signature to one nft and one    *)
(* submission.  A server issues nfts to clients; transcripts and receipts  *)
(* travel late, repeated, to others and mixed up with one another; a       *)
(* client makes a second signer of the secret it has; it signs, and a      *)
(* chain verifies the statement of the ownership proof on its own copy of  *)
(* the submission.  Transcripts cross the network, and a client's consent  *)
(* secret its FFI boundary, as the bytes of ByteCodec.  The hash and the   *)
(* key derivation have no collisions: a value is its preimage, whose arity *)
(* the sponge binds.  Random nonces do not repeat.                         *)
(***************************************************************************)
EXTENDS ByteCodec

CONSTANTS
  Clients,
  Consent,        \* the consent secret of each client
  OpaqueKeys,     \* what the server's generator may give, zero and repetitions too
  Senders, CommitmentIds, ChainIds,   \* [u8; 20] and [u8; 32] as numbers, u64
  Versions,       \* the values of DOMAIN of the suites in use
  Wanted,         \* the submissions clients sign, of all that can be verified
  MaxIssued,      \* bound: nfts
  MaxSignatures   \* bound: signatures

NoPoint == Order    \* in place of a point where there is no transcript
mul_bigint(P, sk) == (sk * P) % Order

\* No two clients have one consent key, or a key and its negative.
ASSUME KeyAssumption ==
  /\ Consent \in [Clients -> 1 .. Order - 1]
  /\ \A c, d \in Clients : UpToSign(Consent[c], Consent[d]) => c = d
  /\ OpaqueKeys \subseteq 0 .. Order - 1

\* One byte of a transcript changed, or the key cut short or run on.
OneByteChanged(bytes) ==
  {[bytes EXCEPT ![k] = b] : k \in DOMAIN bytes, b \in 0 .. ByteBase - 1}

DamagedKey(bytes) ==
  OneByteChanged(bytes) \cup {Append(bytes, 0), SubSeq(bytes, 1, KeyLen - 1)}

\* The keys a client may read in place of o.
Arriving(o) ==
  LET read == {public_key_from_bytes(bytes) : bytes \in DamagedKey(public_key_to_bytes(o).value)}
  IN  {key.value : key \in {k \in read : k.kind = "ok"}}

\* Products coincide by their factors' signs only, also that of a damaged key with the
\* one it was.
ASSUME ExchangeAssumption ==
  \A a, b \in {Consent[c] : c \in Clients}, p \in OpaqueKeys \ {Identity} :
    \A o \in (OpaqueKeys \cup Arriving(p)) \ {Identity} :
      x_of(mul_bigint(o, a)) = x_of(mul_bigint(p, b)) => UpToSign(a, b) /\ UpToSign(o, p)

Submissions ==
  [version : Versions, sender : Senders, commitment_id : CommitmentIds,
   host_chain_id : ChainIds, l2_chain_id : ChainIds]

\* Bytes of 20 and a chain id are below the modulus; a commitment id need not be.
ASSUME SubmissionAssumption ==
  /\ \A n \in Senders \cup ChainIds \cup Versions : n \in Nat /\ IsCanonical(n)
  /\ \A cid \in CommitmentIds : cid \in 0 .. LimbBase * LimbBase - 1
  /\ Wanted \subseteq Submissions
  /\ MaxIssued \in 1 .. Modulus - 1 /\ MaxSignatures \in Nat
  /\ CodecBytes = KeyLen

VARIABLES
  issued,      \* the nfts, each with the transcript shipped and the receipt published
  signer,      \* the signer a client has in memory, with where it came from
  signatures   \* what clients have signed

vars == <<issued, signer, signatures>>

NoSigner == [held |-> FALSE]

Init ==
  /\ issued = <<>>
  /\ signer = NoSigner
  /\ signatures = {}

-----------------------------------------------------------------------------
(***************************************************************************)
(* Formulas.                                                               *)
(***************************************************************************)
\* [pk.x, pk.y, nonce].  coords has an error for the identity, which is no key here.
derive_owner(pk, nonce) == <<pk.x, pk.y, nonce>>

\* The fold of an nft with a stored id, over a body that is its owner.
nft_hash(id, owner) == <<id, owner>>

signing_payload(hash, nonce, bind) == <<hash, nonce, bind>>

\* Variant: the commitment id is reduced to one element.
binding_ReducedId(sub) ==
  <<sub.version, ToElement(sub.sender), ToElement(sub.commitment_id),
    sub.host_chain_id, sub.l2_chain_id>>

binding(sub) ==
  LET cid == u256_limbs_be(sub.commitment_id)
  IN  <<sub.version, ToElement(sub.sender), ToElement(cid[1]), ToElement(cid[2]),
        sub.host_chain_id, sub.l2_chain_id>>

-----------------------------------------------------------------------------
(***************************************************************************)
(* Keys.                                                                   *)
(***************************************************************************)
\* Variants: the identity passes; the caller's own public key goes in too.
shared_IdentityPasses(sk, other) == Ok(x_of(mul_bigint(other, sk)))

shared_OwnKeyFirst(sk, other) ==
  IF mul_bigint(other, sk) = Identity THEN Err("Identity")
  ELSE Ok(sk * Order + x_of(mul_bigint(other, sk)))

\* EcdhEmbedded::shared; [sk]G is sk itself.
shared(sk, other) ==
  IF mul_bigint(other, sk) = Identity THEN Err("Identity")
  ELSE Ok(x_of(mul_bigint(other, sk)))

\* Variant: the nonce is left out.
derive_nft_secret_NoNonce(secret, nonce) == [origin |-> "box", shared |-> secret, nonce |-> 0]

derive_nft_secret(secret, nonce) == [origin |-> "box", shared |-> secret, nonce |-> nonce]

public_key(nft_sk) == [x |-> <<"x", nft_sk>>, y |-> <<"y", nft_sk>>]

OwnerSeed(nft_sk, nonce) == [pk |-> public_key(nft_sk), nonce |-> nonce]

from_secret(nft_sk, nonce) == [secret |-> nft_sk, seed |-> OwnerSeed(nft_sk, nonce)]

from_exchange(consent_sk, opaque_pk, nonce) ==
  LET secret == shared(consent_sk, opaque_pk)
  IN  IF secret.kind # "ok" THEN secret
      ELSE Ok(from_secret(derive_nft_secret(secret.value, nonce), nonce))

-----------------------------------------------------------------------------
(***************************************************************************)
(* Issuing.                                                                *)
(***************************************************************************)
FreshNonce == Len(issued) + 1

\* OwnershipReceipt, of an nft with a stored id.
Receipt(id, owner) == [id |-> id, owner |-> owner, nft_hash |-> nft_hash(id, owner)]

\* The nft of an owner seed is minted; its receipt and transcript are shipped.
Mint(client, opaque_pk, seed) ==
  /\ Len(issued) < MaxIssued
  /\ issued' = Append(issued,
       [client    |-> client,
        opaque_pk |-> opaque_pk,
        seed      |-> seed,
        receipt   |-> Receipt(Len(issued) + 1, derive_owner(seed.pk, seed.nonce))])

\* The server; nothing changes on an error.
issue_for_remote(client, opaque_sk) ==
  LET secret == shared(opaque_sk, Consent[client])
  IN  /\ secret.kind = "ok"
      /\ Mint(client, opaque_sk,
              OwnerSeed(derive_nft_secret(secret.value, FreshNonce), FreshNonce))
      /\ UNCHANGED <<signer, signatures>>

Holds(client, opaque_pk, made) ==
  [held |-> TRUE, client |-> client, opaque_pk |-> opaque_pk,
   secret |-> made.secret, seed |-> made.seed]

\* Signer::local, and the nft a client mints for itself.
local(client) ==
  LET nft_sk == [origin |-> "local", shared |-> 0, nonce |-> FreshNonce]
  IN  /\ Mint(client, NoPoint, OwnerSeed(nft_sk, FreshNonce))
      /\ signer' = Holds(client, NoPoint, from_secret(nft_sk, FreshNonce))
      /\ UNCHANGED signatures

-----------------------------------------------------------------------------
(***************************************************************************)
(* The clients.                                                            *)
(***************************************************************************)
\* The nfts with a transcript, and its two parts as they are shipped.
Transcripts == {i \in DOMAIN issued : issued[i].opaque_pk # NoPoint}
PkBytes(i) == public_key_to_bytes(issued[i].opaque_pk).value
NonceBytes(i) == field_to_be_bytes(issued[i].seed.nonce)

\* The consent secret as its client passes it in.
ConsentBytes(client) == secret_to_bytes(Consent[client]).value

CanSign == Cardinality(signatures) < MaxSignatures

\* signer_from_remote over what arrived; a transcript that fails to decode or
\* names the identity changes nothing.
Reconstruct(client, pk_bytes, nonce_bytes) ==
  LET consent_sk == secret_from_bytes(ConsentBytes(client))
      pk == public_key_from_bytes(pk_bytes)
      made == from_exchange(consent_sk.value, pk.value, field_from_be32(nonce_bytes))
  IN  /\ consent_sk.kind = "ok" /\ pk.kind = "ok" /\ made.kind = "ok"
      /\ signer' = Holds(client, pk.value, made.value)
      /\ UNCHANGED <<issued, signatures>>

\* The point of one transcript and the nonce of one, whoever they were meant for
\* and whichever way round they arrived.  Bound: nothing arrives after the last
\* signature, which it cannot change any more.
Receive(client) ==
  /\ CanSign
  /\ \E i, j \in Transcripts : Reconstruct(client, PkBytes(i), NonceBytes(j))

ReceiveDamaged(client) ==
  /\ CanSign
  /\ \E i \in Transcripts :
       \/ \E pk_bytes \in DamagedKey(PkBytes(i)) :
            Reconstruct(client, pk_bytes, NonceBytes(i))
       \/ \E nonce_bytes \in OneByteChanged(NonceBytes(i)) :
            Reconstruct(client, PkBytes(i), nonce_bytes)

\* into_secret, which hands the NftSecret itself over, and from_secret with the nonce
\* of some nft.
Rebind(i) ==
  /\ signer.held
  /\ signer' = Holds(signer.client, signer.opaque_pk,
                     from_secret(signer.secret, issued[i].seed.nonce))
  /\ UNCHANGED <<issued, signatures>>

\* Signer::sign over the payload of an nft's receipt and a submission.
sign(i, sub) ==
  /\ signer.held /\ CanSign
  /\ signatures' = signatures \cup
       {[by      |-> signer.client,
         seed    |-> signer.seed,
         payload |-> signing_payload(issued[i].receipt.nft_hash, signer.seed.nonce, binding(sub)),
         meant   |-> [nft |-> i, sub |-> sub]]}
  /\ UNCHANGED <<issued, signer>>

Next ==
  \/ \E client \in Clients :
       \/ \E opaque_sk \in OpaqueKeys : issue_for_remote(client, opaque_sk)
       \/ local(client)
       \/ Receive(client) \/ ReceiveDamaged(client)
  \/ \E i \in DOMAIN issued : Rebind(i) \/ \E sub \in Wanted : sign(i, sub)

Spec == Init /\ [][Next]_vars

\* The verifying chain's statement, for a submission as the chain sees it: the
\* owner's key signed the payload of that nft and of the binding it recomputes.
Accepts(signature, receipt, sub) ==
  /\ derive_owner(signature.seed.pk, signature.seed.nonce) = receipt.owner
  /\ signature.payload =
       signing_payload(receipt.nft_hash, signature.seed.nonce, binding(sub))

-----------------------------------------------------------------------------
(***************************************************************************)
(* Properties.                                                             *)
(***************************************************************************)
Secrets ==
  [origin : {"box"}, shared : 1 .. Order - 1, nonce : 0 .. Modulus - 1]
    \cup [origin : {"local"}, shared : {0}, nonce : 1 .. MaxIssued]
IsSeed(seed) ==
  /\ seed.nonce \in 0 .. Modulus - 1
  /\ seed.pk.x[2] \in Secrets /\ seed.pk = public_key(seed.pk.x[2])

\* No key comes of the identity, whatever the generator or the network gave.
TypeOK ==
  /\ Len(issued) <= MaxIssued
  /\ \A i \in DOMAIN issued :
       /\ issued[i].client \in Clients /\ issued[i].opaque_pk \in 1 .. NoPoint
       /\ IsSeed(issued[i].seed)
  /\ signer.held =>
       /\ signer.client \in Clients
       /\ signer.secret \in Secrets /\ IsSeed(signer.seed)
  /\ \A s \in signatures : IsSeed(s.seed)

\* What public_key_from_bytes and field_from_be32 read as they read the bytes that
\* were shipped: either sign of y, a nonce not reduced.
KeyForms(i) ==
  {LeBytes(x_of(issued[i].opaque_pk) + flag * FlagUnit) : flag \in {YIsPositive, YIsNegative}}
NonceForms(i) ==
  {Reverse(LeBytes(n)) : n \in {issued[i].seed.nonce, issued[i].seed.nonce + Modulus}}

\* The client an nft was issued to can make its signer at any later time: from its
\* consent secret, passed in as bytes, and the transcript, in each of these forms, comes
\* the key the server threw away (key.rs:15-21).
RecipientReconstructs ==
  \A i \in Transcripts : \A pk_bytes \in KeyForms(i), nonce_bytes \in NonceForms(i) :
    LET consent_sk == secret_from_bytes(ConsentBytes(issued[i].client))
        pk == public_key_from_bytes(pk_bytes)
        made == from_exchange(consent_sk.value, pk.value, field_from_be32(nonce_bytes))
    IN  /\ consent_sk.kind = "ok" /\ pk.kind = "ok" /\ made.kind = "ok"
        /\ made.value.seed = issued[i].seed

\* A signer that has the owner of an nft is its recipient's, made of its transcript:
\* nothing delivered to another client, damaged, mixed from two transcripts or rebound
\* to another nonce has it.  Only signs are lost, with the y-coordinate (key.rs:192-206).
OnlyRecipientOwns ==
  \A i \in DOMAIN issued :
    signer.held /\ derive_owner(signer.seed.pk, signer.seed.nonce) = issued[i].receipt.owner =>
      /\ signer.client = issued[i].client
      /\ UpToSign(signer.opaque_pk, issued[i].opaque_pk)
      /\ signer.seed = issued[i].seed

\* No two nfts have one key, also when the generator repeats an opaque key for one
\* client: then a signer of the one would sign for the other (key.rs:248-256).
OneKeyPerNft ==
  \A i, j \in DOMAIN issued : i # j => issued[i].seed.pk # issued[j].seed.pk

\* A chain accepts a signature for an nft and a submission if and only if its owner
\* made it for that nft, sender, commitment, pair of chains and version: it cannot be
\* replayed anywhere else and is good where it was meant (suite.rs:138-153).
AcceptedExactlyWhereMeant ==
  \A s \in signatures, i \in DOMAIN issued, sub \in Submissions :
    Accepts(s, issued[i].receipt, sub) <=>
      s.seed = issued[i].seed /\ s.meant = [nft |-> i, sub |-> sub]

\* What chains see of it: the client of each nft, and what is accepted of whom.
Owners == [i \in DOMAIN issued |-> issued[i].client]
ClaimsOn(s, i) ==
  {[by |-> s.by, nft |-> i, sub |-> sub] :
     sub \in {x \in Submissions : Accepts(s, issued[i].receipt, x)}}
AcceptedClaims == UNION {ClaimsOn(s, i) : s \in signatures, i \in DOMAIN issued}

\* Keys, bytes and signatures together keep what Claims promises: a chain's acceptance
\* is its client's own act, and is not brought about by what others issue, receive or
\* sign, before or after (key.rs:15-21, suite.rs:138-153).
Promised == INSTANCE Claims WITH owner <- Owners, claims <- AcceptedClaims

ImplementsClaims == Promised!Spec
=============================================================================
