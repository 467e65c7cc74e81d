--------------------------- MODULE OwnershipProofs ---------------------------
(***************************************************************************)
(* What is proved of Ownership, for every field, curve, set of clients and *)
(* keys that its assumptions allow.                                        *)
(*                                                                         *)
(* The invariant says what everything is made of: an nft of its client,    *)
(* opaque key and place, a signer and a signature of what a client can     *)
(* have obtained.  Of two things made of different parts the keys differ,  *)
(* which is all that the properties need.                                  *)
(***************************************************************************)
EXTENDS Ownership, ByteCodecProofs

(***************************************************************************)
(* The exchange.                                                           *)
(***************************************************************************)
LEMMA Constants ==
  /\ OpaqueKeys \subseteq 0 .. Order - 1 /\ Order \in Nat \ {0}
  /\ NoPoint = Order /\ ~ (NoPoint \in 0 .. Order - 1) /\ Identity = 0
  /\ \A client \in Clients : Consent[client] \in 1 .. Order - 1
  /\ Modulus \in Nat \ {0} /\ MaxIssued \in 1 .. Modulus - 1
  /\ CodecBytes = KeyLen
<1>1. Order \in Nat \ {0} /\ Modulus \in Nat \ {0}
  BY CodecSizes
<1>2. \A client \in Clients : Consent[client] \in 1 .. Order - 1
  BY KeyAssumption
<1> QED BY <1>1, <1>2, KeyAssumption, SubmissionAssumption DEF NoPoint, Identity

\* A consent secret arrives as it is.
LEMMA ConsentReturns ==
  ASSUME NEW client \in Clients
  PROVE  LET consent_sk == secret_from_bytes(ConsentBytes(client))
         IN  consent_sk.kind = "ok" /\ consent_sk.value = Consent[client]
<1>1. Consent[client] \in 0 .. Order - 1 /\ CodecBytes = KeyLen
  BY Constants
<1>2. secret_from_bytes(ConsentBytes(client)) = Ok(Consent[client])
  BY <1>1, SecretReturns DEF ConsentBytes
<1> QED BY <1>2 DEF Ok

LEMMA ProductType ==
  ASSUME NEW P \in Int, NEW a \in Int
  PROVE  /\ mul_bigint(P, a) \in 0 .. Order - 1
         /\ mul_bigint(P, a) = mul_bigint(a, P)
         /\ P = 0 => mul_bigint(P, a) = 0
<1>1. a * P \in Int /\ a * P = P * a /\ Order \in Nat \ {0}
  BY CodecSizes
<1>2. (a * P) % Order \in 0 .. Order - 1
  BY <1>1, Division
<1>3. ASSUME P = 0 PROVE (a * P) % Order = 0
  <2>1. a * P = Order * 0 + 0
    BY <1>1, <1>3
  <2>2. (Order * 0 + 0) % Order = 0
    BY <1>1, DivisionIsUnique
  <2> QED BY <2>1, <2>2
<1> QED BY <1>1, <1>2, <1>3 DEF mul_bigint

\* The product of the negative is the negative of the product.
LEMMA ProductOfNegative ==
  ASSUME NEW P \in 1 .. Order - 1, NEW a \in Int
  PROVE  mul_bigint(Order - P, a) = Negative(mul_bigint(P, a))
<1> DEFINE k == (a * P) \div Order
           r == mul_bigint(P, a)
<1>1. Order \in Nat \ {0} /\ P \in Int
  BY CodecSizes
<1>2. a * P = Order * k + r /\ k \in Int /\ r \in 0 .. Order - 1
  <2>1. a * P \in Int
    BY <1>1
  <2> QED BY <1>1, <2>1, Division DEF mul_bigint
<1>3. a * (Order - P) = a * Order - a * P
  BY <1>1
<1> HIDE DEF k, r
<1>4. CASE r = 0
  <2>1. a * (Order - P) = Order * (a - k) + 0 /\ a - k \in Int
    BY <1>1, <1>2, <1>3, <1>4
  <2>2. (Order * (a - k) + 0) % Order = 0
    BY <1>1, <2>1, DivisionIsUnique
  <2> QED BY <1>2, <1>4, <2>1, <2>2, NegativeIs DEF mul_bigint, r
<1>5. CASE r # 0
  <2>1. /\ a * (Order - P) = Order * (a - k - 1) + (Order - r)
        /\ a - k - 1 \in Int /\ Order - r \in 0 .. Order - 1
    BY <1>1, <1>2, <1>3, <1>5
  <2>2. (Order * (a - k - 1) + (Order - r)) % Order = Order - r
    BY <1>1, <2>1, DivisionIsUnique
  <2> QED BY <1>2, <1>5, <2>1, <2>2, NegativeIs DEF mul_bigint, r
<1> QED BY <1>4, <1>5

\* Both sides of an exchange have one secret.
LEMMA SharedCommutes ==
  ASSUME NEW a \in Int, NEW P \in Int
  PROVE  shared(a, P) = shared(P, a)
BY ProductType DEF shared

LEMMA SharedType ==
  ASSUME NEW a \in Int, NEW P \in Int, shared(a, P).kind = "ok"
  PROVE  /\ P # Identity
         /\ shared(a, P) = Ok(x_of(mul_bigint(P, a)))
         /\ shared(a, P).value = x_of(mul_bigint(P, a))
         /\ shared(a, P).value \in 1 .. Order - 1
<1>1. mul_bigint(P, a) # Identity
  BY DEF shared, Err
<1>2. P # Identity /\ mul_bigint(P, a) \in 1 .. Order - 1
  <2>1. mul_bigint(P, a) \in 0 .. Order - 1 /\ (P = 0 => mul_bigint(P, a) = 0)
    BY ProductType
  <2>2. Order \in Nat
    BY CodecSizes
  <2> QED BY <1>1, <2>1, <2>2 DEF Identity
<1>3. x_of(mul_bigint(P, a)) \in 1 .. Order - 1
  BY <1>2, XCoordinates
<1> QED BY <1>1, <1>2, <1>3 DEF shared, Ok

\* The sign of a point does not matter.
LEMMA SharedOfSign ==
  ASSUME NEW a \in Int, NEW P \in 1 .. Order - 1, NEW Q, UpToSign(Q, P)
  PROVE  Q \in 1 .. Order - 1 /\ shared(a, Q) = shared(a, P)
<1>1. Q \in 1 .. Order - 1 /\ (Q = P \/ Q = Order - P)
  BY Signs
<1>2. CASE Q = Order - P
  <2> DEFINE p == mul_bigint(P, a)
             q == mul_bigint(Q, a)
  <2>1. q = Negative(p) /\ p \in 0 .. Order - 1
    <3>1. P \in Int
      BY CodecSizes
    <3> QED BY <1>2, <3>1, ProductOfNegative, ProductType
  <2> HIDE DEF p, q
  <2>2. CASE p = 0
    <3>1. q = p
      BY <2>1, <2>2, NegativeIs
    <3> QED BY <1>1, <3>1 DEF shared, p, q
  <2>3. CASE p # 0
    <3>1. p \in 1 .. Order - 1 /\ q # 0
      BY <2>1, <2>3, CodecSizes, XCoordinates
    <3>2. UpToSign(q, p)
      BY <2>1 DEF UpToSign
    <3>3. x_of(q) = x_of(p)
      BY <3>1, <3>2, Signs
    <3> QED BY <1>1, <2>3, <3>1, <3>3 DEF shared, p, q, Identity
  <2> QED BY <2>2, <2>3
<1> QED BY <1>1, <1>2

\* What an exchange tells of its parts: the client, and the key up to its sign.
LEMMA SharedTells ==
  ASSUME NEW c \in Clients, NEW d \in Clients, NEW p \in OpaqueKeys,
         NEW o \in 0 .. Order - 1, o \in OpaqueKeys \/ o \in Arriving(p),
         shared(Consent[c], o).kind = "ok", shared(Consent[d], p).kind = "ok",
         shared(Consent[c], o).value = shared(Consent[d], p).value
  PROVE  c = d /\ UpToSign(o, p)
<1>1. /\ Consent[c] \in Int /\ Consent[d] \in Int /\ o \in Int /\ p \in Int
  BY Constants
<1>2. /\ o # Identity /\ p # Identity
      /\ x_of(mul_bigint(o, Consent[c])) = x_of(mul_bigint(p, Consent[d]))
  BY <1>1, SharedType
<1>3. Consent[c] \in {Consent[x] : x \in Clients} /\ Consent[d] \in {Consent[x] : x \in Clients}
  OBVIOUS
<1>4. p \in OpaqueKeys \ {Identity} /\ o \in (OpaqueKeys \cup Arriving(p)) \ {Identity}
  BY <1>2
<1>5. UpToSign(Consent[c], Consent[d]) /\ UpToSign(o, p)
  BY <1>2, <1>3, <1>4, ExchangeAssumption
<1> QED BY <1>5, KeyAssumption

(***************************************************************************)
(* The invariant.                                                          *)
(***************************************************************************)
LocalSecret(n) == [origin |-> "local", shared |-> 0, nonce |-> n]

\* What the exchange of a client with o, or a client by itself, makes with nonce n.
Made(client, o, n) ==
  IF o = NoPoint THEN LocalSecret(n)
  ELSE derive_nft_secret(shared(Consent[client], o).value, n)

Exchanges(client, o) ==
  \/ o = NoPoint
  \/ o \in 0 .. Order - 1 /\ shared(Consent[client], o).kind = "ok"

Nft(client, o, i) ==
  [client    |-> client,
   opaque_pk |-> o,
   seed      |-> OwnerSeed(Made(client, o, i), i),
   receipt   |-> Receipt(i, derive_owner(public_key(Made(client, o, i)), i))]

Keys(client) == {o \in OpaqueKeys \cup {NoPoint} : Exchanges(client, o)}

Nfts == UNION {{Nft(client, o, i) : o \in Keys(client), i \in 1 .. MaxIssued} :
                 client \in Clients}

\* An nft is what its client, its key and its place make it.
Ledger(list) ==
  /\ list \in Seq(Nfts) /\ Len(list) <= MaxIssued
  /\ \A i \in DOMAIN list :
       /\ list[i].client \in Clients
       /\ list[i].opaque_pk \in Keys(list[i].client)
       /\ list[i] = Nft(list[i].client, list[i].opaque_pk, i)

\* What a client can have come by: a key of the generator with any nonce, a damaged key
\* with the nonce of its transcript, a key of its own.
Obtained(list, client, o, n) ==
  /\ client \in Clients /\ n \in 0 .. Modulus - 1 /\ Exchanges(client, o)
  /\ \/ o \in OpaqueKeys
     \/ /\ n \in DOMAIN list /\ list[n].opaque_pk # NoPoint
        /\ o \in Arriving(list[n].opaque_pk)
     \/ /\ n \in DOMAIN list /\ list[n].opaque_pk = NoPoint /\ list[n].client = client
        /\ o = NoPoint

SignerFits(s, list) ==
  s.held =>
    /\ Obtained(list, s.client, s.opaque_pk, s.secret.nonce)
    /\ s.secret = Made(s.client, s.opaque_pk, s.secret.nonce)
    /\ s.seed.nonce \in 0 .. Modulus - 1
    /\ s.seed = OwnerSeed(s.secret, s.seed.nonce)

SignatureFits(s, list) ==
  /\ \E o \in 0 .. NoPoint, n \in 0 .. Modulus - 1, m \in 0 .. Modulus - 1 :
       Obtained(list, s.by, o, n) /\ s.seed = OwnerSeed(Made(s.by, o, n), m)
  /\ s.meant.nft \in DOMAIN list /\ s.meant.sub \in Submissions
  /\ s.meant = [nft |-> s.meant.nft, sub |-> s.meant.sub]
  /\ s.payload = signing_payload(list[s.meant.nft].receipt.nft_hash, s.seed.nonce,
                                 binding(s.meant.sub))

IInv ==
  /\ Ledger(issued)
  /\ SignerFits(signer, issued)
  /\ \A s \in signatures : SignatureFits(s, issued)

-----------------------------------------------------------------------------
(***************************************************************************)
(* What things are made of.                                                *)
(***************************************************************************)
\* The key of an exchange is not that of a client by itself, and has its nonce.
LEMMA MadeType ==
  ASSUME NEW client \in Clients, NEW o, Exchanges(client, o), NEW n
  PROVE  /\ Made(client, o, n).nonce = n
         /\ o = NoPoint => Made(client, o, n) = LocalSecret(n)
         /\ o # NoPoint =>
              /\ Made(client, o, n) =
                   [origin |-> "box", shared |-> shared(Consent[client], o).value, nonce |-> n]
              /\ shared(Consent[client], o).value \in 1 .. Order - 1
              /\ o \in 1 .. Order - 1
<1>1. CASE o = NoPoint
  BY <1>1 DEF Made, LocalSecret
<1>2. CASE o # NoPoint
  <2>1. o \in 0 .. Order - 1 /\ shared(Consent[client], o).kind = "ok"
    BY <1>2 DEF Exchanges
  <2>2. Consent[client] \in Int /\ o \in Int /\ Order \in Nat /\ Identity = 0
    BY <2>1, Constants
  <2>3. o # Identity /\ shared(Consent[client], o).value \in 1 .. Order - 1
    BY <2>1, <2>2, SharedType
  <2> QED BY <1>2, <2>1, <2>2, <2>3 DEF Made, derive_nft_secret
<1> QED BY <1>1, <1>2

LEMMA SecretType ==
  ASSUME NEW list, Ledger(list), NEW client, NEW o, NEW n, Obtained(list, client, o, n)
  PROVE  Made(client, o, n) \in Secrets
<1>1. client \in Clients /\ Exchanges(client, o) /\ n \in 0 .. Modulus - 1
  BY DEF Obtained
<1>2. CASE o = NoPoint
  <2>1. ~ (o \in OpaqueKeys)
    BY <1>2, Constants
  <2>2. n \in DOMAIN list
    BY <2>1 DEF Obtained
  <2>3. list \in Seq(Nfts) /\ Len(list) <= MaxIssued /\ MaxIssued \in Nat
    BY Constants DEF Ledger
  <2>4. n \in 1 .. MaxIssued
    BY <2>2, <2>3
  <2> QED BY <1>1, <1>2, <2>4, MadeType DEF LocalSecret, Secrets
<1>3. CASE o # NoPoint
  BY <1>1, <1>3, MadeType DEF Secrets
<1> QED BY <1>2, <1>3

LEMMA NftsAre ==
  ASSUME NEW list, Ledger(list), NEW i \in DOMAIN list
  PROVE  /\ i \in 1 .. Len(list) /\ i \in 1 .. MaxIssued /\ i \in 1 .. Modulus - 1
         /\ Len(list) \in Nat
         /\ list[i].client \in Clients /\ list[i].opaque_pk \in OpaqueKeys \cup {NoPoint}
         /\ Exchanges(list[i].client, list[i].opaque_pk)
         /\ list[i].seed = OwnerSeed(Made(list[i].client, list[i].opaque_pk, i), i)
         /\ list[i].seed.nonce = i
         /\ list[i].receipt.id = i
         /\ list[i].receipt.owner = derive_owner(list[i].seed.pk, list[i].seed.nonce)
         /\ list[i].receipt.nft_hash = <<i, list[i].receipt.owner>>
<1>1. /\ list \in Seq(Nfts) /\ Len(list) <= MaxIssued
      /\ MaxIssued \in 1 .. Modulus - 1 /\ Modulus \in Nat
  BY Constants DEF Ledger
<1>2. i \in 1 .. Len(list) /\ i \in 1 .. MaxIssued /\ i \in 1 .. Modulus - 1 /\ Len(list) \in Nat
  BY <1>1
<1>3. /\ list[i].client \in Clients /\ list[i].opaque_pk \in OpaqueKeys \cup {NoPoint}
      /\ Exchanges(list[i].client, list[i].opaque_pk)
      /\ list[i] = Nft(list[i].client, list[i].opaque_pk, i)
  BY DEF Ledger, Keys
<1>4. ASSUME NEW c, NEW o
      PROVE  /\ Nft(c, o, i).seed = OwnerSeed(Made(c, o, i), i)
             /\ Nft(c, o, i).seed.nonce = i
             /\ Nft(c, o, i).receipt.id = i
             /\ Nft(c, o, i).receipt.owner
                  = derive_owner(Nft(c, o, i).seed.pk, Nft(c, o, i).seed.nonce)
             /\ Nft(c, o, i).receipt.nft_hash = <<i, Nft(c, o, i).receipt.owner>>
  BY DEF Nft, OwnerSeed, Receipt, nft_hash
<1> QED BY <1>2, <1>3, <1>4

\* A key is of one secret.
LEMMA OwnersAreOfSecrets ==
  ASSUME NEW r, NEW s, NEW m, NEW n
  PROVE  derive_owner(public_key(r), m) = derive_owner(public_key(s), n) => r = s /\ m = n
BY DEF derive_owner, public_key

\* Whoever made the owner of an nft is its client, with its key.
LEMMA OwnerIsClient ==
  ASSUME NEW list, Ledger(list), NEW i \in DOMAIN list,
         NEW client, NEW o, NEW n, Obtained(list, client, o, n), NEW m,
         NEW seed, seed = OwnerSeed(Made(client, o, n), m),
         derive_owner(seed.pk, seed.nonce) = list[i].receipt.owner
  PROVE  /\ client = list[i].client /\ UpToSign(o, list[i].opaque_pk)
         /\ seed = list[i].seed
<1> DEFINE d == list[i].client
           p == list[i].opaque_pk
<1>1. /\ d \in Clients /\ p \in OpaqueKeys \cup {NoPoint} /\ Exchanges(d, p)
      /\ list[i].seed = OwnerSeed(Made(d, p, i), i)
      /\ list[i].receipt.owner = derive_owner(list[i].seed.pk, list[i].seed.nonce)
  BY NftsAre
<1>2. client \in Clients /\ Exchanges(client, o)
  BY DEF Obtained
<1>3. Made(client, o, n) = Made(d, p, i) /\ m = i
  BY <1>1, OwnersAreOfSecrets DEF OwnerSeed
<1>4. n = i
  BY <1>1, <1>2, <1>3, MadeType
<1>5. (o = NoPoint) <=> (p = NoPoint)
  BY <1>1, <1>2, <1>3, MadeType DEF LocalSecret
<1>6. CASE p = NoPoint
  <2>1. ~ (o \in OpaqueKeys)
    BY <1>5, <1>6, Constants
  <2>2. list[n].client = client
    BY <1>4, <1>6, <2>1 DEF Obtained
  <2> QED BY <1>1, <1>3, <1>4, <1>5, <1>6, <2>2 DEF UpToSign
<1>7. CASE p # NoPoint
  <2>1. p \in OpaqueKeys /\ o # NoPoint
    BY <1>1, <1>5, <1>7
  <2>2. o \in OpaqueKeys \/ o \in Arriving(p)
    BY <1>4, <1>7, <2>1 DEF Obtained
  <2>3. shared(Consent[client], o).kind = "ok" /\ shared(Consent[d], p).kind = "ok"
        /\ o \in 0 .. Order - 1
    BY <1>1, <1>2, <1>7, <2>1 DEF Exchanges
  <2>4. shared(Consent[client], o).value = shared(Consent[d], p).value
    BY <1>1, <1>2, <1>3, <1>7, <2>1, MadeType
  <2>5. client = d /\ UpToSign(o, p)
    BY <1>1, <1>2, <2>1, <2>2, <2>3, <2>4, SharedTells
  <2> QED BY <1>1, <1>3, <2>5
<1> QED BY <1>6, <1>7

\* The binding tells submissions apart.
LEMMA BindingIsInjective ==
  ASSUME NEW x \in Submissions, NEW y \in Submissions, binding(x) = binding(y)
  PROVE  x = y
<1>1. ASSUME NEW n \in 0 .. Modulus - 1 PROVE ToElement(n) = n
  <2>1. n = Modulus * 0 + n /\ Modulus \in Nat \ {0} /\ 0 \in Int
    BY CodecSizes
  <2>2. (Modulus * 0 + n) % Modulus = n
    BY <2>1, DivisionIsUnique
  <2> QED BY <2>1, <2>2 DEF ToElement
<1>2. \A n \in Senders \cup ChainIds \cup Versions : n \in 0 .. Modulus - 1
  BY SubmissionAssumption, CodecSizes DEF IsCanonical
<1>3. ASSUME NEW n \in CommitmentIds
      PROVE  /\ n \in Nat /\ n = LimbBase * (n \div LimbBase) + (n % LimbBase)
             /\ n % LimbBase \in 0 .. Modulus - 1 /\ n \div LimbBase \in 0 .. Modulus - 1
  <2>1. /\ LimbBase \in Nat \ {0} /\ Modulus \in Nat /\ LimbBase < Modulus
        /\ LimbBase * LimbBase \in Nat
    BY WidthAssumption
  <2>2. n \in 0 .. LimbBase * LimbBase - 1
    BY SubmissionAssumption
  <2>3. n \in Nat /\ n < LimbBase * LimbBase
    BY <2>1, <2>2
  <2>4. n = LimbBase * (n \div LimbBase) + (n % LimbBase) /\ n % LimbBase \in 0 .. LimbBase - 1
    BY <2>1, <2>3, Division
  <2>5. n \div LimbBase < LimbBase /\ n \div LimbBase \in Nat
    BY <2>1, <2>3, QuotientIsLess
  <2> QED BY <2>1, <2>3, <2>4, <2>5
<1>4. /\ x.sender \in Senders /\ y.sender \in Senders
      /\ x.commitment_id \in CommitmentIds /\ y.commitment_id \in CommitmentIds
  BY DEF Submissions
<1>5. /\ x.version = y.version /\ ToElement(x.sender) = ToElement(y.sender)
      /\ ToElement(x.commitment_id % LimbBase) = ToElement(y.commitment_id % LimbBase)
      /\ ToElement(x.commitment_id \div LimbBase) = ToElement(y.commitment_id \div LimbBase)
      /\ x.host_chain_id = y.host_chain_id /\ x.l2_chain_id = y.l2_chain_id
  BY DEF binding, u256_limbs_be
<1>6. x.sender = y.sender
  BY <1>1, <1>2, <1>4, <1>5
<1>7. x.commitment_id = y.commitment_id
  <2>1. /\ x.commitment_id % LimbBase = y.commitment_id % LimbBase
        /\ x.commitment_id \div LimbBase = y.commitment_id \div LimbBase
    BY <1>1, <1>3, <1>4, <1>5
  <2> QED BY <1>3, <1>4, <2>1
<1> QED BY <1>5, <1>6, <1>7 DEF Submissions

-----------------------------------------------------------------------------
(***************************************************************************)
(* The properties follow of the invariant.                                 *)
(***************************************************************************)
LEMMA SeedType ==
  ASSUME NEW secret \in Secrets, NEW m \in 0 .. Modulus - 1
  PROVE  IsSeed(OwnerSeed(secret, m))
BY DEF IsSeed, OwnerSeed, public_key

LEMMA InvImpliesTypeOK == IInv => TypeOK
<1> SUFFICES ASSUME IInv PROVE TypeOK
  OBVIOUS
<1>1. Len(issued) <= MaxIssued /\ Ledger(issued)
  BY DEF IInv, Ledger
<1>2. ASSUME NEW i \in DOMAIN issued
      PROVE  /\ issued[i].client \in Clients /\ issued[i].opaque_pk \in 1 .. NoPoint
             /\ IsSeed(issued[i].seed)
  <2> DEFINE c == issued[i].client
             p == issued[i].opaque_pk
  <2>1. /\ c \in Clients /\ p \in OpaqueKeys \cup {NoPoint} /\ Exchanges(c, p)
        /\ issued[i].seed = OwnerSeed(Made(c, p, i), i) /\ i \in 0 .. Modulus - 1
        /\ i \in 1 .. MaxIssued
    BY <1>1, NftsAre
  <2>2. p \in 1 .. NoPoint
    BY <2>1, MadeType, Constants
  <2>3. Made(c, p, i) \in Secrets
    <3>1. CASE p = NoPoint
      BY <2>1, <3>1, MadeType DEF LocalSecret, Secrets
    <3>2. CASE p # NoPoint
      BY <2>1, <3>2, MadeType DEF Secrets
    <3> QED BY <3>1, <3>2
  <2> QED BY <2>1, <2>2, <2>3, SeedType
<1>3. ASSUME signer.held
      PROVE  /\ signer.client \in Clients
             /\ signer.secret \in Secrets /\ IsSeed(signer.seed)
  <2>1. /\ Obtained(issued, signer.client, signer.opaque_pk, signer.secret.nonce)
        /\ signer.secret = Made(signer.client, signer.opaque_pk, signer.secret.nonce)
        /\ signer.seed.nonce \in 0 .. Modulus - 1
        /\ signer.seed = OwnerSeed(signer.secret, signer.seed.nonce)
    BY <1>3 DEF IInv, SignerFits
  <2>2. signer.client \in Clients
    BY <2>1 DEF Obtained
  <2>3. signer.secret \in Secrets
    BY <1>1, <2>1, SecretType
  <2> QED BY <2>1, <2>2, <2>3, SeedType
<1>4. ASSUME NEW s \in signatures PROVE IsSeed(s.seed)
  <2>1. SignatureFits(s, issued)
    BY DEF IInv
  <2>2. PICK o \in 0 .. NoPoint, n \in 0 .. Modulus - 1, m \in 0 .. Modulus - 1 :
          Obtained(issued, s.by, o, n) /\ s.seed = OwnerSeed(Made(s.by, o, n), m)
    BY <2>1 DEF SignatureFits
  <2>3. Made(s.by, o, n) \in Secrets
    BY <1>1, <2>2, SecretType
  <2> QED BY <2>2, <2>3, SeedType
<1> QED BY <1>1, <1>2, <1>3, <1>4 DEF TypeOK

LEMMA InvImpliesOnlyRecipientOwns == IInv => OnlyRecipientOwns
<1> SUFFICES ASSUME IInv, NEW i \in DOMAIN issued, signer.held,
                    derive_owner(signer.seed.pk, signer.seed.nonce) = issued[i].receipt.owner
             PROVE  /\ signer.client = issued[i].client
                    /\ UpToSign(signer.opaque_pk, issued[i].opaque_pk)
                    /\ signer.seed = issued[i].seed
  BY DEF OnlyRecipientOwns
<1>1. /\ Ledger(issued)
      /\ Obtained(issued, signer.client, signer.opaque_pk, signer.secret.nonce)
      /\ signer.secret = Made(signer.client, signer.opaque_pk, signer.secret.nonce)
      /\ signer.seed = OwnerSeed(signer.secret, signer.seed.nonce)
  BY DEF IInv, SignerFits
<1>2. signer.seed = OwnerSeed(Made(signer.client, signer.opaque_pk, signer.secret.nonce),
                              signer.seed.nonce)
  BY <1>1
<1> QED BY <1>1, <1>2, OwnerIsClient

LEMMA InvImpliesOneKeyPerNft == IInv => OneKeyPerNft
<1> SUFFICES ASSUME IInv, NEW i \in DOMAIN issued, NEW j \in DOMAIN issued, i # j
             PROVE  issued[i].seed.pk # issued[j].seed.pk
  BY DEF OneKeyPerNft
<1>1. ASSUME NEW k \in DOMAIN issued
      PROVE  /\ issued[k].seed.pk = public_key(Made(issued[k].client, issued[k].opaque_pk, k))
             /\ Made(issued[k].client, issued[k].opaque_pk, k).nonce = k
  <2>1. Ledger(issued)
    BY DEF IInv
  <2>2. issued[k].seed = OwnerSeed(Made(issued[k].client, issued[k].opaque_pk, k), k)
        /\ issued[k].client \in Clients /\ Exchanges(issued[k].client, issued[k].opaque_pk)
    BY <2>1, NftsAre
  <2> QED BY <2>2, MadeType DEF OwnerSeed
<1>2. ASSUME NEW r, NEW s, public_key(r) = public_key(s) PROVE r = s
  BY <1>2 DEF public_key
<1> QED BY <1>1, <1>2

\* What an nft's bytes are read as, in any form.
LEMMA TranscriptReads ==
  ASSUME NEW p \in 1 .. Order - 1, NEW i \in 1 .. Modulus - 1
  PROVE  /\ public_key_from_bytes(public_key_to_bytes(p).value).value = p
         /\ field_to_be_bytes(i) \in Seq(Byte)
         /\ field_from_be32(field_to_be_bytes(i)) = i
         /\ \A n \in {i, i + Modulus} : field_from_be32(Reverse(LeBytes(n))) = i
<1>1. public_key_from_bytes(public_key_to_bytes(p).value).value = p
  BY KeyReturns, Constants
<1>2. /\ Modulus \in Nat \ {0} /\ FlagUnit \in Nat \ {0} /\ Modulus <= FlagUnit
      /\ Power[KeyLen] \in Nat /\ 4 * FlagUnit <= Power[KeyLen] /\ i \in Nat /\ i < Modulus
  BY FlagsFit, CodecSizes
<1>3. ASSUME NEW n \in {i, i + Modulus} PROVE field_from_be32(Reverse(LeBytes(n))) = i
  <2>1. n \in Nat /\ n < Power[KeyLen]
    BY <1>2
  <2>2. n % Modulus = i
    <3>1. i \in 0 .. Modulus - 1 /\ Modulus * 0 + i = i /\ Modulus * 1 + i = i + Modulus
      BY <1>2
    <3>2. \A q \in Int : (Modulus * q + i) % Modulus = i
      BY <1>2, <3>1, DivisionIsUnique
    <3> QED BY <1>2, <3>1, <3>2
  <2> QED BY <2>1, <2>2, NumbersReduce
<1>4. field_to_be_bytes(i) \in Seq(Byte)
  BY <1>2, LeBytesType, ReverseType DEF field_to_be_bytes
<1> QED BY <1>1, <1>3, <1>4 DEF field_to_be_bytes

LEMMA TranscriptsAre ==
  ASSUME Ledger(issued), NEW i \in Transcripts
  PROVE  /\ i \in DOMAIN issued /\ i \in 1 .. Modulus - 1 /\ issued[i].client \in Clients
         /\ issued[i].opaque_pk \in OpaqueKeys /\ issued[i].opaque_pk \in 1 .. Order - 1
         /\ issued[i].opaque_pk # NoPoint
         /\ shared(Consent[issued[i].client], issued[i].opaque_pk).kind = "ok"
         /\ issued[i].seed = OwnerSeed(Made(issued[i].client, issued[i].opaque_pk, i), i)
         /\ issued[i].seed.nonce = i
<1>1. i \in DOMAIN issued /\ issued[i].opaque_pk # NoPoint
  BY DEF Transcripts
<1> QED BY <1>1, NftsAre, MadeType DEF Exchanges

LEMMA InvImpliesRecipientReconstructs == IInv => RecipientReconstructs
<1> SUFFICES ASSUME IInv, NEW i \in Transcripts,
                    NEW pk_bytes \in KeyForms(i), NEW nonce_bytes \in NonceForms(i)
             PROVE  LET consent_sk == secret_from_bytes(ConsentBytes(issued[i].client))
                        pk == public_key_from_bytes(pk_bytes)
                        made == from_exchange(consent_sk.value, pk.value,
                                              field_from_be32(nonce_bytes))
                    IN  /\ consent_sk.kind = "ok" /\ pk.kind = "ok" /\ made.kind = "ok"
                        /\ made.value.seed = issued[i].seed
  BY DEF RecipientReconstructs
<1> DEFINE c == issued[i].client
           p == issued[i].opaque_pk
           pk == public_key_from_bytes(pk_bytes)
           n == field_from_be32(nonce_bytes)
           secret == shared(Consent[c], pk.value)
           made == from_exchange(Consent[c], pk.value, n)
<1>1. /\ i \in 1 .. Modulus - 1 /\ c \in Clients /\ p \in 1 .. Order - 1 /\ p # NoPoint
      /\ shared(Consent[c], p).kind = "ok"
      /\ issued[i].seed = OwnerSeed(Made(c, p, i), i) /\ issued[i].seed.nonce = i
  BY TranscriptsAre DEF IInv
<1>2. n = i
  BY <1>1, TranscriptReads DEF NonceForms
<1>3. pk.kind = "ok" /\ UpToSign(pk.value, p)
  <2>1. PICK flag \in {YIsPositive, YIsNegative} :
          pk_bytes = LeBytes(x_of(p) + flag * FlagUnit)
    BY DEF KeyForms
  <2> QED BY <1>1, <2>1, KeyReads
<1>4. secret = shared(Consent[c], p)
  <2>1. Consent[c] \in Int
    BY <1>1, Constants
  <2> QED BY <1>1, <1>3, <2>1, SharedOfSign
<1> HIDE DEF pk, n, secret
<1>5. made = Ok(from_secret(derive_nft_secret(secret.value, i), i))
  BY <1>1, <1>2, <1>4 DEF from_exchange, secret
<1>6. made.kind = "ok" /\ made.value = from_secret(derive_nft_secret(secret.value, i), i)
  BY <1>5 DEF Ok
<1>7. made.value.seed = OwnerSeed(derive_nft_secret(shared(Consent[c], p).value, i), i)
  BY <1>4, <1>6 DEF from_secret
<1>8. /\ secret_from_bytes(ConsentBytes(c)).kind = "ok"
      /\ secret_from_bytes(ConsentBytes(c)).value = Consent[c]
  BY <1>1, ConsentReturns
<1> QED BY <1>1, <1>3, <1>6, <1>7, <1>8 DEF Made, pk, n

\* Where a signature is accepted, and whose it is there.
LEMMA Acceptance ==
  ASSUME NEW issues, Ledger(issues), NEW s, SignatureFits(s, issues),
         NEW i \in DOMAIN issues, NEW sub \in Submissions
  PROVE  /\ Accepts(s, issues[i].receipt, sub) <=>
              s.seed = issues[i].seed /\ s.meant = [nft |-> i, sub |-> sub]
         /\ Accepts(s, issues[i].receipt, sub) => s.by = issues[i].client
<1> DEFINE k == s.meant.nft
           owner == issues[i].receipt.owner
<1>1. /\ k \in DOMAIN issues /\ s.meant.sub \in Submissions
      /\ s.meant = [nft |-> k, sub |-> s.meant.sub]
      /\ s.payload = signing_payload(issues[k].receipt.nft_hash, s.seed.nonce,
                                     binding(s.meant.sub))
  BY DEF SignatureFits
<1>2. /\ owner = derive_owner(issues[i].seed.pk, issues[i].seed.nonce)
      /\ issues[i].receipt.nft_hash = <<i, owner>>
      /\ issues[k].receipt.nft_hash = <<k, issues[k].receipt.owner>>
  BY <1>1, NftsAre
<1>3. ASSUME Accepts(s, issues[i].receipt, sub)
      PROVE  /\ s.seed = issues[i].seed /\ s.meant = [nft |-> i, sub |-> sub]
             /\ s.by = issues[i].client
  <2>1. PICK o \in 0 .. NoPoint, n \in 0 .. Modulus - 1, m \in 0 .. Modulus - 1 :
          Obtained(issues, s.by, o, n) /\ s.seed = OwnerSeed(Made(s.by, o, n), m)
    BY DEF SignatureFits
  <2>2. derive_owner(s.seed.pk, s.seed.nonce) = owner
    BY <1>3 DEF Accepts
  <2>3. s.seed = issues[i].seed /\ s.by = issues[i].client
    BY <1>1, <2>1, <2>2, OwnerIsClient
  <2>4. signing_payload(issues[k].receipt.nft_hash, s.seed.nonce, binding(s.meant.sub))
          = signing_payload(issues[i].receipt.nft_hash, s.seed.nonce, binding(sub))
    BY <1>1, <1>3 DEF Accepts
  <2>5. <<k, issues[k].receipt.owner>> = <<i, owner>> /\ binding(s.meant.sub) = binding(sub)
    BY <1>2, <2>4 DEF signing_payload
  <2>6. k = i
    BY <2>5
  <2>7. s.meant.sub = sub
    BY <1>1, <2>5, BindingIsInjective
  <2> HIDE DEF k
  <2> QED BY <1>1, <2>3, <2>6, <2>7
<1>4. ASSUME s.seed = issues[i].seed, s.meant = [nft |-> i, sub |-> sub]
      PROVE  Accepts(s, issues[i].receipt, sub)
  <2>1. k = i /\ s.meant.sub = sub
    BY <1>4
  <2> HIDE DEF k
  <2> QED BY <1>1, <1>2, <1>4, <2>1 DEF Accepts
<1> QED BY <1>3, <1>4

LEMMA InvImpliesAcceptedExactlyWhereMeant == IInv => AcceptedExactlyWhereMeant
<1> SUFFICES ASSUME IInv, NEW s \in signatures, NEW i \in DOMAIN issued, NEW sub \in Submissions
             PROVE  Accepts(s, issued[i].receipt, sub) <=>
                      s.seed = issued[i].seed /\ s.meant = [nft |-> i, sub |-> sub]
  BY DEF AcceptedExactlyWhereMeant
<1> QED BY Acceptance DEF IInv

-----------------------------------------------------------------------------
(***************************************************************************)
(* The invariant is kept.                                                  *)
(***************************************************************************)
Grows(list, new) ==
  /\ DOMAIN list \subseteq DOMAIN new
  /\ \A i \in DOMAIN list : new[i] = list[i]

LEMMA ObtainedStays ==
  ASSUME NEW list, NEW new, Grows(list, new), NEW client, NEW o, NEW n,
         Obtained(list, client, o, n)
  PROVE  Obtained(new, client, o, n)
BY DEF Grows, Obtained

LEMMA SignerStays ==
  ASSUME NEW list, NEW new, Grows(list, new), NEW s, SignerFits(s, list)
  PROVE  SignerFits(s, new)
BY ObtainedStays DEF SignerFits

LEMMA SignatureStays ==
  ASSUME NEW list, NEW new, Grows(list, new), NEW s, SignatureFits(s, list)
  PROVE  SignatureFits(s, new)
<1>1. PICK o \in 0 .. NoPoint, n \in 0 .. Modulus - 1, m \in 0 .. Modulus - 1 :
        Obtained(list, s.by, o, n) /\ s.seed = OwnerSeed(Made(s.by, o, n), m)
  BY DEF SignatureFits
<1>2. Obtained(new, s.by, o, n)
  BY <1>1, ObtainedStays
<1>3. /\ s.meant.nft \in DOMAIN new /\ new[s.meant.nft] = list[s.meant.nft]
      /\ s.meant.sub \in Submissions
      /\ s.meant = [nft |-> s.meant.nft, sub |-> s.meant.sub]
      /\ s.payload = signing_payload(list[s.meant.nft].receipt.nft_hash, s.seed.nonce,
                                     binding(s.meant.sub))
  BY DEF SignatureFits, Grows
<1> QED BY <1>1, <1>2, <1>3 DEF SignatureFits

LEMMA LedgerGrows ==
  ASSUME NEW list, Ledger(list), Len(list) < MaxIssued,
         NEW client \in Clients, NEW o \in Keys(client),
         NEW new, new = Append(list, Nft(client, o, Len(list) + 1))
  PROVE  /\ Ledger(new) /\ Grows(list, new)
         /\ DOMAIN new = DOMAIN list \cup {Len(list) + 1} /\ ~ (Len(list) + 1 \in DOMAIN list)
         /\ new[Len(list) + 1] = Nft(client, o, Len(list) + 1)
<1> DEFINE i == Len(list) + 1
           nft == Nft(client, o, i)
<1>1. list \in Seq(Nfts) /\ Len(list) \in Nat /\ i \in 1 .. MaxIssued /\ MaxIssued \in Nat
  BY Constants DEF Ledger
<1>2. nft \in Nfts
  BY <1>1 DEF Nfts
<1>3. nft.client = client /\ nft.opaque_pk = o
  BY DEF Nft
<1> HIDE DEF nft
<1>4. /\ new \in Seq(Nfts) /\ Len(new) = i
      /\ DOMAIN new = 1 .. i /\ DOMAIN list = 1 .. Len(list)
      /\ \A j \in 1 .. Len(list) : new[j] = list[j]
      /\ new[i] = nft
  BY <1>1, <1>2, AppendProperties DEF nft
<1>5. Grows(list, new) /\ DOMAIN new = DOMAIN list \cup {i} /\ ~ (i \in DOMAIN list)
  BY <1>1, <1>4 DEF Grows
<1>6. ASSUME NEW j \in DOMAIN new
      PROVE  /\ new[j].client \in Clients /\ new[j].opaque_pk \in Keys(new[j].client)
             /\ new[j] = Nft(new[j].client, new[j].opaque_pk, j)
  <2>1. CASE j \in DOMAIN list
    BY <1>5, <2>1 DEF Ledger, Grows
  <2>2. CASE j = i
    <3>1. nft = Nft(nft.client, nft.opaque_pk, i)
      BY <1>3 DEF nft
    <3> QED BY <1>3, <1>4, <2>2, <3>1
  <2> QED BY <1>5, <2>1, <2>2
<1>7. Len(new) <= MaxIssued
  BY <1>1, <1>4
<1> QED BY <1>4, <1>5, <1>6, <1>7 DEF Ledger, nft

LEMMA InitIsInv == Init => IInv
<1> SUFFICES ASSUME Init PROVE IInv
  OBVIOUS
<1>1. issued = <<>> /\ ~ signer.held /\ signatures = {}
  BY DEF Init, NoSigner
<1>2. Ledger(<<>>)
  <2>1. <<>> \in Seq(Nfts) /\ Len(<<>>) = 0 /\ DOMAIN <<>> = {}
    BY EmptySeq
  <2> QED BY <2>1, Constants DEF Ledger
<1> QED BY <1>1, <1>2 DEF IInv, SignerFits

\* An nft that is minted is its client's.
LEMMA MintKeepsInv ==
  ASSUME IInv, NEW client \in Clients, NEW o \in Keys(client),
         Mint(client, o, OwnerSeed(Made(client, o, FreshNonce), FreshNonce))
  PROVE  /\ issued' = Append(issued, Nft(client, o, Len(issued) + 1))
         /\ Ledger(issued') /\ Grows(issued, issued')
         /\ DOMAIN issued' = DOMAIN issued \cup {Len(issued) + 1}
         /\ ~ (Len(issued) + 1 \in DOMAIN issued)
         /\ issued'[Len(issued) + 1] = Nft(client, o, Len(issued) + 1)
         /\ Len(issued) + 1 \in 1 .. MaxIssued
<1> DEFINE i == Len(issued) + 1
           seed == OwnerSeed(Made(client, o, i), i)
<1>1. Ledger(issued) /\ Len(issued) < MaxIssued
  BY DEF IInv, Mint
<1>2. seed.pk = public_key(Made(client, o, i)) /\ seed.nonce = i
  BY DEF OwnerSeed
<1>3. issued' = Append(issued, Nft(client, o, i))
  BY <1>2 DEF Mint, FreshNonce, Nft
<1>4. i \in 1 .. MaxIssued
  <2>1. Len(issued) \in Nat /\ MaxIssued \in Nat
    BY <1>1, Constants DEF Ledger
  <2> QED BY <1>1, <2>1
<1> HIDE DEF i
<1>5. /\ Ledger(issued') /\ Grows(issued, issued')
      /\ DOMAIN issued' = DOMAIN issued \cup {Len(issued) + 1}
      /\ ~ (Len(issued) + 1 \in DOMAIN issued)
      /\ issued'[Len(issued) + 1] = Nft(client, o, Len(issued) + 1)
  BY <1>1, <1>3, LedgerGrows DEF i
<1> QED BY <1>3, <1>4, <1>5 DEF i

LEMMA IssueKeepsInv ==
  ASSUME IInv, NEW client \in Clients, NEW opaque_sk \in OpaqueKeys,
         issue_for_remote(client, opaque_sk)
  PROVE  /\ IInv'
         /\ issued' = Append(issued, Nft(client, opaque_sk, Len(issued) + 1))
         /\ UNCHANGED signatures
<1> DEFINE o == opaque_sk
           secret == shared(o, Consent[client])
<1>1. o \in 0 .. Order - 1 /\ o # NoPoint /\ o \in Int /\ Consent[client] \in Int
  BY Constants
<1>2. secret = shared(Consent[client], o)
  BY <1>1, SharedCommutes
<1>3. /\ secret.kind = "ok"
      /\ Mint(client, o, OwnerSeed(derive_nft_secret(secret.value, FreshNonce), FreshNonce))
      /\ UNCHANGED <<signer, signatures>>
  BY DEF issue_for_remote
<1>4. o \in Keys(client)
  BY <1>1, <1>2, <1>3 DEF Keys, Exchanges
<1>5. Made(client, o, FreshNonce) = derive_nft_secret(secret.value, FreshNonce)
  BY <1>1, <1>2 DEF Made
<1> HIDE DEF o, secret
<1>6. /\ issued' = Append(issued, Nft(client, o, Len(issued) + 1))
      /\ Ledger(issued') /\ Grows(issued, issued')
  BY <1>3, <1>4, <1>5, MintKeepsInv
<1>7. SignerFits(signer, issued')
  BY <1>6, SignerStays DEF IInv
<1>8. \A s \in signatures : SignatureFits(s, issued')
  BY <1>6, SignatureStays DEF IInv
<1> QED BY <1>3, <1>6, <1>7, <1>8 DEF IInv, o

LEMMA LocalKeepsInv ==
  ASSUME IInv, NEW client \in Clients, local(client)
  PROVE  /\ IInv'
         /\ issued' = Append(issued, Nft(client, NoPoint, Len(issued) + 1))
         /\ UNCHANGED signatures
<1> DEFINE i == Len(issued) + 1
           nft_sk == LocalSecret(i)
<1>1. /\ Mint(client, NoPoint, OwnerSeed(nft_sk, i))
      /\ signer' = Holds(client, NoPoint, from_secret(nft_sk, i))
      /\ UNCHANGED signatures
  BY DEF local, FreshNonce, LocalSecret
<1>2. NoPoint \in Keys(client) /\ Made(client, NoPoint, i) = nft_sk
  BY DEF Keys, Exchanges, Made
<1>3. /\ issued' = Append(issued, Nft(client, NoPoint, i))
      /\ Ledger(issued') /\ Grows(issued, issued')
      /\ i \in DOMAIN issued' /\ issued'[i] = Nft(client, NoPoint, i)
      /\ i \in 1 .. MaxIssued
  BY <1>1, <1>2, MintKeepsInv DEF FreshNonce
<1> HIDE DEF i
<1>4. i \in 0 .. Modulus - 1
  BY <1>3, Constants
<1>5. /\ signer'.held /\ signer'.client = client /\ signer'.opaque_pk = NoPoint
      /\ signer'.secret = nft_sk /\ signer'.secret.nonce = i
      /\ signer'.seed = OwnerSeed(nft_sk, i) /\ signer'.seed.nonce = i
  BY <1>1 DEF Holds, from_secret, OwnerSeed, LocalSecret
<1>6. issued'[i].client = client /\ issued'[i].opaque_pk = NoPoint
  BY <1>3 DEF Nft
<1>7. Obtained(issued', client, NoPoint, i)
  BY <1>3, <1>4, <1>6 DEF Obtained, Exchanges
<1>8. SignerFits(signer', issued')
  BY <1>2, <1>4, <1>5, <1>7 DEF SignerFits
<1>9. \A s \in signatures : SignatureFits(s, issued')
  BY <1>3, SignatureStays DEF IInv
<1> QED BY <1>1, <1>3, <1>8, <1>9 DEF IInv, i

\* A signer made of what arrived is of what its client obtained.
LEMMA ReconstructKeepsInv ==
  ASSUME IInv, NEW client \in Clients, NEW pk_bytes, NEW nonce_bytes,
         Reconstruct(client, pk_bytes, nonce_bytes),
         NEW o, o = public_key_from_bytes(pk_bytes).value,
         NEW n \in 0 .. Modulus - 1, n = field_from_be32(nonce_bytes),
         \/ o \in OpaqueKeys
         \/ /\ n \in DOMAIN issued /\ issued[n].opaque_pk # NoPoint
            /\ o \in Arriving(issued[n].opaque_pk)
  PROVE  IInv' /\ UNCHANGED <<issued, signatures>>
<1> DEFINE made == from_exchange(Consent[client], o, n)
           secret == shared(Consent[client], o)
<1>1. /\ public_key_from_bytes(pk_bytes).kind = "ok" /\ made.kind = "ok"
      /\ signer' = Holds(client, o, made.value)
      /\ UNCHANGED <<issued, signatures>>
  BY ConsentReturns DEF Reconstruct
<1>2. o \in 0 .. Order - 1 /\ o # NoPoint
  BY <1>1, KeyType, Constants
<1>3. /\ secret.kind = "ok"
      /\ made.value = from_secret(derive_nft_secret(secret.value, n), n)
  BY <1>1 DEF from_exchange, Ok
<1>4. Exchanges(client, o) /\ Made(client, o, n) = derive_nft_secret(secret.value, n)
  BY <1>2, <1>3 DEF Exchanges, Made
<1>5. Obtained(issued, client, o, n)
  BY <1>4 DEF Obtained
<1>6. /\ signer'.held /\ signer'.client = client /\ signer'.opaque_pk = o
      /\ signer'.secret = Made(client, o, n) /\ signer'.secret.nonce = n
      /\ signer'.seed = OwnerSeed(Made(client, o, n), n) /\ signer'.seed.nonce = n
  <2>1. Made(client, o, n).nonce = n
    BY <1>4, MadeType
  <2> HIDE DEF made, secret
  <2> QED BY <1>1, <1>3, <1>4, <2>1 DEF Holds, from_secret, OwnerSeed
<1>7. SignerFits(signer', issued)
  BY <1>5, <1>6 DEF SignerFits
<1> QED BY <1>1, <1>7 DEF IInv

LEMMA ReceiveKeepsInv ==
  ASSUME IInv, NEW client \in Clients, Receive(client)
  PROVE  IInv' /\ UNCHANGED <<issued, signatures>>
<1>1. PICK i \in Transcripts, j \in Transcripts : Reconstruct(client, PkBytes(i), NonceBytes(j))
  BY DEF Receive
<1>2. /\ issued[i].opaque_pk \in OpaqueKeys /\ issued[i].opaque_pk \in 1 .. Order - 1
      /\ issued[j].seed.nonce = j /\ j \in 1 .. Modulus - 1
  BY TranscriptsAre DEF IInv
<1>3. /\ public_key_from_bytes(PkBytes(i)).value = issued[i].opaque_pk
      /\ field_from_be32(NonceBytes(j)) = j
  BY <1>2, TranscriptReads DEF PkBytes, NonceBytes
<1>4. j \in 0 .. Modulus - 1
  BY <1>2, Constants
<1> QED BY <1>1, <1>2, <1>3, <1>4, ReconstructKeepsInv

LEMMA ReceiveDamagedKeepsInv ==
  ASSUME IInv, NEW client \in Clients, ReceiveDamaged(client)
  PROVE  IInv' /\ UNCHANGED <<issued, signatures>>
<1>1. PICK i \in Transcripts :
        \/ \E pk_bytes \in DamagedKey(PkBytes(i)) :
             Reconstruct(client, pk_bytes, NonceBytes(i))
        \/ \E nonce_bytes \in OneByteChanged(NonceBytes(i)) :
             Reconstruct(client, PkBytes(i), nonce_bytes)
  BY DEF ReceiveDamaged
<1> DEFINE p == issued[i].opaque_pk
<1>2. /\ p \in OpaqueKeys /\ p \in 1 .. Order - 1 /\ p # NoPoint
      /\ issued[i].seed.nonce = i /\ i \in 1 .. Modulus - 1 /\ i \in DOMAIN issued
  BY TranscriptsAre DEF IInv
<1>3. /\ public_key_from_bytes(PkBytes(i)).value = p
      /\ field_from_be32(NonceBytes(i)) = i /\ NonceBytes(i) \in Seq(Byte)
      /\ i \in 0 .. Modulus - 1
  BY <1>2, TranscriptReads, Constants DEF PkBytes, NonceBytes
<1>4. CASE \E pk_bytes \in DamagedKey(PkBytes(i)) :
             Reconstruct(client, pk_bytes, NonceBytes(i))
  <2>1. PICK pk_bytes \in DamagedKey(PkBytes(i)) : Reconstruct(client, pk_bytes, NonceBytes(i))
    BY <1>4
  <2>2. public_key_from_bytes(pk_bytes).kind = "ok"
    BY <2>1 DEF Reconstruct
  <2>3. public_key_from_bytes(pk_bytes).value \in Arriving(p)
    BY <2>1, <2>2 DEF Arriving, PkBytes
  <2> QED BY <1>2, <1>3, <2>1, <2>3, ReconstructKeepsInv
<1>5. CASE \E nonce_bytes \in OneByteChanged(NonceBytes(i)) :
             Reconstruct(client, PkBytes(i), nonce_bytes)
  <2>1. PICK nonce_bytes \in OneByteChanged(NonceBytes(i)) :
               Reconstruct(client, PkBytes(i), nonce_bytes)
    BY <1>5
  <2>2. nonce_bytes \in Seq(Byte)
    <3>1. PICK k \in DOMAIN NonceBytes(i), b \in 0 .. ByteBase - 1 :
            nonce_bytes = [NonceBytes(i) EXCEPT ![k] = b]
      BY <2>1 DEF OneByteChanged
    <3>2. k \in 1 .. Len(NonceBytes(i)) /\ b \in Byte
      BY <1>3 DEF Byte
    <3> QED BY <1>3, <3>1, <3>2, ExceptSeq
  <2>3. field_from_be32(nonce_bytes) \in 0 .. Modulus - 1
    BY <2>2, ElementType
  <2> QED BY <1>2, <1>3, <2>1, <2>3, ReconstructKeepsInv
<1> QED BY <1>1, <1>4, <1>5

LEMMA RebindKeepsInv ==
  ASSUME IInv, NEW i \in DOMAIN issued, Rebind(i)
  PROVE  IInv' /\ UNCHANGED <<issued, signatures>>
<1> DEFINE m == issued[i].seed.nonce
<1>1. /\ signer.held
      /\ signer' = Holds(signer.client, signer.opaque_pk, from_secret(signer.secret, m))
      /\ UNCHANGED <<issued, signatures>>
  BY DEF Rebind
<1>2. m \in 0 .. Modulus - 1
  <2>1. m = i /\ i \in 1 .. Modulus - 1
    BY NftsAre DEF IInv
  <2> QED BY <2>1, Constants
<1>3. /\ Obtained(issued, signer.client, signer.opaque_pk, signer.secret.nonce)
      /\ signer.secret = Made(signer.client, signer.opaque_pk, signer.secret.nonce)
  BY <1>1 DEF IInv, SignerFits
<1> HIDE DEF m
<1>4. /\ signer'.held /\ signer'.client = signer.client
      /\ signer'.opaque_pk = signer.opaque_pk /\ signer'.secret = signer.secret
      /\ signer'.seed = OwnerSeed(signer.secret, m) /\ signer'.seed.nonce = m
  BY <1>1 DEF Holds, from_secret, OwnerSeed
<1>5. SignerFits(signer', issued)
  BY <1>2, <1>3, <1>4 DEF SignerFits
<1> QED BY <1>1, <1>5 DEF IInv

LEMMA SignKeepsInv ==
  ASSUME IInv, NEW i \in DOMAIN issued, NEW sub \in Wanted, sign(i, sub)
  PROVE  /\ IInv' /\ UNCHANGED <<issued, signer>>
         /\ \E s : signatures' = signatures \cup {s}
<1> DEFINE s == [by      |-> signer.client,
                 seed    |-> signer.seed,
                 payload |-> signing_payload(issued[i].receipt.nft_hash, signer.seed.nonce,
                                             binding(sub)),
                 meant   |-> [nft |-> i, sub |-> sub]]
<1>1. signer.held /\ signatures' = signatures \cup {s} /\ UNCHANGED <<issued, signer>>
  BY DEF sign
<1>2. /\ Obtained(issued, signer.client, signer.opaque_pk, signer.secret.nonce)
      /\ signer.secret = Made(signer.client, signer.opaque_pk, signer.secret.nonce)
      /\ signer.seed.nonce \in 0 .. Modulus - 1
      /\ signer.seed = OwnerSeed(signer.secret, signer.seed.nonce)
  BY <1>1 DEF IInv, SignerFits
<1>3. /\ signer.opaque_pk \in 0 .. NoPoint /\ signer.secret.nonce \in 0 .. Modulus - 1
  BY <1>2, Constants DEF Obtained, Exchanges
<1>4. sub \in Submissions
  BY SubmissionAssumption
<1>5. SignatureFits(s, issued)
  <2>1. /\ s.by = signer.client /\ s.seed = signer.seed
        /\ s.meant = [nft |-> i, sub |-> sub] /\ s.meant.nft = i /\ s.meant.sub = sub
        /\ s.payload = signing_payload(issued[i].receipt.nft_hash, signer.seed.nonce,
                                       binding(sub))
    OBVIOUS
  <2> HIDE DEF s
  <2>2. \E o \in 0 .. NoPoint, n \in 0 .. Modulus - 1, m \in 0 .. Modulus - 1 :
          Obtained(issued, s.by, o, n) /\ s.seed = OwnerSeed(Made(s.by, o, n), m)
    <3>1. Obtained(issued, s.by, signer.opaque_pk, signer.secret.nonce)
      BY <1>2, <2>1
    <3>2. s.seed = OwnerSeed(Made(s.by, signer.opaque_pk, signer.secret.nonce),
                             signer.seed.nonce)
      BY <1>2, <2>1
    <3> QED BY <1>2, <1>3, <3>1, <3>2
  <2> QED BY <1>4, <2>1, <2>2 DEF SignatureFits
<1> HIDE DEF s
<1> QED BY <1>1, <1>5 DEF IInv

LEMMA NextKeepsInv == IInv /\ [Next]_vars => IInv'
<1> SUFFICES ASSUME IInv, [Next]_vars PROVE IInv'
  OBVIOUS
<1>1. CASE UNCHANGED vars
  BY <1>1 DEF vars, IInv
<1>2. ASSUME NEW client \in Clients, NEW opaque_sk \in OpaqueKeys,
             issue_for_remote(client, opaque_sk)
      PROVE  IInv'
  BY <1>2, IssueKeepsInv
<1>3. ASSUME NEW client \in Clients, local(client) PROVE IInv'
  BY <1>3, LocalKeepsInv
<1>4. ASSUME NEW client \in Clients, Receive(client) PROVE IInv'
  BY <1>4, ReceiveKeepsInv
<1>5. ASSUME NEW client \in Clients, ReceiveDamaged(client) PROVE IInv'
  BY <1>5, ReceiveDamagedKeepsInv
<1>6. ASSUME NEW i \in DOMAIN issued, Rebind(i) PROVE IInv'
  BY <1>6, RebindKeepsInv
<1>7. ASSUME NEW i \in DOMAIN issued, NEW sub \in Wanted, sign(i, sub) PROVE IInv'
  BY <1>7, SignKeepsInv
<1> QED BY <1>1, <1>2, <1>3, <1>4, <1>5, <1>6, <1>7 DEF Next

-----------------------------------------------------------------------------
(***************************************************************************)
(* The promise.                                                            *)
(***************************************************************************)
OwnersOf(list) == [i \in DOMAIN list |-> list[i].client]

ClaimsFor(list, i, s) ==
  {[by |-> s.by, nft |-> i, sub |-> sub] :
     sub \in {x \in Submissions : Accepts(s, list[i].receipt, x)}}

AllClaims(sigs, list) == UNION {ClaimsFor(list, i, s) : s \in sigs, i \in DOMAIN list}

\* The signatures that are of the owner of the nft they were made for.
Good(sigs, list) == {s \in sigs : s.seed = list[s.meant.nft].seed}
ClaimOf(s) == [by |-> s.by, nft |-> s.meant.nft, sub |-> s.meant.sub]

LEMMA ClaimsAre ==
  ASSUME NEW list, Ledger(list), NEW sigs, \A s \in sigs : SignatureFits(s, list)
  PROVE  AllClaims(sigs, list) = {ClaimOf(s) : s \in Good(sigs, list)}
<1>1. ASSUME NEW c \in AllClaims(sigs, list)
      PROVE  c \in {ClaimOf(s) : s \in Good(sigs, list)}
  <2>1. PICK s \in sigs, i \in DOMAIN list, sub \in Submissions :
          Accepts(s, list[i].receipt, sub) /\ c = [by |-> s.by, nft |-> i, sub |-> sub]
    <3>1. PICK s \in sigs, i \in DOMAIN list : c \in ClaimsFor(list, i, s)
      BY DEF AllClaims
    <3> QED BY <3>1 DEF ClaimsFor
  <2>2. s.seed = list[i].seed /\ s.meant = [nft |-> i, sub |-> sub]
    BY <2>1, Acceptance
  <2>3. s.meant.nft = i /\ s.meant.sub = sub
    BY <2>2
  <2> QED BY <2>1, <2>2, <2>3 DEF Good, ClaimOf
<1>2. ASSUME NEW s \in Good(sigs, list) PROVE ClaimOf(s) \in AllClaims(sigs, list)
  <2>1. /\ s \in sigs /\ s.seed = list[s.meant.nft].seed
        /\ s.meant.nft \in DOMAIN list /\ s.meant.sub \in Submissions
        /\ s.meant = [nft |-> s.meant.nft, sub |-> s.meant.sub]
    BY DEF Good, SignatureFits
  <2>2. Accepts(s, list[s.meant.nft].receipt, s.meant.sub)
    BY <2>1, Acceptance
  <2>3. ClaimOf(s) \in ClaimsFor(list, s.meant.nft, s)
    BY <2>1, <2>2 DEF ClaimOf, ClaimsFor
  <2> QED BY <2>1, <2>3 DEF AllClaims
<1> QED BY <1>1, <1>2

\* An nft that is issued is its client's, and no claim comes of it.
LEMMA IssueIsIssue ==
  ASSUME NEW list, Ledger(list), NEW new, Ledger(new), NEW client \in Clients, NEW o,
         new = Append(list, Nft(client, o, Len(list) + 1)),
         NEW sigs, \A s \in sigs : SignatureFits(s, list) /\ SignatureFits(s, new)
  PROVE  /\ OwnersOf(new) = Append(OwnersOf(list), client)
         /\ AllClaims(sigs, new) = AllClaims(sigs, list)
<1> DEFINE nft == Nft(client, o, Len(list) + 1)
           n == Len(list)
<1>1. list \in Seq(Nfts) /\ n \in Nat /\ new \in Seq(Nfts)
  BY DEF Ledger
<1>2. /\ DOMAIN list = 1 .. n /\ DOMAIN new = 1 .. n + 1
      /\ \A i \in 1 .. n : new[i] = list[i]
      /\ new[n + 1] = nft
  <2>1. list \in Seq(Nfts \cup {nft}) /\ nft \in Nfts \cup {nft}
    BY <1>1, SeqMonotonic
  <2> HIDE DEF nft
  <2> QED BY <1>1, <2>1, AppendProperties DEF nft
<1>3. nft.client = client
  BY DEF Nft
<1> HIDE DEF nft, n
<1>4. OwnersOf(list) \in Seq(Clients) /\ Len(OwnersOf(list)) = n /\ DOMAIN OwnersOf(list) = 1 .. n
      /\ \A i \in 1 .. n : OwnersOf(list)[i] = list[i].client
  BY <1>1, <1>2 DEF Ledger, OwnersOf
<1>5. OwnersOf(new) \in Seq(Clients) /\ Len(OwnersOf(new)) = n + 1
      /\ \A i \in 1 .. n + 1 : OwnersOf(new)[i] = new[i].client
  <2>1. OwnersOf(new) \in [1 .. n + 1 -> Clients] /\ n + 1 \in Nat
    BY <1>1, <1>2 DEF Ledger, OwnersOf
  <2> QED BY <1>2, <2>1 DEF OwnersOf
<1>6. OwnersOf(new) = Append(OwnersOf(list), client)
  <2> DEFINE a == OwnersOf(list)
             b == Append(a, client)
  <2>1. /\ b \in Seq(Clients) /\ Len(b) = n + 1
        /\ \A i \in 1 .. n : b[i] = a[i]
        /\ b[n + 1] = client
    BY <1>4, AppendProperties
  <2> HIDE DEF b
  <2>2. \A i \in 1 .. n + 1 : b[i] = OwnersOf(new)[i]
    <3>1. \A i \in 1 .. n + 1 : i \in 1 .. n \/ i = n + 1
      BY <1>1
    <3>2. \A i \in 1 .. n : b[i] = OwnersOf(new)[i]
      <4> SUFFICES ASSUME NEW i \in 1 .. n PROVE b[i] = OwnersOf(new)[i]
        OBVIOUS
      <4>1. i \in 1 .. n + 1
        BY <1>1
      <4>2. b[i] = list[i].client
        BY <1>4, <2>1
      <4>3. OwnersOf(new)[i] = list[i].client
        BY <1>2, <1>5, <4>1
      <4> QED BY <4>2, <4>3
    <3>3. b[n + 1] = OwnersOf(new)[n + 1]
      BY <1>1, <1>2, <1>3, <1>5, <2>1
    <3> QED BY <3>1, <3>2, <3>3
  <2>3. b = OwnersOf(new)
    BY <1>1, <1>5, <2>1, <2>2, SeqEqual
  <2> QED BY <2>3 DEF b
<1>7. Good(sigs, new) = Good(sigs, list)
  <2>1. \A s \in sigs : new[s.meant.nft] = list[s.meant.nft]
    BY <1>2 DEF SignatureFits
  <2> QED BY <2>1 DEF Good
<1> QED BY <1>6, <1>7, ClaimsAre

\* A signature more is a claim of the client who made it, or none.
LEMMA SignIsClaim ==
  ASSUME NEW list, Ledger(list), NEW s, NEW sigs,
         \A t \in sigs \cup {s} : SignatureFits(t, list)
  PROVE  \/ AllClaims(sigs \cup {s}, list) = AllClaims(sigs, list)
         \/ \E c \in AllClaims(sigs \cup {s}, list) :
              /\ OwnersOf(list)[c.nft] = c.by
              /\ AllClaims(sigs \cup {s}, list) = AllClaims(sigs, list) \cup {c}
<1> DEFINE more == sigs \cup {s}
<1>1. /\ AllClaims(more, list) = {ClaimOf(t) : t \in Good(more, list)}
      /\ AllClaims(sigs, list) = {ClaimOf(t) : t \in Good(sigs, list)}
  BY ClaimsAre
<1>2. CASE s.seed # list[s.meant.nft].seed
  <2>1. Good(more, list) = Good(sigs, list)
    BY <1>2 DEF Good
  <2> QED BY <1>1, <2>1
<1>3. CASE s.seed = list[s.meant.nft].seed
  <2>1. Good(more, list) = Good(sigs, list) \cup {s}
    BY <1>3 DEF Good
  <2>2. /\ AllClaims(more, list) = AllClaims(sigs, list) \cup {ClaimOf(s)}
        /\ ClaimOf(s) \in AllClaims(more, list)
    BY <1>1, <2>1
  <2>3. /\ s.meant.nft \in DOMAIN list /\ s.meant.sub \in Submissions
        /\ s.meant = [nft |-> s.meant.nft, sub |-> s.meant.sub] /\ SignatureFits(s, list)
    BY DEF SignatureFits
  <2>4. s.by = list[s.meant.nft].client
    BY <1>3, <2>3, Acceptance
  <2>5. OwnersOf(list)[ClaimOf(s).nft] = ClaimOf(s).by
    BY <2>3, <2>4 DEF OwnersOf, ClaimOf
  <2> QED BY <2>2, <2>5
<1> QED BY <1>2, <1>3

LEMMA StepIsPromised ==
  IInv /\ [Next]_vars =>
    \/ /\ OwnersOf(issued)' = OwnersOf(issued)
       /\ AllClaims(signatures, issued)' = AllClaims(signatures, issued)
    \/ /\ \E client \in Clients : OwnersOf(issued)' = Append(OwnersOf(issued), client)
       /\ AllClaims(signatures, issued)' = AllClaims(signatures, issued)
    \/ /\ OwnersOf(issued)' = OwnersOf(issued)
       /\ \E c \in AllClaims(signatures, issued)' :
            /\ OwnersOf(issued)[c.nft] = c.by
            /\ AllClaims(signatures, issued)' = AllClaims(signatures, issued) \cup {c}
<1> DEFINE Goal ==
      \/ /\ OwnersOf(issued)' = OwnersOf(issued)
         /\ AllClaims(signatures, issued)' = AllClaims(signatures, issued)
      \/ /\ \E client \in Clients : OwnersOf(issued)' = Append(OwnersOf(issued), client)
         /\ AllClaims(signatures, issued)' = AllClaims(signatures, issued)
      \/ /\ OwnersOf(issued)' = OwnersOf(issued)
         /\ \E c \in AllClaims(signatures, issued)' :
              /\ OwnersOf(issued)[c.nft] = c.by
              /\ AllClaims(signatures, issued)' = AllClaims(signatures, issued) \cup {c}
<1> SUFFICES ASSUME IInv, [Next]_vars PROVE Goal
  OBVIOUS
<1>1. CASE UNCHANGED <<issued, signatures>>
  BY <1>1 DEF OwnersOf, AllClaims
<1>2. ASSUME NEW client \in Clients, NEW o, IInv', UNCHANGED signatures,
             issued' = Append(issued, Nft(client, o, Len(issued) + 1))
      PROVE  Goal
  <2>1. /\ Ledger(issued) /\ Ledger(issued')
        /\ \A s \in signatures : SignatureFits(s, issued) /\ SignatureFits(s, issued')
    BY <1>2 DEF IInv
  <2>2. OwnersOf(issued') = Append(OwnersOf(issued), client)
        /\ AllClaims(signatures, issued') = AllClaims(signatures, issued)
    BY <1>2, <2>1, IssueIsIssue
  <2>3. OwnersOf(issued)' = OwnersOf(issued')
        /\ AllClaims(signatures, issued)' = AllClaims(signatures, issued')
    BY <1>2
  <2> QED BY <2>2, <2>3
<1>3. ASSUME NEW i \in DOMAIN issued, NEW sub \in Wanted, sign(i, sub) PROVE Goal
  <2>1. PICK s : signatures' = signatures \cup {s} /\ issued' = issued /\ IInv'
    BY <1>3, SignKeepsInv
  <2>2. Ledger(issued) /\ \A t \in signatures' : SignatureFits(t, issued)
    BY <2>1 DEF IInv
  <2>3. OwnersOf(issued)' = OwnersOf(issued)
        /\ AllClaims(signatures, issued)' = AllClaims(signatures', issued)
    BY <2>1
  <2>4. \/ AllClaims(signatures', issued) = AllClaims(signatures, issued)
        \/ \E c \in AllClaims(signatures', issued) :
             /\ OwnersOf(issued)[c.nft] = c.by
             /\ AllClaims(signatures', issued) = AllClaims(signatures, issued) \cup {c}
    <3>1. \A t \in signatures \cup {s} : SignatureFits(t, issued)
      BY <2>1, <2>2
    <3>2. \/ AllClaims(signatures \cup {s}, issued) = AllClaims(signatures, issued)
          \/ \E c \in AllClaims(signatures \cup {s}, issued) :
               /\ OwnersOf(issued)[c.nft] = c.by
               /\ AllClaims(signatures \cup {s}, issued) = AllClaims(signatures, issued) \cup {c}
      BY <2>2, <3>1, SignIsClaim
    <3> QED BY <2>1, <3>2
  <2> QED BY <2>3, <2>4
<1> HIDE DEF Goal
<1>4. ASSUME Next PROVE Goal
  BY <1>1, <1>2, <1>3, <1>4, IssueKeepsInv, LocalKeepsInv, ReceiveKeepsInv,
     ReceiveDamagedKeepsInv, RebindKeepsInv DEF Next
<1> QED BY <1>1, <1>4 DEF vars

-----------------------------------------------------------------------------
(***************************************************************************)
(* Theorems.                                                               *)
(***************************************************************************)
LEMMA Invariance == Spec => []IInv
BY InitIsInv, NextKeepsInv, PTL DEF Spec

\* Every secret is of an exchange that is not the identity's, or a client's own, and
\* every owner seed of a secret and a reduced nonce, whatever the generator gives and
\* the network delivers (exchange.rs, key.rs).
THEOREM TypeCorrectness == Spec => []TypeOK
BY Invariance, InvImpliesTypeOK, PTL

\* The recipient of a transcript can make its signer at any later time, in whichever
\* form the key and the nonce come: the two sides of the exchange agree, the sign that
\* the x-coordinate loses included (key.rs:15-21, codec.rs:352-384).
THEOREM Reconstruction == Spec => []RecipientReconstructs
BY Invariance, InvImpliesRecipientReconstructs, PTL

\* No other signer ever has its owner, made of whatever mixture of keys and nonces
\* arrived and rebound to whichever nonce (key.rs:192-206).
THEOREM SoleOwnership == Spec => []OnlyRecipientOwns
BY Invariance, InvImpliesOnlyRecipientOwns, PTL

\* No two nfts have one key, whatever the generator repeats (key.rs:248-256).
THEOREM KeySeparation == Spec => []OneKeyPerNft
BY Invariance, InvImpliesOneKeyPerNft, PTL

\* A signature is accepted for the nft and the submission it was made for and nowhere
\* else, for submissions of any width of commitment ids (suite.rs:138-153).
THEOREM ExactAcceptance == Spec => []AcceptedExactlyWhereMeant
BY Invariance, InvImpliesAcceptedExactlyWhereMeant, PTL

\* Keys, bytes and signatures implement Claims: each step is the issue of an nft with
\* no claim on it, the claim of an owner, or nothing that a chain can see.
THEOREM Refinement == Spec => ImplementsClaims
<1>1. Init => Promised!Init
  BY DEF Init, Promised!Init, Owners, AcceptedClaims
<1>2. /\ Owners = OwnersOf(issued) /\ Owners' = OwnersOf(issued)'
      /\ AcceptedClaims = AllClaims(signatures, issued)
      /\ AcceptedClaims' = AllClaims(signatures, issued)'
  BY DEF Owners, OwnersOf, AcceptedClaims, AllClaims, ClaimsOn, ClaimsFor
<1>3. IInv /\ [Next]_vars => [Promised!Next]_<<Owners, AcceptedClaims>>
  BY <1>2, StepIsPromised DEF Promised!Next, Promised!Issue, Promised!Claim
<1> QED BY <1>1, <1>3, Invariance, PTL DEF Spec, ImplementsClaims, Promised!Spec
=============================================================================
