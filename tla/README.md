# pso-protocol: models and proofs

TLA+ models of `pso-protocol`, the TLC runs that check them and the TLAPS proofs
about them. Paths below are relative to the repository; `core/` stands for
`crates/pso-protocol/src/`.

## 1. The system

The repository is a library of pure functions and small value types, one proc
macro, and a release pipeline. Nothing in the library runs concurrently, blocks
or persists; what is hard in it is long sequences of calls on one value (the
tree), encodings that must be injective because a chain and a circuit recompute
them, protocols between parties that call the library on either side of a
network (consent box, epoch hand-off, ownership submission), and retry and
boundary cases. The release pipeline is concurrent, and fails in the middle.

| Part | State it keeps | Operations | Talks to | What makes it correct |
|---|---|---|---|---|
| Merkle tree, `core/protocol/imt.rs` | zero ladder, frontier, next index, root | `new`, `append`, `frontier_append`, `root_from_inclusion_path`, `empty_inclusion_path`, `circuit_indices` | the chain's precompile 0x0204 and the circuits recompute it | the root is that of all accepted leaves; refused only when full; paths resolve to the root of exactly the leaf they are for, in both bit orientations |
| Epoch entries, `core/protocol/fs_epoch.rs` | none (values) | `FsEpoch::new`, `canonical_bytes`, `decode`, `digest`, `signing_message` | fingerprint service, L2 node, L2 contracts | one encoding per entry and one entry per encoding; what is built is what decodes; an accepted chain of hand-offs has one history, and a follower takes it entry by entry |
| Field encoding, `core/codec.rs` | none | `FieldElement`, `FieldEncode`, `SortedSet`, `sort_set`, `u256_limbs_be`, canonical decode | entities, the derive macro | distinct members give distinct preimages; producers and the encoder agree on order |
| Derive macro, `crates/pso-protocol-derive` | seed, owner and two fold groups while expanding | `parse_field_cfg`, `order_group`, `vec_elem`, `emit_encode`, `expand` | field encoding, entities | a struct it accepts has an injective, complete preimage |
| Schnorr, `core/primitive/signature.rs` | none (one loop) | `sign`, `verify`, `derive_nonce`, `challenge_bytes` | signers, circuits | what `sign` returns verifies; no nonce serves two messages |
| Signers and consent box, `core/protocol/key.rs`, `core/primitive/{exchange,kdf}.rs` | a signer: secret and owner seed | `local`, `issue_for_remote`, `from_exchange`, `from_secret`, `into_secret`, `sign` | server and client across a network | both sides derive one key; a transcript of another issuance or recipient, or a damaged one, does not; a claim on an nft is its holder's own act |
| Suite formulas and entities, `core/suite.rs`, `core/protocol/entity.rs` | none | `derive_owner`, `nft_hash`, `signing_payload`, `binding`, `Entity`, `OwnershipReceipt` | all of the above; the verifying chain | a submission is tied to one nft, version, sender, commitment and pair of chains |
| Byte codec, `core/codec.rs` (trait `Codec`) | none | `field_to_be_bytes`, `field_from_be32`, `secret_to_bytes`, `secret_from_bytes`, `public_key_to_bytes`, `public_key_from_bytes` | FFI, networks | what was written is read back, in every form a reader takes; what was cut short is an error |
| ZK seams, `core/protocol/zk.rs` | none | traits only | downstream crates | nothing to check here |
| Release pipeline, `.github/workflows/ci.yml`, `cog.toml` | main, tags, registry, release entries, runs | push, cron, dispatch, bump, publish, release, verify | GitHub, crates.io | tags, registry and entries agree whatever interleaves, is cancelled or fails |

What is hard to test here, place by place, is in `PROJECT.json` under `hazards`,
with the properties that cover each.

## 2. Plan

Modules, in the order they are written. Every component module takes its sizes,
hashes and groups as CONSTANTS with named assumptions, so that it can be proved
about; the MC modules give small ones. No module declares a RECURSIVE operator:
loops are recursive functions or folds. The proof modules add nothing to the models but
the definitions that state their invariants and hypotheses.

| # | Modules | State |
|---|---|---|
| 1 | `MerkleTree` (abstract), `Imt` (refines it), `MCImt` | done |
| 2 | `LevelInduction`, `ImtProofs`: type, root, frontier, refinement | done |
| 3 | `ReleaseLine` (abstract), `Release` (refines it), with its three specifications | done |
| 4 | `Handoff` (abstract), `FsEpoch` (refines it), `MCFsEpoch` | done |
| 5 | `Schnorr`, `MCSchnorr`, `SchnorrProofs` | done |
| 6 | `FieldCodec` in `DeriveEntity`, `MCDeriveEntity` | done |
| 7 | `ByteCodec` over `FieldCodec` | done |
| 8 | `Claims` (abstract), `Ownership` over `ByteCodec` (refines it), `MCOwnership` | done |
| 9 | `ReleaseProofs`: type, tags, continuity, signing, refinement | done |
| 10 | `FsEpochProofs`: the decoder inverts the encoder and the reverse, the two lists of checks agree, refinement | done |
| 11 | `ByteCodecProofs`: bytes of any base and length are read back; `OwnershipProofs` on top of it: every safety property of a run, and refinement | done |
| 12 | `DeriveEntityProofs`: sorting, injective encodings, every safety property of the run | done |
| 13 | In `ImtProofs`: exact capacity, membership paths, empty paths | done |
| 14 | What has no run yet: a release displaced by the nightly, a tree as deep as the index's word, a tag on an arbitrary commit | next |

How they compose: four pairs of an abstract specification and the detailed one that
implements it, under a refinement mapping: `MerkleTree` and `Imt`, `Handoff` and
`FsEpoch`, `ReleaseLine` and `Release`, `Claims` and `Ownership`. `DeriveEntity` and
`ByteCodec` extend `FieldCodec`, and `Ownership` extends `ByteCodec`, so that what its
parties exchange are bytes. `Schnorr` and `Ownership` are kept apart on
purpose: `Ownership` takes from it only that a signature verifies for the key and
message it was made with, and `Schnorr` shows that.

## 3. The models

**`MerkleTree`, `Imt`** (`core/protocol/imt.rs`). `MerkleTree` holds the accepted
leaves and promises that the published root is that of all of them, computed from
scratch. `Imt` has the struct's fields as variables (`zeros`, `frontier`,
`next_index`, `root`), `outcome` for what the last `append` returned, and
`leaves`, a history variable. `append` takes `&mut self`, so a call is one action:
the whole of `frontier_append` (bad ladder, shift, overflow, the loop, the full
tree), with the hash failing at any level, and then the assignments. The paths and
`circuit_indices` are operators; `CircuitRoot` is what a circuit does with
direction bits, and is external.

**`Release`** (`.github/workflows/ci.yml`, `cog.toml`). `main`, `tags`, `registry`
and `releases` are the shared world; each concurrency group has a running and a
waiting run; `maintainer` is a clone in which `cog bump` runs by hand, and `ManualTag`
pushes by hand the tag that a bump left on its version commit and did not get to push.
A job's steps that touch the world are actions of their own, since other runs and people
work between them: the two pushes of `post_bump_hooks`, the two `cargo publish`, the
release entry and its assets are six actions. Each can fail, and so can `resolve`, after
which no job of the run has a tag. Cancellation is a flag set by `Trigger`; jobs
under `always()` ignore it, the tag job may stop at any of its steps. A dispatch names
any version, tagged or not; what a job does then is up to its checkout. `ReleaseLine`
has none of this: a last version, what each crate has of it, and the release entries;
the mapping takes the highest tag for the last version, and the registry and the
entries as they are.

**`FsEpoch`** (`core/protocol/fs_epoch.rs`). `new`, `canonical_bytes`, `decode`,
`digest` and `signing_message` are operators, the decoder with every error path.
Around them is the protocol that the module's documentation describes: the service
builds and signs a chain, a node relays bytes, a contract checks raw fields. Service,
node and contract call the library from outside the repository and are marked so. The
node relays pairs as they are: in any order, an entry with the signature of another,
bytes damaged and with the all-zero signature, which passes a pairing check. `Handoff`
is a history and a follower; the mapping takes the entries of the service's chain for
the history and the contract's list for what the follower accepted.

**`Schnorr`** (`core/primitive/signature.rs`). `call` is the frame of `sign_bytes`:
key, message, the caller's randomness and the retry counter. `Iterate` is one turn
of the loop with its retries (zero nonce, zero challenge, zero response) and
errors (identity). The hashes are unknown functions kept as far as they have been
evaluated, so that a property holds whatever they return.

**`FieldCodec`, `DeriveEntity`** (`core/codec.rs`, the derive crate). A struct is
expanded field by field, as the macro's loop does it; `Finish` orders the groups and decides
whether rustc finds the impls the emitted bounds ask for. `Preimage` is what the
generated impl folds. Each reachable expansion is judged with all of its instances.
`Sorted` is the one sort that `sort_set` and `order_group` use; which permutation a sort
takes is not modelled, as equal keys are removed or refused.

**`ByteCodec`** (`core/codec.rs`, trait `Codec`). Bytes are digits, in sequences of any
length where the code takes a slice; `LeBytes` and `FromBe` are the two orders in use. A
scalar is read only if it is reduced. A point is its logarithm, so that it shares x with
its negative, and a compressed point is x with two flags above it; reading one back
rejects an x that is not canonical or on no point, two flags at once and too few bytes,
and ignores the bytes after it, as arkworks' reader does.

**`Ownership`** (`core/protocol/key.rs`, `core/primitive/{exchange,kdf}.rs`,
`core/suite.rs`, the receipt of `core/protocol/entity.rs`). `issued` is the
sequence of nfts, each with the transcript the server shipped and the receipt it
published; nothing the server drops is kept. `signer` is the signer in a client's
memory: one at a time, as clients share nothing. What a client makes one of is bytes:
`Receive` takes the key of one transcript and the nonce of another, for any client, and
`ReceiveDamaged` changes, cuts or adds a byte; both go through `Reconstruct`, which
is `signer_from_remote` behind the decoders; the client's consent secret goes through its
bytes there too. `Rebind` takes the `NftSecret` out with `into_secret` and pairs it in
`from_secret` with the nonce of any nft. It has no bytes: its scalar is private, without
an accessor. `Accepts` is the statement of the ownership proof on the verifier's own copy
of the submission. The consent public key that the server is given is taken to be the
client's.

`Claims` is what a holder is promised: nfts have owners, and a chain's set of
accepted claims grows by one claim of an owner at a time. The mapping reads the owners
off `issued`, and the claims off the signatures: every nft and submission, of all there
are, for which a verifier accepts one of them.

## 4. What is checked

| Run | Question | Bounds, and why they are enough |
|---|---|---|
| `imt` | root, frontier and paths after any mixture of accepted, failing and refused appends; the tree implements `MerkleTree` | depth 3: eight leaves, a last append with no clear bit and refusals after it; a hash with no collision among the trees it can build |
| `imt_depth_zero` (finding) | is a bad depth reported? | depth 0 |
| `release` | do tags, registry and entries agree under every interleaving, and do users see one line of releases (`ReleaseLine`)? | four commits, two versions: a second bump, with a developer or a maintainer between its steps |
| `release_live` | does a run that tagged get to publish, whatever asks it to stop? | one version, three commits |
| `release_signed` (finding) | is every release signed? | one version |
| `release_lockstep` (finding) | do both crates ship? | one version, re-released for ever |
| `fs_epoch` | round trip, canonicity, agreement of contract and library; the contract implements `Handoff`, and makes progress | bytes 0..2, so `dst` has 0, 1, as many as its length byte can say, and one more; all committees share the good key, so only what is signed ties a signature to its entry; any symbol of one delivery damaged, cut or added; any signature with any entry |
| `schnorr` | do signatures verify, and do nonces serve one message? | a group of five, eight byte strings (three of them not canonical), two messages, keys zero and not, two calls, one retry each; both hashes take every value |
| `derive_entity` | is the preimage of an accepted struct injective, ordered, unambiguous? | three fields of 33 kinds, a field of three elements, one-bit limbs, vectors of up to two: lengths, aliases modulo the field and boundaries all differ within the bounds |
| `derive_alias`, `derive_roleless` (findings) | the same of a type alias of `Vec`, and of an attribute with no role | three fields |
| `ownership` | who can make an nft's signer, where does a signature count, and does all of it implement `Claims`? | two nfts, two clients, an opaque key drawn twice, negated, or zero; a curve of 17 points over a field of 13, keys of three bytes with two flags, any one byte of a transcript changed; two submissions signed, each verified as any of 64, whose ids share an element, a limb or their digits. Nothing is received after the last signature, which it could not change |

Every property has a mutant of the code that violates it under the same
configuration (`PROJECT.json`, `mutants`; the mutated forms stand beside the
definitions as "Variant").

Deadlock checking is off where the modelled thing ends: an expansion (the derive
runs) and a bounded number of calls of `sign`.

### Fairness

- `Release`: weak fairness of each group's runner (`Runners`): GitHub starts a waiting run
  and executes a running one. `RetrySpec`, only for the finding, adds strong fairness of
  re-releasing while nothing runs, of the run that it asks for, of a `resolve` that
  succeeds and of an upload the registry would take: even a maintainer who never gives up,
  and is never displaced, does not help.
- `FsEpoch`: strong fairness of the node relaying what the contract lacks and of `Submit`:
  the node retries, and damaged or old deliveries may come between.
- `Schnorr`: weak fairness of `Iterate`: the loop does not yield. `Retry` is bounded by
  `MaxRetries`, which stands for the hash giving a usable draw within that many; nothing
  else is assumed about it.

### Findings

1. `Imt::new(0)` makes a tree whose first append panics (`imt.rs:114`), where
   `error.rs:47` promises an error for a bad depth.
2. A failed `publish` leaves a release entry without artifacts, which `SECURITY.md:9`
   says every release has.
3. When the derive crate is uploaded and the core crate is not, no re-release of
   the tag ships the core crate; `Cargo.toml:5` says both always ship together.
4. `limbed` on a type alias of `Vec` defeats the macro's refusal of `limbed` with
   `Vec`, and the set encoding with it: two entities share a hash.
5. A field whose attribute has no role is accepted and not hashed, against `lib.rs:41`.

Noted without a run: the derive crate's README (line 65) and the core crate's fold a
`U256` without `limbed`, which the bound of `lib.rs:297` refuses to compile; a depth of 64
or more overflows the shift at `imt.rs:86`; `key.rs:149-151` and `218` say that the raw
key of a signer can be persisted, but `NftSecret` gives its scalar to nobody outside the
crate (`key.rs:92-116`); `public_key_from_bytes` and `secret_from_bytes` read the bytes
they need and ignore those after them (`codec.rs:380, 365`), where their comments say the
decode validates the length (`codec.rs:339-341, 363, 378`), and no property takes either
side: a longer form is left out of `RecipientReconstructs`; a push to main whose run is
displaced by the nightly before its tag job is not released until the next push
(`ci.yml:20-22`).

## 5. What is proved

Theorems hold for every value of the constants that satisfies the assumptions the
modules state by name, which TLC evaluates on every run; what a theorem assumes beyond
them is in its statement. Every safety property that a passing run checks, and all four
refinements, are proved.

**`ImtProofs`** (assumptions: the hash maps the field to itself, the empty leaf and
the leaves are in it, `Depth` and `WordBits` are naturals). The root alone is not
inductive: the next root is computed from frontier slots. `IInv` adds that
`next_index` counts the leaves, that the ladder is the zero ladder, and
`FrontierHoldsLeftSubtrees`, which speaks only of slots whose bit is set, since the
others hold what an earlier append left. The step is an induction along the loop of
`frontier_append` (`LoopInvariantHolds`): on entry to level l the accumulator is
the node of the new tree above the new leaf, and the changed slot, if there is one, was
the completed left subtree. It rests on how a leaf changes the reference tree: only
on its path (`OnlyPathChanges`), with empty subtrees to the right
(`EmptyToTheRight`), and how the halvings of n and n + 1 differ (`NextPosition`).
`LevelInduction` states induction and recursion over levels for sets and functions, as
the library's induction theorems cannot be applied here; all proof modules but
`SchnorrProofs` use it.

- `TypeCorrectness`, `FrontierCorrectness`, `RootCorrectness`, and `Refinement`, that
  `Imt` implements `MerkleTree`: at every depth.
- `ExactCapacity`: refused only when full, and no panic. It assumes a depth of at least
  1 and below the word's width, as it is false at 0 (finding 1) and, where overflow is
  checked, at the width and above; where it is not, the capacity wraps.
- `PathCorrectness` and `EmptyPathCorrectness`, below the word's width. That the right
  leaf resolves needs nothing of the hash. That no other does is false of a hash with
  collisions, and no hash of a finite field to itself is free of them, so both theorems
  say `NoCollisionAmong(paths) => ...` in each state: no two different pairs of one
  level, among those that the tree of that state and the path in question hash, have one
  hash. `MCImt`'s hash satisfies this in every reachable state. The resolver and a circuit
  both climb `PathNodes`; another leaf differs from the tree at each level on the way up,
  and from an equal root the tree is compared with the path's tree (`Lone`) on the way
  down.

**`ReleaseProofs`** (assumption: some number of commits and versions). `IInv` says of a
run, at every step of its jobs, what its earlier steps left behind and nobody takes
back (`RunFits`): that its version commit is on main before its tag is pushed, which crate
is in the registry before the next upload and before assets are attached. A version
commit had a version that could be tagged when it was made (`CommitsDue`), which is what
a tag pushed by hand rests on. `CloneFits` says the same
of a maintainer's clone, that bumped to a version that was the next one then, and may have
been tagged since. The argument is monotone: main, tags and registry only grow
(`Grows`), and what holds of a run or clone stays (`RunStays`). Results:
`TypeCorrectness`, `TagCorrectness`, `VersionContinuity`, `SigningCorrectness`, and
`Refinement`, that the pipeline implements `ReleaseLine`.

**`FsEpochProofs`** (assumptions: widths and padding fit, bytes are among the
symbols, an epoch fits its bytes; in each theorem `HashIsTyped`, that keccak has words of
32 bytes for values). An encoding is split where the decoder splits it
(`EncodingDecodes`), and what decodes is joined again to the bytes it came from. `IInv`
says that the service's chain is linked by numbers, hashes and signatures (`Linked`) and
what the node may hold (`NodeFits`). Results: `TypeCorrectness`, `Decodability`,
`Canonicity`, `CheckAgreement`, and `Refinement`, that the contract follows the chain
entry by entry. The last is stated for behaviours with `[]NoCollision`, that keccak does
not take two of the encodings at hand for each other: those of the chain and of what the
node has decoded. A signature is of a hash, so without it there is nothing to prove.

**`SchnorrProofs`** (assumptions: the laws of a group and of the scalar field that
`GroupAssumption` lists, and that 32 bytes of a scalar decode to it). `IInv` says of
each signature what the loop made it of: its response is k - e sk, the challenge
hash still has its bytes, and the nonce hash its nonce. The hashes are only extended, so
this stays. Results: `TypeCorrectness`; `SignatureCorrectness`, that what `sign`
returns verifies whatever the two hashes are; `NonceCorrectness`, that two different
signatures with one R need a collision of the nonce hash, also with a constant
generator.

**`ByteCodecProofs`** (assumptions: the group's order is odd, a byte has at least two
bits, an x-coordinate and two flags fit the bytes). Lemmas only: the digits of a number
below the base's power are read back, in both orders, and with them keys, with a flag
above, and scalars below the order.

**`OwnershipProofs`** (assumptions: those, consent keys that are not zero and differ up to
sign, and `ExchangeAssumption`: two exchanges among the keys at hand with one x-coordinate
are of the same two keys up to sign. It stands for the hardness of the exchange,
restricted to what clients hold and what can arrive after one byte's damage; without it a
client could meet another's secret by chance). `IInv` says what everything is made of: an
nft of its client, opaque key and place in the ledger; the signer and each signature of a
client's own key, an opaque key that client can have read, and a nonce (`Obtained`).
Things made of different parts have different secrets, seeds and bindings
(`OwnerIsClient`, `BindingIsInjective`), which the properties reduce to; a client's
consent secret comes back from its bytes (`ConsentReturns`). Results: `TypeCorrectness`,
`Reconstruction`, `SoleOwnership`, `KeySeparation`, `ExactAcceptance`, and `Refinement`,
that `Ownership` implements `Claims`.

**`DeriveEntityProofs`** (assumptions: a limb is smaller than the modulus, no vector is as
long as the field is large, members are in the range of their types). `IInv` says that as
long as no field was refused the seed and the owner recorded are the fields that carry
these roles (`RolesKnown`), and that an accepted struct has a seed, builds, and has both
groups in the order of their positions. On sorting rest `Order` and `Producers`;
`TypeCorrectness` and `Roles` follow from the invariant. `Injectivity`: every member's
encoding tells its own length by its first element (`Delimited`), so that a concatenation
of them, split from the front, has one reading (`FlattenTells`), and equal preimages give
equal members (`PreimageTells`). It assumes `NoLimbedAlias`, that no field declared with
an alias of `Vec` is `limbed`: finding 4 is that it fails otherwise.

**Only model-checked**: liveness (`TaggedRunPublishes`, `HandoffProgresses`,
`SignReturns`), which this prover does not reach. That the recursive functions in the
models compute what they are named for (a power, a quotient) is proved only as far as
their equations, by `LevelInduction`.

## 6. What is not modelled, and why

- The values of Poseidon2, blake2s, Pedersen and keccak, and curve arithmetic: other
  crates. Models take an unknown, an injective or a toy function, and say which. A
  collision between an iterated hash and a hash of another arity is outside all of them.
- Of a suite's formulas, the error of `derive_owner` for the identity (`suite.rs:119`):
  for a key to be the identity its derived secret would have to be zero, which is taken
  not to be.
- Of the macro's input, a path that is no identifier, a position that is no number and one
  given twice (`lib.rs:95-110`): its shape only. Of the types, limbed arrays and slices
  (`codec.rs:214-236`) are left out; the theorems are about the six types modelled.
- A tag put by hand on an arbitrary commit, or pushed once more under its own ref; a
  re-release by dispatch is modelled.
- `zk.rs`: traits that other crates implement. The statement they prove is `Accepts`.
- Wiping of secrets and copies in memory (`SecretScalar`): no state of the protocol.
- What test jobs run, and pull-request runs, which share no group with main and release
  nothing. That GitHub cancels and queues as its documentation says is assumed.
- Suites other than the defaults of `Suite`: a suite that overrides a formula has to be
  modelled as such.
