---------------------------- MODULE DeriveEntity ----------------------------
(***************************************************************************)
(* derive(Entity), the macro of pso-protocol-derive: a struct's fields are *)
(* expanded one by one into an id seed, an owner and two groups of fields, *)
(* which are ordered, and the impl it generates encodes the members into   *)
(* the preimage of the entity hash.                                        *)
(*                                                                         *)
(* A field is [attr, keys, pos, type]: whether it has a pso attribute, the *)
(* bare keys in it, the position or NoPos, and the type as it is written.  *)
(* Ids is a type alias of Vec<bytes32>, which only rustc sees through.     *)
(***************************************************************************)
EXTENDS FieldCodec

CONSTANTS
  Declarable,  \* the fields a developer may write
  NoPos,       \* model value: no pos key
  MaxFields,   \* bound: fields of a struct
  Ints,        \* values of a u64 ...
  Bytes,       \* ... of a bytes32, some not canonical ...
  Wides,       \* ... of a uint256 ...
  MaxLen       \* ... and the bound on the elements of a vector

Types == {"u64", "bytes32", "uint256", "Vec<bytes32>", "Vec<uint256>", "Ids"}

ASSUME DeclarableAssumption ==
  /\ MaxFields \in Nat /\ MaxLen \in Nat /\ NoPos \notin Nat
  /\ \A f \in Declarable : f.attr \in BOOLEAN /\ f.type \in Types /\ f.pos \in Nat \cup {NoPos}

\* A u64 is less than the modulus, a uint256 is two limbs, and no vector has as many
\* elements as the field.
ASSUME ValueAssumption ==
  /\ Ints \subseteq 0 .. Modulus - 1
  /\ Bytes \subseteq Nat /\ IsFiniteSet(Bytes)
  /\ Wides \subseteq 0 .. LimbBase * LimbBase - 1
  /\ MaxLen < Modulus

VARIABLES
  fields,   \* the struct's fields, as far as they are expanded
  seed,     \* the id seed's index, 0 if there is none yet
  owner,    \* the owner's index, 0 if there is none
  id_body,  \* indices of the fields folded into the id, in fold order at the end
  body,     \* indices of the fields of the body, likewise
  outcome   \* "expanding", "rejected" by the macro, "unbuildable" or "accepted"

vars == <<fields, seed, owner, id_body, body, outcome>>

Init ==
  /\ fields = <<>>
  /\ seed = 0 /\ owner = 0
  /\ id_body = <<>> /\ body = <<>>
  /\ outcome = "expanding"

-----------------------------------------------------------------------------
(***************************************************************************)
(* Expansion.                                                              *)
(***************************************************************************)
KnownKeys == {"id_seed", "id_body", "body", "owner", "skip", "limbed"}

parse_field_cfg_fails(f) == ~ f.attr \/ ~ (f.keys \subseteq KnownKeys)

\* What is written is Vec<..>.
vec_elem(type) == type \in {"Vec<bytes32>", "Vec<uint256>"}

\* A second seed.  Variant: it replaces the first.
SeedTwice_LastWins(f) == FALSE

SeedTwice(f) == "id_seed" \in f.keys /\ seed # 0

\* A field the loop refuses.
Refuses(f) ==
  \/ parse_field_cfg_fails(f)
  \/ /\ "skip" \notin f.keys
     /\ \/ "limbed" \in f.keys /\ vec_elem(f.type)
        \/ SeedTwice(f)
        \/ "owner" \in f.keys /\ owner # 0

Reject ==
  /\ outcome' = "rejected"
  /\ UNCHANGED <<seed, owner, id_body, body>>

\* Variant: the indices begin at 0.
FieldIndex_FromZero == Len(fields)

FieldIndex == Len(fields) + 1

\* One turn of the loop over the fields.
ExpandField(f) ==
  LET i == FieldIndex
      Has(key) == key \in f.keys /\ "skip" \notin f.keys
      Pushed(group, key) == IF Has(key) THEN Append(group, i) ELSE group
  IN  /\ outcome = "expanding"
      /\ Len(fields) < MaxFields
      /\ fields' = Append(fields, f)
      /\ \/ Refuses(f) /\ Reject
         \/ /\ ~ Refuses(f)
            /\ seed' = IF Has("id_seed") THEN i ELSE seed
            /\ owner' = IF Has("owner") THEN i ELSE owner
            /\ id_body' = Pushed(id_body, "id_body")
            /\ body' = Pushed(body, "body")
            /\ UNCHANGED outcome

\* order_group returns an error.  Variant: equal positions pass.
order_group_fails_DuplicatesPass(group) ==
  /\ \E i \in DOMAIN group : fields[group[i]].pos # NoPos
  /\ \E i \in DOMAIN group : fields[group[i]].pos = NoPos

order_group_fails(group) ==
  /\ \E i \in DOMAIN group : fields[group[i]].pos # NoPos
  /\ \/ \E i \in DOMAIN group : fields[group[i]].pos = NoPos
     \/ \E i, j \in DOMAIN group : i # j /\ fields[group[i]].pos = fields[group[j]].pos

\* order_group, where it succeeds.
order_group(group) ==
  IF \A i \in DOMAIN group : fields[group[i]].pos = NoPos THEN group
  ELSE Sorted(ToSet(group), [i \in ToSet(group) |-> fields[i].pos])

\* The impls there are: every type but uint256 and vectors is one element, and
\* every type but a written Vec can be encoded to however many it needs.
IsFieldElement(type) == type \in {"u64", "bytes32"}
IsFieldEncode(type) == type \in Types

\* The bound emitted for a fold field: of a written Vec the element's.
BoundHolds(f) ==
  CASE f.type = "Vec<bytes32>"  -> IsFieldElement("bytes32")
    [] f.type = "Vec<uint256>"  -> IsFieldElement("uint256")
    [] ~ vec_elem(f.type) /\ "limbed" \in f.keys -> IsFieldEncode(f.type)
    [] OTHER                    -> IsFieldElement(f.type)

Builds ==
  /\ IsFieldElement(fields[seed].type)
  /\ owner # 0 => IsFieldElement(fields[owner].type)
  /\ \A i \in ToSet(id_body) \cup ToSet(body) : BoundHolds(fields[i])

\* After the loop.
Finish ==
  /\ outcome = "expanding"
  /\ UNCHANGED fields
  /\ \/ /\ seed = 0 \/ order_group_fails(id_body) \/ order_group_fails(body)
        /\ Reject
     \/ /\ seed # 0 /\ ~ order_group_fails(id_body) /\ ~ order_group_fails(body)
        /\ id_body' = order_group(id_body)
        /\ body' = order_group(body)
        /\ outcome' = IF Builds THEN "accepted" ELSE "unbuildable"
        /\ UNCHANGED <<seed, owner>>

Next == (\E f \in Declarable : ExpandField(f)) \/ Finish

Spec == Init /\ [][Next]_vars

-----------------------------------------------------------------------------
(***************************************************************************)
(* The generated impl, on the members of an instance.                      *)
(***************************************************************************)
SeqsUpTo(S, n) == UNION {[1 .. k -> S] : k \in 0 .. n}

MembersOf(type) ==
  CASE type = "u64"     -> Ints
    [] type = "bytes32" -> Bytes
    [] type = "uint256" -> Wides
    [] OTHER            -> SeqsUpTo(Bytes, MaxLen)

\* The instances of the struct: a member for each field.
Instances ==
  LET firstN[n \in 0 .. Len(fields)] ==
        IF n = 0 THEN {<<>>}
        ELSE {Append(x, v) : x \in firstN[n - 1], v \in MembersOf(fields[n].type)}
  IN  firstN[Len(fields)]

\* emit_encode: how field i is encoded, by what is written of its type.
EncodeSucceeds(i, v) ==
  CASE vec_elem(fields[i].type)  -> SortedSetAccepts(v)
    [] fields[i].type = "Ids"    -> \A k \in DOMAIN v : IsCanonical(v[k])
    [] fields[i].type = "bytes32" -> IsCanonical(v)
    [] OTHER                     -> TRUE

EncodeMember(i, v) ==
  CASE vec_elem(fields[i].type)   -> SortedSetEncode(v)
    [] fields[i].type = "Ids"     -> SliceEncode(v)
    [] fields[i].type = "uint256" -> u256_limbs_be(v)
    [] OTHER                      -> <<ToElement(v)>>

EncodeGroup(group, x) ==
  FlattenSeq([k \in DOMAIN group |-> EncodeMember(group[k], x[group[k]])])

Folded == {seed} \cup ToSet(id_body) \cup ToSet(body)

\* entity_hash succeeds.
Hashable(x) == \A i \in Folded : EncodeSucceeds(i, x[i])

\* What entity_hash folds: id_seed and encode_id_body to the id, then encode_body.
Preimage(x) ==
  <<ToElement(x[seed])>> \o EncodeGroup(id_body, x) \o EncodeGroup(body, x)

-----------------------------------------------------------------------------
(***************************************************************************)
(* Properties.                                                             *)
(***************************************************************************)
TypeOK ==
  /\ fields \in Seq(Declarable) /\ Len(fields) <= MaxFields
  /\ seed \in 0 .. Len(fields) /\ owner \in 0 .. Len(fields)
  /\ ToSet(id_body) \subseteq DOMAIN fields
  /\ ToSet(body) \subseteq DOMAIN fields
  /\ outcome \in {"expanding", "rejected", "unbuildable", "accepted"}
  /\ outcome = "accepted" => seed # 0

\* Of an accepted struct, entities with different members have different preimages:
\* no element is aliased, no boundary between two members is lost, and no folded
\* member is left out (codec.rs:18-25, 128-137).  Counted: as many preimages as
\* there are tuples of folded members.
PreimageIsInjective ==
  outcome = "accepted" =>
    LET hashed == {x \in Instances : Hashable(x)}
    IN  Cardinality({Preimage(x) : x \in hashed})
          = Cardinality({[i \in Folded |-> x[i]] : x \in hashed})

\* With positions, fields fold in the order of the positions however the struct
\* declares them (lib.rs:29-33).
PositionsDecideOrder ==
  outcome = "accepted" =>
    \A group \in {id_body, body} :
      \A i, j \in DOMAIN group :
        i < j /\ fields[group[i]].pos # NoPos =>
          fields[group[i]].pos < fields[group[j]].pos

\* An accepted struct has one seed and at most one owner, and they are the fields
\* that say so: of two, neither takes the other's place unseen (lib.rs:10, 25).
RolesAreUnambiguous ==
  outcome = "accepted" =>
    \A i \in DOMAIN fields :
      LET f == fields[i]
          Has(key) == key \in f.keys /\ "skip" \notin f.keys
      IN  /\ Has("id_seed") <=> i = seed
          /\ Has("owner") <=> i = owner

\* Whatever order and multiplicity a producer has its ids in, sort_set makes of
\* them the one vector of the same ids that the encoder accepts (codec.rs:184-199).
ProducersNeverTrip ==
  outcome = "accepted" =>
    \A x \in Instances, i \in Folded :
      vec_elem(fields[i].type) /\ (\A k \in DOMAIN x[i] : IsCanonical(x[i][k])) =>
        /\ SortedSetAccepts(sort_set(x[i]))
        /\ ToSet(sort_set(x[i])) = ToSet(x[i])

\* No field that is not skipped is left out of the preimage (lib.rs:41-42).
NothingSilentlyOmitted ==
  outcome = "accepted" =>
    \A i \in DOMAIN fields : "skip" \in fields[i].keys \/ i \in Folded
=============================================================================
