--------------------------- MODULE MCDeriveEntity ---------------------------
(***************************************************************************)
(* DeriveEntity over a field of three elements with limbs of one bit, and  *)
(* the kinds of fields each run declares.                                  *)
(***************************************************************************)
EXTENDS DeriveEntity

Field(keys, pos, type) == [attr |-> TRUE, keys |-> keys, pos |-> pos, type |-> type]

Seeds == {Field({"id_seed"}, NoPos, "bytes32"), Field({"id_seed"}, NoPos, "uint256")}
IdBodies ==
  {Field({"id_body"}, pos, type) : pos \in {NoPos, 0, 1}, type \in {"u64", "Vec<bytes32>"}}
Bodies ==
  {Field({"body"}, pos, type) :
     pos \in {NoPos, 0, 1}, type \in {"bytes32", "uint256", "Vec<bytes32>"}}
Limbed ==
  {Field({"body", "limbed"}, pos, type) :
     pos \in {NoPos, 0, 1}, type \in {"u64", "uint256", "Vec<bytes32>"}}
Others ==
  {Field({"body", "owner"}, NoPos, "bytes32"), Field({"body", "owner"}, 2, "bytes32"),
   Field({"skip"}, NoPos, "u64"), Field({"id_body", "body"}, NoPos, "u64"),
   Field({"body"}, NoPos, "Vec<uint256>"), Field({"indexed"}, NoPos, "u64"),
   [Field({}, NoPos, "u64") EXCEPT !.attr = FALSE]}

MCDeclarable == Seeds \cup IdBodies \cup Bodies \cup Limbed \cup Others

\* Fields of the alias's type.
AliasDeclarable ==
  {Field({"id_seed"}, NoPos, "bytes32"), Field({"body", "limbed"}, NoPos, "Ids")}
\* An attribute, but no role in it.
RolelessDeclarable ==
  {Field({"id_seed"}, NoPos, "bytes32"), Field({"limbed"}, NoPos, "uint256")}
\* 3 is not canonical.
MCBytes == {0, 1, 3}
=============================================================================
