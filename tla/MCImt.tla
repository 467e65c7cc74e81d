-------------------------------- MODULE MCImt -------------------------------
(***************************************************************************)
(* Imt on a tree of three levels over two leaves, 0 (empty) and 1.  The    *)
(* hash numbers pairs: it is injective, and no node of a level that has a  *)
(* left and a right part has the number of a leaf, so that two different   *)
(* subtrees never have one value.  Numbers that a tree of three levels     *)
(* cannot reach share the largest one, which closes the field.             *)
(***************************************************************************)
EXTENDS Imt

FieldLimit == 1446
MCField == 0 .. FieldLimit
MCAppendable == {0, 1}
MCHash(x, y) ==
  LET pair == IF x >= y THEN x * x + x + y ELSE y * y + x
  IN  IF x > 37 \/ y > 37 THEN FieldLimit ELSE 2 + pair
=============================================================================
