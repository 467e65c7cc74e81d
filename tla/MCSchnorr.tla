------------------------------ MODULE MCSchnorr -----------------------------
(***************************************************************************)
(* Schnorr over the subgroup of order 5 of the integers modulo 11, with    *)
(* generator 3.  "32-byte strings" are two digits in base 4, of which the  *)
(* first is 0 or 1: eight of them for five scalars.                        *)
(***************************************************************************)
EXTENDS Schnorr

q == 5
MCScalar == 0 .. q - 1
MCPlus(a, b) == (a + b) % q
MCMinus(a, b) == (a - b) % q
MCTimes(a, b) == (a * b) % q

MCPoint == {1, 3, 4, 5, 9}
MCAddPoints(P, Q) == (P * Q) % 11
MCGenerator(a) == (3 ^ a) % 11
MCMulPoint(P, a) == (P ^ a) % 11
\* Equal for a point and its inverse.
MCX(P) == LET inverse == CHOOSE Q \in MCPoint : MCAddPoints(P, Q) = 1
          IN  IF P < inverse THEN P ELSE inverse

MCBytes == (0 .. 1) \X (0 .. 3)
MCToBytes(a) == <<a \div 4, a % 4>>
MCFromBytes(b) == (4 * b[1] + b[2]) % q
MCZeroBytes == <<0, 0>>
=============================================================================
