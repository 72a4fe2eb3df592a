--------------------------- MODULE MCReplacement ---------------------------
(* Small instances of Replacement for TLC: the two drives of the pair and   *)
(* one spare drive.                                                         *)
EXTENDS Replacement

CONSTANTS f1, f2, d1, d2, d3

OneFile == {f1}
TwoFiles == {f1, f2}
ThreePaths == {d1, d2, d3}
HomePaths == [r \in Roles |-> IF r = "primary" THEN d1 ELSE d2]
ThreeRows == 1..3
FourRows == 1..4
FiveRows == 1..5
=============================================================================
