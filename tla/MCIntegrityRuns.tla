-------------------------- MODULE MCIntegrityRuns --------------------------
(* Small instances of IntegrityRuns for TLC. *)
EXTENDS IntegrityRuns

OnePair == {1}
TwoPairs == {1, 2}
NoFiles == {}
OneFile == {1}
TwoFiles == {1, 2}
ThreeFiles == {1, 2, 3}
\* The last file is alone on the second pair.
Home == [f \in Files |-> IF f = 3 THEN 2 ELSE 1]

ById == [p \in Pairs |-> IF p = 2 THEN <<3>> ELSE <<1, 2>>]
TwoRuns == {1, 2}
=============================================================================
