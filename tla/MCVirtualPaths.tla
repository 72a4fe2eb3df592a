--------------------------- MODULE MCVirtualPaths ---------------------------
(* Small instances of VirtualPaths for TLC. *)
EXTENDS VirtualPaths, TLC

CONSTANTS f1, f2, d, p1, p2, x1, x2, y1, y2

\* A folder with a file in it on one pair, a file on the other.
TwoFiles == {f1, f2}
OneFolder == {d}
TwoPairs == {p1, p2}
OnePair == (p1 :> [primary |-> x1, secondary |-> x2, active |-> "primary"]) @@ (p2 :> NoPair)
PairOfThree == (f1 :> p1) @@ (d :> p1) @@ (f2 :> p2)
InFolder == (f1 :> d) @@ (f2 :> NoOwner)
Names == (f1 :> "b") @@ (f2 :> "c")

\* A path, one below it that no file of the folder has, and another.
ThreePaths == {<<"a">>, <<"a", "e">>, <<"c">>}
=============================================================================
