---------------------------- MODULE MCQueueDrain ----------------------------
(* Small instances of QueueDrain for TLC: one call of process_all_pending in *)
(* each of two processes (the API service and a command-line run).           *)
EXTENDS QueueDrain, TLC

CONSTANTS a, b, pA, pB, p1, p2

TwoRunners == {a, b}
TwoProcs == {pA, pB}
TwoProcOf == (a :> pA) @@ (b :> pB)

TwoPairs == {p1, p2}
OnePair == {p1}

ThreeRows == 1..3
TwoPairsOf == (1 :> p1) @@ (2 :> p1) @@ (3 :> p2)
OnePairOf == [i \in ThreeRows |-> p1]
=============================================================================
