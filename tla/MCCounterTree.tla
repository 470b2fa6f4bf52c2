---------------------------- MODULE MCCounterTree ----------------------------
EXTENDS CounterTree

(* A branch 1.1 with two counters, itself an aggregate among the names,    *)
(* and a counter beside it; the filter leaves the two, below one node.     *)
MCCounters == <<<<1, 2>>, <<1, 1, 2>>, <<1, 1>>, <<1, 1, 1>>>>

MCMatches == [f \in {"f", "("} |-> IF f = "f" THEN {<<1, 1, 1>>, <<1, 1, 2>>} ELSE {}]

=============================================================================
