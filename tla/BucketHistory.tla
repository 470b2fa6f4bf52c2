---------------------------- MODULE BucketHistory ----------------------------
(***************************************************************************)
(* What a counter file promises its users: the sums of the last            *)
(* BucketCount intervals, by bucket index.  Recording into a newer         *)
(* interval moves the window and forgets what falls out of it; recording   *)
(* into an interval older than the window is refused.                      *)
(***************************************************************************)
EXTENDS Integers

CONSTANTS
    BucketCount,    \* how many intervals are kept
    Indices,        \* the intervals updates may be for
    Values          \* what one update may add

VARIABLES
    latest,         \* index of the newest interval
    history         \* sum recorded for every interval of the window

Window(l) == l - BucketCount + 1 .. l

Init ==
    /\ latest = 0
    /\ history = [i \in Window(0) |-> 0]

(* The history once the window has moved on to end at l.                   *)
Shifted(l) == [i \in Window(l) |-> IF i \in Window(latest) THEN history[i] ELSE 0]

Record(i, v) ==
    LET l == IF i > latest THEN i ELSE latest
    IN  /\ latest' = l
        /\ history' = [j \in Window(l) |-> Shifted(l)[j] + (IF j = i THEN v ELSE 0)]

Next == \E i \in Indices, v \in Values : Record(i, v)

Spec == Init /\ [][Next]_<<latest, history>>

=============================================================================
