------------------------------- MODULE KeySet -------------------------------
(***************************************************************************)
(* What the list of AllKeys promises: a set of names to which add() adds   *)
(* one name at a time, and which exchange() replaces as a whole.  epoch    *)
(* counts the replacements, so that an add cannot pass for one.            *)
(***************************************************************************)
EXTENDS Naturals

CONSTANT Keys

VARIABLES contents, epoch

Init == contents = {} /\ epoch = 0

Add == (\E k \in Keys : contents' = contents \union {k}) /\ epoch' = epoch

Exchange == contents' \in SUBSET Keys /\ epoch' = epoch + 1

Spec == Init /\ [][Add \/ Exchange]_<<contents, epoch>>

=============================================================================
