---------------------------- MODULE MCDashboards ----------------------------
EXTENDS Dashboards

(* x of the user, or of everybody.  y is never there at first. *)
MCStored ==
    {[scope \in Scopes |-> [name \in Names |-> IF name = "x" /\ scope \in in THEN 1 ELSE 0]] :
        in \in {{"user"}, {"global"}}}

MCHashes == {None, "x"}

=============================================================================
