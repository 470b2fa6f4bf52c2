----------------------------- MODULE MCSettings -----------------------------
EXTENDS Settings

(* A value with blanks around it is read as the one without them. *)
MCTrimmed == [v \in Values |-> IF v = "padded" THEN "plain" ELSE v]

=============================================================================
