------------------------------ MODULE Deferred ------------------------------
(***************************************************************************)
(* jQuery.Callbacks("once memory") and jQuery.Deferred of                  *)
(* files/jquery-2.1.1.js: lists of functions that are called once, when    *)
(* an animation or a request has ended, and at once if it ended before.    *)
(*                                                                         *)
(* The page runs to the end of each event.  It is a record p; p.todo has   *)
(* the calls that are still to be made, next one first, so that what a     *)
(* function calls is done before what its caller does next.                *)
(***************************************************************************)
EXTENDS Sequences

Call(name, arg) == [do |-> name, arg |-> arg]

(* The calls are made before those that wait. *)
Do(p, calls) == [p EXCEPT !.todo = calls \o @]

-----------------------------------------------------------------------------
(* Callbacks.  An operator gives the list as it leaves it, and the         *)
(* functions it calls.                                                     *)

Callbacks == [list |-> <<>>, fired |-> FALSE, disabled |-> FALSE]

(* Slip: no memory; what is added to a list that was fired is not called. *)
MutantAdd(callbacks, fns) ==
    [callbacks |-> IF callbacks.disabled \/ callbacks.fired THEN callbacks
                   ELSE [callbacks EXCEPT !.list = @ \o fns], calls |-> <<>>]

add(callbacks, fns) ==
    CASE callbacks.disabled -> [callbacks |-> callbacks, calls |-> <<>>]
      [] callbacks.fired    -> [callbacks |-> callbacks, calls |-> fns]
      [] OTHER              -> [callbacks |-> [callbacks EXCEPT !.list = @ \o fns], calls |-> <<>>]

fireAll(callbacks) ==
    [callbacks |-> [callbacks EXCEPT !.list = <<>>, !.fired = TRUE], calls |-> callbacks.list]

fireWith(callbacks) ==
    IF callbacks.fired \/ callbacks.disabled THEN [callbacks |-> callbacks, calls |-> <<>>] ELSE fireAll(callbacks)

disable(callbacks) == [callbacks EXCEPT !.list = <<>>, !.disabled = TRUE]

-----------------------------------------------------------------------------

Pending == [done |-> Callbacks, fail |-> Callbacks]

(* done() and fail() of a deferred that has not ended. *)
Attach(deferred, done, fail) ==
    [done |-> add(deferred.done, done).callbacks, fail |-> add(deferred.fail, fail).callbacks]

(* done() of one that was resolved: the functions are called. *)
Late(deferred, done) == add(deferred.done, done).calls

(* The end that comes first turns the other off. *)
resolveWith(deferred) ==
    [deferred |-> [done |-> fireWith(deferred.done).callbacks, fail |-> disable(deferred.fail)],
     calls |-> fireWith(deferred.done).calls]

rejectWith(deferred) ==
    [deferred |-> [done |-> disable(deferred.done), fail |-> fireWith(deferred.fail).callbacks],
     calls |-> fireWith(deferred.fail).calls]

=============================================================================
