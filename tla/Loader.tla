------------------------------- MODULE Loader -------------------------------
(***************************************************************************)
(* The Loader of files/graph.js: the graphs of the page ask for counters,  *)
(* and the gets of half a second go to the server as one request, one      *)
(* request at a time.                                                      *)
(*                                                                         *)
(* A callback (cbObj) is the counters that a surface asked for; cbObjs has *)
(* the callbacks of each surface in the order of their ids.  Those of      *)
(* different surfaces have nothing to do with each other, so the order     *)
(* between them is left out.  The page has one thread: a handler runs to   *)
(* its end before the next one starts.                                     *)
(***************************************************************************)
EXTENDS Naturals, Sequences

CONSTANTS
    Counters,   \* names of counters
    Surfaces,   \* the surfaces that may ask
    NoXhr

VARIABLES
    getting,    \* keys of _getting
    cbObjs,     \* _cbObjs
    nextEvent,  \* the timer _nextEvent is armed
    xhr,        \* _xhr: the counters, the dates and the callbacks of a request
    failed,     \* surfaces whose latest get was in a request that failed
    refused     \* the latest request failed

loaderVars == <<getting, cbObjs, nextEvent, xhr, failed, refused>>

(* Callbacks of the surfaces. *)
Callbacks == [Surfaces -> Seq(SUBSET Counters)]

NoGets == [s \in Surfaces |-> <<>>]

Requests(Dates) == [keys : SUBSET Counters, dates : Dates, cbs : Callbacks]

(* The surfaces that wait for an answer. *)
Waiting(cbs) == {s \in Surfaces : cbs[s] # <<>>}

(* The counters of a surface's latest callback, which runs last. *)
Latest(cbs, s) == cbs[s][Len(cbs[s])]

KeysOf(cbs) == UNION {UNION {cbs[s][i] : i \in DOMAIN cbs[s]} : s \in Surfaces}

(* Callbacks a, and after them b. *)
Then(a, b) == [s \in Surfaces |-> a[s] \o b[s]]

LoaderInit ==
    /\ getting = {}
    /\ cbObjs = NoGets
    /\ nextEvent = FALSE
    /\ xhr = NoXhr
    /\ failed = {}
    /\ refused = FALSE

(* addToNextGet(), once for each of cbs.  All gets allow the same half     *)
(* second, so whether the armed timer is kept or armed anew, one is armed. *)
addToNextGet(cbs) ==
    /\ cbObjs' = Then(cbObjs, cbs)
    /\ getting' = getting \cup KeysOf(cbs)
    /\ nextEvent' = (nextEvent \/ Waiting(cbs) # {})
    /\ failed' = failed \ Waiting(cbs)
    /\ UNCHANGED refused

(* Slip: the callbacks are left behind when the keys are taken. *)
MutantStartRequest(dates) ==
    IF getting = {}
    THEN /\ xhr' = NoXhr
         /\ UNCHANGED <<getting, cbObjs, refused>>
    ELSE /\ xhr' = [keys |-> getting, dates |-> dates, cbs |-> cbObjs]
         /\ getting' = {}
         /\ refused' = FALSE
         /\ UNCHANGED cbObjs

(* startRequest(), with no request under way.  The dates are those of the  *)
(* moment the request is sent, not of the moment the get was asked for.    *)
startRequest(dates) ==
    IF getting = {}
    THEN /\ xhr' = NoXhr
         /\ UNCHANGED <<getting, cbObjs, refused>>
    ELSE /\ xhr' = [keys |-> getting, dates |-> dates, cbs |-> cbObjs]
         /\ getting' = {}
         /\ refused' = FALSE
         /\ cbObjs' = NoGets

onTimer(dates) ==
    /\ nextEvent
    /\ nextEvent' = FALSE
    /\ UNCHANGED failed
    /\ \/ /\ xhr # NoXhr
          /\ UNCHANGED <<getting, cbObjs, xhr, refused>>
       \/ /\ xhr = NoXhr
          /\ startRequest(dates)

(* onXhrComplete() when the server answered: the callbacks run, and what   *)
(* was queued meanwhile is asked for.                                      *)
onXhrComplete(dates) ==
    /\ xhr # NoXhr
    /\ startRequest(dates)
    /\ UNCHANGED <<nextEvent, failed>>

(* onXhrComplete() when the server refused: the exception skips the last   *)
(* line, so what was queued meanwhile waits for the next timer.            *)
onXhrError ==
    /\ xhr # NoXhr
    /\ xhr' = NoXhr
    /\ refused' = TRUE
    /\ failed' = failed \cup (Waiting(xhr.cbs) \ Waiting(cbObjs))
    /\ UNCHANGED <<getting, cbObjs, nextEvent>>

=============================================================================
