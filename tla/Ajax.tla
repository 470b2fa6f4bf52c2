-------------------------------- MODULE Ajax --------------------------------
(***************************************************************************)
(* Requests of the page: jQuery.ajax() of files/jquery-2.1.1.js with its   *)
(* transport and Backbone.sync() of files/backbone.js, and those that the  *)
(* page makes itself with an XMLHttpRequest.                               *)
(*                                                                         *)
(* p.xhrs has the requests under way, and p.active is jQuery.active.  An   *)
(* answer is [status, text]; the text of one that is no JSON is Garbage,   *)
(* and without an answer the status is 0.                                  *)
(***************************************************************************)
EXTENDS Naturals, SequencesExt, Deferred

CONSTANTS
    None,
    Garbage

Lost == [status |-> 0, text |-> Garbage]

(* methodMap and the options of Backbone.sync(): what is written is sent   *)
(* as JSON, and the answer is to be JSON.                                  *)
syncOptions(method, scope, data, success, error) ==
    [type |-> IF method = "create" THEN "POST" ELSE "GET", dataType |-> "json",
     scope |-> scope, data |-> data, success |-> success, error |-> error]

(* What a request has unless its options say otherwise. *)
ajaxSettings == [type |-> "GET", dataType |-> "*", data |-> None, success |-> <<>>, error |-> <<>>]

ajaxExtend(target, src) == src @@ target

ajaxSetup(options) == ajaxExtend(ajaxSettings, options)

(* The deferred of a jqXHR, with the callbacks of the options. *)
jqXHR(s) == Attach(Pending, s.success, s.error)

hasContent(s) == s.type \notin {"GET", "HEAD"}

(* send() of the transport: a request without content sends no data. *)
sendXhr(p, s) ==
    [p EXCEPT !.xhrs = Append(@, [by |-> "jquery", deferred |-> jqXHR(s), got |-> None,
                                  s |-> [s EXCEPT !.data = IF hasContent(s) THEN @ ELSE None]])]

(* jQuery.ajax() up to the send() of the transport. *)
ajax(p, options) == sendXhr([p EXCEPT !.active = @ + 1], ajaxSetup(options))

(* An XMLHttpRequest that the page itself sends. *)
send(p, type, scope, data, then) ==
    [p EXCEPT !.xhrs = Append(@, [by |-> "page", got |-> None,
        s |-> [type |-> type, scope |-> scope, data |-> data], then |-> then])]

-----------------------------------------------------------------------------

(* The table of converters: what becomes of a text that is to be of a      *)
(* type.                                                                   *)
converters(current, text) ==
    CASE current = "json" -> IF text = Garbage THEN "parsererror" ELSE "success"
      [] current = "text" -> "success"

(* The transport has a text if the request got an answer; it is converted  *)
(* to the type that was asked for.                                         *)
ajaxHandleResponses(dataType, got) ==
    IF got.status = 0 \/ dataType = "text" THEN <<dataType>> ELSE <<"text", dataType>>

ajaxConvert(dataTypes, got) ==
    IF Len(dataTypes) = 1 THEN "success" ELSE converters(dataTypes[2], got.text)

Succeeded(s, got) ==
    /\ got.status \in (200 .. 299) \cup {304}
    /\ got.status \in {204, 304} \/ ajaxConvert(ajaxHandleResponses(s.dataType, got), got) = "success"

Settle(x) == IF Succeeded(x.s, x.got) THEN resolveWith(x.deferred) ELSE rejectWith(x.deferred)

(* done(): the functions of the deferred get the answer, and the request   *)
(* counts until they return.                                               *)
done(p, x) ==
    Do(p, [i \in DOMAIN Settle(x).calls |-> Call(Settle(x).calls[i], [s |-> x.s, got |-> x.got])]
            \o <<Call("ajaxStop", None)>>)

ajaxStop(p) == [p EXCEPT !.active = @ - 1]

(* onload or onerror of the i-th request, or onreadystatechange. *)
answered(p, i) ==
    LET x == p.xhrs[i]
        q == [p EXCEPT !.xhrs = RemoveAt(@, i)]
    IN  IF x.by = "jquery" THEN done(q, x) ELSE Do(q, <<Call(x.then, [s |-> x.s, got |-> x.got])>>)

=============================================================================
