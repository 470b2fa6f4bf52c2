----------------------------- MODULE DomEvents ------------------------------
(***************************************************************************)
(* The handlers of events, jQuery.event of files/jquery-2.1.1.js, how an   *)
(* event goes from its target up to the document, and the private data of  *)
(* the elements (data_priv) that the handlers are kept in.                 *)
(*                                                                         *)
(* p.cache[owner] is the object of an element, with a value for each key   *)
(* that is set.  Keys have neither dashes nor spaces.                      *)
(*                                                                         *)
(* The data of an element has what is bound to it for each type of event,  *)
(* delegated handlers in front; that of the document, how many elements    *)
(* ask for focusin and focusout.  p.stopped is isPropagationStopped() of   *)
(* the event that is dispatched.  An event of the browser has its type,    *)
(* its path (the target first, the document last), how far it went on it,  *)
(* and where the mouse or which the key is.                                *)
(***************************************************************************)
EXTENDS SequencesExt, Deferred

(* The object of an element is made when it is first asked for. *)
key(p, owner) ==
    IF owner \in DOMAIN p.cache THEN p ELSE [p EXCEPT !.cache = (owner :> <<>>) @@ @]

set(p, owner, name, value) == [key(p, owner) EXCEPT !.cache[owner] = (name :> value) @@ @]

(* With what the caller takes for a value that is undefined.  That a read  *)
(* makes an empty object cannot be told from none by hasData().            *)
valueIn(object, name, otherwise) == IF name \in DOMAIN object THEN object[name] ELSE otherwise

get(p, owner, name, otherwise) == valueIn(valueIn(p.cache, owner, <<>>), name, otherwise)

(* access() without a value reads, and with one sets. *)
stored(p, owner, name, otherwise) == get(p, owner, name, otherwise)

access(p, owner, name, value) == set(p, owner, name, value)

remove(p, owner, name) == [key(p, owner) EXCEPT !.cache[owner] = RestrictDomain(@, LAMBDA k : k # name)]

hasData(p, owner) == owner \in DOMAIN p.cache /\ DOMAIN p.cache[owner] # {}

-----------------------------------------------------------------------------
(* jQuery.event *)

(* A handler with the elements its selector matches, {} for one that is    *)
(* bound directly.                                                         *)
Handler(fn, self, selects) == [fn |-> fn, self |-> self, selects |-> selects]

Delegated(bound) == SelectSeq(bound, LAMBDA h : h.selects # {})
Direct(bound) == SelectSeq(bound, LAMBDA h : h.selects = {})

(* special.focus and special.blur: events that do not go up from their     *)
(* element are delegated as others that jQuery makes.                      *)
delegateType(type) ==
    CASE type = "focus" -> "focusin"
      [] type = "blur"  -> "focusout"
      [] OTHER          -> type

eventsOf(p, elem) == get(p, elem, "events", <<>>)

(* events[type], which is not there for a type that has no handlers. *)
handlersIn(events, type) == IF type \in DOMAIN events THEN events[type] ELSE <<>>

handlersOf(p, elem, type) == handlersIn(eventsOf(p, elem), type)

(* How many elements have asked for a type that jQuery makes. *)
attaches(p, fix) == stored(p, "document", fix, 0)

(* special.focusin.setup() and special.focusout.setup(), for the first     *)
(* handler of an element.                                                  *)
setup(p, elem, type) ==
    IF type \in {"focusin", "focusout"} /\ handlersOf(p, elem, type) = <<>>
    THEN access(p, "document", type, attaches(p, type) + 1) ELSE p

(* Delegated handlers are in front. *)
Added(bound, handler) ==
    IF handler.selects = {} THEN Append(bound, handler)
    ELSE Append(Delegated(bound), handler) \o Direct(bound)

addAs(p, elem, type, handler) ==
    set(setup(p, elem, type), elem, "events",
        (type :> Added(handlersOf(p, elem, type), handler)) @@ eventsOf(p, elem))

(* jQuery.event.add() *)
bind(p, elem, type, handler) ==
    addAs(p, elem, IF handler.selects = {} THEN type ELSE delegateType(type), handler)

(* jQuery.event.remove() of all handlers of a type; nobody removes those   *)
(* of focusin and focusout.                                                *)
unbindFrom(p, elem, events) ==
    IF DOMAIN events = {} THEN remove(p, elem, "events") ELSE set(p, elem, "events", events)

unbind(p, elem, type) ==
    IF hasData(p, elem) THEN unbindFrom(p, elem, RestrictDomain(eventsOf(p, elem), LAMBDA t : t # type)) ELSE p

-----------------------------------------------------------------------------

Event(type, path, x) == [type |-> type, path |-> path, at |-> 0, x |-> x]

(* What the hooks take from the event of the browser. *)
keyHooks(ev) == IF ev.type = "keydown" THEN ev.x ELSE ""
mouseHooks(ev) == IF ev.type \in {"mousedown", "mousemove", "mouseup", "click"} THEN ev.x ELSE 0

(* The jQuery.Event for a handler: its this is self. *)
jQueryEvent(ev, self) ==
    [type |-> ev.type, path |-> ev.path, self |-> self, which |-> keyHooks(ev), pageX |-> mouseHooks(ev)]

Matches(bound, cur) == SelectSeq(bound, LAMBDA h : cur \in h.selects)

(* jQuery.event.handlers(): those delegated to elements below, from the    *)
(* target upwards, and then those of the element itself.                   *)
handlers(bound, below) ==
    SelectSeq([i \in DOMAIN below |-> Matches(bound, below[i])] \o <<Direct(bound)>>,
              LAMBDA matched : matched # <<>>)

(* jQuery.event.dispatch() for one element of the path: the handlers are   *)
(* determined before the first of them runs.                               *)
dispatch(p, ev) ==
    LET queue == handlers(handlersOf(p, ev.path[ev.at], ev.type), SubSeq(ev.path, 1, ev.at - 1))
    IN  Do(p, [i \in DOMAIN queue |-> Call("matched", [fns |-> queue[i], ev |-> ev])]
                \o <<Call("bubble", ev)>>)

matched(p, arg) ==
    IF p.stopped THEN p
    ELSE Do(p, [i \in DOMAIN arg.fns |-> Call(arg.fns[i].fn, jQueryEvent(arg.ev, arg.fns[i].self))])

(* The event goes on to the next element that has handlers for it. *)
Onward(p, ev) == {at \in ev.at + 1 .. Len(ev.path) : handlersOf(p, ev.path[at], ev.type) # <<>>}

bubbleTo(p, ev, at) == IF at = {} THEN p ELSE Do(p, <<Call("dispatch", [ev EXCEPT !.at = Min(at)])>>)

bubble(p, ev) == IF p.stopped THEN p ELSE bubbleTo(p, ev, Onward(p, ev))

(* A new event of the browser. *)
fire(p, ev) == bubble([p EXCEPT !.stopped = FALSE], ev)

stopPropagation(p) == [p EXCEPT !.stopped = TRUE]

-----------------------------------------------------------------------------
(* jQuery.ready: p.readyList has the functions that wait for the document, *)
(* p.isReady tells whether it is there, and p.listens has the events of    *)
(* the browser that tell it, of which the first counts.                    *)

Calls(fns) == [i \in DOMAIN fns |-> Call(fns[i], 0)]

(* jQuery.ready.promise(), when the script is loaded. *)
readyPromise(p) == [p EXCEPT !.readyList = Pending, !.listens = {"DOMContentLoaded", "load"}]

(* jQuery.fn.ready() *)
ready(p, fns) == Do([p EXCEPT !.readyList.done = add(@, fns).callbacks], Calls(add(p.readyList.done, fns).calls))

(* jQuery.ready(); nobody holds it. *)
domReady(p) ==
    IF p.isReady THEN p
    ELSE Do([p EXCEPT !.isReady = TRUE, !.readyList = resolveWith(@).deferred],
            Calls(resolveWith(p.readyList).calls) \o <<Call("event", Event("ready", <<"document">>, 0))>>)

completed(p) == domReady([p EXCEPT !.listens = {}])

(* An event that tells how far the document is loaded. *)
progress(p, type) == IF type \in p.listens THEN completed(p) ELSE p

=============================================================================
