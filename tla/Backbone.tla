------------------------------ MODULE Backbone ------------------------------
(***************************************************************************)
(* Events, collections and views of files/backbone.js as the page uses     *)
(* them for its users: the collection "users" is fetched once and users    *)
(* are created in it; the model "settings" tells the views.                *)
(*                                                                         *)
(* p.events[obj][name] has the functions that listen.  p.users has the     *)
(* name of each model of the collection.  Models have no id, so that two   *)
(* may have the same name.                                                 *)
(***************************************************************************)
EXTENDS Ajax, DomEvents

Objects == {"settings", "users"}
EventNames == {"reset", "logged_in", "logged_out", "add", "request", "change", "sync", "error"}
NoEvents == [obj \in Objects |-> [name \in EventNames |-> <<>>]]

(* Events.on() and listenTo() *)
listenTo(p, obj, name, fn) == [p EXCEPT !.events[obj][name] = Append(@, fn)]

(* Events.trigger(): those that listen when it is called. *)
trigger(p, obj, name) ==
    Do(p, [i \in DOMAIN p.events[obj][name] |-> Call(p.events[obj][name][i], None)])

Trigger(obj, name) == Call("trigger", [obj |-> obj, name |-> name])

(* An event of a model of the collection: _onModelEvent() passes it on. *)
_onModelEvent(name) == Trigger("users", name)

-----------------------------------------------------------------------------
(* Collections *)

findWhere(p, username) == username \in ToSet(p.users)

(* Collection.set() of new models. *)
addModels(p, usernames) == [p EXCEPT !.users = @ \o usernames]

reset(p, usernames) == Do(addModels([p EXCEPT !.users = <<>>], usernames), <<Trigger("users", "reset")>>)

(* fetch() with reset: true *)
fetch(p, scope) ==
    Do(ajax(p, syncOptions("read", scope, None, <<"fetched">>, <<"error">>)),
       <<Trigger("users", "request")>>)

(* create() without wait: the model is there before the server has it. *)
create(p, scope, username) ==
    Do(addModels(p, <<username>>), <<_onModelEvent("add"), Call("save", [scope |-> scope, username |-> username])>>)

(* Model.save() of a new model. *)
save(p, arg) ==
    Do(ajax(p, syncOptions("create", arg.scope, arg.username, <<"saved">>, <<"error">>)),
       <<_onModelEvent("request")>>)

(* The success() of save(): what the server sent is set on the model. *)
saved(p) == Do(p, <<_onModelEvent("change"), _onModelEvent("sync")>>)

(* wrapError() *)
error(p) == Do(p, <<Trigger("users", "error")>>)

-----------------------------------------------------------------------------
(* Views *)

delegateEvents(p, arg) ==
    FoldLeft(LAMBDA q, e : bind(q, arg.el, e.type, e.handler), p, arg.events)

(* The constructor: initialize(), then the handlers of the events. *)
View(el, initialize, events) ==
    initialize \o <<Call("delegateEvents", [el |-> el, events |-> events])>>

=============================================================================
