------------------------------- MODULE Fields -------------------------------
(***************************************************************************)
(* The text fields of the page and the focus: UserLoginView and            *)
(* CounterTreeFilterView of files/graph.js, and the events jQuery makes of *)
(* those of the browser, which do not go up from the field.                *)
(*                                                                         *)
(* p.focused is document.activeElement with the elements around it, and    *)
(* p.window tells whether the window has the focus.  p.text has the value  *)
(* of each field, p.search whether the label over the filter is shown, and *)
(* p.pattern is the one of the counter tree.                               *)
(***************************************************************************)
EXTENDS Accounts

FieldNames == {"loginname", "loginpassword", "counter_filter_text"}

(* A field, or what is beside it, and the elements around it. *)
FieldPath(elem) ==
    <<elem, IF elem \in {"loginname", "loginpassword"} THEN "login" ELSE "counters", "body", "document">>

Nowhere == <<"body", "document">>

-----------------------------------------------------------------------------
(* jQuery.event *)

(* special.focus.trigger() and special.blur.trigger(): the field itself    *)
(* gets or loses the focus, and the events follow from that.               *)
focus(p, path) == IF p.focused = path THEN p ELSE Do(p, <<Call("activate", path)>>)
blur(p, path) == IF p.focused = path THEN Do(p, <<Call("activate", Nowhere)>>) ELSE p

(* trigger() of an event that no method of the element goes with: from the *)
(* element up to the document.                                             *)
triggerUp(p, ev) == fire(p, ev)

(* An event of another type with the target of the one that is there. *)
simulate(p, type, ev) == triggerUp(p, [ev EXCEPT !.type = type])

(* The handler that captures focus and blur at the document, which is      *)
(* there while anybody asks for it.                                        *)
capture(p, ev) ==
    IF attaches(p, delegateType(ev.type)) > 0 THEN simulate(p, delegateType(ev.type), ev) ELSE p

(* The browser moves the focus: one field loses it, then the other has it. *)
Moved(path, type) ==
    IF Head(path) \in FieldNames THEN <<Call("capture", Event(type, path, 0))>> ELSE <<>>

activate(p, path) ==
    IF p.focused = path THEN p
    ELSE Do([p EXCEPT !.focused = path], Moved(p.focused, "blur") \o Moved(path, "focus"))

(* The window loses and gets the focus: the field in it does too, and is   *)
(* still the active element.                                               *)
switch(p) ==
    Do([p EXCEPT !.window = ~ @], Moved(p.focused, IF p.window THEN "blur" ELSE "focus"))

-----------------------------------------------------------------------------
(* UserLoginView *)

loginKeydown(p, ev) ==
    CASE ev.which # "Enter"          -> p
      [] Head(ev.path) = "loginname" -> focus(p, FieldPath("loginpassword"))
      [] OTHER -> Do(p, <<Call("blur", FieldPath("loginpassword")), Call("typed", None)>>)

loginFocus(p, ev) == [p EXCEPT !.text[Head(ev.path)] = ""]

(* login() of the view *)
loginTyped(p) == login(p, p.text["loginname"])

-----------------------------------------------------------------------------
(* CounterTreeFilterView; what a pattern does to the tree is in            *)
(* CounterTree.                                                            *)

label_click(p) == focus(p, FieldPath("counter_filter_text"))

input_focus(p) == [p EXCEPT !.search = FALSE]

input_blur(p) == IF p.text["counter_filter_text"] = "" THEN [p EXCEPT !.search = TRUE] ELSE p

input_keydown(p, ev) ==
    IF ev.which = "Enter" THEN [p EXCEPT !.pattern = p.text["counter_filter_text"]] ELSE p

clear_filter(p) == [p EXCEPT !.text["counter_filter_text"] = "", !.search = TRUE, !.pattern = ""]

(* The events of the two views. *)
On(type, fn, view, elems) == [type |-> type, handler |-> Handler(fn, view, elems)]

LoginView ==
    View("login", <<>>,
         <<On("click", "typed", "login", {"loginbutton"}),
           On("keydown", "loginKeydown", "login", {"loginname"}),
           On("keydown", "loginKeydown", "login", {"loginpassword"}),
           On("focus", "loginFocus", "login", {"loginname"}),
           On("focus", "loginFocus", "login", {"loginpassword"})>>)

FilterView ==
    View("counters", <<>>,
         <<On("click", "label_click", "counters", {"counter_filter_label"}),
           On("focus", "input_focus", "counters", {"counter_filter_text"}),
           On("blur", "input_blur", "counters", {"counter_filter_text"}),
           On("keydown", "input_keydown", "counters", {"counter_filter_text"}),
           On("click", "clear_filter", "counters", {"counter_filter_clear"})>>)

=============================================================================
