---------------------------- MODULE PageControls ----------------------------
(***************************************************************************)
(* The page of files/graph.js around the graphs, with what it uses of      *)
(* jQuery and Backbone, against the settings the server keeps for it.      *)
(*                                                                         *)
(* The page does one event at a time: Exec makes the calls of an event,    *)
(* and those that they make, until there are none.  Between two events,    *)
(* requests are under way and animations run.  The graphs, the list of     *)
(* dashboards and the counter tree are in GraphPage, Dashboards and        *)
(* CounterTree.                                                            *)
(***************************************************************************)
EXTENDS Xref, Fields

CONSTANTS
    Default,    \* index of the slider at first
    Starts,     \* bound: what is there at first and what the user does
    Ranges,     \* dates the user may type
    Zooms,      \* dates the user may zoom to
    Counters,   \* what the user may graph
    Agents,     \* the categories of each agent
    MaxUnderWay,\* bound: requests under way when the user acts
    MaxLosses   \* bound: requests that get no answer, or an error

Scopes == UserNames \cup {"global"}

ASSUME PageControlsAssumption ==
    /\ Default \in Indexes
    /\ \A start \in Starts :
        /\ start.users \subseteq UserNames /\ DOMAIN start.dashboards = Scopes
        /\ start.cookie \in UserNames \cup {None} /\ start.hash \in {"dashboard", None}
        /\ start.acts \in Nat
    /\ Zooms \subseteq Dates
    /\ \A path \in Counters : path[2] \in Nat \ {0}
    /\ \A i \in DOMAIN Agents : ToSet(Agents[i]) \subseteq Nat \ {0}
    /\ MaxUnderWay \in Nat /\ MaxLosses \in Nat

VARIABLES
    page,
    server,     \* users, and the dashboard of each scope
    session,    \* kinds of acts that this user does
    mouse,      \* the button, as the user holds it, and where the mouse is
    acts,       \* how many are left
    losses,
    known,      \* the users were fetched since the page was loaded
    forgotten,  \* a user that was created did not get to the server
    astray,     \* the button was released where the page cannot see it
    crossed,    \* a dashboard was opened during a drag
    asked       \* dates the user typed last

ghosts == <<known, forgotten, astray, crossed, asked>>
vars == <<page, server, session, mouse, acts, losses, ghosts>>

Buttons == <<"save_dashboard", "refresh", "auto_refresh", "loginbutton">>

(* An element and those around it. *)
Path(elem) ==
    IF elem \in FieldNames \cup {"counter_filter_label", "counter_filter_clear"} THEN FieldPath(elem)
    ELSE <<elem>> \o (CASE elem = "loginbutton" -> <<"login">>
                        [] elem \in MenuItems -> <<CHOOSE menu \in Menus : elem \in Items(menu)>>
                        [] OTHER -> <<>>) \o <<"body", "document">>

-----------------------------------------------------------------------------
(* Calls *)

(* The handler of every .tbutton: a disabled one does nothing, and the     *)
(* button of the login view has no action.                                 *)
tbutton(p, ev) ==
    CASE ev.self = "save_dashboard" ->
            IF p.disabled THEN p ELSE dialog(p, "name", None)
      [] ev.self = "refresh"      -> RefreshBar([p EXCEPT !.time = refresh(@, Now)])
      [] ev.self = "auto_refresh" -> auto_refresh(p)
      [] ev.self = "loginbutton"  -> p

Bind(elem, type, fn) == Call("bind", [elem |-> elem, type |-> type, fn |-> fn])

(* UserControlsView with its model and its two views. *)
UserControls ==
    <<Call("fetch", "users")>>
        \o LoginView
        \o IstatdDropdownView("logout")
        \o <<Call("listenToModel", None)>>

on_ready(p) ==
    Do(p, <<Call("begin", None), Call("rebuildTabs", None), Bind("hsplit", "mousedown", "split"),
            Call("TimeSlider", Default)>>
            \o FilterView \o UserControls
            \o IstatdDropdownView("chart_size") \o IstatdDropdownView("advanced_tools")
            \o [i \in DOMAIN Buttons |-> Bind(Buttons[i], "click", "tbutton")]
            \o <<Bind("hide_lefttab", "click", "toggle_lefttab"), Call("end", None)>>)

(* What jQuery and Backbone do. *)
LibraryStep(p, do, arg) ==
    CASE do = "event"          -> fire(p, arg)
      [] do = "dispatch"       -> dispatch(p, arg)
      [] do = "matched"        -> matched(p, arg)
      [] do = "bubble"         -> bubble(p, arg)
      [] do = "focus"          -> focus(p, arg)
      [] do = "blur"           -> blur(p, arg)
      [] do = "capture"        -> capture(p, arg)
      [] do = "activate"       -> activate(p, arg)
      [] do = "animate"        -> animate(p, arg)
      [] do = "dequeue"        -> dequeue(p, arg)
      [] do = "hide"           -> hide(p, arg)
      [] do = "trigger"        -> trigger(p, arg.obj, arg.name)
      [] do = "delegateEvents" -> delegateEvents(p, arg)
      [] do = "fetch"          -> fetch(p, arg)
      [] do = "reset"          -> reset(p, arg)
      [] do = "create"         -> create(p, "users", arg)
      [] do = "save"           -> save(p, arg)
      [] do = "saved"          -> saved(p)
      [] do = "error"          -> error(p)
      [] do = "ajaxStop"       -> ajaxStop(p)

LibraryCalls ==
    {"event", "dispatch", "matched", "bubble", "focus", "blur", "capture", "activate", "animate", "dequeue", "hide", "trigger",
     "delegateEvents", "fetch", "reset", "create", "save", "saved", "error", "ajaxStop"}

(* What the page itself does. *)
PageStep(p, do, arg) ==
    CASE do = "close"           -> close(p, arg)
      [] do = "begin"           -> begin(p)
      [] do = "end"             -> end(p)
      [] do = "visibility"      -> visibility(p, arg)
      [] do = "on_ready"        -> on_ready(p)
      [] do = "errorDialog"     -> errorDialog(p)
      [] do = "closeError"      -> [p EXCEPT !.error = FALSE]
      [] do = "dialog"          -> dialog(p, arg.kind, arg.about)
      [] do = "removeDialog"    -> removeDialog(p, arg)
      [] do = "saveSettings"    -> saveSettings(p, arg)
      [] do = "savedSettings"   -> savedSettings(p, arg)
      [] do = "size_custom"     -> size_custom(p)
      [] do = "size_setCustom"  -> size_setCustom(p, arg)
      [] do = "select_daterange" -> select_daterange(p, arg)
      [] do = "save_dashboard_named" -> save_dashboard_named(p, arg)
      [] do = "createUserAndLogin" -> createUserAndLogin(p, arg)
      [] do = "fetched"         -> fetched(p, arg)
      [] do = "typed"           -> loginTyped(p)
      [] do = "loginKeydown"    -> loginKeydown(p, arg)
      [] do = "loginFocus"      -> loginFocus(p, arg)
      [] do = "label_click"     -> label_click(p)
      [] do = "input_focus"     -> input_focus(p)
      [] do = "input_blur"      -> input_blur(p)
      [] do = "input_keydown"   -> input_keydown(p, arg)
      [] do = "clear_filter"    -> clear_filter(p)
      [] do = "input"           -> [p EXCEPT !.text[arg.field] = arg.text]
      [] do = "login"           -> login(p, arg)
      [] do = "logout"          -> logout(p)
      [] do = "onReset"         -> onReset(p)
      [] do = "onLoggedOut"     -> onLoggedOut(p)
      [] do = "showViewsWhenSomebodyIsLoggedIn" -> showViewsWhenSomebodyIsLoggedIn(p)
      [] do = "slideDownMenu"   -> slideDownMenu(p, arg)
      [] do = "render"          -> render(p, arg)
      [] do = "rebuildTabs"     -> rebuildTabs(p)
      [] do = "tabClick"        -> tabClick(p, arg)
      [] do = "somebody"        -> somebody(p)
      [] do = "listenToModel"   -> ListenToModel(p)
      [] do = "bindClose"       -> bindClose(p, arg)
      [] do = "bind"            -> bind(p, arg.elem, arg.type, Handler(arg.fn, arg.elem, {}))
      [] do = "open"            -> open(p, arg)
      [] do = "doAction"        -> doAction(p, arg)
      [] do = "tbutton"         -> tbutton(p, arg)
      [] do = "graph_size"      -> graph_size(p, arg)
      [] do = "TimeSlider"      -> TimeSlider(p, arg)
      [] do = "move"            -> move(p, arg)
      [] do = "drop"            -> drop(p, arg)
      [] do = "split"           -> split(p)
      [] do = "splitMove"       -> splitMove(p, arg)
      [] do = "splitDrop"       -> splitDrop(p)
      [] do = "toggle_lefttab"  -> toggle_lefttab_visibility(p)
      [] do = "gotohash"        -> gotohash(p)
      [] do = "load_dashboard"  -> load_dashboard(p, arg)
      [] do = "loaded"          -> loaded(p, arg)
      [] do = "openDashboard"   -> openDashboard(p, arg)
      [] do = "saveDashboard"   -> saveDashboard(p, arg)
      [] do = "regexpDialog"    -> regexpDialog(p, arg)
      [] do = "xrefSelectDialog" -> xrefSelectDialog(p)
      [] do = "xrefAnswered"    -> xrefAnswered(p, arg)
      [] do = "chooseFrom"      -> chooseFrom(p, arg)
      [] do = "chooseTo"        -> chooseTo(p, arg)
      [] do = "xrefSubmit"      -> xrefSubmit(p, arg)
      [] do = "change_counters" -> change_counters(p, arg)
      [] do = "toggleGraphing"  -> [p EXCEPT !.series = toggleSeries(@, arg)]

Step(p, do, arg) ==
    IF do \in LibraryCalls THEN LibraryStep(p, do, arg) ELSE PageStep(p, do, arg)

RECURSIVE Exec(_)
Exec(p) ==
    IF p.todo = <<>> THEN p
    ELSE Exec(Step([p EXCEPT !.todo = Tail(@)], Head(p.todo).do, Head(p.todo).arg))

-----------------------------------------------------------------------------
(* Loading the page *)

Blank(cookie, hash) ==
    [todo |-> <<>>, stopped |-> FALSE, unload |-> FALSE,
     focused |-> Nowhere, window |-> TRUE,
     text |-> [loginname |-> "Username", loginpassword |-> "", counter_filter_text |-> ""],
     search |-> TRUE, pattern |-> "*",
     cache |-> <<>>, isReady |-> FALSE, readyList |-> Pending, listens |-> {},
     fx |-> Still({"bar"}), events |-> NoEvents, xhrs |-> <<>>, active |-> 0,
     users |-> <<>>, cookie |-> cookie, userName |-> None, disabled |-> TRUE,
     nesting |-> 0, visible |-> FALSE, prompt |-> NoPrompt, error |-> FALSE,
     rendered |-> {}, label |-> [menu \in Menus |-> None], open |-> {}, tabs |-> {"counters"}, labels |-> {},
     size |-> "medium", marked |-> None, dropdown |-> None,
     time |-> [original |-> [start |-> Now - Markers[Default], stop |-> Now],
               current |-> [start |-> Now - Markers[Default], stop |-> Now],
               index |-> 0, manual |-> FALSE, auto |-> FALSE, hidden |-> FALSE],
     samples |-> 0, thumb |-> Default, dragging |-> FALSE, width |-> 1, closed |-> FALSE, old |-> 1,
     hash |-> hash, hashchanges |-> 0, series |-> {}]

Load ==
    [cookie \in UserNames \cup {None}, hash \in {None, "dashboard"} |->
        Exec(progress(Exec(progress(ready(readyPromise(Blank(cookie, hash)), <<"on_ready">>),
                                    "DOMContentLoaded")), "load"))]

Init ==
    /\ \E start \in Starts :
        /\ server = [users |-> start.users, dashboards |-> start.dashboards]
        /\ page = Load[start.cookie, start.hash]
        /\ session = start.session
        /\ acts = start.acts
    /\ mouse = [down |-> FALSE, at |-> Default]
    /\ losses = 0
    /\ known = FALSE /\ forgotten = FALSE /\ astray = FALSE /\ crossed = FALSE /\ asked = None

-----------------------------------------------------------------------------
(* What the user does *)

(* A request to create a user that the server has not served. *)
Creates(x) == x.s.type = "POST" /\ x.s.scope = "users" /\ x.got = None

(* The events of a click; x tells where, for what is dragged.  The button  *)
(* that goes down moves the focus.                                         *)
ClickEvents(elem, x) ==
    <<Call("event", Event("mousemove", Path(elem), x)),
      Call("activate", IF elem \in FieldNames THEN Path(elem) ELSE Nowhere),
      Call("event", Event("mouseup", Path(elem), x)),
      Call("event", Event("click", Path(elem), x))>>

(* A drag that ended out of sight goes on to where the user clicks. *)
Places == IF handlersOf(page, "document", "mousemove") = <<>> THEN {mouse.at} ELSE Indexes

(* One event after another. *)
Does(p, calls) == page' = Exec(Do(p, calls))

ClicksFor(elem, x, calls) ==
    /\ ~ mouse.down /\ page.window
    /\ Does(page, ClickEvents(elem, x) \o calls)
    /\ mouse' = [mouse EXCEPT !.at = x]
    /\ astray' = FALSE
    /\ UNCHANGED <<server, known, forgotten, crossed>>

Clicks(elem, x, calls) == ClicksFor(elem, x, calls) /\ UNCHANGED asked

Clickable ==
    {"save_dashboard", "refresh", "auto_refresh", "hide_lefttab", "chart_size", "advanced_tools"}
        \cup Range(TabTop)
        \cup {menu \in {"logout"} : page.fx.shown[menu]}
        \cup (UNION {Items(menu) : menu \in page.open \cap page.rendered} \ {"Logout"})

Click == \E elem \in Clickable \cap session, x \in Places : Clicks(elem, x, <<>>)

Input(field, text) == Call("input", [field |-> field, text |-> text])

(* The user goes to a field, types into it and clicks on the button. *)
Login ==
    /\ page.fx.shown["login"]
    /\ \E name \in UserNames, x \in Places :
        Clicks("loginname", x, <<Input("loginname", name)>> \o ClickEvents("loginbutton", x))

(* One thing at a time, with the filter too.  Nobody goes to a field that  *)
(* slides.                                                                 *)
ClickField ==
    \E elem \in {"counter_filter_text", "counter_filter_clear"}
              \cup (IF page.search THEN {"counter_filter_label"} ELSE {})
              \cup (IF page.fx.shown["login"] /\ AtRest(page.fx, "login")
                    THEN {"loginname", "loginpassword", "loginbutton"} ELSE {}) :
        Clicks(elem, mouse.at, <<>>)

Keydown(which) == Call("event", Event("keydown", page.focused, which))

Texts(field) ==
    CASE field = "loginname"     -> {"ann", "bob"}
      [] field = "loginpassword" -> {"secret"}
      [] OTHER                   -> {"", "cpu"}

Press ==
    /\ Head(page.focused) \in FieldNames /\ page.window
    /\ \/ Does(page, <<Keydown("Enter")>>)
       \/ \E text \in Texts(Head(page.focused)) :
            Does(page, <<Keydown("letter"), Input(Head(page.focused), text)>>)
    /\ UNCHANGED <<server, mouse, ghosts>>

SwitchWindow == page' = Exec(switch(page)) /\ UNCHANGED <<server, mouse, ghosts>>

(* The functions that the buttons of the dialog call, its close box last;  *)
(* the lists of the one for cross-references too.                          *)
Offers(kind) ==
    CASE kind = "size"      -> {"size_setCustom"}
      [] kind = "dates"     -> {"select_daterange"}
      [] kind = "name"      -> {"save_dashboard_named"}
      [] kind = "overwrite" -> {"saveDashboard"}
      [] kind = "user"      -> {"createUserAndLogin"}
      [] kind = "xref"      -> {"chooseFrom", "chooseTo", "xrefSubmit"}
      [] kind \in {"regexp_change", "regexp_add"} -> {"change_counters"}

Categories == {path[2] : path \in Counters}

(* What they are called with: what the user typed or chose.  Whether the   *)
(* list has the name of a dashboard is a matter of Dashboards; a regular   *)
(* expression is match:substitution, of categories that there are.         *)
Inputs(do, prompt) ==
    CASE do \in {"size_setCustom", "xrefSubmit"} -> BOOLEAN
      [] do = "select_daterange"     -> Ranges
      [] do = "save_dashboard_named" -> [good : BOOLEAN, listed : BOOLEAN]
      [] do \in {"saveDashboard", "createUserAndLogin"} -> {prompt.about}
      [] do = "change_counters"      -> [from : Categories, to : Categories, keep : {prompt.kind = "regexp_add"}]
      [] do = "chooseFrom"           -> DOMAIN prompt.about.from \ {prompt.about.chosen}
      [] do = "chooseTo"             -> (SUBSET DOMAIN prompt.about.to) \ {prompt.about.selected}

(* These leave the dialog there, or remove it themselves. *)
Leaves == {"size_setCustom", "select_daterange", "chooseFrom", "chooseTo", "xrefSubmit"}

(* The eHandler() of the dialog. *)
eHandler(do, arg, kind) ==
    <<Call(do, arg)>> \o IF do \in Leaves THEN <<>> ELSE <<Call("removeDialog", kind)>>

AnswerDialog ==
    /\ page.prompt # NoPrompt
    /\ \E do \in Offers(page.prompt.kind), x \in Places : \E arg \in Inputs(do, page.prompt) :
        /\ ClicksFor("dialog", x, eHandler(do, arg, page.prompt.kind))
        /\ asked' = IF do = "select_daterange" /\ page'.prompt = NoPrompt THEN arg ELSE asked

(* The close box of the dialog, which is "No" and "Cancel" too, and that   *)
(* of the error.                                                           *)
CloseDialog ==
    \E do \in {"removeDialog", "closeError"}, x \in Places :
        /\ IF do = "closeError" THEN page.error ELSE page.prompt # NoPrompt
        /\ Clicks("dialog", x, <<Call(do, page.prompt.kind)>>)

(* A counter of the tree. *)
ToggleGraphing ==
    \E path \in Counters, x \in Places : Clicks("body", x, <<Call("toggleGraphing", path)>>)

(* The page is left: what is under way is cut off, and the server has      *)
(* served some of it.                                                      *)
PageReload(cookie, hash) ==
    /\ page' = Load[cookie, hash]
    /\ known' = FALSE /\ astray' = FALSE /\ crossed' = FALSE /\ asked' = None
    /\ forgotten' = (forgotten \/ \E i \in DOMAIN page.xhrs : Creates(page.xhrs[i]))
    /\ UNCHANGED <<server, mouse>>

Logout ==
    /\ ~ mouse.down
    /\ "logout" \in page.open \cap page.rendered
    /\ \E x \in Places : \E q \in {Exec(Do(page, ClickEvents("Logout", x)))} :
        q.unload /\ PageReload(q.cookie, None)

Reload == ~ mouse.down /\ PageReload(page.cookie, page.hash)

MouseDown ==
    /\ ~ mouse.down
    /\ \E elem \in {"time_slider"} \cup (IF page.closed THEN {} ELSE {"hsplit"}), x \in Indexes :
        /\ Does(page, <<Call("event", Event("mousemove", Path(elem), x)),
                        Call("event", Event("mousedown", Path(elem), x))>>)
        /\ mouse' = [down |-> TRUE, at |-> x]
    /\ UNCHANGED <<server, ghosts>>

MouseMove ==
    /\ handlersOf(page, "document", "mousemove") # <<>>
    /\ \E x \in Indexes \ {mouse.at} :
        /\ Does(page, <<Call("event", Event("mousemove", Path("body"), x))>>)
        /\ mouse' = [mouse EXCEPT !.at = x]
    /\ UNCHANGED <<server, ghosts>>

MouseUp ==
    /\ mouse.down
    /\ Does(page, <<Call("event", Event("mouseup", Path("body"), mouse.at))>>)
    /\ mouse' = [mouse EXCEPT !.down = FALSE]
    /\ astray' = FALSE
    /\ UNCHANGED <<server, known, forgotten, crossed, asked>>

(* The button is released outside the window. *)
MouseUpUnseen ==
    /\ mouse.down
    /\ mouse' = [mouse EXCEPT !.down = FALSE]
    /\ astray' = TRUE
    /\ UNCHANGED <<page, server, known, forgotten, crossed, asked>>

(* The user drags over a graph, which GraphPage has. *)
Zoom ==
    /\ ~ mouse.down
    /\ handlersOf(page, "document", "mousemove") = <<>>
    /\ \E dates \in Zooms :
        Does([page EXCEPT !.time = zoomCallback(@, dates, Now)], RefreshBar(page).todo)
    /\ UNCHANGED <<server, mouse, ghosts>>

(* An item of the list of dashboards. *)
ClickDashboard ==
    \E scope \in {"global", page.userName} \ {None}, x \in Places :
        /\ server.dashboards[scope] # None
        /\ Clicks("body", x, <<Call("begin", None), Call("load_dashboard", <<scope>>)>>)

UserActs ==
    \/ Click
    \/ "Login" \in session /\ (Login \/ Logout \/ Reload)
    \/ "Fields" \in session /\ (ClickField \/ Press \/ SwitchWindow)
    \/ "Answers" \in session /\ AnswerDialog
    \/ "Close" \in session /\ CloseDialog
    \/ "Xref" \in session /\ ToggleGraphing
    \/ "Dashboards" \in session /\ (ClickDashboard \/ Zoom)
    \/ "Drags" \in session /\ (MouseDown \/ MouseMove \/ MouseUp \/ MouseUpUnseen)

-----------------------------------------------------------------------------
(* Events of the page *)

HashChange ==
    /\ page.hashchanges > 0
    /\ Does([page EXCEPT !.hashchanges = @ - 1], <<Call("gotohash", None)>>)
    /\ UNCHANGED <<server, mouse, losses, ghosts>>

Tick ==
    /\ \E i \in DOMAIN page.fx.timers : page' = Exec(tick(page, i))
    /\ UNCHANGED <<server, mouse, losses, ghosts>>

Answer ==
    \E i \in DOMAIN page.xhrs :
        LET x == page.xhrs[i]
            good == x.got # None /\ x.got.status = 200
        IN  /\ x.got # None
            /\ page' = Exec(answered(page, i))
            /\ known' = (known \/ (good /\ x.s.type = "GET" /\ x.s.scope = "users"))
            /\ crossed' = (crossed \/ (page.dragging /\ good /\ x.s.type = "GET" /\ x.s.scope \in Scopes))
            /\ UNCHANGED <<server, mouse, losses, forgotten, astray, asked>>

-----------------------------------------------------------------------------
(* The server, modelled by GetSettingsWorker and SetSettingsWorker *)

Good(text) == [status |-> 200, text |-> text]

(* reportError(): JSON with nothing in it of what was asked for. *)
NotFound == [status |-> 404, text |-> <<>>]

Found(s) ==
    CASE s.scope = "agents" -> Good(Agents)
      [] s.scope = "users"  -> IF server.users = {} THEN NotFound ELSE Good(SetToSeq(server.users))
      [] OTHER -> IF server.dashboards[s.scope] = None THEN NotFound ELSE Good(server.dashboards[s.scope])

(* A setting without a name only makes the file. *)
Stored(s) ==
    CASE s.scope = "users" -> [server EXCEPT !.users = @ \cup {s.data}]
      [] s.data = None     -> server
      [] OTHER             -> [server EXCEPT !.dashboards[s.scope] = s.data]

Serve ==
    \E i \in DOMAIN page.xhrs :
        /\ page.xhrs[i].got = None
        /\ LET s == page.xhrs[i].s
           IN  IF s.type = "GET"
               THEN page' = [page EXCEPT !.xhrs[i].got = Found(s)] /\ UNCHANGED server
               ELSE page' = [page EXCEPT !.xhrs[i].got = Good(None)] /\ server' = Stored(s)
        /\ UNCHANGED <<mouse, losses, ghosts>>

(* The connection breaks before or after the request is served, or the     *)
(* server cannot do it.                                                    *)
Lose ==
    /\ losses < MaxLosses
    /\ losses' = losses + 1
    /\ \E i \in DOMAIN page.xhrs, got \in {Lost, NotFound} :
        /\ page.xhrs[i].got = None \/ got = Lost
        /\ page' = [page EXCEPT !.xhrs[i].got = got]
        /\ forgotten' = (forgotten \/ Creates(page.xhrs[i]))
    /\ UNCHANGED <<server, mouse, known, astray, crossed, asked>>

-----------------------------------------------------------------------------

(* A hashchange event is in the queue of the page from the start: the user *)
(* and the server are slower.                                              *)
Next ==
    \/ /\ UNCHANGED session
       /\ page.hashchanges = 0
       /\ acts > 0
       /\ Len(page.xhrs) <= MaxUnderWay
       /\ acts' = acts - 1
       /\ UserActs
       /\ UNCHANGED losses
    \/ /\ UNCHANGED <<session, acts>>
       /\ \/ HashChange \/ Tick \/ Answer
          \/ page.hashchanges = 0 /\ (Serve \/ Lose)

Spec == Init /\ [][Next]_vars

-----------------------------------------------------------------------------
(* Properties *)

ViewsAtRest == AtRest(page.fx, "login") /\ AtRest(page.fx, "logout")

(* Once the users are there and nothing slides any more, the login view is *)
(* shown if and only if nobody is logged in and the logout view if and     *)
(* only if somebody is, and then the name in the label and the one         *)
(* dashboards are saved under (theUserName) are that of the cookie: also   *)
(* when the user logs in a second time while the views still slide.        *)
(* Excepted are names that the cookie or the key of the user cuts.         *)
ViewsMatchLogin ==
    known /\ ViewsAtRest /\ (page.cookie # None => Plain(page.cookie)) =>
        LET user == getLoggedInUser(page)
        IN  /\ page.fx.shown["login"] = (user = None)
            /\ page.fx.shown["logout"] = (user # None)
            /\ page.userName = user
            /\ user # None => page.label["logout"] = user /\ ~ page.disabled

(* A user who is logged in and has no request under way is known to the    *)
(* server, so that loading the page again keeps the login; unless the      *)
(* request that creates the user failed or was cut off, which the page     *)
(* does not tell, or the name is cut.                                      *)
LoginSurvivesReload ==
    /\ page.userName # None /\ page.cookie # None
    /\ Plain(page.cookie) /\ page.xhrs = <<>> /\ ~ forgotten
    => page.userName \in server.users

(* Once its animations have ended, the progress bar is visible exactly     *)
(* while begin() was called more often than what it returned, although     *)
(* animations that were queued before show and hide it too, and an error   *)
(* resets the count under them.                                            *)
BarAtRest == AtRest(page.fx, "bar") => page.visible = (page.nesting > 0)

(* At most one menu is open: the click that opens one, through handlers of *)
(* the item, the menu and the body, closes the others.  One tab is shown,  *)
(* and its label is the one that is marked.                                *)
OneMenu ==
    /\ Cardinality(page.open) <= 1
    /\ \E tab \in ToSet(Tabs) : page.tabs = {tab} /\ page.labels = {TabTop[tab]}

(* A drag ends: when the button was released in sight, no handler of a     *)
(* drag is left on the document, although both drags remove the handlers   *)
(* of each other, the slider is at the index whose marker the thumb is at, *)
(* and a hidden tab has no width.  Excepted from the second is a dashboard *)
(* that opens during a drag of the slider and moves the thumb.             *)
DragEnds ==
    ~ mouse.down /\ ~ astray =>
        /\ handlersOf(page, "document", "mousemove") = <<>>
        /\ handlersOf(page, "document", "mouseup") = <<>>
        /\ ~ page.dragging
        /\ page.thumb = page.time.index \/ crossed
        /\ page.closed => page.width = 0

(* The dialog for cross-references offers, for the category that is        *)
(* selected in its first list, each category once that some agent has      *)
(* beside it and no other, whatever was selected before; nothing, if the   *)
(* last answer to fill it was an error, which passes for one without       *)
(* agents.  Its first list has each category of an agent at most as often  *)
(* as answers filled it: once, unless the dialog was opened again before   *)
(* the answer.                                                             *)
XrefOffers ==
    page.prompt.kind = "xref" =>
        LET about == page.prompt.about
            cat == about.from[about.chosen]
            Together(other) == \E i \in DOMAIN Agents : {cat, other} \subseteq ToSet(Agents[i])
        IN  /\ \A other \in ToSet(about.to) \ {0} : Together(other) /\ other # cat
            /\ \A other \in UNION {ToSet(Agents[i]) : i \in DOMAIN Agents} \ {cat} :
                Together(other) /\ about.xrefs # <<>> =>
                    Cardinality({i \in DOMAIN about.to : about.to[i] = other}) = 1
            /\ \A i \in DOMAIN about.from \ {1} :
                /\ \E j \in DOMAIN Agents : about.from[i] \in ToSet(Agents[j])
                /\ Cardinality({j \in DOMAIN about.from : about.from[j] = about.from[i]}) <= about.answers

(* The dates and the number of samples that the user typed are those of    *)
(* the page, as long as neither the slider nor a dashboard sets others;    *)
(* excepted are those in a month that is too short for the present day of  *)
(* the month, which parseDate() takes for the next month's.                *)
DatesAsAsked ==
    asked # None /\ page.time.manual /\ Fits(asked.from, Now) /\ Fits(asked.to, Now) =>
        /\ page.time.original = [start |-> Meant(asked.from), stop |-> Meant(asked.to)]
        /\ page.samples = asked.samples

(* The word "Search" and what is typed never lie over each other: the      *)
(* label over the filter is hidden exactly while there is a text in the    *)
(* field or the user is about to type one, whichever way the focus comes   *)
(* and goes: clicks on the field, the label, the cross or another field,   *)
(* the page's own focus(), or another window.                              *)
SearchLabel ==
    page.search = /\ page.text["counter_filter_text"] = ""
                  /\ ~ (page.window /\ page.focused = FieldPath("counter_filter_text"))

(* The login on the screen, the one the page works with and the one the    *)
(* server knows agree, now and after the page is loaded again.             *)
LoginExact == ViewsMatchLogin /\ LoginSurvivesReload

(* What the controls show is what the page counts, holds and was told last *)
(* of: the bar, the menus, the tabs and the label of the filter, whatever  *)
(* clicks, keys, animations and errors came before.                        *)
ControlsShown == BarAtRest /\ OneMenu /\ SearchLabel

(* A dashboard that is opened shows what was to be seen when it was saved: *)
(* size, automatic refresh, the marker of the slider or none and the span  *)
(* of time, whatever the controls are set to.  Excepted are a span that is *)
(* not the marker's (the graphs were zoomed), when the slider is at        *)
(* another one, and a save while the thumb was not at the index.           *)
SavedViewOpens ==
    [][\A i \in DOMAIN page.xhrs :
        LET x == page.xhrs[i]
            d == x.got.text
            opens == /\ x.by = "page" /\ x.s.type = "GET" /\ x.s.scope \in Scopes /\ x.got # None
                     /\ page'.xhrs = RemoveAt(page.xhrs, i) /\ x.got.status = 200
        IN  opens /\ d.seen.marker = d.slider =>
                /\ Seen(page').size = d.seen.size /\ Seen(page').auto = d.seen.auto
                /\ Seen(page').marker = d.seen.marker
                /\ \/ Seen(page').span = d.seen.span
                   \/ d.slider # 0 /\ d.slider # page.time.index /\ d.seen.span # Markers[d.slider]]_vars

=============================================================================
