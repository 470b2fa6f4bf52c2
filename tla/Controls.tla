------------------------------ MODULE Controls ------------------------------
(***************************************************************************)
(* The controls around the graphs, files/graph.js: the drop-down menus,    *)
(* the sizes of the graphs, the time slider and the splitter with their    *)
(* drags, and the dashboard that holds what they are set to.               *)
(*                                                                         *)
(* p.rendered has the menus with items, p.label the label of each, p.open  *)
(* those that are open; p.tabs has the tabs and p.labels the labels of the *)
(* tabs that have the class "active".  p.size, p.marked and p.dropdown are *)
(* theGraphSize, the item with the class "current" and                     *)
(* theSizeDropdownValue; p.time is the record of TimeRange, p.samples is   *)
(* theGraphMaxSamples, p.thumb the marker below the thumb; p.width,        *)
(* p.closed and p.old those of #lefttab. A position of the mouse is the    *)
(* index of the marker next to it.                                         *)
(***************************************************************************)
EXTENDS Accounts, TimeRange

CONSTANTS
    Now         \* getAdjustedNow()

Sizes == {"small", "medium", "large", "custom"}

Menus == {"logout", "chart_size", "advanced_tools"}

Items(menu) ==
    CASE menu = "logout"         -> {"Logout"}
      [] menu = "chart_size"     -> {"small", "medium", "large", "custom"}
      [] menu = "advanced_tools" -> {"regexp_change", "regexp_add", "xref_change", "daterange"}

MenuItems == UNION {Items(menu) : menu \in Menus}

(* The elements with a class, and elem. *)
addClass(elems, elem) == elems \cup {elem}
removeClass(elems, elem) == elems \ {elem}
toggleClass(elems, elem) == IF elem \in elems THEN removeClass(elems, elem) ELSE addClass(elems, elem)

-----------------------------------------------------------------------------
(* IstatdDropdownView *)

(* The label of the view for the user has the name. *)
renderLabel(p, menu) == [p EXCEPT !.label[menu] = IF menu = "logout" THEN getLoggedInUser(p) ELSE menu]

(* The items are made once; of the sizes, one is selected. *)
renderDropdown(p, menu) ==
    IF menu \in p.rendered THEN p
    ELSE [p EXCEPT !.rendered = @ \cup {menu}, !.marked = IF menu = "chart_size" THEN "medium" ELSE @]

render(p, menu) == renderDropdown(renderLabel(p, menu), menu)

slideDownMenu(p, menu) == Do(render(p, menu), <<slideDown(menu)>>)

(* events() itself has the body close the menu. *)
bindClose(p, menu) == bind(p, "body", "mouseup", Handler("close", menu, {}))

dropdownEvents(menu) ==
    <<[type |-> "click", handler |-> Handler("open", menu, {})],
      [type |-> "click", handler |-> Handler("doAction", menu, Items(menu))]>>

(* The constructor: the views but that for the user are rendered in        *)
(* initialize().                                                           *)
IstatdDropdownView(menu) ==
    View(menu, (IF menu = "logout" THEN <<>> ELSE <<Call("render", menu)>>) \o <<Call("bindClose", menu)>>,
         dropdownEvents(menu))

open(p, ev) == [stopPropagation(p) EXCEPT !.open = toggleClass(@, ev.self)]

close(p, ev) == [p EXCEPT !.open = removeClass(@, ev.self)]

Action(item) ==
    CASE item = "Logout"    -> Call("logout", None)
      [] item = "custom"    -> Call("size_custom", None)
      [] item = "daterange" -> Call("dialog", [kind |-> "dates", about |-> None])
      [] item \in {"regexp_change", "regexp_add"} -> Call("regexpDialog", item)
      [] item = "xref_change" -> Call("xrefSelectDialog", None)
      [] OTHER              -> Call("graph_size", [size |-> item, item |-> item])

doAction(p, ev) == Do(stopPropagation(p), <<Action(Head(ev.path))>>)

-----------------------------------------------------------------------------
(* TabCollection *)

(* A tab and its label. *)
TabTop == [counters |-> "tabtop_counters", dashboards |-> "tabtop_dashboards"]
Tabs == <<"counters", "dashboards">>

rebuildTabs(p) ==
    FoldLeft(LAMBDA q, tab : bind(q, TabTop[tab], "click", Handler("tabClick", tab, {})),
             [p EXCEPT !.labels = {TabTop[tab] : tab \in p.tabs}], Tabs)

(* The class is removed from all labels and all tabs before. *)
tabClick(p, ev) == [p EXCEPT !.labels = addClass({}, TabTop[ev.self]), !.tabs = addClass({}, ev.self)]

-----------------------------------------------------------------------------
(* Sizes; documentResize() is layout. *)

setGraphSize(p, sz) == [p EXCEPT !.size = sz]

graph_size(p, arg) == setGraphSize([p EXCEPT !.marked = arg.item, !.dropdown = arg.item], arg.size)

size_custom(p) == dialog(p, "size", None)

(* The prompt stays when the size is not accepted. *)
size_setCustom(p, good) ==
    IF good THEN Do([setGraphSize(p, "custom") EXCEPT !.marked = None], <<Call("removeDialog", "size")>>)
    ELSE errorDialog(p)

(* The dialog stays when the dates or the samples are not accepted.  No    *)
(* number of samples is 0.                                                 *)
selectDates(p, dates, samples) ==
    IF dates.start < dates.stop /\ samples # None
    THEN Do([p EXCEPT !.samples = samples, !.time = resetDateRange(@, dates)], <<Call("removeDialog", "dates")>>)
    ELSE errorDialog(p)

(* select_daterange(): a text that is no date or no number is None. *)
select_daterange(p, range) ==
    IF None \in {range.from, range.to} THEN errorDialog(p)
    ELSE selectDates(p, [start |-> parseDate(range.from, Now), stop |-> parseDate(range.to, Now)], range.samples)

auto_refresh(p) == [p EXCEPT !.time.auto = ~ @]

(* refresh() moves the bar; the loading of the graphs is in GraphPage. *)
RefreshBar(p) == Do(p, <<Call("begin", None), Call("end", None)>>)

-----------------------------------------------------------------------------
(* Drags *)

(* _moveThumb() *)
MoveThumb(p, index) == [p EXCEPT !.thumb = index, !.time.manual = FALSE]

(* _update(): the marker's action is set_interval(). *)
Update(p, index) ==
    LET q == [p EXCEPT !.time.index = index]
    IN  IF index = p.time.index THEN q
        ELSE RefreshBar([q EXCEPT !.samples = 0, !.time = set_interval(@, Markers[index], Now)])

SliderSetIndex(p, index) == Update(MoveThumb(p, index), index)

(* The constructor; an index that is null is 0.  The action of the marker  *)
(* runs, since the index is none yet.                                      *)
TimeSlider(p, default) ==
    bind(SliderSetIndex([p EXCEPT !.time.manual = FALSE, !.time.index = 0, !.dragging = FALSE], default),
         "time_slider", "mousedown", Handler("move", "time_slider", {}))

(* TimeSlider.move(), for mousedown and mousemove. *)
move(p, ev) ==
    LET q == MoveThumb(p, ev.pageX)
    IN  IF p.dragging THEN q
        ELSE bind(bind([q EXCEPT !.dragging = TRUE], "document", "mousemove", Handler("move", "time_slider", {})),
                  "document", "mouseup", Handler("drop", "time_slider", {}))

UnbindDrag(p) == unbind(unbind(p, "document", "mousemove"), "document", "mouseup")

(* Slip: the drag is not marked as over. *)
MutantDrop(p, ev) == Update(UnbindDrag(p), ev.pageX)

drop(p, ev) == Update([UnbindDrag(p) EXCEPT !.dragging = FALSE], ev.pageX)

(* HSplitter *)
split(p) ==
    bind(bind(p, "document", "mousemove", Handler("splitMove", "hsplit", {})),
         "document", "mouseup", Handler("splitDrop", "hsplit", {}))

splitMove(p, ev) == [p EXCEPT !.width = ev.pageX]

splitDrop(p) == UnbindDrag(p)

toggle_lefttab_visibility(p) ==
    IF p.closed THEN [stopPropagation(p) EXCEPT !.closed = FALSE, !.width = p.old]
    ELSE [stopPropagation(p) EXCEPT !.closed = TRUE, !.old = p.width, !.width = 0]

-----------------------------------------------------------------------------
(* The dashboard that holds it all; its graphs are in Dashboards. *)

(* What the user sees of the controls. *)
Seen(p) ==
    [size |-> p.size, auto |-> p.time.auto, span |-> Span(p.time.current),
     marker |-> IF p.time.manual THEN 0 ELSE p.thumb]

(* seen is not in the JSON; it is there to compare with. *)
getDashboard(p) ==
    [size |-> p.size, auto |-> p.time.auto, interval |-> Span(p.time.current),
     slider |-> IF p.time.manual THEN 0 ELSE p.time.index, dropdown |-> p.dropdown,
     seen |-> Seen(p)]

(* Assigning location.hash: an event if it changes. *)
SetHash(p, hash) == [p EXCEPT !.hash = hash, !.hashchanges = IF p.hash = hash THEN @ ELSE @ + 1]

(* Slip: the size of the dashboard is not set again. *)
MutantOpenDashboard(p, d) ==
    LET q == SetHash([p EXCEPT !.time = OpenDates(@, d.interval, d.slider, d.auto, Now)], "dashboard")
    IN  IF d.slider = 0 THEN q
        ELSE IF d.slider = p.time.index THEN MoveThumb(q, d.slider)
        ELSE RefreshBar([MoveThumb(q, d.slider) EXCEPT !.samples = 0])

openDashboard(p, d) ==
    LET q == SetHash([graph_size(p, [size |-> d.size, item |-> IF d.slider = 0 THEN None ELSE d.dropdown])
                        EXCEPT !.time = OpenDates(@, d.interval, d.slider, d.auto, Now)], "dashboard")
    IN  IF d.slider = 0 THEN q
        ELSE IF d.slider = p.time.index THEN MoveThumb(q, d.slider)
        ELSE RefreshBar([MoveThumb(q, d.slider) EXCEPT !.samples = 0])

(* load_dashboard(): the contexts are tried one after the other. *)
load_dashboard(p, contexts) ==
    IF contexts = <<>> THEN Do(p, <<Call("errorDialog", None), Call("end", None)>>)
    ELSE send(p, "GET", Head(contexts), Tail(contexts), "loaded")

(* No answer passes for an empty one, in which openDashboard() finds       *)
(* nothing and throws.                                                     *)
loaded(p, arg) ==
    CASE arg.got.status = 0  -> errorDialog(p)
      [] arg.got.status > 299 -> load_dashboard(p, arg.s.data)
      [] OTHER -> Do(p, <<Call("openDashboard", arg.got.text), Call("end", None)>>)

(* load_hash() with an address "#?dashboard=" *)
gotohash(p) ==
    IF p.hash = None THEN p
    ELSE load_dashboard(begin(p), <<"global">> \o IF p.userName = None THEN <<>> ELSE <<p.userName>>)

(* save_dashboard_named(), with a name that is good or not and listed or   *)
(* not.                                                                    *)
save_dashboard_named(p, arg) ==
    CASE ~ arg.good        -> errorDialog(p)
      [] p.userName = None -> errorDialog(p)
      [] arg.listed        -> dialog(p, "overwrite", getDashboard(p))
      [] OTHER             -> Do(p, <<Call("saveDashboard", getDashboard(p))>>)

(* The function save() in it. *)
saveDashboard(p, d) == SetHash(saveSettings(p, [scope |-> p.userName, data |-> d]), "dashboard")

=============================================================================
