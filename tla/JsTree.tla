------------------------------- MODULE JsTree -------------------------------
(***************************************************************************)
(* The tree widget of the page, files/jstree.js, as files/graph.js uses    *)
(* it: the levels come from a function that answers at once, the plugin    *)
(* "sort" is on, nothing is edited.  And the registrations of events on    *)
(* its element, jQuery.event of files/jquery-2.1.1.js.                     *)
(*                                                                         *)
(* An instance t is a record: data, the nodes by id, with the root under   *)
(* 0; cnt, the last id given; selected, the ids in order of selection;     *)
(* last, last_clicked; lists, the nodes whose item has a list of children  *)
(* in the document; slides, the slides of these lists that are under way;  *)
(* hasty, nodes opened again before their list had closed; focus, the node *)
(* that has the keyboard's.  A torn down instance is NoTree.               *)
(***************************************************************************)
EXTENDS CounterNames, FiniteSetsExt

CONSTANT NoTree

NoNode == -1

-----------------------------------------------------------------------------
(* jQuery.event: the registrations of an element, in order. *)

on(bound, types, namespace) ==
    bound \o [i \in DOMAIN types |-> [type |-> types[i], namespace |-> namespace]]

(* off(".namespace") *)
offNamespace(bound, namespace) == SelectSeq(bound, LAMBDA r : r.namespace # namespace)

(* unbind("type") *)
offType(bound, type) == SelectSeq(bound, LAMBDA r : r.type # type)

(* The handlers triggerHandler() calls. *)
Handlers(bound, type) == SelectSeq(bound, LAMBDA r : r.type = type)

-----------------------------------------------------------------------------
(* Nodes *)

Root == [text |-> <<>>, branch |-> TRUE, parents |-> <<>>, children |-> <<>>,
         loaded |-> FALSE, opened |-> FALSE, selected |-> FALSE]

NewInstance ==
    [cnt |-> 0, data |-> [id \in {0} |-> Root], selected |-> <<>>, last |-> NoNode,
     lists |-> {0}, slides |-> <<>>, hasty |-> {}, focus |-> NoNode]

(* The node an id stands for, which may be gone. *)
get_node(t, id) == IF id \in DOMAIN t.data THEN id ELSE NoNode
get_parent(t, id) == Head(t.data[id].parents)

is_parent(t, id) == ~ t.data[id].loaded \/ t.data[id].children # <<>>
is_loaded(t, id) == t.data[id].loaded
is_open(t, id) == t.data[id].opened
is_closed(t, id) == is_parent(t, id) /\ ~ is_open(t, id)
is_selected(t, id) == t.data[id].selected

array_remove_item(ids, id) == SelectSeq(ids, LAMBDA i : i # id)

(* Two texts compared as strings; a field is a number. *)
RECURSIVE Before(_, _)
Before(a, b) ==
    \/ a = <<>> /\ b # <<>>
    \/ /\ a # <<>> /\ b # <<>>
       /\ Head(a) < Head(b) \/ (Head(a) = Head(b) /\ Before(Tail(a), Tail(b)))

(* The ids from the root to a node, the root itself left out. *)
PathIds(t, id) == Tail(Append(Reverse(t.data[id].parents), id))

(* Slip: the parents of the parent are put first. *)
MutantParseModel(t, level, par) ==
    [i \in 1 .. Len(level) |->
        [Root EXCEPT !.text = level[i].text, !.branch = level[i].branch,
                     !.parents = t.data[par].parents \o <<par>>,
                     !.loaded = ~ level[i].branch]]

(* _parse_model_from_json() of each entry of a level below par. *)
ParseModel(t, level, par) ==
    [i \in 1 .. Len(level) |->
        [Root EXCEPT !.text = level[i].text, !.branch = level[i].branch,
                     !.parents = <<par>> \o t.data[par].parents,
                     !.loaded = ~ level[i].branch]]

(* The handler of "model" in the plugin "sort". *)
sort(t, bound, par) ==
    IF Handlers(bound, "model") = <<>> THEN t
    ELSE [t EXCEPT !.data[par].children = SortSeq(@, LAMBDA a, b : Before(t.data[a].text, t.data[b].text))]

(* _append_json_data() up to the event "model". *)
AppendLevel(t, level, par) ==
    LET nodes == ParseModel(t, level, par)
        ids == [i \in DOMAIN level |-> t.cnt + i]
    IN  [t EXCEPT !.cnt = @ + Len(level),
                  !.data = [id \in DOMAIN @ \cup ToSet(ids) |->
                                IF id \in DOMAIN @ THEN @[id] ELSE nodes[id - t.cnt]],
                  !.data[par].children = ids]

-----------------------------------------------------------------------------
(* The page's part of a load: findNodeInCounterTree() and the level it     *)
(* answers with (graph.js).                                                *)

findNodeInCounterTree(t, source, id) ==
    IF id = 0 THEN source
    ELSE FoldLeft(LAMBDA node, i : Child(node, t.data[i].text), source, PathIds(t, id))

getCounterName(t, id) == FlattenSeq([i \in DOMAIN PathIds(t, id) |-> t.data[PathIds(t, id)[i]].text])

-----------------------------------------------------------------------------
(* What is drawn.  Slides of lists that have left the document, and those  *)
(* of a torn down instance, which end in an exception, change nothing and  *)
(* are left out.                                                           *)

Below(t, id) == {x \in DOMAIN t.data : x = id \/ id \in ToSet(t.data[x].parents)}

Drawn(t, id) == ToSet(t.data[id].parents) \subseteq t.lists

RemoveLists(t, ids) ==
    [t EXCEPT !.lists = @ \ ids, !.slides = SelectSeq(@, LAMBDA s : s.list \notin ids),
              !.focus = IF @ # NoNode /\ ToSet(t.data[@].parents) \cap ids # {} THEN NoNode ELSE @]

(* The nodes that redraw_node() gives a list when it draws one and all     *)
(* below it.                                                               *)
RECURSIVE OpenLists(_, _)
OpenLists(t, id) ==
    LET n == t.data[id]
    IN  IF ~ n.opened \/ ~ n.loaded \/ n.children = <<>> THEN {}
        ELSE {id} \cup UNION {OpenLists(t, c) : c \in ToSet(n.children)}

redraw_node(t, id) ==
    IF ~ Drawn(t, id) THEN t
    ELSE [RemoveLists(t, Below(t, id)) EXCEPT !.lists = @ \cup OpenLists(t, id), !.hasty = @ \ Below(t, id)]

(* _redraw(): the whole tree, or the nodes that have changed. *)
_redraw(t, changed, full) ==
    IF full
    THEN [RemoveLists(t, t.lists) EXCEPT
            !.lists = {0} \cup UNION {OpenLists(t, id) : id \in ToSet(t.data[0].children)}]
    ELSE FoldLeft(redraw_node, t, changed)

(* redraw() of the root, or of a node after _node_changed(). *)
redraw(t, id) == _redraw(t, IF id = 0 THEN <<>> ELSE <<id>>, id = 0)

Closing(t, id) == [list |-> id, to |-> "up"] \in ToSet(t.slides)

(* Slip: a list that has slid up stays. *)
MutantSlid(t, id) == [t EXCEPT !.slides = SelectSeq(@, LAMBDA s : s.list # id)]

(* The end of a slide: a list that has slid up is removed. *)
Slid(t, id) ==
    IF Closing(t, id) THEN RemoveLists(t, Below(t, id))
    ELSE [t EXCEPT !.slides = SelectSeq(@, LAMBDA s : s.list # id)]

(* jQuery's stop(true, true): the slide of a list is brought to its end. *)
stop(t, id) == Slid(t, id)

Started(t, id, to) == IF id \in t.lists THEN [t EXCEPT !.slides = Append(@, [list |-> id, to |-> to])] ELSE t

Slide(t, id, to, animation) == IF animation THEN Started(stop(t, id), id, to) ELSE t

-----------------------------------------------------------------------------

(* _append_json_data() *)
Append_json_data(t, bound, level, par) == redraw(sort(AppendLevel(t, level, par), bound, par), par)

(* _load_node(): the function "data" of the page answers at once. *)
_load_node(t, bound, source, id) ==
    Append_json_data(t, bound, formatTreeLevel(findNodeInCounterTree(t, source, id)), id)

load_node(t, bound, source, id) ==
    [_load_node(t, bound, source, id) EXCEPT !.data[id].loaded = TRUE]

Opened(t, id) ==
    [t EXCEPT !.data[id].opened = TRUE, !.hasty = IF Closing(t, id) THEN @ \cup {id} ELSE @]

WithList(t, id) == IF id \in t.lists THEN t ELSE redraw_node(t, id)

(* animation: the list slides; set_state() and _open_to() open at once,    *)
(* and do not stop a list that is closing.                                 *)
open_node(t, bound, source, id, animation) ==
    IF id = 0 \/ ~ is_closed(t, id) THEN t
    ELSE Slide(WithList(Opened(IF is_loaded(t, id) THEN t ELSE load_node(t, bound, source, id), id), id),
               id, "down", animation)

close_node(t, id) ==
    IF is_closed(t, id) THEN t
    ELSE Slide([t EXCEPT !.data[id].opened = FALSE, !.hasty = @ \ {id}], id, "up", TRUE)

toggle_node(t, bound, source, id) ==
    IF is_closed(t, id) THEN open_node(t, bound, source, id, TRUE)
    ELSE IF is_open(t, id) THEN close_node(t, id) ELSE t

_open_to(t, bound, source, id) ==
    FoldLeft(LAMBDA u, p : open_node(u, bound, source, p, FALSE), t, t.data[id].parents)

-----------------------------------------------------------------------------
(* The arrow keys.  An item that is open without a list is a dead end.     *)

Siblings(t, id) == t.data[get_parent(t, id)].children

Beside(t, id, by) ==
    LET at == SelectInSeq(Siblings(t, id), LAMBDA i : i = id) + by
    IN  IF at \in DOMAIN Siblings(t, id) THEN Siblings(t, id)[at] ELSE NoNode

(* The node and its parents, up to the root's children. *)
Upwards(t, id) == Front(<<id>> \o t.data[id].parents)

get_next_dom(t, id) ==
    LET after == SelectSeq(Upwards(t, id), LAMBDA i : Beside(t, i, 1) # NoNode)
    IN  IF t.data[id].opened THEN IF id \in t.lists THEN Head(t.data[id].children) ELSE NoNode
        ELSE IF after = <<>> THEN NoNode ELSE Beside(t, Head(after), 1)

(* The last item below an open one. *)
RECURSIVE Lowest(_, _)
Lowest(t, id) ==
    IF ~ t.data[id].opened THEN id
    ELSE IF id \in t.lists THEN Lowest(t, Last(t.data[id].children)) ELSE NoNode

(* Slip: the last item below an open one is not looked for. *)
Mutant_get_prev_dom(t, id) ==
    IF Beside(t, id, -1) # NoNode THEN Beside(t, id, -1)
    ELSE IF get_parent(t, id) # 0 THEN get_parent(t, id) ELSE NoNode

get_prev_dom(t, id) ==
    IF Beside(t, id, -1) # NoNode THEN Lowest(t, Beside(t, id, -1))
    ELSE IF get_parent(t, id) # 0 THEN get_parent(t, id) ELSE NoNode

focusOn(t, id) == IF id = NoNode THEN t ELSE [t EXCEPT !.focus = id]

(* The handler of "keydown" at the item that has the focus; the key Enter  *)
(* is a click.                                                             *)
keydown(t, bound, source, key) ==
    CASE key = "left" /\ is_open(t, t.focus) -> close_node(t, t.focus)
      [] key = "right" /\ is_closed(t, t.focus) -> focusOn(open_node(t, bound, source, t.focus, TRUE), t.focus)
      [] OTHER -> focusOn(t, IF key \in {"left", "up"} THEN get_prev_dom(t, t.focus) ELSE get_next_dom(t, t.focus))

-----------------------------------------------------------------------------
(* Selection.  A run r is an instance and the counters toggleGraphing()    *)
(* was called with meanwhile.                                              *)

(* The page's handler of "select_node.jstree". *)
OnSelectNode(r, bound, source, id) ==
    LET t == r.tree
    IN  IF ~ t.data[id].branch THEN [r EXCEPT !.calls = Append(@, getCounterName(t, id))]
        ELSE IF is_open(t, id) THEN [r EXCEPT !.tree = close_node(t, id)]
        ELSE [r EXCEPT !.tree = open_node(t, bound, source, id, TRUE)]

select_node(r, bound, source, id) ==
    IF get_node(r.tree, id) \in {NoNode, 0} \/ is_selected(r.tree, id) THEN r
    ELSE LET chosen == [r.tree EXCEPT !.data[id].selected = TRUE, !.selected = Append(@, id)]
             shown == [r EXCEPT !.tree = _open_to(chosen, bound, source, id)]
         IN  FoldLeft(LAMBDA u, h : OnSelectNode(u, bound, source, id), shown,
                      Handlers(bound, "select_node"))

deselect_node(t, id) ==
    [t EXCEPT !.data[id].selected = FALSE,
              !.selected = array_remove_item(@, id)]

deselect_all(t) ==
    [t EXCEPT !.data = [id \in DOMAIN @ |->
                            IF id \in ToSet(t.selected) THEN [@[id] EXCEPT !.selected = FALSE] ELSE @[id]],
              !.selected = <<>>]

(* last_clicked as activate_node() brings it up to date. *)
LastClicked(t) ==
    IF get_node(t, t.last) # NoNode /\ is_selected(t, t.last) THEN t.last
    ELSE IF t.selected # <<>> THEN Last(t.selected) ELSE NoNode

(* The siblings from one node to another, both with them. *)
RangeOf(t, a, b) ==
    LET sibs == Siblings(t, a)
        at(x) == SelectInSeq(sibs, LAMBDA i : i = x)
    IN  SubSeq(sibs, Min({at(a), at(b)}), Max({at(a), at(b)}))

(* A click that selects one node in place of all others. *)
ClickAlone(r, bound, source, id) ==
    LET s == select_node([r EXCEPT !.tree = deselect_all(@)], bound, source, id)
    IN  [s EXCEPT !.tree.last = id]

(* A click with shift: the range up to last_clicked is selected, the other *)
(* siblings are not.                                                       *)
ClickRange(r, bound, source, id, last) ==
    LET range == ToSet(RangeOf(r.tree, id, last))
        Step(u, i) == IF i \in range THEN select_node(u, bound, source, i)
                      ELSE [u EXCEPT !.tree = IF is_selected(u.tree, i) THEN deselect_node(@, i) ELSE @]
    IN  FoldLeft(Step, r, Siblings(r.tree, id))

(* activate_node(): a click on the text of a node; the option "multiple"   *)
(* is on.                                                                  *)
activate_node(t, bound, source, id, key) ==
    LET last == LastClicked(t)
        r == [tree |-> [t EXCEPT !.last = last], calls |-> <<>>]
    IN  IF key = "plain" \/ (key = "shift" /\ (last = NoNode \/ get_parent(t, id) # get_parent(t, last)))
        THEN ClickAlone(r, bound, source, id)
        ELSE IF key = "shift" THEN ClickRange(r, bound, source, id, last)
        ELSE IF is_selected(t, id) THEN [r EXCEPT !.tree = deselect_node(@, id)]
        ELSE select_node(r, bound, source, id)

-----------------------------------------------------------------------------
(* refresh(): the nodes are loaded anew, under new ids, and get_state()'s  *)
(* ids are opened and selected again.                                      *)

get_state(t) ==
    LET ids(marked) == SetToSortSeq(marked \ {0}, <)
    IN  [open |-> ids({id \in DOMAIN t.data : t.data[id].opened}),
         selected |-> ids({id \in DOMAIN t.data : t.data[id].selected})]

(* set_state(), the open nodes: a node that must be loaded first restarts  *)
(* the walk.                                                               *)
RECURSIVE Reopen(_, _, _, _)
Reopen(t, bound, source, ids) ==
    LET there == SelectSeq(ids, LAMBDA i : get_node(t, i) # NoNode)
        wait == SelectSeq(there, LAMBDA i : ~ is_loaded(t, i))
    IN  IF wait = <<>> THEN FoldLeft(LAMBDA u, i : open_node(u, bound, source, i, FALSE), t, there)
        ELSE Reopen(open_node(t, bound, source, Head(wait), FALSE), bound, source, ids)

refresh(t, bound, source) ==
    LET state == get_state(t)
        fresh == load_node([NewInstance EXCEPT !.selected = t.selected, !.last = t.last],
                           bound, source, 0)
        opened == Reopen(fresh, bound, source, state.open)
        cleared == [opened EXCEPT !.selected = <<>>]
    IN  FoldLeft(LAMBDA r, i : select_node(r, bound, source, i),
                 [tree |-> cleared, calls |-> <<>>], state.selected)

-----------------------------------------------------------------------------
(* Instances of an element.  What $().jstree() does is a record: the       *)
(* instance and the registrations of its element afterwards, and the       *)
(* counters toggled meanwhile.                                             *)

bind(bound) ==
    on(on(bound, <<"destroyed">>, ""), <<"click", "keydown", "load_node", "model">>, "jstree")

unbind(bound) == offNamespace(bound, "jstree")

Loaded(bound, source) == [tree |-> load_node(NewInstance, bound, source, 0), bound |-> bound, calls |-> <<>>]

init(bound, source) == Loaded(bind(bound), source)

teardown(bound) == [tree |-> NoTree, bound |-> unbind(bound), calls |-> <<>>]

(* destroy(): jQuery knows the function bound as teardown by its guid. *)
destroy(bound) == teardown(offType(bound, "destroyed"))

create(bound, source) == init(bound, source)

(* The instance, in the data of its element. *)
reference(t) == t

(* A method, if there is an instance. *)
Method(t, bound, source, name) ==
    CASE name = "deselect_all" -> [tree |-> deselect_all(t), bound |-> bound, calls |-> <<>>]
      [] name = "refresh" -> refresh(t, bound, source) @@ [bound |-> bound]
      [] name = "destroy" -> destroy(bound)

jstree(t, bound, source, name) ==
    IF reference(t) = NoTree THEN [tree |-> t, bound |-> bound, calls |-> <<>>] ELSE Method(t, bound, source, name)

=============================================================================
