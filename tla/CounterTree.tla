----------------------------- MODULE CounterTree -----------------------------
(***************************************************************************)
(* The tree of counters on the page, files/graph.js: CounterTreeModel, a   *)
(* Backbone model that is fetched once, CounterTreeFilterView and          *)
(* CounterTreeView, which draws the model with the tree widget each time   *)
(* it changes.                                                             *)
(*                                                                         *)
(* Each action is one handler: an answer of the server or something the    *)
(* user does.  A filter is known by the names it matches; some are no      *)
(* regular expressions and make render() throw.                            *)
(***************************************************************************)
EXTENDS JsTree

CONSTANTS
    Counters,   \* the names the server has, in the order it added them
    Filters,    \* what the user may type
    Matches,    \* the names each filter matches
    Invalid,    \* filters new RegExp() refuses
    Anything,   \* no expectation of what is toggled
    MaxSelected,\* bound: nodes selected at a time
    MaxSlides   \* bound: slides under way when the user acts

(* What clear_filter() sets, and the pattern that was fetched. *)
Cleared == "clear"
All == "*"

ASSUME CounterTreeAssumption ==
    /\ Counters \in Seq(Seq(Nat) \ {<<>>})
    /\ Invalid \subseteq Filters
    /\ Matches \in [Filters -> SUBSET ToSet(Counters)]
    /\ {Cleared, All} \cap Filters = {}

VARIABLES
    fetched,    \* "sent", "answered" or "failed"
    pattern,    \* the attribute "pattern" of the model
    names,      \* the attribute "matching_names"
    changing,   \* _changing of the model: a set() is under way
    tree,       \* the widget's instance
    source,     \* counter_tree, as the instance's data function has it
    bound,      \* registrations of events on the widget's element
    calls,      \* the counters the last handler called toggleGraphing() with
    asked       \* those the last thing the user did on the screen is to toggle

vars == <<fetched, pattern, names, changing, tree, source, bound, calls, asked>>

Init ==
    /\ fetched = "sent"
    /\ pattern = All
    /\ names = <<>>
    /\ changing = FALSE
    /\ tree = NoTree
    /\ source = newNode(<<>>)
    /\ bound = <<>>
    /\ calls = <<>>
    /\ asked = <<>>

-----------------------------------------------------------------------------
(* render() *)

Accepts(pat, name) == pat \in {All, Cleared} \/ name \in Matches[pat]

(* The tree of a pattern: the leaves it matches, sorted. *)
SourceOf(pat, keys) ==
    LET listing == Listing(keys)
    IN  asCounterTree(SortSeq(SelectSeq(keys, LAMBDA n : listing[n] /\ Accepts(pat, n)), Before))

Becomes(r) == tree' = r.tree /\ bound' = r.bound

(* The old widget, refreshed, is destroyed and a new one made. *)
Replaced(r) ==
    /\ calls' = r.calls
    /\ Becomes(create(on(jstree(r.tree, r.bound, source, "destroy").bound, <<"select_node">>, "jstree"), source'))

(* Draws the model anew; t is the widget as the handler left it. *)
render(t) ==
    /\ source' = SourceOf(pattern', names')
    /\ Replaced(jstree(t, bound, source, "refresh"))

NoRender(t) == tree' = t /\ calls' = <<>> /\ UNCHANGED <<source, bound>>

(* set() of the model and the event "change" it triggers.  When render()   *)
(* throws the model stays _changing, and no later set() triggers one.      *)
set(pat, keys, t) ==
    LET silent == changing \/ <<pat, keys>> = <<pattern, names>>
    IN  /\ pattern' = pat
        /\ names' = keys
        /\ \/ silent /\ NoRender(t) /\ UNCHANGED changing
           \/ ~ silent /\ pat \in Invalid /\ NoRender(t) /\ changing' = TRUE
           \/ ~ silent /\ pat \notin Invalid /\ render(t) /\ UNCHANGED changing

-----------------------------------------------------------------------------
(* Answers *)

(* fetch(): the answer has the pattern it was asked with. *)
Answer ==
    /\ fetched = "sent"
    /\ fetched' = "answered"
    /\ set(All, Counters, tree)
    /\ asked' = <<>>

Fail ==
    /\ fetched = "sent"
    /\ fetched' = "failed"
    /\ calls' = <<>> /\ asked' = <<>>
    /\ UNCHANGED <<pattern, names, changing, tree, source, bound>>

-----------------------------------------------------------------------------
(* What the user does *)

(* Slip: the selection is kept. *)
MutantEnterFilter(filter) ==
    /\ set(filter, names, tree)
    /\ asked' = <<>>
    /\ UNCHANGED fetched

(* input_keydown(), the key Enter. *)
EnterFilter(filter) ==
    /\ set(filter, names, jstree(tree, bound, source, "deselect_all").tree)
    /\ asked' = <<>>
    /\ UNCHANGED fetched

(* clear_filter() keeps the selection, which refresh() may toggle. *)
ClearFilter ==
    /\ set(Cleared, names, tree)
    /\ asked' = IF tree # NoTree /\ tree.selected # <<>> THEN Anything ELSE <<>>
    /\ UNCHANGED fetched

(* What the screen shows: the nodes whose parents have their lists. *)
Screen ==
    IF tree = NoTree THEN {}
    ELSE {[id |-> id, name |-> getCounterName(tree, id), branch |-> tree.data[id].branch] :
            id \in {id \in DOMAIN tree.data \ {0} : Drawn(tree, id)}}

(* The counters among some nodes of the screen, those not selected yet. *)
Toggles(ids) ==
    LET new == SelectSeq(ids, LAMBDA i : ~ tree.data[i].selected /\ ~ tree.data[i].branch)
    IN  [i \in DOMAIN new |-> (CHOOSE n \in Screen : n.id = new[i]).name]

(* A click on the text of a node, with or without a key. *)
Click(node, key) ==
    LET last == LastClicked(tree)
        Alone == key = "plain" \/ last = NoNode \/ node.id \notin ToSet(Siblings(tree, last))
        r == activate_node(focusOn(tree, node.id), bound, source, node.id, key)
    IN  /\ Len(r.tree.selected) <= MaxSelected
        /\ tree' = r.tree
        /\ calls' = r.calls
        /\ asked' = CASE node.branch /\ key # "shift" -> <<>>
                      [] key = "ctrl" -> Toggles(<<node.id>>)
                      [] Alone -> IF node.branch THEN <<>> ELSE <<node.name>>
                      [] OTHER -> Toggles(RangeOf(tree, node.id, last))
        /\ UNCHANGED <<fetched, pattern, names, changing, source, bound>>

(* A click on the sign that opens and closes a branch. *)
Toggle(node) ==
    /\ node.branch
    /\ tree' = [toggle_node(tree, bound, source, node.id) EXCEPT !.focus = NoNode]
    /\ calls' = <<>> /\ asked' = <<>>
    /\ UNCHANGED <<fetched, pattern, names, changing, source, bound>>

Key(key) ==
    /\ tree # NoTree
    /\ tree.focus # NoNode
    /\ tree' = keydown(tree, bound, source, key)
    /\ calls' = <<>> /\ asked' = <<>>
    /\ UNCHANGED <<fetched, pattern, names, changing, source, bound>>

(* The timer of the slides; they take equally long. *)
Tick ==
    /\ tree # NoTree
    /\ tree.slides # <<>>
    /\ tree' = Slid(tree, Head(tree.slides).list)
    /\ calls' = <<>> /\ asked' = <<>>
    /\ UNCHANGED <<fetched, pattern, names, changing, source, bound>>

Slides == IF tree = NoTree THEN 0 ELSE Len(tree.slides)

Next ==
    \/ Answer
    \/ Fail
    \/ Tick
    \/ /\ Slides <= MaxSlides
       /\ \/ \E f \in Filters : EnterFilter(f)
          \/ ClearFilter
          \/ \E n \in Screen, k \in {"plain", "ctrl", "shift"} : Click(n, k)
          \/ \E n \in Screen : Toggle(n)
          \/ \E k \in {"left", "up", "right", "down"} : Key(k)

Spec == Init /\ [][Next]_vars

-----------------------------------------------------------------------------
(* Properties *)

(* A click on a counter of the tree calls toggleGraphing() once, with the  *)
(* name the tree shows there; with ctrl or shift for each counter that was *)
(* not selected.  Nothing else in the tree does, and entering a filter     *)
(* (input_keydown) never does, whatever was selected and opened, in any    *)
(* order, before.  Only clear_filter() with a selection is left out: the   *)
(* refresh() in render() selects by id nodes that got new ids.             *)
TogglesAsAsked == asked # Anything => calls = asked

(* The tree drawn is that of the model's pattern and names, and once the   *)
(* names were fetched there is one, as long as no filter made render()     *)
(* throw: from then on the model is never drawn again.                     *)
DrawnIsModel ==
    (tree # NoTree \/ fetched = "answered") /\ ~ changing =>
        tree # NoTree /\ source = SourceOf(pattern, names)

(* The model is drawn, and each node has below it, sorted, what the        *)
(* counter tree has there, knows its parents, and is marked selected when  *)
(* it is in the selection; each counter that the filter matches is a leaf  *)
(* under its whole name.                                                   *)
TreeExact ==
    /\ DrawnIsModel
    /\ tree # NoTree =>
          /\ ToSet(tree.selected) = {id \in DOMAIN tree.data : tree.data[id].selected}
          /\ \A id \in DOMAIN tree.data :
              LET n == tree.data[id]
                  level == findNodeInCounterTree(tree, source, id)
              IN  /\ \A c \in ToSet(n.children) : tree.data[c].parents = <<id>> \o n.parents
                  /\ n.loaded /\ n.branch =>
                      /\ {tree.data[c].text : c \in ToSet(n.children)} = {e.key : e \in ToSet(level.children)}
                      /\ \A i \in 1 .. Len(n.children) - 1 :
                          Before(tree.data[n.children[i]].text, tree.data[n.children[i + 1]].text)
          /\ ~ changing /\ names # <<>> =>
              Offered(source, <<>>) \ {<<>>} =
                  {c \in ToSet(names) : Accepts(pattern, c) /\ \A d \in ToSet(names) : c \notin ParentsOf(d)}

(* Once the slides have ended each branch on the screen has its list of    *)
(* children exactly if it is open, however clicks, slides and filters      *)
(* overlapped, except one that was opened again before its list had        *)
(* closed: the end of close_node()'s slide removes the list.               *)
ListsFollowNodes ==
    Slides = 0 /\ tree # NoTree =>
        \A n \in Screen : n.branch /\ n.id \notin tree.hasty =>
            (n.id \in tree.lists <=> tree.data[n.id].opened)

(* Then too the arrow keys pass through every item on the screen: each but *)
(* the last has one below it and each but the first one above it, and one  *)
(* key leads back to where the other came from.                            *)
KeysWalk ==
    Slides = 0 /\ tree # NoTree /\ tree.hasty = {} =>
        LET items == {n.id : n \in Screen}
        IN  /\ \A a, b \in items : get_next_dom(tree, a) = b <=> get_prev_dom(tree, b) = a
            /\ items # {} => /\ Cardinality({a \in items : get_next_dom(tree, a) \notin items}) = 1
                            /\ Cardinality({a \in items : get_prev_dom(tree, a) \notin items}) = 1

=============================================================================
