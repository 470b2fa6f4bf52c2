---------------------------- MODULE CounterNames ----------------------------
(***************************************************************************)
(* The names of counters on their way into the page's tree: KeyMatch of    *)
(* daemon/AllKeys.cpp marks those that are leaves, asCounterTree() of      *)
(* files/graph.js builds the tree, formatTreeLevel() gives a level of it   *)
(* to the tree widget.                                                     *)
(*                                                                         *)
(* A name is the sequence of its fields, the pieces between dots.  A       *)
(* JavaScript object used as a map is a sequence of its entries in the     *)
(* order of insertion.                                                     *)
(***************************************************************************)
EXTENDS Integers, Sequences, FiniteSets, SequencesExt

ParentsOf(name) == {SubSeq(name, 1, n) : n \in 1 .. Len(name) - 1}

(* KeyMatch::operator(): the parents are followed up to the first that was *)
(* known, which becomes a branch.                                          *)
KeyMatch(ctrs, name) ==
    IF name \in DOMAIN ctrs THEN ctrs
    ELSE LET known == ParentsOf(name) \cap DOMAIN ctrs
             stop == IF known = {} THEN 0 ELSE CHOOSE n \in 1 .. Len(name) - 1 :
                        /\ SubSeq(name, 1, n) \in known
                        /\ \A k \in known : Len(k) <= n
             visited == {p \in ParentsOf(name) : Len(p) >= stop}
         IN  [n \in DOMAIN ctrs \cup {name} \cup visited |->
                IF n = name THEN TRUE ELSE IF n \in visited THEN FALSE ELSE ctrs[n]]

(* listCountersMatching(): the names added, each with its is_leaf. *)
Listing(names) == FoldLeft(KeyMatch, [n \in {} |-> FALSE], names)

-----------------------------------------------------------------------------
(* The tree.  A node is its children, each under its key; a key is the     *)
(* sequence of the fields it joins.                                        *)

newNode(children) == [children |-> children]

KeyAt(node, key) == SelectInSeq(node.children, LAMBDA e : e.key = key)

Has(node, key) == KeyAt(node, key) # 0

Child(node, key) == node.children[KeyAt(node, key)].node

(* Puts a counter into the tree, one node for each field. *)
RECURSIVE Insert(_, _)
Insert(node, fields) ==
    IF fields = <<>> THEN node
    ELSE LET key == <<Head(fields)>>
             grown == IF Has(node, key) THEN node
                      ELSE newNode(Append(node.children, [key |-> key, node |-> newNode(<<>>)]))
         IN  [grown EXCEPT !.children[KeyAt(grown, key)].node = Insert(@, Tail(fields))]

(* maybeMoveUp(), for a node that has one child. *)
MoveUp(entry) ==
    LET only == entry.node.children[1]
    IN  [key |-> entry.key \o only.key, node |-> newNode(only.node.children)]

(* collapse(): the children's own subtrees first; a node that has one      *)
(* child is replaced by that child, at the end of the map.                 *)
RECURSIVE Collapse(_)
Collapse(node) ==
    LET done == [i \in DOMAIN node.children |->
                    [node.children[i] EXCEPT !.node = Collapse(@)]]
        Lone(entry) == Len(entry.node.children) = 1
        moved == SelectSeq(done, Lone)
    IN  newNode(SelectSeq(done, LAMBDA e : ~ Lone(e)) \o [i \in DOMAIN moved |-> MoveUp(moved[i])])

asCounterTree(counters) == Collapse(FoldLeft(Insert, newNode(<<>>), counters))

(* A level as the widget gets it. *)
formatTreeLevel(node) ==
    [i \in DOMAIN node.children |->
        [text |-> node.children[i].key, branch |-> node.children[i].node.children # <<>>]]

-----------------------------------------------------------------------------
(* What the tree offers: the names of its leaves. *)
RECURSIVE Offered(_, _)
Offered(node, name) ==
    IF node.children = <<>> THEN {name}
    ELSE UNION {Offered(e.node, name \o e.key) : e \in ToSet(node.children)}

=============================================================================
