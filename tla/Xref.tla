-------------------------------- MODULE Xref --------------------------------
(***************************************************************************)
(* The tools that exchange counters for others, files/graph.js: the        *)
(* dialogs "Regex/Replace" and "Regex/Add", and the one for                *)
(* cross-references, which asks the server for the categories of its       *)
(* agents and fills its two lists when the answer is there.                *)
(*                                                                         *)
(* p.series is what the graphs show, of one graph; GraphPage has more of   *)
(* them and their loading.  A counter is what comes before its category,   *)
(* and the category.  A category is a number, in alphabetical order; the   *)
(* options "Xref From" and "Xref To" are 0, which no counter has.  An      *)
(* agent is the sequence of its categories, empty for one without.         *)
(***************************************************************************)
EXTENDS Controls, FiniteSets

(* toggleSeries(): the last series is not deleted. *)
toggleSeries(series, path) ==
    IF path \notin series THEN series \cup {path}
    ELSE IF Cardinality(series) > 1 THEN series \ {path} ELSE series

(* The body of the loop in change_counters(). *)
ChangeOne(series, path, arg) ==
    LET added == toggleSeries(series, <<path[1], arg.to>>)
    IN  IF path[2] # arg.from THEN series
        ELSE IF arg.keep THEN added ELSE toggleSeries(added, path)

change_counters(p, arg) ==
    [p EXCEPT !.series = FoldSeq(LAMBDA path, series : ChangeOne(series, path, arg), @, SetToSeq(@))]

(* regexp_change() and regexp_add() *)
regexpDialog(p, item) == dialog(p, item, None)

-----------------------------------------------------------------------------
(* Pure functions *)

(* For each category, those that some agent has beside it. *)
computeXref(agents) ==
    LET Beside(cat) == UNION {ToSet(agents[i]) : i \in {j \in DOMAIN agents : cat \in ToSet(agents[j])}}
    IN  [cat \in UNION {ToSet(agents[i]) : i \in DOMAIN agents} |-> Beside(cat) \ {cat}]

getGraphedCounters(p) == p.series

(* The categories of populateXrefFrom(), whose order does not matter. *)
FromOptions(p, xrefs) ==
    SetToSortSeq({cat \in DOMAIN xrefs : \E path \in getGraphedCounters(p) : path[2] = cat}, <)

ToOptions(xrefs, cat) == SetToSortSeq(IF cat \in DOMAIN xrefs THEN xrefs[cat] ELSE {}, <)

-----------------------------------------------------------------------------
(* The dialog.  from and to are its lists, chosen the option of the first  *)
(* that is selected and selected those of the second, which may be several *)
(* or none; answers counts what filled it, for the property.               *)

EmptyXref == [from |-> <<0>>, chosen |-> 1, to |-> <<0>>, selected |-> {1}, xrefs |-> None, answers |-> 0]

xrefSelectDialog(p) == send(dialog(p, "xref", EmptyXref), "GET", "agents", None, "xrefAnswered")

(* The answer: its lists are those of the dialog that is on the page now.  *)
(* Without one, and without JSON, it throws out of the event; its status   *)
(* is not looked at, and one without agents has no categories.             *)
xrefAnswered(p, arg) ==
    IF arg.got.text = Garbage \/ p.prompt.kind # "xref" THEN p
    ELSE LET xrefs == computeXref(arg.got.text)
         IN  [p EXCEPT !.prompt.about = [@ EXCEPT !.from = @ \o FromOptions(p, xrefs),
                                                  !.xrefs = xrefs, !.answers = @ + 1]]

(* Slip: the list keeps what was there. *)
MutantPopulateXrefTo(about) ==
    [about EXCEPT !.to = @ \o ToOptions(about.xrefs, about.from[about.chosen]), !.selected = @ \cap {1}]

(* populateXrefTo(), when another option of the first list is selected:    *)
(* of the second only the first option is left, selected or not.           *)
populateXrefTo(about) ==
    [about EXCEPT !.to = <<0>> \o ToOptions(about.xrefs, about.from[about.chosen]), !.selected = @ \cap {1}]

chooseFrom(p, i) == [p EXCEPT !.prompt.about = populateXrefTo([@ EXCEPT !.chosen = i])]

chooseTo(p, options) == [p EXCEPT !.prompt.about.selected = options]

(* The calls of change_counters() for the options that are selected. *)
Changes(about, options, keep) ==
    [i \in DOMAIN options |->
        Call("change_counters", [from |-> about.from[about.chosen], to |-> about.to[options[i]], keep |-> keep])]

(* The buttons "Change" and "Add" of the dialog: "Change" takes the first  *)
(* option that is selected, and throws if there is none.                   *)
xrefSubmit(p, keep) ==
    LET about == p.prompt.about
        options == SetToSortSeq(about.selected, <)
        taken == IF keep THEN options ELSE SubSeq(options, 1, 1)
    IN  IF ~ keep /\ options = <<>> THEN errorDialog(p)
        ELSE Do(p, Changes(about, taken, keep) \o <<Call("removeDialog", "xref")>>)

=============================================================================
