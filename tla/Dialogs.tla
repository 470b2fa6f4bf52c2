------------------------------ MODULE Dialogs -------------------------------
(***************************************************************************)
(* The progress bar and the dialogs of the page, files/graph.js.           *)
(*                                                                         *)
(* p.nesting and p.visible are those of the bar.  p.prompt is the prompt   *)
(* or choice dialog on the page, with what its callback is about; p.error, *)
(* whether the error dialog is there.                                      *)
(***************************************************************************)
EXTENDS Backbone, Fx

(* Slip: the end of the animation does not show the bar again. *)
MutantBegin(p) ==
    IF p.nesting > 0 THEN [p EXCEPT !.nesting = @ + 1]
    ELSE Do([p EXCEPT !.nesting = 1, !.visible = TRUE], <<animateWidth("bar", <<>>)>>)

begin(p) ==
    IF p.nesting > 0 THEN [p EXCEPT !.nesting = @ + 1]
    ELSE Do([p EXCEPT !.nesting = 1, !.visible = TRUE],
            <<animateWidth("bar", <<Call("visibility", TRUE)>>)>>)

(* The function that begin() returns. *)
end(p) ==
    CASE p.nesting = 0 -> p
      [] p.nesting > 1 -> [p EXCEPT !.nesting = @ - 1]
      [] p.nesting = 1 -> Do([p EXCEPT !.nesting = 0, !.visible = TRUE],
                             <<animateWidth("bar", <<Call("visibility", FALSE)>>)>>)

visibility(p, visible) == [p EXCEPT !.visible = visible]

errorDialog(p) ==
    Do([p EXCEPT !.error = TRUE, !.nesting = 0],
       <<animateWidth("bar", <<Call("visibility", FALSE)>>)>>)

-----------------------------------------------------------------------------

(* promptDialog(), promptDialogN() and choiceDialog() take the place of    *)
(* the one that is there.                                                  *)
dialog(p, kind, about) == [p EXCEPT !.prompt = [kind |-> kind, about |-> about]]

NoPrompt == [kind |-> "none", about |-> None]

(* $div.remove(), which does nothing to a dialog that was replaced. *)
removeDialog(p, kind) == IF p.prompt.kind = kind THEN [p EXCEPT !.prompt = NoPrompt] ELSE p

-----------------------------------------------------------------------------

(* saveSettings(): the answer ends what begin() began, and tells of an     *)
(* error or of an answer that is no JSON.                                  *)
saveSettings(p, arg) == send(begin(p), "POST", arg.scope, arg.data, "savedSettings")

savedSettings(p, arg) ==
    Do(p, <<Call("end", None)>>
            \o IF arg.got.status \in 200 .. 299 THEN <<>> ELSE <<Call("errorDialog", None)>>)

=============================================================================
