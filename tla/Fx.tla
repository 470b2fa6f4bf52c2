--------------------------------- MODULE Fx ---------------------------------
(***************************************************************************)
(* Animations of files/jquery-2.1.1.js as the page uses them: slideDown()  *)
(* and slideUp() of an element and animate() of its width, with the queue  *)
(* "fx" of each element and the ticks of the timer.                        *)
(*                                                                         *)
(* An animation is [elem, kind, then]: kind is "down", "up" or "width";    *)
(* then, the calls at its end.  p.fx has the timers, the queues and which  *)
(* elements are shown; styles other than the display are left out.         *)
(***************************************************************************)
EXTENDS Integers, SequencesExt, Deferred

CONSTANTS
    Elems       \* elements that are animated

(* timers: jQuery.timers, each an animation with its deferred; queue: what *)
(* waits; busy: the queue has "inprogress" in front; shown: the display is *)
(* not "none".                                                             *)
Still(shown) ==
    [timers |-> <<>>, queue |-> [e \in Elems |-> <<>>], busy |-> [e \in Elems |-> FALSE],
     shown |-> [e \in Elems |-> e \in shown]]

AtRest(fx, elem) == \A i \in DOMAIN fx.timers : fx.timers[i].elem # elem

-----------------------------------------------------------------------------

Animate(elem, kind, then) == [elem |-> elem, kind |-> kind, then |-> then]

slideDown(elem) == Call("animate", Animate(elem, "down", <<>>))
slideUp(elem, then) == Call("animate", Animate(elem, "up", then))
animateWidth(elem, then) == Call("animate", Animate(elem, "width", then))

(* animate(): into the queue, and started if nothing is in progress. *)
animate(p, anim) ==
    Do([p EXCEPT !.fx.queue[anim.elem] = Append(@, anim)],
       IF p.fx.busy[anim.elem] THEN <<>> ELSE <<Call("dequeue", anim.elem)>>)

(* defaultPrefilter(): a slide that is there already has no tween; at its  *)
(* end, a slide up hides the element.                                      *)
Moot(fx, anim) ==
    \/ anim.kind = "down" /\ fx.shown[anim.elem]
    \/ anim.kind = "up" /\ ~ fx.shown[anim.elem]

Prefiltered(anim) == Attach(Pending, IF anim.kind = "up" THEN <<Call("hide", anim.elem)>> ELSE <<>>, <<>>)

(* The complete() of speed(): the caller's function, then the queue. *)
complete(anim) == anim.then \o <<Call("dequeue", anim.elem)>>

(* Animation(): one without tweens ends at the first call of its timer,    *)
(* before its functions are attached.                                      *)
Animation(p, anim) ==
    IF Moot(p.fx, anim)
    THEN Do(p, Late(resolveWith(Pending).deferred, complete(anim)))
    ELSE [p EXCEPT
            !.fx.timers = Append(@, [elem |-> anim.elem, deferred |-> Attach(Prefiltered(anim), complete(anim), <<>>)]),
            !.fx.shown[anim.elem] = @ \/ anim.kind = "down"]

dequeue(p, elem) ==
    IF p.fx.queue[elem] = <<>> THEN [p EXCEPT !.fx.busy[elem] = FALSE]
    ELSE Animation([p EXCEPT !.fx.queue[elem] = Tail(@), !.fx.busy[elem] = TRUE],
                   Head(p.fx.queue[elem]))

hide(p, elem) == [p EXCEPT !.fx.shown[elem] = FALSE]

(* jQuery.fx.tick() when the i-th timer is at its end. *)
tick(p, i) ==
    Do([p EXCEPT !.fx.timers = RemoveAt(@, i)], resolveWith(p.fx.timers[i].deferred).calls)

=============================================================================
