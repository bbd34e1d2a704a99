---------------------------- MODULE ShellPolicies ----------------------------
(***************************************************************************)
(* Windows placed, moved and resized under a policy: the kiosk's           *)
(* (miral-kiosk/kiosk_window_manager.cpp) or that of the titlebar shell    *)
(* (miral-shell/titlebar_window_manager.cpp).                              *)
(*                                                                         *)
(* The input gestures are those of the titlebar shell; its workspaces are  *)
(* TitlebarWorkspaces.tla's and its decorations Decorations.tla's subject. *)
(* That a gesture is throttled to one step in 20 ms is left out: a step    *)
(* may come at any time.                                                   *)
(***************************************************************************)
EXTENDS WindowGeometry

CONSTANTS
    Policies,   \* the policies tried: "kiosk", "titlebar"
    FirstOutput,\* the output connected when the server starts
    Corners,    \* the corners a gesture can take hold of: <<left, top>>
    MinExtent,  \* the least width and height a gesture leaves
    Fingers,    \* what three fingers can span: rectangles
    Desk,       \* bound: the area windows are followed in
    MaxSteps    \* bound: how many operations are followed

ASSUME PoliciesAssumption ==
    /\ Policies \subseteq {"kiosk", "titlebar"}
    /\ FirstOutput \in DOMAIN OutputAreas
    /\ Corners \subseteq BOOLEAN \X BOOLEAN
    /\ MinExtent \in Nat \ {0}
    /\ Fingers \subseteq [top_left : Points, size : Sizes]
    /\ MaxSteps \in Nat

VARIABLES
    home,       \* what the properties remember: for each window where it
                \* would be if it had been restored all along
    last,       \* ... and what the latest operation was
    steps,      \* number of operations so far
    policy,     \* the policy of this run of the server
    gesture     \* resizing, pinching, left_resize, top_resize, and the
                \* rectangle old_touch_pinch_* describes

vars == <<outputs, desk, home, last, steps, policy, gesture>>

-----------------------------------------------------------------------------
(* What the operations have in common.                                     *)

\* confirm_inherited_move() of the canonical policy: the same movement.
canonical_confirm_inherited_move(d, w, movement) ==
    [d.rect[w] EXCEPT !.top_left = Plus(@, movement)]

\* Where each window would be had it always been restored: it goes along the
\* axes its state leaves free.  A new window starts where it was placed.
Homes(d, was, op) ==
    [w \in Live(d) |->
        LET free == Free(d.info[w].state)
            now  == d.rect[w]
            old  == IF w \in DOMAIN was THEN was[w] ELSE op.placed
        IN  Rect(Point(IF "x" \in free THEN now.top_left.x ELSE old.top_left.x,
                       IF "y" \in free THEN now.top_left.y ELSE old.top_left.y),
                 Size(IF "x" \in free THEN now.size.width ELSE old.size.width,
                      IF "y" \in free THEN now.size.height ELSE old.size.height))]

\* One operation that takes the desk to d by way of mid; op describes it.
StepVia(mid, d, op) ==
    /\ \A w \in Live(d) : Contains(Desk, d.rect[w])
    /\ desk' = d
    /\ home' = Homes(d, Homes(mid, home, op), op)
    /\ last' = op
    /\ steps' = steps + 1
    /\ UNCHANGED policy

Step(d, op) == StepVia(d, d, op)

\* end_resize(), called when a gesture is over: the active window is fitted to
\* its limits.
end_resize(d, ctx) ==
    LET w == ctx.active
    IN  IF ~(gesture.resizing \/ gesture.pinching) \/ w = NoWindow THEN d
        ELSE LET r == constrain_resize(d.info[w], d.rect[w], d.rect[w])
             IN  modify_window(d, w, [top_left |-> r.top_left, size |-> r.size], ctx)

Over(g) == [g EXCEPT !.resizing = FALSE, !.pinching = FALSE]

Op(name, w) == [op |-> name, window |-> w]

\* One the properties do not ask for.
Other == Op("other", NoWindow)

-----------------------------------------------------------------------------
(* Clients.                                                                *)

\* The titlebar policy's place_new_window() leaves room for the titlebar; the
\* kiosk's keeps what the window manager chose.
place_new_window(spec) ==
    IF policy = "titlebar" /\ spec.state # "fullscreen" /\ needs_titlebar(spec.type)
    THEN [spec EXCEPT !.top_left.y = @ + title_bar_height] ELSE spec

\* advise_new_window(): the kiosk maximizes the windows without a parent.
advise_new_window(d, w, ctx) ==
    LET info == d.info[w] IN
    IF policy = "kiosk" /\ info.type = "normal" /\ info.parent = NoWindow
       /\ info.state = "restored"
    THEN Modify(d, w, [state |-> "maximized"], ctx) ELSE d

\* params.parent: whether there is to be a parent; which one is Mir's to know.
add_surface ==
    \E params \in Creations, w \in Windows \ Live(desk), ctx \in Contexts(desk) :
    \E p \in IF params.parent THEN Live(desk) ELSE {NoWindow} :
        LET spec == place_new_window(NewSurface(desk, params, p, ctx))
            d    == Built(desk, w, spec, p)
        IN  /\ Step(advise_new_window(d, w, ctx),
                    [op |-> "add", window |-> w, placed |-> Rect(spec.top_left, spec.size),
                     display |-> ActiveDisplay(desk, ctx),
                     hints |-> value_or(params, "placement_hints", {})])
            /\ UNCHANGED <<outputs, gesture>>

modify_surface ==
    \E w \in Live(desk), request \in Requests :
    \E ctx \in ContextsOf(desk, request) :
        LET mods == from_modification(request)
        IN  /\ size_accepted(mods)
            /\ Step(Modify(desk, w, mods, ctx), Other)
            /\ UNCHANGED <<outputs, gesture>>

remove_surface ==
    \E w \in Live(desk) : /\ Step(Removed(desk, w), Other)
                          /\ UNCHANGED <<outputs, gesture>>

-----------------------------------------------------------------------------
(* Displays.                                                               *)

add_display ==
    \E id \in DOMAIN OutputAreas :
        /\ \A i \in DOMAIN outputs : outputs[i].id # id
        /\ outputs' = Append(outputs, [id |-> id, area |-> OutputAreas[id]])
        /\ \E d \in Refitted(desk, outputs') : Step(d, Op("display", NoWindow))
        /\ UNCHANGED gesture

remove_display ==
    \E id \in {outputs[i].id : i \in DOMAIN outputs} :
        /\ outputs' = Unplugged(outputs, id)
        /\ \E d \in Refitted(desk, outputs') : Step(d, Op("display", NoWindow))
        /\ UNCHANGED gesture

-----------------------------------------------------------------------------
(* The titlebar shell's pointer.                                           *)

Draggable == {"normal", "utility", "dialog", "satellite", "freestyle"}

\* drag_window(): along the axes the window's state leaves free.
drag_window(d, w, movement) ==
    LET free == Free(d.info[w].state)
    IN  IF d.info[w].type \notin Draggable \/ free = {} THEN d
        ELSE move_tree(d, w, Point(IF "x" \in free THEN movement.x ELSE 0,
                                   IF "y" \in free THEN movement.y ELSE 0))

\* Motion with Alt and the primary button, or with that button on a titlebar:
\* the window under the pointer is made active and dragged.
drag_active_window ==
    \E w \in Focusable(desk), movement \in Movements :
        LET ctx == [active |-> w, cursor |-> Origin]
        IN  /\ policy = "titlebar"
            /\ LET d == drag_window(desk, w, movement)
               IN  Step(IF gesture.resizing THEN end_resize(d, ctx) ELSE d, Op("drag", w))
            /\ gesture' = IF gesture.resizing THEN Over(gesture) ELSE gesture
            /\ UNCHANGED outputs

\* Faulty: the edge moves even where the size cannot change.
KeptSliding(lo, hi, n, delta) ==
    [n |-> IF n < lo THEN lo ELSE IF n > hi THEN hi ELSE n, delta |-> delta]

\* A length no gesture goes below.
Least(n) == IF n < MinExtent THEN MinExtent ELSE n

\* keep_size_within_limits(): the size allowed, and the movement of the left or
\* top edge that goes with it.
Kept(lo, hi, n, delta) ==
    IF n < lo THEN [n |-> lo, delta |-> IF delta > 0 THEN 0 ELSE delta]
    ELSE IF n > hi THEN [n |-> hi, delta |-> IF delta < 0 THEN 0 ELSE delta]
    ELSE [n |-> n, delta |-> delta]

keep_size_within_limits(info, size, delta) ==
    LET x == Kept(Least(info.min_width), info.max_width, size.width, delta.x)
        y == Kept(Least(info.min_height), info.max_height, size.height, delta.y)
    IN  [size |-> Size(x.n, y.n), delta |-> Point(x.delta, y.delta)]

\* resize(): the edges away from the anchor follow the pointer.
Stretched(d, w, g, delta) ==
    LET now  == d.rect[w]
        Sign(away) == IF away THEN -1 ELSE 1
        kept == keep_size_within_limits(d.info[w],
                    Size(now.size.width + Sign(g.left_resize) * delta.x,
                         now.size.height + Sign(g.top_resize) * delta.y),
                    delta)
    IN  [top_left |-> Plus(now.top_left, Point(IF g.left_resize THEN kept.delta.x ELSE 0,
                                               IF g.top_resize THEN kept.delta.y ELSE 0)),
         size     |-> kept.size]

\* Motion with Alt and the tertiary button.  The first motion activates the
\* window under the pointer and takes as anchor the corner farthest from it,
\* which may be any; the later ones resize what is active then.
resize ==
    \E w \in Focusable(desk), delta \in Movements, corner \in Corners :
        LET g   == [gesture EXCEPT !.resizing = TRUE, !.left_resize = corner[1],
                                   !.top_resize = corner[2]]
            ctx == [active |-> w, cursor |-> Origin]
        IN  /\ policy = "titlebar"
            /\ gesture.resizing => g = gesture
            /\ Step(modify_window(desk, w, Stretched(desk, w, g, delta), ctx),
                    [op |-> "resize", window |-> w, delta |-> delta])
            /\ gesture' = g
            /\ UNCHANGED outputs

\* A pointer event that is no resize, a key, or a touch that is no pinch.
end_gesture ==
    \E ctx \in Contexts(desk) :
        /\ gesture.resizing \/ gesture.pinching
        /\ Step(end_resize(desk, ctx), Op("end", ctx.active))
        /\ gesture' = Over(gesture)
        /\ UNCHANGED outputs

-----------------------------------------------------------------------------
(* The titlebar shell's touch screen and keyboard.                         *)

Pinched(d, w, from, to) ==
    LET now  == d.rect[w]
        kept == keep_size_within_limits(d.info[w],
                    Size(Least(now.size.width + to.size.width - from.size.width),
                         Least(now.size.height + to.size.height - from.size.height)),
                    Minus(to.top_left, from.top_left))
    IN  [top_left |-> Plus(now.top_left, kept.delta), size |-> kept.size]

\* Three fingers move.
pinch ==
    \E w \in Focusable(desk), fingers \in Fingers :
        LET ctx == [active |-> w, cursor |-> Origin]
        IN  /\ policy = "titlebar"
            /\ Step(modify_window(desk, w, Pinched(desk, w, gesture.fingers, fingers), ctx),
                    Op("pinch", w))
            /\ gesture' = [gesture EXCEPT !.pinching = TRUE, !.fingers = fingers]
            /\ UNCHANGED outputs

\* Fingers are put down: what was under way is over, whatever they span is
\* where the next movement starts from.
touch_down ==
    \E ctx \in Contexts(desk), fingers \in Fingers \ {gesture.fingers} :
        /\ policy = "titlebar"
        /\ Step(IF gesture.pinching THEN end_resize(desk, ctx) ELSE desk, Other)
        /\ gesture' = [IF gesture.pinching THEN Over(gesture) ELSE gesture
                        EXCEPT !.fingers = fingers]
        /\ UNCHANGED outputs

\* Where Ctrl, Meta and an arrow key put a window.
Snapped(key, display, info, now) ==
    CASE key = "left"  -> [now.top_left EXCEPT !.x = display.top_left.x]
      [] key = "right" -> [now.top_left EXCEPT !.x = bottom_right(display).x - now.size.width]
      [] key = "up"    ->
            IF info.state \in {"vertmaximized", "maximized"} THEN now.top_left
            ELSE [now.top_left EXCEPT !.y = display.top_left.y + title_bar_height]
      [] key = "down"  -> [now.top_left EXCEPT !.y = bottom_right(display).y - now.size.height]

MovedByKey(d, w, key, ctx) ==
    modify_window(d, w,
        [top_left |-> Snapped(key, ActiveDisplay(d, ctx), d.info[w], d.rect[w])], ctx)

move_by_key ==
    \E key \in {"left", "right", "up", "down"}, w \in Focusable(desk) :
        LET ctx == [active |-> w, cursor |-> Origin]
        IN  /\ policy = "titlebar"
            /\ Step(MovedByKey(end_resize(desk, ctx), w, key, ctx), Op("key", w))
            /\ gesture' = Over(gesture)
            /\ UNCHANGED outputs

\* F11 with a modifier: the window of desk d goes into a state or out of it.
Toggled(d, w, state, ctx) ==
    LET wanted == IF d.info[w].state = state THEN "restored" ELSE state
    IN  StepVia(d, Modify(d, w, [state |-> wanted], ctx), Other)

toggle ==
    \E state \in {"maximized", "vertmaximized", "horizmaximized", "fullscreen"},
       w \in Focusable(desk) :
        LET ctx == [active |-> w, cursor |-> Origin]
        IN  /\ policy = "titlebar"
            /\ Toggled(end_resize(desk, ctx), w, state, ctx)
            /\ gesture' = Over(gesture)
            /\ UNCHANGED outputs

-----------------------------------------------------------------------------
(* The whole.                                                              *)

Init ==
    /\ outputs = <<[id |-> FirstOutput, area |-> OutputAreas[FirstOutput]]>>
    /\ desk = [windows |-> <<>>, info |-> NothingSet, rect |-> NothingSet, fullscreen |-> {}]
    /\ home = NothingSet
    /\ last = Other
    /\ steps = 0
    /\ policy \in Policies
    /\ gesture = [resizing |-> FALSE, pinching |-> FALSE, left_resize |-> FALSE,
                  top_resize |-> FALSE, fingers |-> NoArea]

Client  == add_surface \/ modify_surface \/ remove_surface
Plugs   == add_display \/ remove_display
Gesture == \/ drag_active_window \/ resize \/ end_gesture \/ pinch \/ touch_down
           \/ move_by_key \/ toggle

Next == \/ steps < MaxSteps /\ Client
        \/ steps < MaxSteps /\ Plugs
        \/ steps < MaxSteps /\ Gesture

Spec == Init /\ [][Next]_vars

-----------------------------------------------------------------------------
(* Properties.                                                             *)

\* The infos and the surfaces are of the same windows, parents are live, and
\* the fullscreen set holds just the windows whose state is fullscreen.
TypeOK ==
    /\ DOMAIN desk.rect = Live(desk) /\ DOMAIN home = Live(desk)
    /\ {desk.windows[i] : i \in DOMAIN desk.windows} = Live(desk)
    /\ \A w \in Live(desk) :
        /\ desk.info[w].parent \in (Live(desk) \ {w}) \cup {NoWindow}
        /\ desk.info[w].state \in WindowStates
    /\ desk.fullscreen = {w \in Live(desk) : desk.info[w].state = "fullscreen"}

\* A window that is restored goes back to where it would be had it never been
\* maximized, minimized or fullscreen: restore_rect, saved at one change of
\* state and used at a later one, has kept up with every movement the states
\* in between allowed (modify_window() and place_and_size_for_state()).
RestoreReturns ==
    [][\A w \in Live(desk) \cap DOMAIN desk'.info :
        LET idle == ~gesture.resizing /\ ~gesture.pinching
            restored == /\ desk.info[w].state # "restored"
                        /\ desk'.info[w].state = "restored"
        IN  idle /\ restored => desk'.rect[w] = home[w]]_vars

\* After displays have come or gone, every fullscreen window covers the output
\* it belongs to, or some output if that one is not connected - unless it has
\* been moved along with a fullscreen ancestor (add_display(), remove_display()).
FullscreenCovers ==
    last.op = "display" /\ outputs # <<>> =>
        \A w \in Live(desk) :
            desk.info[w].state = "fullscreen"
            /\ (\A p \in Live(desk) : w \in Below(desk, p) => p \notin desk.fullscreen)
            => \E i \in DOMAIN outputs :
                /\ desk.rect[w] = outputs[i].area
                /\ (\E j \in DOMAIN outputs : outputs[j].id = desk.info[w].output_id)
                        => outputs[i].id = desk.info[w].output_id

\* A new window without a parent is on some display, or its titlebar is,
\* wherever the application's first window has been taken since and whatever
\* became of that one's display (place_new_surface() and the policy).
NewWindowVisible ==
    LET info  == desk.info[last.window]
        rect  == desk.rect[last.window]
        above == IF policy = "titlebar" /\ needs_titlebar(info.type) THEN title_bar_height ELSE 0
        all   == Rect(Plus(rect.top_left, Point(0, -above)),
                      Size(rect.size.width, rect.size.height + above))
    IN  last.op = "add" /\ outputs # <<>> /\ info.parent = NoWindow =>
            \E i \in DOMAIN outputs : overlaps(outputs[i].area, all)

\* A window placed next to part of its parent, with leave to slide both ways,
\* is inside the active display if it fits there at all, wherever the parent
\* is (place_relative()).
SlidInside ==
    last.op = "add" =>
        LET size == last.placed.size IN
        {"slide_x", "slide_y"} \subseteq last.hints
        /\ size.width <= last.display.size.width /\ size.height <= last.display.size.height
            => Contains(last.display, last.placed)

\* A resize gesture moves one edge of a window on either axis, never both: a
\* window that has come to its limits does not slide (resize() and
\* keep_size_within_limits()).  A window that was outside its limits may.
NoSlide ==
    [][last'.op = "resize" =>
        LET w == last'.window  now == desk.rect[w]  then == desk'.rect[w]
            info == desk.info[w]
        IN  /\ \/ now.size.width \notin Least(info.min_width)..info.max_width
               \/ then.top_left.x = now.top_left.x
               \/ bottom_right(then).x = bottom_right(now).x
            /\ \/ now.size.height \notin Least(info.min_height)..info.max_height
               \/ then.top_left.y = now.top_left.y
               \/ bottom_right(then).y = bottom_right(now).y]_vars

\* Whatever moves a window moves all its descendants with it (move_tree()).
TreeTogether ==
    [][last'.op \in {"drag", "key", "resize", "pinch"} =>
        LET w == last'.window
            moved == Minus(desk'.rect[w].top_left, desk.rect[w].top_left)
        IN  \A x \in Below(desk, w) :
                Minus(desk'.rect[x].top_left, desk.rect[x].top_left) = moved]_vars

\* "A maximised window is anchored to the top, bottom, left and right of the
\* available workspace" (the comment in drag_window() and constrain_resize()):
\* no gesture takes it from there.  resize() does not look at the state.
MaximizedAnchored ==
    [][last'.op \in {"drag", "resize", "end"} =>
        LET w == last'.window
        IN  w \in Live(desk) /\ desk.info[w].state = "maximized"
                => desk'.rect[w] = desk.rect[w]]_vars
=============================================================================
