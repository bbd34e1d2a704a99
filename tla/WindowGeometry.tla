--------------------------- MODULE WindowGeometry ---------------------------
(***************************************************************************)
(* The geometry half of miral::BasicWindowManager: where its windows are,  *)
(* which rectangle they go back to, and the displays they are on.          *)
(*                                                                         *)
(* BasicWindowManager.tla models the same operations for focus, workspaces *)
(* and the changes of type and parent.  Here the focus is whatever window  *)
(* or none (every operation takes the active window as a parameter), the   *)
(* windows belong to one client, and parents never change.                 *)
(*                                                                         *)
(* An operation is a function from one "desk" to the next, since the       *)
(* policy calls back into the window manager before a request is done.     *)
(* The window manager's mutex makes every request one action.              *)
(***************************************************************************)
EXTENDS Placement

CONSTANTS
    Windows,        \* identities of windows
    NoWindow,       \* the null Window
    OutputAreas,    \* the area of each output that can be connected, by id
    Creations,      \* what clients create: records of creation parameters, in
                    \* which "parent" is TRUE where there is to be one
    Requests,       \* what clients ask for of their windows
    Movements,      \* displacements of a drag, and of a finger
    Cursors,        \* positions of the pointer
    confirm_inherited_move(_, _, _) \* the policy's: the rectangle of a window of
                    \* a desk whose parent makes a movement

ASSUME GeometryAssumption ==
    /\ NoWindow \notin Windows
    /\ 0 \notin DOMAIN OutputAreas

\* Everything Mir passes on is of its type; a new window always comes with a
\* position, a size and an output.
ASSUME DataAssumption ==
    /\ \A id \in DOMAIN OutputAreas : OutputAreas[id] \in Rects
    /\ \A params \in Creations :
        /\ {"top_left", "size", "output_id"} \subseteq DOMAIN params
        /\ WellTyped(from_creation(params))
    /\ \A request \in Requests : WellTyped(from_modification(request))
    /\ Movements \subseteq Points /\ Cursors \subseteq Points

VARIABLES
    outputs,    \* connected outputs, in order: records [id, area]
    desk        \* windows    the client's ApplicationInfo::windows()
                \* info       WindowInfo by live window, with its parent
                \* rect       position and size of a window's surface
                \* fullscreen fullscreen_surfaces
                \* ... and what a policy keeps of its own

Live(d) == DOMAIN d.info
Displays == Areas(outputs)

children(d, w) == {x \in Live(d) : d.info[x].parent = w}

\* A window's descendants; nothing here makes a cycle of parents.
Below(d, w) ==
    LET level[n \in 0..Cardinality(Live(d))] ==
            IF n = 0 THEN {w} ELSE UNION {children(d, x) : x \in level[n - 1]}
    IN  UNION {level[n] : n \in 1..Cardinality(Live(d))}

\* The rectangle of a window, if it is one.
RectOf(d, w) == IF w = NoWindow THEN <<>> ELSE <<d.rect[w]>>

\* The windows that may have the focus, and the display in use then; a context
\* ctx is [active, cursor].
Focusable(d) ==
    {w \in Live(d) : d.info[w].state \notin HiddenStates /\ can_be_active(d.info[w].type)}

Contexts(d) == [active : Focusable(d) \cup {NoWindow}, cursor : Cursors]

\* Where neither matters.
NoContext == [active |-> NoWindow, cursor |-> Origin]

\* Only with placement hints does a request depend on the display in use.
ContextsOf(d, request) ==
    IF is_set(request, "placement_hints") THEN Contexts(d) ELSE {NoContext}

ActiveDisplay(d, ctx) ==
    active_display(outputs, RectOf(d, ctx.active), ctx.cursor)

-----------------------------------------------------------------------------
(* What the operations are made of.                                        *)

\* Faulty: the children stay where they are.
move_alone(d, w, movement) == [d EXCEPT !.rect[w].top_left = Plus(@, movement)]

\* move_tree(): the children go where the policy confirms, and what that makes
\* of their own movement goes on to theirs.  A window that stays where it is
\* has none to pass on.
move_tree(d, w, movement) ==
    LET root == [x \in {w} |-> [d.rect[x] EXCEPT !.top_left = Plus(@, movement)]]
        moved[n \in 0..Cardinality(Live(d))] ==
            IF n = 0 THEN root
            ELSE LET By(x)  == Minus(moved[n - 1][x].top_left, d.rect[x].top_left)
                     movers == {x \in DOMAIN moved[n - 1] : By(x) # Origin}
                 IN  [c \in UNION {children(d, x) : x \in movers} |->
                        confirm_inherited_move(d, c, By(d.info[c].parent))]
    IN  [d EXCEPT !.rect = [x \in Live(d) |->
            LET n == {i \in DOMAIN moved : x \in DOMAIN moved[i]}
            IN  IF n = {} THEN d.rect[x] ELSE moved[CHOOSE i \in n : TRUE][x]]]

place_and_size(d, w, r) ==
    move_tree([d EXCEPT !.rect[w].size = r.size], w, Minus(r.top_left, d.rect[w].top_left))

\* Faulty: a window that goes back to another state stays in the set.
set_state_keeping(d, w, state) ==
    [d EXCEPT !.info[w].state = state,
              !.fullscreen = IF state = "fullscreen" THEN @ \cup {w} ELSE @]

set_state(d, w, state) ==
    [d EXCEPT !.info[w].state = state,
              !.fullscreen = IF state = "fullscreen" THEN @ \cup {w} ELSE @ \ {w}]

Limits == {"min_width", "min_height", "max_width", "max_height", "width_inc", "height_inc"}

\* The fields COPY_IF_SET copies, as far as they are modelled.
CopiedFields == Limits \cup {"min_aspect", "max_aspect", "output_id"}

\* modify_window(), after its changes of type and parent.
Resized(d, w, mods) ==
    LET now == d.rect[w]
        pos == value_or(mods, "top_left", now.top_left)
    IN  IF is_set(mods, "size") THEN place_and_size(d, w, Rect(pos, mods.size))
        ELSE IF DOMAIN mods \cap Limits # {}
        THEN place_and_size(d, w, constrain_resize(d.info[w], now, Rect(pos, now.size)))
        ELSE IF is_set(mods, "top_left") THEN place_and_size(d, w, Rect(pos, now.size))
        ELSE d

PlacedByHints(d, w, mods, ctx) ==
    IF is_set(mods, "placement_hints") /\ d.info[w].parent # NoWindow
    THEN place_and_size(d, w,
            place_relative(ActiveDisplay(d, ctx), d.rect[d.info[w].parent], mods, d.rect[w].size))
    ELSE d

\* Faulty: the place to go back to is taken whatever the old state.
RememberAlways(info, now, mods) ==
    IF is_set(mods, "state") /\ mods.state # info.state
    THEN [info EXCEPT !.restore_rect = now] ELSE info

Remember(info, now, mods) ==
    IF is_set(mods, "state") /\ mods.state # info.state
    THEN [info EXCEPT !.restore_rect = RestoreRect(info, now)] ELSE info

WithState(d, w, mods) ==
    IF is_set(mods, "state") THEN set_state(d, w, mods.state) ELSE d

modify_window(d, w, mods, ctx) ==
    LET copied == CopySet(d.info[w], Only(mods, CopiedFields))
        begun  == [d EXCEPT !.info[w] = Remember(copied, d.rect[w], mods)]
    IN  WithState(PlacedByHints(Resized(begun, w, mods), w, mods, ctx), w, mods)

\* What a request for a state comes to: place_and_size_for_state() and then
\* modify_window().
Modify(d, w, mods, ctx) ==
    modify_window(d, w, place_and_size_for_state(outputs, mods, d.info[w], d.rect[w]), ctx)

\* set_surface_attribute() makes a request of the one attribute (a type, a
\* state or an orientation) and handles it like any other.
AttributeRequest(attrib, value) == (attrib :> value)

\* The size check of a modification request.  (Types are WindowInfo.tla's.)
size_accepted(mods) ==
    is_set(mods, "size") => mods.size.width > 0 /\ mods.size.height > 0

-----------------------------------------------------------------------------
(* Building and removing windows.                                          *)

\* The desk with a window built as the policy decided.
Built(d, w, spec, p) ==
    [d EXCEPT !.windows    = Append(@, w),
              !.info       = Assign(@, w, Assign(BuiltInfo(spec), "parent", p)),
              !.rect       = Assign(@, w, Rect(spec.top_left, spec.size)),
              !.fullscreen = IF spec.state = "fullscreen" THEN @ \cup {w} ELSE @]

\* What place_new_surface() answers for a client's parameters.
NewSurface(d, params, p, ctx) ==
    place_new_surface(
        outputs,
        ActiveDisplay(d, ctx),
        RectOf(d, IF d.windows = <<>> THEN NoWindow ELSE Head(d.windows)),
        RectOf(d, p),
        from_creation(params))

Removed(d, w) ==
    LET others == Live(d) \ {w}
    IN  [d EXCEPT !.windows    = Remaining(@, {i \in DOMAIN @ : @[i] # w}),
                  !.info       = [x \in others |-> [d.info[x] EXCEPT
                                        !.parent = IF @ = w THEN NoWindow ELSE @]],
                  !.rect       = [x \in others |-> @[x]],
                  !.fullscreen = @ \ {w}]

-----------------------------------------------------------------------------
(* Displays.  The fullscreen windows are taken in the set's order, which   *)
(* is that of addresses.                                                   *)

Refit(d, outs, w) ==
    place_and_size(d, w, fullscreen_rect_for(outs, d.info[w], d.rect[w]))

\* All the outcomes of fitting the fullscreen windows to the outputs.
Refitted(d, outs) ==
    LET Orders == {o \in [1..Cardinality(d.fullscreen) -> d.fullscreen] :
                      \A i, j \in DOMAIN o : i # j => o[i] # o[j]}
        Fit(order) ==
            LET f[n \in 0..Len(order)] ==
                    IF n = 0 THEN d ELSE Refit(f[n - 1], outs, order[n])
            IN  f[Len(order)]
    IN  {Fit(order) : order \in Orders}

\* The outputs without that one.
Unplugged(outs, id) == Remaining(outs, {i \in DOMAIN outs : outs[i].id # id})
=============================================================================
