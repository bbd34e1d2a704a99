------------------------ MODULE TilingWindowManager ------------------------
(***************************************************************************)
(* The tiling policy of miral-shell (tiling_window_manager.cpp) with the   *)
(* outputs it listens to: every application has a tile, and its windows    *)
(* stay there.                                                             *)
(*                                                                         *)
(* dirty_tiles never outlives a request: advise_end() clears it, so it is  *)
(* a parameter here.  Which window select_active_window() ends at is       *)
(* BasicWindowManager.tla's subject; here it is one of the same tree, or   *)
(* none.  The pointer's earlier position is whatever it may be.  The       *)
(* splash screen's application, which has no tile, is left out.            *)
(***************************************************************************)
EXTENDS WindowGeometry, ActiveOutputs

CONSTANTS
    Apps,           \* identities of applications
    cascade_step,   \* the displacement between an application's windows
    FirstConfig,    \* the configuration when the server starts
    MaxUses,        \* bound: how many requests change, drag, resize or toggle
    MaxRequests     \* bound: how many requests and configurations there are

ASSUME TilingAssumption ==
    /\ {cascade_step, MaxUses, MaxRequests} \subseteq Nat
    /\ FirstConfig \in Configs

VARIABLES
    displays,       \* displays: what the tiles are made from
    live_displays,  \* live_displays and dirty_displays: what the monitor has
    dirty_displays, \* told of since, kept apart as it holds another mutex
    uses, requests  \* how many requests there have been

\* The policy keeps on the desk: tile, old_tile by application, and tiles, the
\* applications with a tile of their own, most recent first.
tiling_vars == <<displays, live_displays, dirty_displays, uses, requests>>
vars == <<outputs, desk, applied, config, step, tiling_vars>>

AppOf(d, w)  == d.info[w].app
Known(d)     == DOMAIN d.tile
Own(d, a)    == Remaining(d.windows, {i \in DOMAIN d.windows : AppOf(d, d.windows[i]) = a})
TopLevel(d)  == {w \in Live(d) : d.info[w].parent = NoWindow}

Min2(a, b) == IF a < b THEN a ELSE b
Max2(a, b) == IF a > b THEN a ELSE b
Smaller(s, t) == Size(Min2(s.width, t.width), Min2(s.height, t.height))

\* The windows select_active_window(w) may end at.
Selected(d, w) ==
    LET Tree(x) == {x} \cup Below(d, x)
    IN  {x \in Focusable(d) : \E r \in TopLevel(d) : {x, w} \subseteq Tree(r)}

-----------------------------------------------------------------------------
(* Keeping windows in their tiles.                                         *)

\* Faulty: a window's far corner may be outside.
constrain_corner(mods, now, tile) ==
    IF ~is_set(mods, "top_left") THEN mods
    ELSE Assign(mods, "top_left", Point(Max2(tile.top_left.x, mods.top_left.x),
                                        Max2(tile.top_left.y, mods.top_left.y)))

constrain_size_and_place(mods, now, tile) ==
    LET sized  == IF is_set(mods, "size")
                  THEN Assign(mods, "size", Smaller(tile.size, mods.size)) ELSE mods
        wanted == IF is_set(mods, "top_left")
                  THEN Point(Max2(tile.top_left.x, mods.top_left.x),
                             Max2(tile.top_left.y, mods.top_left.y))
                  ELSE now.top_left
        far    == Plus(wanted, Span(value_or(sized, "size", now.size)))
        over   == Minus(far, bottom_right(tile))
        placed == Minus(wanted, Point(Max2(over.x, 0), Max2(over.y, 0)))
    IN  IF placed # now.top_left THEN Assign(sized, "top_left", placed)
        ELSE Consume(sized, "top_left")

\* confirm_inherited_move(): a child stays in the tile.
tiling_confirm_inherited_move(d, w, movement) ==
    LET now  == d.rect[w]
        mods == constrain_size_and_place([top_left |-> Plus(now.top_left, movement)],
                                         now, d.tile[AppOf(d, w)])
    IN  Rect(value_or(mods, "top_left", now.top_left), value_or(mods, "size", now.size))

clip_to_tile(spec, tile) ==
    LET offset == Minus(spec.top_left, tile.top_left)
    IN  [spec EXCEPT !.size = Smaller(Size(tile.size.width - offset.x,
                                           tile.size.height - offset.y), @)]

transform_set_state(state) ==
    IF state \in {"hidden", "minimized"} THEN "hidden" ELSE "restored"

-----------------------------------------------------------------------------
(* The tiles.                                                              *)

without(tiles, a) == Remaining(tiles, {i \in DOMAIN tiles : tiles[i] # a})

push(d, a) == [d EXCEPT !.tiles = <<a>> \o without(@, a)]

\* The tile at an index (from 0) of count: side by side, or from three on the
\* first in the left half and the others below each other in the right.
TileAt(index, count, total) ==
    LET x    == (total.width * index) \div count
        half == total.width \div 2
        rows == count - 1
    IN  CASE count < 3 ->
                Rect(Point(x, 0),
                     Size((total.width * (index + 1)) \div count - x, total.height))
          [] count >= 3 /\ index = 0 -> Rect(Origin, Size(half, total.height))
          [] count >= 3 /\ index > 0 ->
                Rect(Point(half, (total.height * (index - 1)) \div rows),
                     Size(half, total.height \div rows))

\* Faulty: a window only moves.
move_surface(d, w, old, new) ==
    modify_window(d, w, [top_left |-> Plus(d.rect[w].top_left,
                                           Minus(new.top_left, old.top_left))], NoContext)

\* update_surfaces() for a window: it moves with the tile, grows with it where
\* it filled it, and is cut off at the far edges.
update_surface(d, w, old, new) ==
    LET now    == d.rect[w]
        offset == Minus(now.top_left, old.top_left)
        scaled == Size(IF now.size.width = old.size.width THEN new.size.width
                       ELSE now.size.width,
                       IF now.size.height = old.size.height THEN new.size.height
                       ELSE now.size.height)
        left   == Size(new.size.width - offset.x, new.size.height - offset.y)
    IN  modify_window(d, w, [top_left |-> Plus(new.top_left, offset),
                             size     |-> Smaller(left, scaled)], NoContext)

\* update_tiles(): the origin of the bounding rectangle does not count, and an
\* application without a tile of its own yet has its windows moved as well.
update_tiles(d, areas) ==
    LET total == bounding_rectangle(areas).size
        At(a) == TileAt((CHOOSE i \in DOMAIN d.tiles : d.tiles[i] = a) - 1,
                        Len(d.tiles), total)
        Tiled == {d.tiles[i] : i \in DOMAIN d.tiles}
        laid  == [d EXCEPT
                    !.old_tile = [a \in Known(d) |-> IF a \in Tiled THEN d.tile[a] ELSE @[a]],
                    !.tile     = [a \in Known(d) |-> IF a \in Tiled THEN At(a) ELSE @[a]]]
        Update(e, w) == IF w \notin TopLevel(e) THEN e
                        ELSE update_surface(e, w, e.old_tile[AppOf(e, w)], e.tile[AppOf(e, w)])
        updated[n \in 0..Len(d.windows)] ==
            IF n = 0 THEN laid ELSE Update(updated[n - 1], d.windows[n])
    IN  IF d.tiles = <<>> \/ areas = <<>> THEN d ELSE updated[Len(d.windows)]

\* A window gains the focus, or none does (advise_focus_gained()).
gained(d, f) == IF f = NoWindow THEN d ELSE push(d, AppOf(d, f))

\* Faulty: the tiles are laid out again only when there are more or fewer.
request_end_counting(before, after) ==
    IF Len(after.tiles) = Len(before.tiles) THEN after ELSE update_tiles(after, displays)

\* advise_end(): whatever pushed or erased a tile made the tiles dirty.  The
\* tiles of a request that pushed the first one again are dirty as well.
request_end(before, after) == update_tiles(after, displays)

-----------------------------------------------------------------------------
(* Applications and their windows.                                         *)

\* A request that takes the desk to d; the tiles are dirty or not.
Request(d, dirty) ==
    /\ requests < MaxRequests
    /\ requests' = requests + 1
    /\ desk' = IF dirty THEN request_end(desk, d) ELSE d
    /\ UNCHANGED <<outputs, displays, live_displays, dirty_displays, monitor_vars>>

\* A tile is guessed at until there is one.
advise_new_app ==
    \E a \in Apps \ Known(desk) :
        LET all   == bounding_rectangle(displays)
            guess == IF desk.tiles = <<>> THEN all
                     ELSE [all EXCEPT !.size.width = Half(Span(all.size)).x]
        IN  Request([desk EXCEPT !.tile = Assign(@, a, guess),
                              !.old_tile = Assign(@, a, NoArea)], FALSE)

erase(d, a) == [d EXCEPT !.tiles = without(@, a)]

\* The session ends; its windows are gone by then.
advise_delete_app ==
    \E a \in Known(desk) :
        LET Others(f) == [b \in Known(desk) \ {a} |-> f[b]]
            d == erase(desk, a)
        IN  /\ Own(desk, a) = <<>>
            /\ Request([d EXCEPT !.tile = Others(@), !.old_tile = Others(@)], TRUE)

\* place_new_window(): the first window fills the tile; the later ones without
\* a parent start where the number of those before them says.
place_new_window(d, a, spec, p) ==
    LET tile  == d.tile[a]
        count == Len(SelectSeq(Own(d, a), LAMBDA w : w \in TopLevel(d)))
        stated == [spec EXCEPT !.state = transform_set_state(@)]
        placed == IF p # NoWindow THEN stated
                  ELSE IF Own(d, a) = <<>>
                  THEN [stated EXCEPT !.top_left = tile.top_left, !.size = tile.size]
                  ELSE [stated EXCEPT !.top_left =
                            Plus(tile.top_left, Point(count * cascade_step, count * cascade_step))]
    IN  clip_to_tile(placed, tile)

\* advise_new_window(): a normal window on its own is maximized, to its tile.
advise_new_window(d, w) ==
    LET info == d.info[w]
        mods == place_and_size_for_state(outputs, [state |-> "maximized"], info, d.rect[w])
    IN  IF info.type = "normal" /\ info.parent = NoWindow /\ info.state = "restored"
        THEN modify_window(d, w, constrain_size_and_place(mods, d.rect[w], d.tile[info.app]),
                           NoContext)
        ELSE d

add_surface ==
    \E a \in Known(desk), params \in Creations, w \in Windows \ Live(desk),
       ctx \in Contexts(desk) :
    \E p \in IF params.parent THEN {x \in Live(desk) : AppOf(desk, x) = a} ELSE {NoWindow} :
        LET chosen == NewSurface([desk EXCEPT !.windows = Own(desk, a)], params, p, ctx)
            built  == Built(desk, w, place_new_window(desk, a, chosen, p), p)
            d      == [built EXCEPT !.info[w] = Assign(Assign(@, "app", a), "ready", FALSE)]
        IN  Request(advise_new_window(d, w), FALSE)

\* handle_window_ready(), after the first frame: the application gets a tile
\* of its own whether or not the window can be active.
handle_window_ready ==
    \E w \in Live(desk) :
    \E f \in IF can_be_active(desk.info[w].type) THEN Selected(desk, w) \cup {NoWindow}
             ELSE {NoWindow} :
        LET d == [desk EXCEPT !.info[w].ready = TRUE]
        IN  /\ ~desk.info[w].ready
            /\ Request(push(gained(d, f), AppOf(d, w)), TRUE)

\* The window manager removes the window and may focus another.
remove_surface ==
    \E w \in Live(desk) :
        LET d == Removed(desk, w)
        IN  \E f \in Focusable(d) \cup {NoWindow} : Request(gained(d, f), f # NoWindow)

\* handle_modify_window(), after the window manager has filled in what the
\* state entails; a window that is hidden may pass on the focus.
handle_modify_window ==
    \E w \in Live(desk), request \in Requests :
    \E ctx \in ContextsOf(desk, request) :
        LET asked == from_modification(request)
            mods  == constrain_size_and_place(
                        place_and_size_for_state(outputs, asked, desk.info[w], desk.rect[w]),
                        desk.rect[w], desk.tile[AppOf(desk, w)])
            d     == modify_window(desk, w, Consume(mods, "output_id"), ctx)
            hides == value_or(asked, "state", "restored") \in HiddenStates
        IN  /\ size_accepted(asked)
            /\ \E f \in IF hides THEN Focusable(d) \cup {NoWindow} ELSE {NoWindow} :
                    Request(gained(d, f), f # NoWindow)

-----------------------------------------------------------------------------
(* Input.                                                                  *)

\* click(), a touch and handle_raise_window(): a window is selected.
select ==
    \E f \in Focusable(desk) : Request(gained(desk, f), TRUE)

\* Both positions of the pointer are in the tile of one application, which
\* need not be that of the window; the first match is in the order of the map.
application_under(cursor) == {a \in Known(desk) : Holds(desk.tile[a], cursor)}

Grasped(old, new, a, w) ==
    /\ {old, new} \subseteq Cursors /\ old # new
    /\ a \in application_under(old) \cap application_under(new)
    /\ \E x \in Live(desk) : Holds(desk.rect[x], old) /\ w \in Selected(desk, x)

drag ==
    \E old, new \in Cursors, a \in Known(desk), w \in Focusable(desk) :
        LET now  == desk.rect[w]
            mods == constrain_size_and_place([top_left |-> Plus(now.top_left, Minus(new, old))],
                                             now, desk.tile[a])
        IN  /\ Grasped(old, new, a, w)
            /\ Request(gained(modify_window(desk, w, mods, NoContext), w), TRUE)

\* resize(): the size is scaled with the distance from the top left corner, as
\* far as the tile goes.  The surface is resized past the window manager.
Scaled(now, old, new, tile) ==
    LET from  == Minus(old, now.top_left)
        to    == Minus(new, now.top_left)
        Scale(n, a, b) == Quot(n * a, Max2(1, b))
        limit == Minus(bottom_right(tile), now.top_left)
    IN  IF to.x <= 0 \/ to.y <= 0 THEN now.size
        ELSE Smaller(Size(Scale(now.size.width, to.x, from.x),
                          Scale(now.size.height, to.y, from.y)),
                     Size(limit.x, limit.y))

resize ==
    \E old, new \in Cursors, a \in Known(desk), w \in Focusable(desk) :
        /\ Grasped(old, new, a, w)
        /\ Request(gained([desk EXCEPT !.rect[w].size = Scaled(desk.rect[w], old, new, desk.tile[a])],
                          w), TRUE)

\* The state asked for is transformed, and no size goes with it.
toggle(state) ==
    \E w \in Focusable(desk) :
        LET wanted == IF desk.info[w].state = state THEN "restored" ELSE state
        IN  Request(modify_window(desk, w, [state |-> transform_set_state(wanted)], NoContext),
                    FALSE)

\* Alt, Shift or Ctrl with F11; Alt-Tab and Alt-grave move the focus.  (The
\* other keys launch and close clients.)
handle_keyboard_event ==
    \/ \E state \in {"maximized", "vertmaximized", "horizmaximized"} : toggle(state)
    \/ select

\* Three fingers drag and four resize, and so do two buttons of the pointer
\* with Alt.
handle_touch_event == drag \/ resize

-----------------------------------------------------------------------------
(* Outputs.                                                                *)

\* What the policy makes of what it hears: the areas and whether they changed.
advise_output_create(live, o) == Append(live, o.area)

\* Faulty: the old area stays.
advise_output_update_keeping(live, updated, original) == Append(live, updated.area)

advise_output_update(live, updated, original) ==
    Append(RemoveRect(live, original.area), updated.area)

advise_output_delete(live, o) == RemoveRect(live, o.area)

Heard(live, told) ==
    CASE told.call = "none"   -> live
      [] told.call = "create" -> advise_output_create(live, told.output)
      [] told.call = "update" -> advise_output_update(live, told.output, told.original)
      [] told.call = "delete" -> advise_output_delete(live, told.output)

OutputAdvised ==
    /\ NextOutput
    /\ live_displays' = Heard(live_displays, Told)
    /\ dirty_displays' = (dirty_displays \/ Told.call # "none")
    /\ UNCHANGED <<outputs, desk, displays, uses, requests>>

\* Under the window manager's mutex.
advise_output_end ==
    /\ Applied
    /\ displays' = IF dirty_displays THEN live_displays ELSE displays
    /\ desk' = IF dirty_displays THEN update_tiles(desk, live_displays) ELSE desk
    /\ dirty_displays' = FALSE
    /\ UNCHANGED <<outputs, live_displays, uses, requests>>

\* add_display() and remove_display(): the window manager hears of the same
\* configuration from Mir, at any time.  (What the single calls do to fullscreen
\* windows is ShellPolicies.tla's subject.)
DisplaysReplaced ==
    LET lit == SelectSeq(config, LAMBDA o : o.connected /\ o.on)
        now == [i \in DOMAIN lit |-> [id |-> lit[i].id, area |-> lit[i].area]]
    IN  /\ outputs # now
        /\ outputs' = now
        /\ desk' \in Refitted(desk, now)
        /\ UNCHANGED <<displays, live_displays, dirty_displays, uses, requests, monitor_vars>>

-----------------------------------------------------------------------------

\* The policy has heard of the first configuration.
Init ==
    LET first == Connected(FirstConfig)
        areas == [i \in DOMAIN first |-> first[i].area]
    IN  /\ applied = first /\ config = FirstConfig /\ step = 0
        /\ outputs = [i \in DOMAIN first |-> [id |-> first[i].id, area |-> first[i].area]]
        /\ displays = areas /\ live_displays = areas /\ dirty_displays = FALSE
        /\ desk = [windows |-> <<>>, info |-> NothingSet, rect |-> NothingSet,
                   fullscreen |-> {}, tile |-> NothingSet, old_tile |-> NothingSet,
                   tiles |-> <<>>]
        /\ uses = 0 /\ requests = 0

Client == advise_new_app \/ advise_delete_app \/ add_surface \/ handle_window_ready
            \/ remove_surface \/ select
Use == handle_modify_window \/ handle_touch_event \/ handle_keyboard_event
OutputsAdvised == OutputAdvised \/ advise_output_end \/ DisplaysReplaced

\* A new configuration counts as a request.
Reconfigured ==
    /\ configuration_applied
    /\ requests < MaxRequests /\ requests' = requests + 1
    /\ UNCHANGED <<outputs, desk, displays, live_displays, dirty_displays, uses>>

Next == \/ Client /\ UNCHANGED uses
        \/ uses < MaxUses /\ Use /\ uses' = uses + 1
        \/ Reconfigured
        \/ OutputsAdvised

Spec == Init /\ [][Next]_vars

-----------------------------------------------------------------------------
(* Properties.                                                             *)

Tiled(d) == {d.tiles[i] : i \in DOMAIN d.tiles}

\* The displays the tiles are made from are those of the configuration that was
\* told last as a whole, whatever part of the next one has been told, and
\* requests in between never see another (live_displays, invoke_under_lock()).
DisplaysWhole == ExtentsOf([i \in DOMAIN displays |-> [area |-> displays[i]]]) = ExtentsOf(applied)

\* The tiles that count are always those of the present order and displays, no
\* two share a spot, and none leaves the displays' bounding size
\* (update_tiles(), and that everything that changes the order makes the tiles
\* dirty).
TilesCurrent ==
    LET total == bounding_rectangle(displays).size
    IN  displays # <<>> =>
            \A i, j \in DOMAIN desk.tiles :
                /\ desk.tile[desk.tiles[i]] = TileAt(i - 1, Len(desk.tiles), total)
                /\ Contains(Rect(Origin, total), desk.tile[desk.tiles[i]])
                /\ i # j => ~overlaps(desk.tile[desk.tiles[i]], desk.tile[desk.tiles[j]])

\* A window that fills its tile fills the next one, whatever makes the tiles
\* change, unless a request changes windows as well (update_surfaces(),
\* old_tile).  It takes a tile of the application's own: until there is one,
\* every new layout moves the windows from the origin to the first guess, which
\* is elsewhere when the displays are.  Fullscreen windows follow the displays.
FillsTile ==
    [][\A w \in TopLevel(desk) \cap TopLevel(desk') :
            LET a == AppOf(desk, w)
            IN  /\ a \in Tiled(desk') /\ w \notin desk.fullscreen
                /\ desk.rect[w] = desk.tile[a] /\ uses' = uses
                => desk'.rect[w] = desk'.tile[a]]_vars

\* A window inside its tile stays inside as long as the tile stays, whatever
\* the user and the client ask for, once all applications have a tile of their
\* own (constrain_size_and_place()).
KeptInTile ==
    [][\A w \in Live(desk) \cap Live(desk') :
            LET a == AppOf(desk, w)
            IN  /\ Tiled(desk) = Known(desk)
                /\ desk'.tile[a] = desk.tile[a]
                /\ Contains(desk.tile[a], desk.rect[w])
                => Contains(desk'.tile[a], desk'.rect[w])]_vars
=============================================================================
