------------------------------ MODULE Placement ------------------------------
(***************************************************************************)
(* Where windows go: the geometry that miral::BasicWindowManager and       *)
(* miral::WindowInfo compute, as operators on rectangles, specifications   *)
(* and the infos of windows.  The arithmetic is the code's; each call of   *)
(* active_display() is a parameter, the display it answers.                *)
(***************************************************************************)
EXTENDS WindowSpecification, WindowInfo

CONSTANT title_bar_height

ASSUME TitleBarAssumption == title_bar_height \in Nat

-----------------------------------------------------------------------------
(* Gravities, offsets and anchors.                                         *)

\* A gravity is the half of the rectangle it points to on either axis:
\* -1 to the west or north, 1 to the east or south, 0 to neither.
Compass ==
    [northwest |-> Point(-1, -1), north  |-> Point(0, -1), northeast |-> Point(1, -1),
     west      |-> Point(-1, 0),  center |-> Point(0, 0),  east      |-> Point(1, 0),
     southwest |-> Point(-1, 1),  south  |-> Point(0, 1),  southeast |-> Point(1, 1)]

Gravities == DOMAIN Compass

Gravity(direction) == CHOOSE g \in Gravities : Compass[g] = direction

\* What is set in a specification is of its type, and hints come with all that
\* they are about: Mir's clients set a placement as a whole.
WellTyped(spec) ==
    /\ is_set(spec, "top_left") => spec.top_left \in Points
    /\ is_set(spec, "size") => spec.size \in Sizes
    /\ is_set(spec, "state") => spec.state \in WindowStates
    /\ \A f \in {"min_width", "min_height", "max_width", "max_height", "width_inc", "height_inc"} :
            is_set(spec, f) => spec[f] \in Int
    /\ \A f \in {"min_aspect", "max_aspect"} : is_set(spec, f) => spec[f] \in Sizes
    /\ is_set(spec, "aux_rect_placement_offset") => spec.aux_rect_placement_offset \in Points
    /\ is_set(spec, "placement_hints") =>
        /\ {"aux_rect", "window_placement_gravity", "aux_rect_placement_gravity"} \subseteq DOMAIN spec
        /\ spec.aux_rect \in [top_left : Points, size : Sizes]
        /\ {spec.window_placement_gravity, spec.aux_rect_placement_gravity} \subseteq Gravities

flip_x(g)    == Gravity(Point(-Compass[g].x, Compass[g].y))
flip_y(g)    == Gravity(Point(Compass[g].x, -Compass[g].y))
antipodes(g) == Gravity(Point(-Compass[g].x, -Compass[g].y))

\* The overloads for displacements.
mirror_x(d) == Point(-d.x, d.y)
mirror_y(d) == Point(d.x, -d.y)

\* Nearest point of the rectangle, whose right and bottom edge belong to it.
constrain_to(r, p) ==
    LET Within(lo, hi, n) == LET m == IF n < lo THEN lo ELSE n IN IF m > hi THEN hi ELSE m
    IN  Point(Within(r.top_left.x, bottom_right(r).x, p.x),
              Within(r.top_left.y, bottom_right(r).y, p.y))

\* The point of an edge of the given length that a gravity selects.
EdgePoint(length, side) ==
    CASE side = -1 -> 0
      [] side = 0  -> Quot(length, 2)
      [] side = 1  -> length

anchor_for(aux, g) ==
    Plus(aux.top_left, Point(EdgePoint(aux.size.width, Compass[g].x),
                             EdgePoint(aux.size.height, Compass[g].y)))

offset_for(size, g) ==
    Point(-EdgePoint(size.width, Compass[g].x), -EdgePoint(size.height, Compass[g].y))

-----------------------------------------------------------------------------
(* place_relative(): the position of a window next to a part of its parent *)

\* The rectangle asked for, with the hints in "flips" applied.
Candidate(parent, params, size, g, flips) ==
    LET fx(x) == IF "flip_x" \in flips THEN flip_x(x) ELSE x
        fy(x) == IF "flip_y" \in flips THEN flip_y(x) ELSE x
        mx(d) == IF "flip_x" \in flips THEN mirror_x(d) ELSE d
        my(d) == IF "flip_y" \in flips THEN mirror_y(d) ELSE d
        offset == value_or(params, "aux_rect_placement_offset", Origin)
        aux == Rect(Plus(params.aux_rect.top_left, parent.top_left), params.aux_rect.size)
        at  == constrain_to(parent, Plus(anchor_for(aux, fx(fy(g))), mx(my(offset))))
    IN  Rect(Plus(at, offset_for(size, fx(fy(params.window_placement_gravity)))), size)

\* Faulty: what overhangs on the right stays.
SlideLeftOnly(display, hints, r) ==
    [r EXCEPT !.top_left.x =
        IF "slide_x" \in hints /\ @ < display.top_left.x THEN display.top_left.x ELSE @]

\* Moved along an axis until it overhangs neither edge, the left or top edge
\* taking precedence.
Slide(display, hints, r) ==
    LET Moved(lo, hi, at, len) ==
            IF at < lo THEN lo ELSE IF at + len > hi THEN hi - len ELSE at
        at == r.top_left
    IN  Rect(Point(IF "slide_x" \in hints
                   THEN Moved(display.top_left.x, top_right(display).x, at.x, r.size.width)
                   ELSE at.x,
                   IF "slide_y" \in hints
                   THEN Moved(display.top_left.y, bottom_left(display).y, at.y, r.size.height)
                   ELSE at.y),
             r.size)

\* Cut at the edges it overhangs.
Cut(display, hints, r) ==
    LET left   == display.top_left.x - r.top_left.x
        right  == bottom_right(r).x - top_right(display).x
        top    == display.top_left.y - r.top_left.y
        bottom == bottom_right(r).y - bottom_left(display).y
        Over(hint, n) == IF hint \in hints /\ n > 0 THEN n ELSE 0
        dx == Over("resize_x", left)
        dy == Over("resize_y", top)
    IN  Rect(Plus(r.top_left, Point(dx, dy)),
             Size(r.size.width - dx - Over("resize_x", right),
                  r.size.height - dy - Over("resize_y", bottom)))

\* The gravities tried, in order.
rect_gravities(params) ==
    LET g == params.aux_rect_placement_gravity
    IN  IF "antipodes" \in params.placement_hints THEN <<g, antipodes(g)>> ELSE <<g>>

\* The flips tried for each gravity, in order.
FlipsTried(hints) ==
    LET all == <<{}, {"flip_x"}, {"flip_y"}, {"flip_x", "flip_y"}>>
    IN  Remaining(all, {i \in DOMAIN all : all[i] \subseteq hints})

\* All that is tried, in order: every flip of every gravity, then every
\* gravity slid, then every gravity cut.  The second gravity is cut from the
\* size the first one left.
Tried(display, parent, params, size) ==
    LET hints   == params.placement_hints
        gs      == rect_gravities(params)
        flips   == FlipsTried(hints)
        flipped == [k \in 1..(Len(gs) * Len(flips)) |->
                      Candidate(parent, params, size, gs[((k - 1) \div Len(flips)) + 1],
                                flips[((k - 1) % Len(flips)) + 1])]
        slid    == [i \in DOMAIN gs |->
                      Slide(display, hints, Candidate(parent, params, size, gs[i], {}))]
        cut[i \in DOMAIN gs] ==
            LET before == IF i = 1 THEN size ELSE cut[i - 1].size
            IN  Cut(display, hints, Candidate(parent, params, before, gs[i], {}))
    IN  flipped \o slid \o [i \in DOMAIN gs |-> cut[i]]

\* The first of some rectangles that is inside the display, else the first.
FirstInside(display, tried) ==
    LET fits == {i \in DOMAIN tried : Contains(display, tried[i])}
    IN  IF fits = {} THEN tried[1]
        ELSE tried[CHOOSE i \in fits : \A j \in fits : i <= j]

place_relative(display, parent, params, default_size) ==
    FirstInside(display, Tried(display, parent, params, value_or(params, "size", default_size)))

-----------------------------------------------------------------------------
(* The size limits of a window.                                            *)

MaxInt == 2147483647

\* The info of a window that has just been built.  The unset aspect ratios
\* bind no more than 0:1 and 1:0 do, which spares the huge numbers.
BuiltInfo(spec) ==
    CopySet(
        [type         |-> value_or(spec, "type", "normal"),
         state        |-> value_or(spec, "state", "restored"),
         restore_rect |-> Rect(spec.top_left, spec.size),
         min_width    |-> value_or(spec, "min_width", 0),
         min_height   |-> value_or(spec, "min_height", 0),
         max_width    |-> value_or(spec, "max_width", MaxInt),
         max_height   |-> value_or(spec, "max_height", MaxInt),
         width_inc    |-> value_or(spec, "width_inc", 1),
         height_inc   |-> value_or(spec, "height_inc", 1),
         min_aspect   |-> value_or(spec, "min_aspect", Size(0, 1)),
         max_aspect   |-> value_or(spec, "max_aspect", Size(1, 0))],
        Only(spec, {"output_id"}))

Clamp(lo, hi, n) == LET m == IF lo > n THEN lo ELSE n IN IF hi < m THEN hi ELSE m

\* The nearest whole number of increments above the minimum.
Stepped(lo, inc, n) ==
    IF (n - lo) % inc = 0 THEN n ELSE lo + inc * Quot(Quot(2 * (n - lo) + inc, 2), inc)

RoundUp(a, b) == Quot(a + b - 1, b)

\* A size narrower than the ratio: widened or lowered, whichever changes less.
AtLeast(ratio, s) ==
    LET error  == s.height * ratio.width - s.width * ratio.height
        wider  == RoundUp(error, ratio.height)
        lower  == RoundUp(error, ratio.width)
    IN  IF error <= 0 THEN s
        ELSE IF wider < lower THEN [s EXCEPT !.width = @ + wider]
        ELSE [s EXCEPT !.height = @ - lower]

AtMost(ratio, s) ==
    LET error    == s.width * ratio.height - s.height * ratio.width
        narrower == RoundUp(error, ratio.height)
        higher   == RoundUp(error, ratio.width)
    IN  IF error <= 0 THEN s
        ELSE IF narrower < higher THEN [s EXCEPT !.width = @ - narrower]
        ELSE [s EXCEPT !.height = @ + higher]

WithinLimits(info, s) ==
    LET clamped == Size(Clamp(info.min_width, info.max_width, s.width),
                        Clamp(info.min_height, info.max_height, s.height))
        stepped == Size(Stepped(info.min_width, info.width_inc, clamped.width),
                        Stepped(info.min_height, info.height_inc, clamped.height))
    IN  AtMost(info.max_aspect, AtLeast(info.min_aspect, stepped))

\* Along which axes a window in some state is free to be moved and resized.
Free(state) ==
    CASE state = "restored"       -> {"x", "y"}
      [] state = "vertmaximized"  -> {"x"}
      [] state = "horizmaximized" -> {"y"}
      [] OTHER                    -> {}

\* constrain_resize(): "now" is the window's rectangle, "asked" the one wanted.
constrain_resize(info, now, asked) ==
    LET size == WithinLimits(info, asked.size)
        Shift(at, was, grown) == IF at # was THEN at + grown ELSE at
        x    == Shift(asked.top_left.x, now.top_left.x, size.width - asked.size.width)
        y    == Shift(asked.top_left.y, now.top_left.y, size.height - asked.size.height)
        free == Free(info.state)
    IN  Rect(Point(IF "x" \in free THEN x ELSE now.top_left.x,
                   IF "y" \in free THEN y ELSE now.top_left.y),
             Size(IF "x" \in free THEN size.width ELSE now.size.width,
                  IF "y" \in free THEN size.height ELSE now.size.height))

-----------------------------------------------------------------------------
(* Displays.  outputs is a sequence of records [id, area]; it stands for   *)
(* the window manager's "displays" and for Mir's display layout.           *)

Areas(outputs) == [i \in DOMAIN outputs |-> outputs[i].area]

\* A rectangle that need not be there is a sequence of at most one.
\* active_display(): focus is the rectangle of the focused surface, if any.
active_display(outputs, focus, cursor) ==
    LET areas == Areas(outputs)
        under == {i \in DOMAIN areas : Holds(areas[i], cursor)}
    IN  IF areas = <<>> THEN NoArea
        ELSE IF focus # <<>> THEN MostOverlapped(areas, focus[1])
        ELSE IF under # {} THEN areas[CHOOSE i \in under : \A j \in under : i <= j]
        ELSE areas[1]

\* DisplayLayout::place_in_output(); an unknown output leaves the rectangle.
place_in_output(outputs, id, r) ==
    IF \E i \in DOMAIN outputs : outputs[i].id = id
    THEN outputs[CHOOSE i \in DOMAIN outputs : outputs[i].id = id].area
    ELSE r

\* Faulty: the window's own output is not asked for.
fullscreen_rect_nearest(outputs, info, now) == size_to_output(Areas(outputs), now)

fullscreen_rect_for(outputs, info, now) ==
    IF \E i \in DOMAIN outputs :
            is_set(info, "output_id") /\ outputs[i].id = info.output_id
    THEN place_in_output(outputs, info.output_id, now)
    ELSE size_to_output(Areas(outputs), now)

-----------------------------------------------------------------------------
(* The rectangle that goes with a window state.                            *)

\* restore_rect brought up to date with where the window is: the free axes of
\* its state (and both of them when it is hidden) follow the window.
RestoreRect(info, now) ==
    LET free == IF info.state = "hidden" THEN {"x", "y"} ELSE Free(info.state)
        old  == info.restore_rect
    IN  Rect(Point(IF "x" \in free THEN now.top_left.x ELSE old.top_left.x,
                   IF "y" \in free THEN now.top_left.y ELSE old.top_left.y),
             Size(IF "x" \in free THEN now.size.width ELSE old.size.width,
                  IF "y" \in free THEN now.size.height ELSE old.size.height))

\* The rectangle for a state, from the one to restore and the area of all
\* displays.
RectForState(state, restore, area) ==
    CASE state = "restored"  -> restore
      [] state = "maximized" -> area
      [] state = "horizmaximized" ->
            Rect(Point(area.top_left.x, restore.top_left.y),
                 Size(area.size.width, restore.size.height))
      [] state = "vertmaximized" ->
            Rect(Point(restore.top_left.x, area.top_left.y),
                 Size(restore.size.width, area.size.height))

\* Whether a request for a state asks for something new: another state, or
\* to be fullscreen on another output.
StateWanted(mods, info) ==
    /\ is_set(mods, "state")
    /\ \/ mods.state # info.state
       \/ /\ mods.state = "fullscreen" /\ is_set(mods, "output_id")
          /\ is_set(info, "output_id") => mods.output_id # info.output_id

\* The position and size a change of state entails, filled in.  The output of
\* a fullscreen window is the one it had, not the one of the request.
place_and_size_for_state(outputs, mods, info, now) ==
    LET current == RestoreRect(info, now)
        restore == Rect(value_or(mods, "top_left", current.top_left),
                        value_or(mods, "size", current.size))
        r == IF mods.state = "fullscreen" THEN fullscreen_rect_for(outputs, info, now)
             ELSE RectForState(mods.state, restore, bounding_rectangle(Areas(outputs)))
    IN  IF ~StateWanted(mods, info) \/ mods.state \in HiddenStates THEN mods
        ELSE Assign(Assign(mods, "top_left", r.top_left), "size", r.size)

-----------------------------------------------------------------------------
(* place_new_surface()                                                     *)

\* Optically centred: a third of the way down what is left over.
Centred(area, size, height) ==
    Minus(Plus(area.top_left, Half(Minus(Span(area.size), Span(size)))),
          Point(0, Quot(area.size.height - height, 6)))

\* Where a window goes that has neither output, parent nor sibling to go by.
OnDisplay(spec, active, all) ==
    LET centre == Centred(active, spec.size, spec.size.height)
        r == CASE spec.state \in {"fullscreen", "maximized"} -> active
               [] spec.state = "vertmaximized" ->
                    Rect(Point(centre.x, active.top_left.y),
                         Size(spec.size.width, active.size.height))
               [] spec.state = "horizmaximized" ->
                    Rect(Point(active.top_left.x, centre.y),
                         Size(active.size.width, spec.size.height))
               [] OTHER -> Rect(centre, spec.size)
    IN  IF r.top_left.y < all.top_left.y
        THEN [r EXCEPT !.top_left.y = all.top_left.y] ELSE r

\* Below and right of the application's first window.
Cascaded(spec, first) ==
    Rect(Plus(first.top_left, Point(title_bar_height, title_bar_height)), spec.size)

\* Faulty: wherever the first window is.
CascadesBlindly(outputs, spec, first) == first # <<>>

\* Whether that is on the output the first window is on.
Cascades(outputs, spec, first) ==
    /\ first # <<>>
    /\ overlaps(size_to_output(Areas(outputs), first[1]), Cascaded(spec, first[1]))

\* A specification's size and place given, and its state.
Placed(spec, r, state) ==
    CopySet(spec, [top_left |-> r.top_left, size |-> r.size, state |-> state])

\* first is the rectangle of the application's first window, if it has any, and
\* parent that of the parent, if there is one.
place_new_surface(outputs, active, first, parent, params) ==
    LET spec     == CopySet([type |-> "normal", state |-> "restored"], params)
        on_output == value_or(spec, "output_id", 0) # 0
        output   == place_in_output(outputs, spec.output_id, Rect(spec.top_left, spec.size))
        sized    == [spec EXCEPT !.size = IF on_output THEN output.size ELSE @]
    IN  Placed(spec,
               IF parent # <<>>
               THEN IF {"aux_rect", "placement_hints"} \subseteq DOMAIN spec
                    THEN place_relative(active, parent[1], sized, sized.size)
                    ELSE Rect(Centred(parent[1], sized.size, spec.size.height), sized.size)
               ELSE IF on_output THEN output
               ELSE IF Cascades(outputs, spec, first) THEN Cascaded(spec, first[1])
               ELSE OnDisplay(spec, active, bounding_rectangle(Areas(outputs))),
               IF on_output THEN "fullscreen" ELSE spec.state)
=============================================================================
