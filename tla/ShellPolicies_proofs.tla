------------------------ MODULE ShellPolicies_proofs ------------------------
(***************************************************************************)
(* Proofs about ShellPolicies.tla, for any number of windows and displays, *)
(* any requests and any movements.                                         *)
(*                                                                         *)
(* The theorems have as hypotheses what they need of the constants:        *)
(* InheritsAll (the policy's confirm_inherited_move() is the canonical     *)
(* one), LimitsSound (clients ask for no step or aspect ratio of zero,     *)
(* which the code divides by unchecked), and where a property is not true  *)
(* without it, what clients may ask for.                                   *)
(***************************************************************************)
EXTENDS ShellPolicies, WindowGeometry_proofs

-----------------------------------------------------------------------------
(* What clients ask for.                                                   *)

LimitsSound ==
    /\ \A params \in Creations : SoundLimits(from_creation(params))
    /\ \A request \in Requests : SoundLimits(from_modification(request))

\* The fields of a creation that these proofs read are taken over unchanged.
LEMMA TakenFields ==
    ASSUME NEW params,
           NEW f \in {"type", "state", "top_left", "size", "output_id", "placement_hints"},
           is_set(params, f)
    PROVE  is_set(from_creation(params), f) /\ from_creation(params)[f] = params[f]
<1> DEFINE same == Only(params, TakenOver \cup {"top_left", "size", "pixel_format",
                            "buffer_usage", "output_id", "input_mode", "content_id"})
           offset == PlacementOffset(params)
           attached == Attached(params, FlipAny)
<1>1. f \in DOMAIN same /\ same[f] = params[f]
  BY DEF Only, TakenOver, is_set
<1>2. f \notin DOMAIN offset
  BY DEF PlacementOffset, NothingSet
<1>3. f \notin DOMAIN attached
  <2>1. CASE is_set(params, "placement_hints")
    BY <2>1 DEF Attached, NothingSet
  <2>2. CASE ~is_set(params, "placement_hints")
    <3>1. f # "placement_hints"
      BY <2>2
    <3> QED BY <3>1 DEF Attached, AttachmentPlacement, NothingSet
  <2> QED BY <2>1, <2>2
<1>4. from_creation(params) = CopySet(CopySet(same, offset), attached)
  BY Zenon DEF from_creation
<1> HIDE DEF same, offset, attached
<1>5. f \in DOMAIN CopySet(same, offset) /\ CopySet(same, offset)[f] = params[f]
  BY <1>1, <1>2 DEF CopySet, value_or, is_set
<1> QED BY <1>3, <1>4, <1>5 DEF CopySet, value_or, is_set

LEMMA CreationsSound ==
    ASSUME LimitsSound, NEW params \in Creations
    PROVE  /\ ParamsSound(from_creation(params))
           /\ is_set(params, "output_id") /\ is_set(params, "size")
           /\ from_creation(params).output_id = params.output_id
           /\ from_creation(params).size = params.size
<1>1. {"top_left", "size", "output_id"} \subseteq DOMAIN params
  BY DataAssumption
<1>2. \A f \in {"top_left", "size", "output_id"} :
        is_set(from_creation(params), f) /\ from_creation(params)[f] = params[f]
  BY <1>1, TakenFields DEF is_set
<1>3. Sound(from_creation(params))
  BY DataAssumption DEF LimitsSound, Sound
<1> QED BY <1>1, <1>2, <1>3 DEF ParamsSound, is_set

LEMMA RequestsSound ==
    ASSUME LimitsSound, NEW request \in Requests
    PROVE  Sound(from_modification(request))
BY DataAssumption DEF LimitsSound, Sound

\* What the gestures ask for.
LEMMA GesturesSound ==
    /\ \A p \in Points, s \in Sizes : Sound([top_left |-> p, size |-> s])
    /\ \A p \in Points : Sound([top_left |-> p])
    /\ \A state \in WindowStates : Sound([state |-> state])
BY DEF Sound, WellTyped, SoundLimits, is_set

-----------------------------------------------------------------------------
(* Where a window is to return.                                            *)

\* Each window has its home where restore_rect, brought up to date, says.
HomeKept(d, was) ==
    /\ was \in [Live(d) -> AnyRect]
    /\ \A w \in Live(d) : was[w] = RestoreRect(d.info[w], d.rect[w])

NoneHidden(d) == \A w \in Live(d) : d.info[w].state # "hidden"

\* restore_rect is brought up to date where the state changes, and only there;
\* a new window is restored to where it was placed.
Follows(d, e, placed) ==
    \A x \in Live(e) :
        IF x \in Live(d)
        THEN \/ e.info[x].restore_rect = RestoreRect(d.info[x], d.rect[x])
             \/ /\ e.info[x].state = d.info[x].state
                /\ e.info[x].restore_rect = d.info[x].restore_rect
        ELSE e.info[x].restore_rect = placed

LEMMA HomesKept ==
    ASSUME NEW d, DeskSound(d), NEW e, DeskSound(e), NoneHidden(d), NoneHidden(e),
           NEW was, HomeKept(d, was), NEW op, Follows(d, e, op.placed)
    PROVE  HomeKept(e, Homes(e, was, op))
<1> DEFINE free(x) == Free(e.info[x].state)
           now(x)  == e.rect[x]
           old(x)  == IF x \in DOMAIN was THEN was[x] ELSE op.placed
           rest(x) == e.info[x].restore_rect
           Mixed(x, r) ==
             Rect(Point(IF "x" \in free(x) THEN now(x).top_left.x ELSE r.top_left.x,
                        IF "y" \in free(x) THEN now(x).top_left.y ELSE r.top_left.y),
                  Size(IF "x" \in free(x) THEN now(x).size.width ELSE r.size.width,
                       IF "y" \in free(x) THEN now(x).size.height ELSE r.size.height))
<1>1. Homes(e, was, op) = [x \in Live(e) |-> Mixed(x, old(x))]
  BY Zenon DEF Homes
<1>2. ASSUME NEW x \in Live(e)
      PROVE  RestoreRect(e.info[x], e.rect[x]) = Mixed(x, rest(x))
  <2>1. e.info[x].state # "hidden"
    BY DEF NoneHidden
  <2> QED BY <2>1 DEF RestoreRect
<1>3. ASSUME NEW x \in Live(e)
      PROVE  Mixed(x, old(x)) = Mixed(x, rest(x))
  <2>1. CASE x \notin Live(d)
    <3>1. old(x) = op.placed /\ rest(x) = op.placed
      BY <2>1 DEF Follows, HomeKept
    <3> QED BY <3>1
  <2>2. CASE x \in Live(d) /\ rest(x) = RestoreRect(d.info[x], d.rect[x])
    <3>1. old(x) = rest(x)
      BY <2>2 DEF HomeKept
    <3> QED BY <3>1
  <2>3. CASE /\ x \in Live(d)
             /\ e.info[x].state = d.info[x].state
             /\ rest(x) = d.info[x].restore_rect
    <3>1. old(x) = RestoreRect(d.info[x], d.rect[x]) /\ d.info[x].state # "hidden"
      BY <2>3 DEF HomeKept, NoneHidden
    <3>2. /\ "x" \notin free(x) => /\ old(x).top_left.x = rest(x).top_left.x
                                   /\ old(x).size.width = rest(x).size.width
          /\ "y" \notin free(x) => /\ old(x).top_left.y = rest(x).top_left.y
                                   /\ old(x).size.height = rest(x).size.height
      BY <2>3, <3>1 DEF RestoreRect, Rect, Point, Size
    <3> QED BY <3>2
  <2> QED BY <2>1, <2>2, <2>3 DEF Follows
<1>4. ASSUME NEW x \in Live(e)
      PROVE  RestoreRect(e.info[x], e.rect[x]) \in AnyRect
  BY RestoreType DEF DeskSound, InfoSound
<1> QED BY <1>1, <1>2, <1>3, <1>4 DEF HomeKept

-----------------------------------------------------------------------------
(* The operations of the shell.                                            *)

\* No window is built, removed, or put into another state.
Steady(d, e) ==
    /\ Live(e) = Live(d)
    /\ \A x \in Live(d) : /\ e.info[x].state = d.info[x].state
                          /\ e.info[x].restore_rect = d.info[x].restore_rect

LEMMA SteadyFollows ==
    ASSUME NEW d, NEW e, Steady(d, e), NEW placed
    PROVE  Follows(d, e, placed) /\ (NoneHidden(d) => NoneHidden(e))
BY DEF Steady, Follows, NoneHidden

GestureSound(g) ==
    g \in [resizing : BOOLEAN, pinching : BOOLEAN, left_resize : BOOLEAN,
           top_resize : BOOLEAN, fingers : AnyRect]

\* A window given a rectangle: what every gesture comes to.
LEMMA GivenRect ==
    ASSUME InheritsAll, OutputsSound(outputs), NEW d, DeskSound(d), NEW w \in Live(d),
           NEW ctx, ContextSound(d, ctx), NEW p \in Points, NEW s \in Sizes
    PROVE  LET e == modify_window(d, w, [top_left |-> p, size |-> s], ctx)
           IN  /\ DeskSound(e) /\ Reshapes(d, e, w) /\ Steady(d, e)
               /\ e.rect[w] = Rect(p, s)
<1> DEFINE mods == [top_left |-> p, size |-> s]
           e == modify_window(d, w, mods, ctx)
<1>1. /\ Sound(mods) /\ ~is_set(mods, "state") /\ ~is_set(mods, "placement_hints")
      /\ is_set(mods, "size") /\ is_set(mods, "top_left")
      /\ mods.top_left = p /\ mods.size = s
  BY GesturesSound DEF is_set
<1> HIDE DEF mods
<1>2. /\ DeskSound(e) /\ Reshapes(d, e, w)
      /\ e.info[w].state = value_or(mods, "state", d.info[w].state)
      /\ e.info[w].restore_rect =
            IF is_set(mods, "state") /\ mods.state # d.info[w].state
            THEN RestoreRect(d.info[w], d.rect[w]) ELSE d.info[w].restore_rect
      /\ ~is_set(mods, "placement_hints") /\ is_set(mods, "size") /\ is_set(mods, "top_left")
            => e.rect[w] = Rect(mods.top_left, mods.size)
  BY <1>1, ModifiedWindow
<1> HIDE DEF e
<1>3. Steady(d, e)
  BY <1>1, <1>2 DEF Steady, Reshapes, value_or
<1> QED BY <1>1, <1>2, <1>3 DEF e, mods

LEMMA Positioned ==
    ASSUME InheritsAll, OutputsSound(outputs), NEW d, DeskSound(d), NEW w \in Live(d),
           NEW ctx, ContextSound(d, ctx), NEW p \in Points
    PROVE  LET e == modify_window(d, w, [top_left |-> p], ctx)
           IN  DeskSound(e) /\ Reshapes(d, e, w) /\ Steady(d, e)
<1> DEFINE mods == [top_left |-> p]
           e == modify_window(d, w, mods, ctx)
<1>1. Sound(mods) /\ ~is_set(mods, "state")
  BY GesturesSound DEF is_set
<1> HIDE DEF mods
<1>2. /\ DeskSound(e) /\ Reshapes(d, e, w)
      /\ e.info[w].state = value_or(mods, "state", d.info[w].state)
      /\ e.info[w].restore_rect =
            IF is_set(mods, "state") /\ mods.state # d.info[w].state
            THEN RestoreRect(d.info[w], d.rect[w]) ELSE d.info[w].restore_rect
  BY <1>1, ModifiedWindow
<1> HIDE DEF e
<1>3. Steady(d, e)
  BY <1>1, <1>2 DEF Steady, Reshapes, value_or
<1> QED BY <1>2, <1>3 DEF e, mods

LEMMA EndedResize ==
    ASSUME InheritsAll, OutputsSound(outputs), NEW d, DeskSound(d),
           NEW ctx, ContextSound(d, ctx)
    PROVE  LET e == end_resize(d, ctx)
           IN  /\ DeskSound(e) /\ Steady(d, e)
               /\ ctx.active \in Live(d) => Reshapes(d, e, ctx.active)
               /\ ~gesture.resizing /\ ~gesture.pinching => e = d
<1> DEFINE w == ctx.active
           r == constrain_resize(d.info[w], d.rect[w], d.rect[w])
           idle == ~(gesture.resizing \/ gesture.pinching) \/ w = NoWindow
           e == end_resize(d, ctx)
<1>1. e = IF idle THEN d
          ELSE modify_window(d, w, [top_left |-> r.top_left, size |-> r.size], ctx)
  BY DEF end_resize
<1>2. CASE idle
  <2>1. e = d
    BY <1>1, <1>2
  <2>2. Steady(d, d)
    BY DEF Steady
  <2>3. w \in Live(d) => Reshapes(d, d, w)
    BY ReshapesSelf
  <2> HIDE DEF e
  <2> QED BY <2>1, <2>2, <2>3 DEF e
<1>3. CASE ~idle
  <2>1. w \in Live(d)
    BY <1>3 DEF ContextSound
  <2>2. r \in AnyRect
    BY <2>1, ConstrainedType DEF DeskSound, InfoSound
  <2>3. r.top_left \in Points /\ r.size \in Sizes
    BY <2>2, RectType
  <2> HIDE DEF r
  <2>4. LET f == modify_window(d, w, [top_left |-> r.top_left, size |-> r.size], ctx)
        IN  DeskSound(f) /\ Reshapes(d, f, w) /\ Steady(d, f)
    BY <2>1, <2>3, GivenRect
  <2> HIDE DEF e
  <2> QED BY <1>1, <1>3, <2>4 DEF e
<1> QED BY <1>2, <1>3

LEMMA SteadyTogether ==
    ASSUME NEW d, NEW e, NEW f, Steady(d, e), Steady(e, f)
    PROVE  Steady(d, f)
BY DEF Steady

\* Moving a window with its descendants is giving it another place.
LEMMA MovedIsPlaced ==
    ASSUME InheritsAll, NEW d, DeskSound(d), NEW w \in Live(d), NEW m \in Points
    PROVE  move_tree(d, w, m) = place_and_size(d, w, Shifted(d.rect[w], m))
<1> DEFINE r == Shifted(d.rect[w], m)
           sized == [d EXCEPT !.rect[w].size = r.size]
           Moved(e) == [x \in Live(e) |->
                IF x \in {w} \cup Below(e, w) THEN Shifted(e.rect[x], m) ELSE e.rect[x]]
<1>1. d.rect[w] \in AnyRect
  BY DEF DeskSound
<1>2. r.size = d.rect[w].size /\ Minus(r.top_left, d.rect[w].top_left) = m
  BY <1>1, ShiftedType
<1> HIDE DEF r
<1>3. /\ "rect" \in DOMAIN sized /\ sized.rect = d.rect /\ Live(sized) = Live(d)
      /\ sized.info = d.info /\ IsFiniteSet(Live(d))
      /\ sized = [d EXCEPT !.rect = d.rect]
  <2>1. [d.rect[w] EXCEPT !.size = r.size] = d.rect[w]
    BY <1>1, <1>2 DEF AnyRect
  <2>2. [d.rect EXCEPT ![w].size = r.size] = d.rect
    BY <2>1 DEF DeskSound
  <2>3. sized = [d EXCEPT !.rect = d.rect]
    BY <2>2
  <2> QED BY <2>3 DEF DeskSound, Live
<1>4. place_and_size(d, w, r) = move_tree(sized, w, m)
  BY <1>2 DEF place_and_size
<1>5. move_tree(d, w, m) = [d EXCEPT !.rect = Moved(d)]
  BY MoveTree DEF DeskSound
<1> HIDE DEF sized
<1>6. move_tree(sized, w, m) = [sized EXCEPT !.rect = Moved(sized)]
  <2>1. /\ "rect" \in DOMAIN sized /\ IsFiniteSet(Live(sized)) /\ w \in Live(sized)
        /\ sized.rect \in [Live(sized) -> AnyRect]
    BY <1>3 DEF DeskSound
  <2> QED BY <2>1, MoveTree
<1>7. Moved(sized) = Moved(d)
  <2>1. Below(sized, w) = Below(d, w)
    BY <1>3, BelowSame DEF SameTrees
  <2> QED BY <1>3, <2>1
<1> HIDE DEF Moved
<1>8. [sized EXCEPT !.rect = Moved(d)] = [d EXCEPT !.rect = Moved(d)]
  BY <1>3
<1> QED BY <1>4, <1>5, <1>6, <1>7, <1>8 DEF r

LEMMA DraggedWindow ==
    ASSUME InheritsAll, NEW d, DeskSound(d), NEW w \in Live(d), NEW m \in Points
    PROVE  LET e == drag_window(d, w, m)
           IN  DeskSound(e) /\ Reshapes(d, e, w) /\ Steady(d, e)
<1> DEFINE free == Free(d.info[w].state)
           by == Point(IF "x" \in free THEN m.x ELSE 0, IF "y" \in free THEN m.y ELSE 0)
           r == Shifted(d.rect[w], by)
           e == drag_window(d, w, m)
<1>1. by \in Points
  <2>1. m.x \in Int /\ m.y \in Int
    BY DEF Points
  <2> QED BY <2>1 DEF Point, Points
<1>2. r \in AnyRect
  BY <1>1, ShiftedType DEF DeskSound
<1>3. e = d \/ e = place_and_size(d, w, r)
  BY <1>1, MovedIsPlaced DEF drag_window
<1> HIDE DEF r, e
<1>4. LET f == place_and_size(d, w, r)
      IN  DeskSound(f) /\ Reshapes(d, f, w) /\ f.info = d.info
  BY <1>2, PlacedWindow
<1>5. LET f == place_and_size(d, w, r) IN Steady(d, f)
  BY <1>4 DEF Steady, Reshapes
<1>6. DeskSound(d) /\ Reshapes(d, d, w) /\ Steady(d, d)
  BY ReshapesSelf DEF Steady
<1> QED BY <1>3, <1>4, <1>5, <1>6 DEF e

LEMMA KeptType ==
    ASSUME NEW lo \in Int, NEW hi \in Int, NEW n \in Int, NEW delta \in Int
    PROVE  Kept(lo, hi, n, delta).n \in Int /\ Kept(lo, hi, n, delta).delta \in Int
BY DEF Kept

LEMMA KeptWithin ==
    ASSUME NEW info, InfoLimits(info), NEW size \in Sizes, NEW delta \in Points
    PROVE  LET kept == keep_size_within_limits(info, size, delta)
           IN  kept.size \in Sizes /\ kept.delta \in Points
<1> DEFINE x == Kept(Least(info.min_width), info.max_width, size.width, delta.x)
           y == Kept(Least(info.min_height), info.max_height, size.height, delta.y)
<1>1. /\ Least(info.min_width) \in Int /\ info.max_width \in Int
      /\ Least(info.min_height) \in Int /\ info.max_height \in Int
      /\ size.width \in Int /\ size.height \in Int /\ delta.x \in Int /\ delta.y \in Int
  <2>1. size.width \in Int /\ size.height \in Int /\ delta.x \in Int /\ delta.y \in Int
    BY DEF Sizes, Points
  <2>2. MinExtent \in Int
    BY PoliciesAssumption
  <2> QED BY <2>1, <2>2 DEF Least, InfoLimits
<1>2. x.n \in Int /\ x.delta \in Int
  BY <1>1, KeptType
<1>3. y.n \in Int /\ y.delta \in Int
  BY <1>1, KeptType
<1>4. keep_size_within_limits(info, size, delta) =
        [size |-> Size(x.n, y.n), delta |-> Point(x.delta, y.delta)]
  BY DEF keep_size_within_limits
<1> HIDE DEF x, y
<1>5. Size(x.n, y.n) \in Sizes /\ Point(x.delta, y.delta) \in Points
  BY <1>2, <1>3 DEF Size, Sizes, Point, Points
<1> QED BY <1>4, <1>5

LEMMA StretchedType ==
    ASSUME NEW d, DeskSound(d), NEW w \in Live(d), NEW g, GestureSound(g), NEW delta \in Points
    PROVE  LET m == Stretched(d, w, g, delta)
           IN  m = [top_left |-> m.top_left, size |-> m.size]
               /\ m.top_left \in Points /\ m.size \in Sizes
<1> DEFINE now == d.rect[w]
           Sign(away) == IF away THEN -1 ELSE 1
           size == Size(now.size.width + Sign(g.left_resize) * delta.x,
                        now.size.height + Sign(g.top_resize) * delta.y)
           kept == keep_size_within_limits(d.info[w], size, delta)
           by == Point(IF g.left_resize THEN kept.delta.x ELSE 0,
                       IF g.top_resize THEN kept.delta.y ELSE 0)
<1>1. now \in AnyRect /\ InfoLimits(d.info[w])
  BY DEF DeskSound, InfoSound
<1>2. size \in Sizes
  <2>1. /\ now.size.width \in Int /\ now.size.height \in Int
        /\ delta.x \in Int /\ delta.y \in Int
    BY <1>1, RectType
  <2>2. Sign(g.left_resize) \in {-1, 1} /\ Sign(g.top_resize) \in {-1, 1}
    OBVIOUS
  <2> HIDE DEF now, Sign
  <2>3. /\ now.size.width + Sign(g.left_resize) * delta.x \in Int
        /\ now.size.height + Sign(g.top_resize) * delta.y \in Int
    BY <2>1, <2>2
  <2> QED BY <2>3, RectType
<1>3. Stretched(d, w, g, delta) = [top_left |-> Plus(now.top_left, by), size |-> kept.size]
  BY DEF Stretched
<1> HIDE DEF size
<1>4. kept.size \in Sizes /\ kept.delta \in Points
  BY <1>1, <1>2, KeptWithin
<1> HIDE DEF kept
<1>5. by \in Points
  BY <1>4 DEF Point, Points
<1> HIDE DEF by
<1>6. Plus(now.top_left, by) \in Points
  BY <1>1, <1>5, RectType, PointSums
<1> HIDE DEF now
<1> QED BY <1>3, <1>4, <1>6

LEMMA PinchedType ==
    ASSUME NEW d, DeskSound(d), NEW w \in Live(d), NEW from \in AnyRect, NEW to \in AnyRect
    PROVE  LET m == Pinched(d, w, from, to)
           IN  m = [top_left |-> m.top_left, size |-> m.size]
               /\ m.top_left \in Points /\ m.size \in Sizes
<1> DEFINE now == d.rect[w]
           size == Size(Least(now.size.width + to.size.width - from.size.width),
                        Least(now.size.height + to.size.height - from.size.height))
           delta == Minus(to.top_left, from.top_left)
           kept == keep_size_within_limits(d.info[w], size, delta)
<1>1. now \in AnyRect /\ InfoLimits(d.info[w])
  BY DEF DeskSound, InfoSound
<1>2. size \in Sizes
  <2>1. /\ now.size.width \in Int /\ now.size.height \in Int
        /\ to.size.width \in Int /\ to.size.height \in Int
        /\ from.size.width \in Int /\ from.size.height \in Int
    BY <1>1, RectType
  <2>2. \A n \in Int : Least(n) \in Int
    BY PoliciesAssumption DEF Least
  <2> HIDE DEF now
  <2>3. /\ now.size.width + to.size.width - from.size.width \in Int
        /\ now.size.height + to.size.height - from.size.height \in Int
    BY <2>1
  <2> QED BY <2>2, <2>3, RectType
<1>3. delta \in Points
  BY RectType, PointSums
<1>4. Pinched(d, w, from, to) = [top_left |-> Plus(now.top_left, kept.delta), size |-> kept.size]
  BY DEF Pinched
<1> HIDE DEF size, delta
<1>5. kept.size \in Sizes /\ kept.delta \in Points
  BY <1>1, <1>2, <1>3, KeptWithin
<1> HIDE DEF kept
<1>6. Plus(now.top_left, kept.delta) \in Points
  BY <1>1, <1>5, RectType, PointSums
<1> HIDE DEF now
<1> QED BY <1>4, <1>5, <1>6

LEMMA SnappedType ==
    ASSUME NEW key \in {"left", "right", "up", "down"}, NEW display \in AnyRect,
           NEW info, NEW now \in AnyRect
    PROVE  Snapped(key, display, info, now) \in Points
<1>1. /\ now.top_left \in Points /\ now.size.width \in Int /\ now.size.height \in Int
      /\ display.top_left.x \in Int /\ display.top_left.y \in Int
      /\ bottom_right(display).x \in Int /\ bottom_right(display).y \in Int
      /\ title_bar_height \in Int
  BY RectType, CornersType, TitleBarAssumption
<1>2. \A n \in Int : [now.top_left EXCEPT !.x = n] \in Points /\ [now.top_left EXCEPT !.y = n] \in Points
  BY <1>1 DEF Points
<1>3. /\ bottom_right(display).x - now.size.width \in Int
      /\ bottom_right(display).y - now.size.height \in Int
      /\ display.top_left.y + title_bar_height \in Int
  BY <1>1
<1>4. CASE key = "left"
  BY <1>1, <1>2, <1>4 DEF Snapped
<1>5. CASE key = "right"
  BY <1>2, <1>3, <1>5 DEF Snapped
<1>6. CASE key = "up"
  BY <1>1, <1>2, <1>3, <1>6 DEF Snapped
<1>7. CASE key = "down"
  BY <1>2, <1>3, <1>7 DEF Snapped
<1> QED BY <1>4, <1>5, <1>6, <1>7

-----------------------------------------------------------------------------
(* What a step may do.                                                     *)

\* Every variable is of its type, and the desk and home go together.
Core ==
    /\ OutputsSound(outputs)
    /\ DeskSound(desk)
    /\ GestureSound(gesture)
    /\ DOMAIN home = Live(desk)

\* No client asks for its windows to be hidden.
NoHiding ==
    /\ \A params \in Creations :
            value_or(from_creation(params), "state", "restored") # "hidden"
    /\ \A request \in Requests :
            value_or(from_modification(request), "state", "restored") # "hidden"

\* A request to be restored that does not also say where or how large.
Plain(mods) ==
    is_set(mods, "state") /\ mods.state = "restored" =>
        ~is_set(mods, "top_left") /\ ~is_set(mods, "size") /\ ~is_set(mods, "placement_hints")

PlainRestores == \A request \in Requests : Plain(from_modification(request))

\* A window that is restored goes back to its home.
Returns(d, e) ==
    \A w \in Live(d) \cap Live(e) :
        d.info[w].state # "restored" /\ e.info[w].state = "restored"
            => e.rect[w] = RestoreRect(d.info[w], d.rect[w])

WindowMoves == {"drag", "key", "resize", "pinch"}

Sane(mid, d, op) ==
    /\ StepVia(mid, d, op)
    /\ DeskSound(mid) /\ DeskSound(d)
    /\ Follows(desk, mid, op.placed) /\ Follows(mid, d, op.placed)
    /\ NoHiding /\ NoneHidden(desk) => NoneHidden(mid) /\ NoneHidden(d)
    /\ PlainRestores /\ ~gesture.resizing /\ ~gesture.pinching => Returns(desk, d)
    /\ op.op \in WindowMoves => op.window \in Live(desk) /\ Reshapes(desk, d, op.window)

LEMMA SteadyStep ==
    ASSUME NEW d, DeskSound(d), Steady(desk, d), NEW op, Step(d, op),
           op.op \in WindowMoves => op.window \in Live(desk) /\ Reshapes(desk, d, op.window)
    PROVE  Sane(d, d, op)
<1>1. Follows(desk, d, op.placed) /\ (NoneHidden(desk) => NoneHidden(d))
  BY SteadyFollows
<1>2. Steady(d, d)
  BY DEF Steady
<1>3. Follows(d, d, op.placed)
  BY <1>2, SteadyFollows
<1>4. Returns(desk, d)
  BY DEF Returns, Steady
<1> QED BY <1>1, <1>3, <1>4 DEF Sane, Step

\* Handling a request.
LEMMA HandledRequest ==
    ASSUME InheritsAll, OutputsSound(outputs), NEW d, DeskSound(d), NEW w \in Live(d),
           NEW mods, Sound(mods), NEW ctx, ContextSound(d, ctx), NEW placed
    PROVE  LET e == Modify(d, w, mods, ctx)
           IN  /\ DeskSound(e) /\ Reshapes(d, e, w) /\ Follows(d, e, placed)
               /\ NoneHidden(d) /\ value_or(mods, "state", "restored") # "hidden" => NoneHidden(e)
               /\ Plain(mods) => Returns(d, e)
<1> DEFINE e == Modify(d, w, mods, ctx)
           wanted == is_set(mods, "state") /\ mods.state # d.info[w].state
           current == RestoreRect(d.info[w], d.rect[w])
<1>1. /\ DeskSound(e) /\ Reshapes(d, e, w)
      /\ e.info[w].state = value_or(mods, "state", d.info[w].state)
      /\ e.info[w].restore_rect = IF wanted THEN current ELSE d.info[w].restore_rect
      /\ StateWanted(mods, d.info[w]) /\ mods.state = "restored"
            /\ ~is_set(mods, "top_left") /\ ~is_set(mods, "size")
            /\ ~is_set(mods, "placement_hints")
            => e.rect[w] = current
  BY StateModified
<1> HIDE DEF e
<1>2. Live(e) = Live(d) /\ \A x \in Live(d) \ {w} : e.info[x] = d.info[x]
  BY <1>1 DEF Reshapes
<1>3. Follows(d, e, placed)
  <2>1. ASSUME ~wanted PROVE e.info[w].state = d.info[w].state
    BY <1>1, <2>1 DEF value_or
  <2> QED BY <1>1, <1>2, <2>1 DEF Follows
<1>4. NoneHidden(d) /\ value_or(mods, "state", "restored") # "hidden" => NoneHidden(e)
  BY <1>1, <1>2 DEF NoneHidden, value_or
<1>5. ASSUME Plain(mods) PROVE Returns(d, e)
  <2>1. ASSUME d.info[w].state # "restored", e.info[w].state = "restored"
        PROVE  e.rect[w] = current
    <3>1. is_set(mods, "state") /\ mods.state = "restored"
      BY <1>1, <2>1 DEF value_or
    <3>2. StateWanted(mods, d.info[w])
      BY <2>1, <3>1 DEF StateWanted
    <3> QED BY <1>1, <1>5, <3>1, <3>2 DEF Plain
  <2> QED BY <1>2, <2>1 DEF Returns
<1> QED BY <1>1, <1>3, <1>4, <1>5 DEF e

\* Where the pointer is, and who has the focus.
LEMMA ContextsSound ==
    /\ \A d, e : Live(e) = Live(d) =>
        \A ctx \in Contexts(d) : ContextSound(e, ctx) /\ ctx.active \in Live(d) \cup {NoWindow}
    /\ \A d, e : Live(e) = Live(d) =>
        \A w \in Focusable(d) : w \in Live(d) /\ ContextSound(e, [active |-> w, cursor |-> Origin])
    /\ \A d : DeskSound(d) => NoWindow \notin Live(d)
BY GeometryAssumption DEF Contexts, Focusable, ContextSound, DeskSound

-----------------------------------------------------------------------------
(* The gestures.                                                           *)

LEMMA DragStep ==
    ASSUME InheritsAll, Core, drag_active_window
    PROVE  /\ \E mid, d, op : Sane(mid, d, op) /\ op.op = "drag"
           /\ GestureSound(gesture') /\ outputs' = outputs
<1>1. PICK w \in Focusable(desk), movement \in Movements :
        LET ctx == [active |-> w, cursor |-> Origin]
        IN  /\ policy = "titlebar"
            /\ LET d == drag_window(desk, w, movement)
               IN  Step(IF gesture.resizing THEN end_resize(d, ctx) ELSE d, Op("drag", w))
            /\ gesture' = IF gesture.resizing THEN Over(gesture) ELSE gesture
            /\ UNCHANGED outputs
  BY Zenon DEF drag_active_window
<1> DEFINE ctx == [active |-> w, cursor |-> Origin]
           d == drag_window(desk, w, movement)
           e == IF gesture.resizing THEN end_resize(d, ctx) ELSE d
<1>2. w \in Live(desk) /\ movement \in Points /\ DeskSound(desk) /\ OutputsSound(outputs)
  BY ContextsSound, DataAssumption DEF Core
<1>3. DeskSound(d) /\ Reshapes(desk, d, w) /\ Steady(desk, d)
  BY <1>2, DraggedWindow
<1>4. Live(d) = Live(desk) /\ ContextSound(d, ctx) /\ ctx.active = w
  BY <1>3, ContextsSound DEF Steady
<1>5. Step(e, Op("drag", w)) /\ GestureSound(gesture') /\ outputs' = outputs
  BY <1>1 DEF Core, GestureSound, Over
<1> HIDE DEF ctx, d
<1>6. LET f == end_resize(d, ctx)
      IN  DeskSound(f) /\ Steady(d, f) /\ Reshapes(d, f, w)
  BY <1>2, <1>3, <1>4, EndedResize
<1>7. LET f == end_resize(d, ctx)
      IN  Reshapes(desk, f, w) /\ Steady(desk, f)
  BY <1>2, <1>3, <1>6, ReshapesAgain, SteadyTogether
<1>8. DeskSound(e) /\ Reshapes(desk, e, w) /\ Steady(desk, e)
  BY <1>3, <1>6, <1>7
<1> HIDE DEF e
<1>9. Op("drag", w).op = "drag" /\ Op("drag", w).window = w
  BY DEF Op
<1>10. Sane(e, e, Op("drag", w))
  BY <1>2, <1>5, <1>8, <1>9, SteadyStep
<1> QED BY <1>5, <1>9, <1>10

LEMMA ResizeStep ==
    ASSUME InheritsAll, Core, resize
    PROVE  /\ \E mid, d, op : Sane(mid, d, op) /\ op.op = "resize"
           /\ GestureSound(gesture') /\ outputs' = outputs
           /\ \E w \in Live(desk), delta \in Points :
                /\ last'.op = "resize" /\ last'.window = w /\ Live(desk') = Live(desk)
                /\ LET m == Stretched(desk, w, gesture', delta)
                   IN  desk'.rect[w] = Rect(m.top_left, m.size)
<1>1. PICK w \in Focusable(desk), delta \in Movements, corner \in Corners :
        LET g   == [gesture EXCEPT !.resizing = TRUE, !.left_resize = corner[1],
                                   !.top_resize = corner[2]]
            ctx == [active |-> w, cursor |-> Origin]
        IN  /\ policy = "titlebar"
            /\ gesture.resizing => g = gesture
            /\ Step(modify_window(desk, w, Stretched(desk, w, g, delta), ctx),
                    [op |-> "resize", window |-> w, delta |-> delta])
            /\ gesture' = g
            /\ UNCHANGED outputs
  BY Zenon DEF resize
<1> DEFINE ctx == [active |-> w, cursor |-> Origin]
           g == gesture'
           m == Stretched(desk, w, g, delta)
           d == modify_window(desk, w, m, ctx)
           op == [op |-> "resize", window |-> w, delta |-> delta]
<1>2. w \in Live(desk) /\ delta \in Points /\ DeskSound(desk) /\ OutputsSound(outputs)
  BY ContextsSound, DataAssumption DEF Core
<1>3. Step(d, op) /\ outputs' = outputs
  BY <1>1
<1>4. GestureSound(g)
  <2>1. corner[1] \in BOOLEAN /\ corner[2] \in BOOLEAN
    BY PoliciesAssumption
  <2> QED BY <1>1, <2>1 DEF Core, GestureSound
<1>5. ContextSound(desk, ctx)
  BY ContextsSound
<1> HIDE DEF ctx, g
<1>6. /\ m = [top_left |-> m.top_left, size |-> m.size]
      /\ m.top_left \in Points /\ m.size \in Sizes
  BY <1>2, <1>4, StretchedType
<1> HIDE DEF m
<1>7. LET f == modify_window(desk, w, [top_left |-> m.top_left, size |-> m.size], ctx)
      IN  /\ DeskSound(f) /\ Reshapes(desk, f, w) /\ Steady(desk, f)
          /\ f.rect[w] = Rect(m.top_left, m.size)
  BY <1>2, <1>5, <1>6, GivenRect
<1>8. /\ DeskSound(d) /\ Reshapes(desk, d, w) /\ Steady(desk, d)
      /\ d.rect[w] = Rect(m.top_left, m.size)
  BY <1>6, <1>7
<1> HIDE DEF d
<1>9. op.op = "resize" /\ op.window = w
  OBVIOUS
<1> HIDE DEF op
<1>10. Sane(d, d, op)
  BY <1>2, <1>3, <1>8, <1>9, SteadyStep
<1>11. desk' = d /\ last' = op
  BY <1>3 DEF Step, StepVia
<1>12. Live(desk') = Live(desk)
  BY <1>8, <1>11 DEF Steady
<1> QED BY <1>2, <1>3, <1>4, <1>8, <1>9, <1>10, <1>11, <1>12 DEF g, m

LEMMA PinchStep ==
    ASSUME InheritsAll, Core, pinch
    PROVE  /\ \E mid, d, op : Sane(mid, d, op) /\ op.op = "pinch"
           /\ GestureSound(gesture') /\ outputs' = outputs
<1>1. PICK w \in Focusable(desk), fingers \in Fingers :
        LET ctx == [active |-> w, cursor |-> Origin]
        IN  /\ policy = "titlebar"
            /\ Step(modify_window(desk, w, Pinched(desk, w, gesture.fingers, fingers), ctx),
                    Op("pinch", w))
            /\ gesture' = [gesture EXCEPT !.pinching = TRUE, !.fingers = fingers]
            /\ UNCHANGED outputs
  BY Zenon DEF pinch
<1> DEFINE ctx == [active |-> w, cursor |-> Origin]
           m == Pinched(desk, w, gesture.fingers, fingers)
           d == modify_window(desk, w, m, ctx)
           op == Op("pinch", w)
<1>2. w \in Live(desk) /\ DeskSound(desk) /\ OutputsSound(outputs)
  BY ContextsSound DEF Core
<1>3. fingers \in AnyRect /\ gesture.fingers \in AnyRect
  BY PoliciesAssumption DEF AnyRect, Core, GestureSound
<1>4. Step(d, op) /\ outputs' = outputs
  BY <1>1
<1>5. GestureSound(gesture')
  BY <1>1, <1>3 DEF Core, GestureSound
<1>6. ContextSound(desk, ctx)
  BY ContextsSound
<1> HIDE DEF ctx
<1>7. /\ m = [top_left |-> m.top_left, size |-> m.size]
      /\ m.top_left \in Points /\ m.size \in Sizes
  BY <1>2, <1>3, PinchedType
<1> HIDE DEF m
<1>8. LET f == modify_window(desk, w, [top_left |-> m.top_left, size |-> m.size], ctx)
      IN  DeskSound(f) /\ Reshapes(desk, f, w) /\ Steady(desk, f)
  BY <1>2, <1>6, <1>7, GivenRect
<1>9. DeskSound(d) /\ Reshapes(desk, d, w) /\ Steady(desk, d)
  BY <1>7, <1>8
<1> HIDE DEF d
<1>10. op.op = "pinch" /\ op.window = w
  BY DEF Op
<1> HIDE DEF op
<1>11. Sane(d, d, op)
  BY <1>2, <1>4, <1>9, <1>10, SteadyStep
<1> QED BY <1>4, <1>5, <1>10, <1>11

LEMMA EndStep ==
    ASSUME InheritsAll, Core, end_gesture
    PROVE  /\ \E mid, d, op : Sane(mid, d, op) /\ op.op = "end"
           /\ GestureSound(gesture') /\ outputs' = outputs
<1>1. PICK ctx \in Contexts(desk) :
        /\ Step(end_resize(desk, ctx), Op("end", ctx.active))
        /\ gesture' = Over(gesture)
        /\ UNCHANGED outputs
  BY Zenon DEF end_gesture
<1> DEFINE d == end_resize(desk, ctx)
           op == Op("end", ctx.active)
<1>2. DeskSound(desk) /\ OutputsSound(outputs) /\ ContextSound(desk, ctx)
  BY ContextsSound DEF Core
<1>3. DeskSound(d) /\ Steady(desk, d)
  BY <1>2, EndedResize
<1>4. GestureSound(gesture')
  BY <1>1 DEF Core, GestureSound, Over
<1>5. op.op = "end" /\ op.op \notin WindowMoves
  BY DEF Op, WindowMoves
<1> HIDE DEF d, op
<1>6. Sane(d, d, op)
  BY <1>1, <1>3, <1>5, SteadyStep DEF d, op
<1> QED BY <1>1, <1>4, <1>5, <1>6

LEMMA TouchStep ==
    ASSUME InheritsAll, Core, touch_down
    PROVE  /\ \E mid, d, op : Sane(mid, d, op) /\ op.op = "other"
           /\ GestureSound(gesture') /\ outputs' = outputs
<1>1. PICK ctx \in Contexts(desk), fingers \in Fingers \ {gesture.fingers} :
        /\ policy = "titlebar"
        /\ Step(IF gesture.pinching THEN end_resize(desk, ctx) ELSE desk, Other)
        /\ gesture' = [IF gesture.pinching THEN Over(gesture) ELSE gesture
                        EXCEPT !.fingers = fingers]
        /\ UNCHANGED outputs
  BY Zenon DEF touch_down
<1> DEFINE e == end_resize(desk, ctx)
           d == IF gesture.pinching THEN e ELSE desk
<1>2. DeskSound(desk) /\ OutputsSound(outputs) /\ ContextSound(desk, ctx)
  BY ContextsSound DEF Core
<1>3. DeskSound(e) /\ Steady(desk, e)
  BY <1>2, EndedResize
<1>4. GestureSound(gesture')
  <2>1. fingers \in AnyRect
    BY PoliciesAssumption DEF AnyRect
  <2> QED BY <1>1, <2>1 DEF Core, GestureSound, Over
<1>5. Other.op = "other" /\ Other.op \notin WindowMoves
  BY DEF Other, Op, WindowMoves
<1>6. Step(d, Other)
  BY <1>1
<1> HIDE DEF e
<1>7. Steady(desk, desk)
  BY DEF Steady
<1>8. DeskSound(d) /\ Steady(desk, d)
  BY <1>2, <1>3, <1>7
<1> HIDE DEF d
<1>9. Sane(d, d, Other)
  BY <1>5, <1>6, <1>8, SteadyStep
<1> QED BY <1>1, <1>4, <1>5, <1>9

LEMMA KeyStep ==
    ASSUME InheritsAll, Core, move_by_key
    PROVE  /\ \E mid, d, op : Sane(mid, d, op) /\ op.op = "key"
           /\ GestureSound(gesture') /\ outputs' = outputs
<1>1. PICK key \in {"left", "right", "up", "down"}, w \in Focusable(desk) :
        LET ctx == [active |-> w, cursor |-> Origin]
        IN  /\ policy = "titlebar"
            /\ Step(MovedByKey(end_resize(desk, ctx), w, key, ctx), Op("key", w))
            /\ gesture' = Over(gesture)
            /\ UNCHANGED outputs
  BY Zenon DEF move_by_key
<1> DEFINE ctx == [active |-> w, cursor |-> Origin]
           e == end_resize(desk, ctx)
           at == Snapped(key, ActiveDisplay(e, ctx), e.info[w], e.rect[w])
           d == modify_window(e, w, [top_left |-> at], ctx)
           op == Op("key", w)
<1>2. /\ w \in Live(desk) /\ DeskSound(desk) /\ OutputsSound(outputs)
      /\ ContextSound(desk, ctx) /\ ctx.active = w
  BY ContextsSound DEF Core
<1>3. Step(d, op) /\ outputs' = outputs /\ gesture' = Over(gesture)
  BY <1>1 DEF MovedByKey
<1>4. GestureSound(gesture')
  BY <1>3 DEF Core, GestureSound, Over
<1> HIDE DEF ctx
<1>5. DeskSound(e) /\ Reshapes(desk, e, w) /\ Steady(desk, e)
  BY <1>2, EndedResize
<1> HIDE DEF e
<1>6. w \in Live(e) /\ ContextSound(e, ctx)
  BY <1>2, <1>5 DEF Steady, ContextSound
<1>7. ActiveDisplay(e, ctx) \in AnyRect /\ e.rect[w] \in AnyRect
  BY <1>2, <1>5, <1>6, ActiveDisplaySound, RectType DEF DeskSound
<1>8. at \in Points
  BY <1>7, SnappedType
<1> HIDE DEF at
<1>9. DeskSound(d) /\ Reshapes(e, d, w) /\ Steady(e, d)
  BY <1>2, <1>5, <1>6, <1>8, Positioned
<1> HIDE DEF d
<1>10. Reshapes(desk, d, w) /\ Steady(desk, d)
  BY <1>2, <1>5, <1>9, ReshapesAgain, SteadyTogether
<1>11. op.op = "key" /\ op.window = w
  BY DEF Op
<1> HIDE DEF op
<1>12. Sane(d, d, op)
  BY <1>2, <1>3, <1>9, <1>10, <1>11, SteadyStep
<1> QED BY <1>3, <1>4, <1>11, <1>12

LEMMA ToggleStep ==
    ASSUME InheritsAll, Core, toggle
    PROVE  /\ \E mid, d, op : Sane(mid, d, op) /\ op.op = "other"
           /\ GestureSound(gesture') /\ outputs' = outputs
<1>1. PICK state \in {"maximized", "vertmaximized", "horizmaximized", "fullscreen"},
           w \in Focusable(desk) :
        LET ctx == [active |-> w, cursor |-> Origin]
        IN  /\ policy = "titlebar"
            /\ Toggled(end_resize(desk, ctx), w, state, ctx)
            /\ gesture' = Over(gesture)
            /\ UNCHANGED outputs
  BY Zenon DEF toggle
<1> DEFINE ctx == [active |-> w, cursor |-> Origin]
           mid == end_resize(desk, ctx)
           wanted == IF mid.info[w].state = state THEN "restored" ELSE state
           mods == [state |-> wanted]
           d == Modify(mid, w, mods, ctx)
<1>2. /\ w \in Live(desk) /\ DeskSound(desk) /\ OutputsSound(outputs)
      /\ ContextSound(desk, ctx) /\ ctx.active = w
  BY ContextsSound DEF Core
<1>3. StepVia(mid, d, Other) /\ outputs' = outputs /\ gesture' = Over(gesture)
  BY <1>1 DEF Toggled
<1>4. GestureSound(gesture')
  BY <1>3 DEF Core, GestureSound, Over
<1> HIDE DEF ctx
<1>5. /\ DeskSound(mid) /\ Steady(desk, mid)
      /\ ~gesture.resizing /\ ~gesture.pinching => mid = desk
  BY <1>2, EndedResize
<1> HIDE DEF mid
<1>6. w \in Live(mid) /\ ContextSound(mid, ctx)
  BY <1>2, <1>5 DEF Steady, ContextSound
<1>7. wanted \in WindowStates /\ wanted # "hidden"
  BY DEF WindowStates
<1> HIDE DEF wanted
<1>8. /\ Sound(mods) /\ value_or(mods, "state", "restored") # "hidden" /\ Plain(mods)
  BY <1>7, GesturesSound DEF Plain, is_set, value_or
<1> HIDE DEF mods
<1>9. /\ DeskSound(d) /\ Follows(mid, d, Other.placed)
      /\ NoneHidden(mid) => NoneHidden(d)
      /\ Returns(mid, d)
  BY <1>2, <1>5, <1>6, <1>8, HandledRequest
<1> HIDE DEF d
<1>10. Follows(desk, mid, Other.placed) /\ (NoneHidden(desk) => NoneHidden(mid))
  BY <1>5, SteadyFollows
<1>11. Other.op = "other" /\ Other.op \notin WindowMoves
  BY DEF Other, Op, WindowMoves
<1>12. Sane(mid, d, Other)
  BY <1>3, <1>5, <1>9, <1>10, <1>11 DEF Sane
<1> QED BY <1>3, <1>4, <1>11, <1>12

-----------------------------------------------------------------------------
(* Clients and displays.                                                   *)

LEMMA RequestStep ==
    ASSUME InheritsAll, LimitsSound, Core, modify_surface
    PROVE  /\ \E mid, d, op : Sane(mid, d, op) /\ op.op = "other"
           /\ GestureSound(gesture') /\ outputs' = outputs
<1>1. PICK w \in Live(desk), request \in Requests :
        \E ctx \in ContextsOf(desk, request) :
            LET mods == from_modification(request)
            IN  /\ size_accepted(mods)
                /\ Step(Modify(desk, w, mods, ctx), Other)
                /\ UNCHANGED <<outputs, gesture>>
  BY Zenon DEF modify_surface
<1> DEFINE mods == from_modification(request)
<1>2. PICK ctx \in ContextsOf(desk, request) :
        Step(Modify(desk, w, mods, ctx), Other) /\ UNCHANGED <<outputs, gesture>>
  BY <1>1
<1> DEFINE d == Modify(desk, w, mods, ctx)
<1>3. DeskSound(desk) /\ OutputsSound(outputs) /\ Sound(mods)
  BY RequestsSound DEF Core
<1>4. ContextSound(desk, ctx)
  <2>1. ContextSound(desk, NoContext)
    BY DEF ContextSound, NoContext
  <2> QED BY <2>1, ContextsSound DEF ContextsOf
<1>5. /\ NoHiding => value_or(mods, "state", "restored") # "hidden"
      /\ PlainRestores => Plain(mods)
  BY DEF NoHiding, PlainRestores
<1> HIDE DEF mods
<1>6. /\ DeskSound(d) /\ Follows(desk, d, Other.placed)
      /\ NoneHidden(desk) /\ value_or(mods, "state", "restored") # "hidden" => NoneHidden(d)
      /\ Plain(mods) => Returns(desk, d)
  BY <1>3, <1>4, HandledRequest
<1> HIDE DEF d
<1>7. Follows(d, d, Other.placed)
  BY SteadyFollows DEF Steady
<1>8. Other.op = "other" /\ Other.op \notin WindowMoves
  BY DEF Other, Op, WindowMoves
<1>9. StepVia(d, d, Other)
  BY <1>2 DEF Step, d
<1>10. Sane(d, d, Other)
  BY <1>5, <1>6, <1>7, <1>8, <1>9 DEF Sane
<1>11. GestureSound(gesture') /\ outputs' = outputs
  BY <1>2 DEF Core
<1> QED BY <1>8, <1>10, <1>11

LEMMA RemoveStep ==
    ASSUME Core, remove_surface
    PROVE  /\ \E mid, d, op : Sane(mid, d, op) /\ op.op = "other"
           /\ GestureSound(gesture') /\ outputs' = outputs
<1>1. PICK w \in Live(desk) : Step(Removed(desk, w), Other) /\ UNCHANGED <<outputs, gesture>>
  BY Zenon DEF remove_surface
<1> DEFINE d == Removed(desk, w)
<1>2. DeskSound(d) /\ Shrunk(desk, d, w)
  BY RemovedWindow DEF Core
<1>3. StepVia(d, d, Other)
  BY <1>1 DEF Step
<1> HIDE DEF d
<1>4. Follows(d, d, Other.placed)
  BY SteadyFollows DEF Steady
<1>5. Follows(desk, d, Other.placed)
  BY <1>2 DEF Follows, Shrunk
<1>6. (NoneHidden(desk) => NoneHidden(d)) /\ Returns(desk, d)
  BY <1>2 DEF NoneHidden, Returns, Shrunk
<1>7. Other.op = "other" /\ Other.op \notin WindowMoves
  BY DEF Other, Op, WindowMoves
<1>8. Sane(d, d, Other)
  BY <1>2, <1>3, <1>4, <1>5, <1>6, <1>7 DEF Sane
<1>9. GestureSound(gesture') /\ outputs' = outputs
  BY <1>1 DEF Core
<1> QED BY <1>7, <1>8, <1>9

\* Displays come and go; what is true of every area is true of those there are.
LEMMA AreasKept ==
    ASSUME NEW S, \A id \in DOMAIN OutputAreas : OutputAreas[id] \in S,
           outputs \in Seq([id : DOMAIN OutputAreas, area : S]), Plugs
    PROVE  outputs' \in Seq([id : DOMAIN OutputAreas, area : S])
<1> DEFINE Output == [id : DOMAIN OutputAreas, area : S]
<1>1. CASE add_display
  <2>1. PICK id \in DOMAIN OutputAreas :
            outputs' = Append(outputs, [id |-> id, area |-> OutputAreas[id]])
    BY <1>1 DEF add_display
  <2>2. [id |-> id, area |-> OutputAreas[id]] \in Output
    OBVIOUS
  <2> HIDE DEF Output
  <2> QED BY <2>1, <2>2 DEF Output
<1>2. CASE remove_display
  <2>1. PICK id : outputs' = Unplugged(outputs, id)
    BY <1>2 DEF remove_display
  <2> DEFINE kept == {i \in DOMAIN outputs : outputs[i].id # id}
  <2>2. kept \subseteq 1..Len(outputs) /\ outputs \in Seq(Output)
    OBVIOUS
  <2> HIDE DEF kept, Output
  <2>3. Remaining(outputs, kept) \in Seq(Output)
    BY <2>2, RemainingProperties
  <2>4. outputs' = Remaining(outputs, kept)
    BY <2>1 DEF Unplugged, kept
  <2> QED BY <2>3, <2>4 DEF Output
<1> QED BY <1>1, <1>2 DEF Plugs

LEMMA DisplaysSound ==
    ASSUME OutputsSound(outputs), Plugs
    PROVE  OutputsSound(outputs')
<1>1. \A id \in DOMAIN OutputAreas : OutputAreas[id] \in Rects
  BY DataAssumption
<1> QED BY <1>1, AreasKept DEF OutputsSound

LEMMA DisplayStep ==
    ASSUME InheritsAll, Core, Plugs
    PROVE  /\ \E mid, d, op : Sane(mid, d, op) /\ op.op = "display" /\ d \in Refitted(desk, outputs')
           /\ GestureSound(gesture') /\ OutputsSound(outputs')
<1> DEFINE op == Op("display", NoWindow)
<1>1. PICK d \in Refitted(desk, outputs') : Step(d, op)
  BY DEF Plugs, add_display, remove_display
<1>2. gesture' = gesture
  BY DEF Plugs, add_display, remove_display
<1>3. OutputsSound(outputs') /\ DeskSound(desk)
  BY DisplaysSound DEF Core
<1>4. DeskSound(d) /\ d.info = desk.info
  BY <1>3, RefittedDesk
<1>5. Steady(desk, d)
  BY <1>4 DEF Steady, Live
<1>6. op.op = "display" /\ op.op \notin WindowMoves
  BY DEF Op, WindowMoves
<1> HIDE DEF op
<1>7. Sane(d, d, op)
  BY <1>1, <1>4, <1>5, <1>6, SteadyStep
<1> QED BY <1>1, <1>2, <1>3, <1>6, <1>7 DEF Core

\* The window manager's place for a new window is sound, and the room the
\* titlebar policy leaves above it keeps it so.
LEMMA RoomLeft ==
    ASSUME NEW spec, BuildSound(spec)
    PROVE  LET m == place_new_window(spec)
               raised == IF /\ policy = "titlebar" /\ spec.state # "fullscreen"
                            /\ needs_titlebar(spec.type) THEN title_bar_height ELSE 0
           IN  /\ BuildSound(m) /\ m.state = spec.state /\ m.type = spec.type
               /\ m.size = spec.size
               /\ m.top_left = Point(spec.top_left.x, spec.top_left.y + raised)
<1> DEFINE m == place_new_window(spec)
           lower == policy = "titlebar" /\ spec.state # "fullscreen" /\ needs_titlebar(spec.type)
           there == [spec EXCEPT !.top_left.y = @ + title_bar_height]
<1>1. /\ spec.top_left \in Points /\ spec.size \in Sizes /\ "top_left" \in DOMAIN spec
      /\ title_bar_height \in Int
  BY TitleBarAssumption DEF BuildSound, Sound, WellTyped, is_set
<1>2. m = IF lower THEN there ELSE spec
  BY DEF place_new_window
<1>3. CASE ~lower
  <2>1. spec.top_left = Point(spec.top_left.x, spec.top_left.y + 0)
    BY <1>1 DEF Point, Points
  <2> QED BY <1>2, <1>3, <2>1
<1>4. CASE lower
  <2>1. /\ DOMAIN there = DOMAIN spec
        /\ \A f \in DOMAIN spec \ {"top_left"} : there[f] = spec[f]
        /\ there.top_left = Point(spec.top_left.x, spec.top_left.y + title_bar_height)
    BY <1>1 DEF Point, Points
  <2>2. there.top_left \in Points
    BY <1>1, <2>1 DEF Point, Points
  <2> HIDE DEF there
  <2>3. /\ {"top_left", "size", "output_id", "type", "state"} \subseteq DOMAIN spec
        /\ Sound(spec)
    BY DEF BuildSound
  <2>4. there.size = spec.size /\ there.state = spec.state /\ there.type = spec.type
    BY <2>1, <2>3
  <2>5. spec.state \in WindowStates
    BY <2>3 DEF Sound, WellTyped, is_set
  <2>6. Sound(there)
    BY <1>1, <2>1, <2>2, <2>3, <2>4, <2>5, LikeSound DEF is_set
  <2> QED BY <1>2, <1>4, <2>1, <2>3, <2>4, <2>6 DEF BuildSound
<1> QED BY <1>3, <1>4

\* The kiosk maximizes what it is told of, and anyone else leaves it.
LEMMA AdvisedWindow ==
    ASSUME InheritsAll, OutputsSound(outputs), NEW d, DeskSound(d), NEW w \in Live(d),
           NEW ctx, ContextSound(d, ctx)
    PROVE  LET e == advise_new_window(d, w, ctx)
           IN  /\ DeskSound(e) /\ Reshapes(d, e, w)
               /\ \/ e = d
                  \/ /\ e.info[w].state = "maximized"
                     /\ e.info[w].restore_rect = RestoreRect(d.info[w], d.rect[w])
                     /\ d.info[w].state = "restored"
                     /\ policy = "kiosk"
                     /\ e.rect[w] = bounding_rectangle(Areas(outputs))
<1> DEFINE mods == [state |-> "maximized"]
           told == /\ policy = "kiosk" /\ d.info[w].type = "normal"
                   /\ d.info[w].parent = NoWindow /\ d.info[w].state = "restored"
           f == Modify(d, w, mods, ctx)
           e == advise_new_window(d, w, ctx)
<1>1. e = IF told THEN f ELSE d
  BY DEF advise_new_window
<1>2. CASE ~told
  BY <1>1, <1>2, ReshapesSelf
<1>3. CASE told
  <2>1. /\ Sound(mods) /\ is_set(mods, "state") /\ mods.state = "maximized"
        /\ ~is_set(mods, "placement_hints")
    BY GesturesSound DEF WindowStates, is_set
  <2> HIDE DEF mods
  <2>2. /\ DeskSound(f) /\ Reshapes(d, f, w)
        /\ f.info[w].state = value_or(mods, "state", d.info[w].state)
        /\ f.info[w].restore_rect =
              IF is_set(mods, "state") /\ mods.state # d.info[w].state
              THEN RestoreRect(d.info[w], d.rect[w]) ELSE d.info[w].restore_rect
        /\ StateWanted(mods, d.info[w]) /\ mods.state = "maximized"
              /\ ~is_set(mods, "placement_hints")
              => f.rect[w] = bounding_rectangle(Areas(outputs))
    BY <2>1, StateModified
  <2> HIDE DEF f
  <2>3. StateWanted(mods, d.info[w])
    BY <1>3, <2>1 DEF StateWanted
  <2> QED BY <1>1, <1>3, <2>1, <2>2, <2>3 DEF value_or
<1> QED BY <1>2, <1>3

\* Where the window manager put a new window, seen from which display.
Answered(d, op, params, spec) ==
    \E ctx \in Contexts(desk), p \in Live(desk) \cup {NoWindow} :
        /\ spec = NewSurface(desk, params, p, ctx)
        /\ params.parent <=> p # NoWindow
        /\ op.display = ActiveDisplay(desk, ctx)
        /\ d.info[op.window].parent = p

\* What is known of a step that adds a window: where it was placed, and what
\* the policy made of that.
Added(d, op, params, spec) ==
    LET w == op.window
    IN  /\ op.op = "add" /\ w \in Live(d) \ Live(desk)
        /\ params \in Creations
        /\ d.info[w].type = spec.type
        /\ op.hints = value_or(params, "placement_hints", {})
        /\ Answered(d, op, params, spec)
        /\ LET m == place_new_window(spec)
           IN  /\ op.placed = Rect(m.top_left, m.size)
               /\ \/ d.rect[w] = op.placed
                  \/ policy = "kiosk" /\ d.rect[w] = bounding_rectangle(Areas(outputs))

\* What place_new_surface() is given is sound, and so is its answer.
LEMMA SurfaceSound ==
    ASSUME LimitsSound, OutputsSound(outputs), DeskSound(desk), NEW params \in Creations,
           NEW p \in Live(desk) \cup {NoWindow}, NEW ctx \in Contexts(desk)
    PROVE  LET m == NewSurface(desk, params, p, ctx)
               c == from_creation(params)
               active == ActiveDisplay(desk, ctx)
           IN  /\ BuildSound(m) /\ m.type = value_or(c, "type", "normal")
               /\ active \in Rects
               /\ /\ p # NoWindow /\ is_set(c, "placement_hints")
                  /\ {"slide_x", "slide_y"} \subseteq c.placement_hints
                  /\ m.size.width <= active.size.width /\ m.size.height <= active.size.height
                  => Contains(active, Rect(m.top_left, m.size))
               /\ /\ p = NoWindow /\ c.output_id = 0
                  /\ c.size.width > 0 /\ c.size.height > 0
                  /\ \A i \in DOMAIN outputs : Positive(outputs[i].area)
                  /\ outputs # <<>>
                  => SeenOn(outputs, Rect(m.top_left, m.size))
               /\ m.state \in {value_or(c, "state", "restored"), "fullscreen"}
<1> DEFINE c == from_creation(params)
           active == ActiveDisplay(desk, ctx)
           first == RectOf(desk, IF desk.windows = <<>> THEN NoWindow ELSE Head(desk.windows))
           parent == RectOf(desk, p)
<1>1. ParamsSound(c)
  BY CreationsSound
<1>2. active \in Rects /\ (outputs # <<>> => \E i \in DOMAIN outputs : active = outputs[i].area)
  BY ContextsSound, ActiveDisplaySound
<1>3. active \in AnyRect
  BY <1>2, RectType
<1>4. NoWindow \notin Live(desk)
  BY ContextsSound
<1>5. ASSUME NEW x \in Live(desk) \cup {NoWindow}
      PROVE  OneOrNone(RectOf(desk, x)) /\ (RectOf(desk, x) = <<>> <=> x = NoWindow)
  <2>1. CASE x = NoWindow
    BY <2>1 DEF RectOf, OneOrNone
  <2>2. CASE x \in Live(desk)
    <3>1. RectOf(desk, x) = <<desk.rect[x]>> /\ desk.rect[x] \in AnyRect
      BY <1>4, <2>2 DEF RectOf, DeskSound
    <3>2. <<desk.rect[x]>> # <<>> /\ <<desk.rect[x]>>[1] = desk.rect[x]
      OBVIOUS
    <3> QED BY <1>4, <2>2, <3>1, <3>2 DEF OneOrNone
  <2> QED BY <2>1, <2>2
<1>6. OneOrNone(parent) /\ (parent = <<>> <=> p = NoWindow)
  BY <1>5
<1>7. OneOrNone(first)
  <2>1. desk.windows # <<>> => Head(desk.windows) \in Live(desk)
    BY DEF DeskSound
  <2> QED BY <1>5, <2>1
<1>8. NewSurface(desk, params, p, ctx) = place_new_surface(outputs, active, first, parent, c)
  BY Zenon DEF NewSurface
<1> HIDE DEF c, active, first, parent
<1>9. LET m == place_new_surface(outputs, active, first, parent, c)
      IN  /\ BuildSound(m) /\ m.type = value_or(c, "type", "normal")
          /\ /\ parent # <<>> /\ is_set(c, "placement_hints")
             /\ {"slide_x", "slide_y"} \subseteq c.placement_hints
             /\ m.size.width <= active.size.width /\ m.size.height <= active.size.height
             => Contains(active, Rect(m.top_left, m.size))
          /\ /\ parent = <<>> /\ c.output_id = 0
             /\ c.size.width > 0 /\ c.size.height > 0
             /\ \A i \in DOMAIN outputs : Positive(outputs[i].area)
             /\ \E i \in DOMAIN outputs : active = outputs[i].area
             => SeenOn(outputs, Rect(m.top_left, m.size))
          /\ m.state \in {value_or(c, "state", "restored"), "fullscreen"}
  BY <1>1, <1>3, <1>6, <1>7, NewSurfaceSound
<1> DEFINE n == NewSurface(desk, params, p, ctx)
<1>10. /\ BuildSound(n) /\ n.type = value_or(c, "type", "normal")
       /\ /\ p # NoWindow /\ is_set(c, "placement_hints")
          /\ {"slide_x", "slide_y"} \subseteq c.placement_hints
          /\ n.size.width <= active.size.width /\ n.size.height <= active.size.height
          => Contains(active, Rect(n.top_left, n.size))
       /\ /\ p = NoWindow /\ c.output_id = 0
          /\ c.size.width > 0 /\ c.size.height > 0
          /\ \A i \in DOMAIN outputs : Positive(outputs[i].area)
          /\ outputs # <<>>
          => SeenOn(outputs, Rect(n.top_left, n.size))
       /\ n.state \in {value_or(c, "state", "restored"), "fullscreen"}
  BY <1>2, <1>6, <1>8, <1>9
<1> HIDE DEF n
<1> QED BY <1>2, <1>10 DEF n, c, active

LEMMA AddStep ==
    ASSUME InheritsAll, LimitsSound, Core, add_surface
    PROVE  /\ \E mid, d, op, params, spec : Sane(mid, d, op) /\ Added(d, op, params, spec)
           /\ GestureSound(gesture') /\ outputs' = outputs
<1>0. PICK params \in Creations, w \in Windows \ Live(desk), ctx \in Contexts(desk) :
        \E p \in IF params.parent THEN Live(desk) ELSE {NoWindow} :
        LET spec == place_new_window(NewSurface(desk, params, p, ctx))
            d    == Built(desk, w, spec, p)
        IN  /\ Step(advise_new_window(d, w, ctx),
                    [op |-> "add", window |-> w, placed |-> Rect(spec.top_left, spec.size),
                     display |-> ActiveDisplay(desk, ctx),
                     hints |-> value_or(params, "placement_hints", {})])
            /\ UNCHANGED <<outputs, gesture>>
  BY Zenon DEF add_surface
<1>1. PICK p \in IF params.parent THEN Live(desk) ELSE {NoWindow} :
        LET spec == place_new_window(NewSurface(desk, params, p, ctx))
            d    == Built(desk, w, spec, p)
        IN  /\ Step(advise_new_window(d, w, ctx),
                    [op |-> "add", window |-> w, placed |-> Rect(spec.top_left, spec.size),
                     display |-> ActiveDisplay(desk, ctx),
                     hints |-> value_or(params, "placement_hints", {})])
            /\ UNCHANGED <<outputs, gesture>>
  BY <1>0
<1> DEFINE chosen == NewSurface(desk, params, p, ctx)
           spec == place_new_window(chosen)
           built == Built(desk, w, spec, p)
           d == advise_new_window(built, w, ctx)
           op == [op |-> "add", window |-> w, placed |-> Rect(spec.top_left, spec.size),
                  display |-> ActiveDisplay(desk, ctx),
                  hints |-> value_or(params, "placement_hints", {})]
<1>2. Step(d, op) /\ outputs' = outputs /\ gesture' = gesture
  BY <1>1
<1>3. DeskSound(desk) /\ OutputsSound(outputs) /\ p \in Live(desk) \cup {NoWindow}
  BY DEF Core
<1>4. BuildSound(chosen) /\ chosen.state \in {value_or(from_creation(params), "state", "restored"), "fullscreen"}
  BY <1>3, SurfaceSound
<1>5. params.parent <=> p # NoWindow
  BY <1>3, ContextsSound
<1>6. chosen = NewSurface(desk, params, p, ctx)
  OBVIOUS
<1> HIDE DEF chosen
<1>7. BuildSound(spec) /\ spec.state = chosen.state /\ spec.type = chosen.type
  BY <1>4, RoomLeft
<1>8. spec = place_new_window(chosen)
  OBVIOUS
<1> HIDE DEF spec
<1>9. DeskSound(built) /\ Grown(desk, built, w, spec, p)
  BY <1>3, <1>7, BuiltWindow
<1> HIDE DEF built
<1>10. w \in Live(built) /\ ContextSound(built, ctx)
  BY <1>9, ContextsSound DEF Grown, ContextSound
<1>11. /\ DeskSound(d) /\ Reshapes(built, d, w)
       /\ \/ d = built
          \/ /\ d.info[w].state = "maximized"
             /\ d.info[w].restore_rect = RestoreRect(built.info[w], built.rect[w])
             /\ built.info[w].state = "restored"
             /\ policy = "kiosk"
             /\ d.rect[w] = bounding_rectangle(Areas(outputs))
  BY <1>3, <1>9, <1>10, AdvisedWindow
<1> HIDE DEF d
<1>12. /\ op.op = "add" /\ op.window = w /\ op.op \notin WindowMoves
       /\ op.placed = Rect(spec.top_left, spec.size)
       /\ op.display = ActiveDisplay(desk, ctx)
       /\ op.hints = value_or(params, "placement_hints", {})
  BY DEF WindowMoves
<1> HIDE DEF op
<1>13. /\ Live(d) = Live(desk) \cup {w}
       /\ \A x \in Live(desk) : d.info[x] = desk.info[x]
       /\ d.info[w].parent = p /\ d.info[w].type = spec.type
  BY <1>9, <1>11 DEF Grown, Reshapes
<1>14. d.info[w].restore_rect = op.placed /\ (d = built \/ d.info[w].state = "maximized")
  <2>1. built.info[w].restore_rect = op.placed /\ built.rect[w] = op.placed
    BY <1>9, <1>12 DEF Grown
  <2>2. CASE d = built
    BY <2>1, <2>2
  <2>3. CASE d # built
    <3>1. op.placed \in AnyRect
      BY <1>9, <1>10, <2>1 DEF DeskSound
    <3>2. built.info[w].state = "restored"
      BY <1>11, <2>3
    <3>3. RestoreRect(built.info[w], built.rect[w]) = op.placed
      BY <2>1, <3>1, <3>2, RectType DEF RestoreRect, Free, Rect, Point, Size
    <3> QED BY <1>11, <2>3, <3>3
  <2> QED BY <2>2, <2>3
<1>15. Follows(desk, d, op.placed)
  BY <1>13, <1>14 DEF Follows
<1>16. Follows(d, d, op.placed)
  BY SteadyFollows DEF Steady
<1>17. NoHiding /\ NoneHidden(desk) => NoneHidden(d)
  <2>1. NoHiding => chosen.state # "hidden"
    BY <1>4 DEF NoHiding
  <2>2. built.info[w].state = chosen.state
    BY <1>7, <1>9 DEF Grown
  <2>3. NoHiding => d.info[w].state # "hidden"
    BY <1>14, <2>1, <2>2
  <2> QED BY <1>13, <2>3 DEF NoneHidden
<1>18. Returns(desk, d)
  BY <1>13 DEF Returns
<1>19. Sane(d, d, op)
  BY <1>2, <1>11, <1>12, <1>15, <1>16, <1>17, <1>18 DEF Sane, Step
<1>20. d.rect[w] = op.placed \/ (policy = "kiosk" /\ d.rect[w] = bounding_rectangle(Areas(outputs)))
  BY <1>9, <1>11, <1>12 DEF Grown
<1>21. Answered(d, op, params, chosen)
  BY <1>3, <1>5, <1>6, <1>12, <1>13 DEF Answered
<1>22. Added(d, op, params, chosen)
  BY <1>7, <1>8, <1>12, <1>13, <1>20, <1>21 DEF Added
<1> QED BY <1>2, <1>19, <1>22 DEF Core

-----------------------------------------------------------------------------
(* The invariant that the rest leans on.                                   *)

LEMMA CoreInit ==
    ASSUME Init
    PROVE  Core /\ HomeKept(desk, home) /\ NoneHidden(desk)
<1>1. DOMAIN NothingSet = {}
  BY DEF NothingSet
<1>2. /\ desk = [windows |-> <<>>, info |-> NothingSet, rect |-> NothingSet, fullscreen |-> {}]
      /\ home = NothingSet /\ Live(desk) = {}
  BY <1>1 DEF Init, Live
<1>3. NothingSet \in [{} -> AnyRect]
  BY <1>1 DEF NothingSet
<1> HIDE DEF NothingSet
<1>4. DeskSound(desk)
  <2>1. /\ {"windows", "info", "rect", "fullscreen"} \subseteq DOMAIN desk
        /\ desk.windows = <<>> /\ desk.rect = NothingSet /\ desk.fullscreen = {}
    BY <1>2
  <2>2. IsFiniteSet({})
    BY FS_EmptySet
  <2>3. <<>> \in Seq({})
    OBVIOUS
  <2> QED BY <1>2, <1>3, <2>1, <2>2, <2>3 DEF DeskSound
<1>5. OutputsSound(outputs)
  <2>1. [id |-> FirstOutput, area |-> OutputAreas[FirstOutput]] \in [id : DOMAIN OutputAreas, area : Rects]
    BY PoliciesAssumption, DataAssumption
  <2>2. outputs = <<[id |-> FirstOutput, area |-> OutputAreas[FirstOutput]]>>
    BY DEF Init
  <2> QED BY <2>1, <2>2 DEF OutputsSound
<1>6. GestureSound(gesture)
  <2>1. NoArea \in AnyRect
    BY RectType DEF NoArea, Origin
  <2> QED BY <2>1 DEF Init, GestureSound
<1> QED BY <1>1, <1>2, <1>3, <1>4, <1>5, <1>6 DEF Core, HomeKept, NoneHidden

\* Every step is one of these.
LEMMA NextSane ==
    ASSUME InheritsAll, LimitsSound, Core, Next
    PROVE  /\ \E mid, d, op : Sane(mid, d, op)
           /\ OutputsSound(outputs') /\ GestureSound(gesture')
           /\ Plugs \/ outputs' = outputs
<1>1. OutputsSound(outputs)
  BY DEF Core
<1>2. CASE add_surface
  BY <1>1, <1>2, AddStep
<1>3. CASE modify_surface
  BY <1>1, <1>3, RequestStep
<1>4. CASE remove_surface
  BY <1>1, <1>4, RemoveStep
<1>5. CASE Plugs
  BY <1>5, DisplayStep
<1>6. CASE drag_active_window
  BY <1>1, <1>6, DragStep
<1>7. CASE resize
  BY <1>1, <1>7, ResizeStep
<1>8. CASE end_gesture
  BY <1>1, <1>8, EndStep
<1>9. CASE pinch
  BY <1>1, <1>9, PinchStep
<1>10. CASE touch_down
  BY <1>1, <1>10, TouchStep
<1>11. CASE move_by_key
  BY <1>1, <1>11, KeyStep
<1>12. CASE toggle
  BY <1>1, <1>12, ToggleStep
<1> QED
  BY <1>2, <1>3, <1>4, <1>5, <1>6, <1>7, <1>8, <1>9, <1>10, <1>11, <1>12
  DEF Next, Client, Gesture

LEMMA CoreNext ==
    ASSUME InheritsAll, LimitsSound, Core, [Next]_vars
    PROVE  Core'
<1>1. CASE Next
  <2>1. /\ \E mid, d, op : Sane(mid, d, op)
        /\ OutputsSound(outputs') /\ GestureSound(gesture')
    BY <1>1, NextSane
  <2>2. PICK mid, d, op : Sane(mid, d, op)
    BY <2>1
  <2>3. desk' = d /\ home' = Homes(d, Homes(mid, home, op), op) /\ DeskSound(d)
    BY <2>2 DEF Sane, StepVia
  <2>4. DOMAIN home' = Live(desk')
    BY <2>3 DEF Homes
  <2> QED BY <2>1, <2>3, <2>4 DEF Core
<1>2. CASE UNCHANGED vars
  BY <1>2 DEF vars, Core
<1> QED BY <1>1, <1>2

\* Whatever clients, the pointer, fingers, keys and displays do, the window
\* manager's tables stay in step: infos, surfaces and the list of windows are
\* of the same windows, parents are live, the fullscreen set is exact, limits
\* can be divided by, and every rectangle is one of whole numbers.
THEOREM CoreInvariant ==
    ASSUME InheritsAll, LimitsSound
    PROVE  Spec => []Core
<1>1. Init => Core
  BY CoreInit
<1>2. Core /\ [Next]_vars => Core'
  BY CoreNext
<1> QED BY <1>1, <1>2, PTL DEF Spec

\* The window manager's tables stay in step (add_surface(), remove_surface()
\* and modify_window()): nothing that clients or the shell do leaves a window
\* without a surface, a parent that is gone, or a fullscreen set that is stale.
THEOREM TablesInStep ==
    ASSUME InheritsAll, LimitsSound
    PROVE  Spec => []TypeOK
<1>1. Core => TypeOK
  <2> SUFFICES ASSUME Core PROVE TypeOK
    OBVIOUS
  <2>1. DeskSound(desk)
    BY DEF Core
  <2>2. {desk.windows[i] : i \in DOMAIN desk.windows} = Live(desk)
    <3>1. desk.windows \in Seq(Live(desk))
      BY <2>1 DEF DeskSound
    <3>2. \A i \in DOMAIN desk.windows : desk.windows[i] \in Live(desk)
      BY <3>1
    <3>3. \A w \in Live(desk) : \E i \in DOMAIN desk.windows : desk.windows[i] = w
      BY <2>1 DEF DeskSound
    <3> QED BY <3>2, <3>3
  <2> QED BY <2>1, <2>2 DEF TypeOK, Core, DeskSound, InfoSound
<1> QED BY <1>1, CoreInvariant, PTL

-----------------------------------------------------------------------------
(* Windows and their descendants, and where they return to.                *)

\* Whatever moves a window moves all its descendants with it (move_tree()), for
\* trees of any depth.
THEOREM DescendantsFollow ==
    ASSUME InheritsAll, LimitsSound
    PROVE  Spec => TreeTogether
<1> DEFINE Together ==
        last'.op \in {"drag", "key", "resize", "pinch"} =>
            LET w == last'.window
                moved == Minus(desk'.rect[w].top_left, desk.rect[w].top_left)
            IN  \A x \in Below(desk, w) :
                    Minus(desk'.rect[x].top_left, desk.rect[x].top_left) = moved
<1>1. Core /\ [Next]_vars => [Together]_vars
  <2> SUFFICES ASSUME Core, Next, last'.op \in WindowMoves PROVE Together
    BY DEF WindowMoves
  <2>1. PICK mid, d, op : Sane(mid, d, op)
    BY NextSane
  <2>2. desk' = d /\ last' = op /\ DeskSound(d) /\ DeskSound(desk)
    BY <2>1 DEF Sane, StepVia, Core
  <2> DEFINE w == op.window
             moved == Minus(d.rect[w].top_left, desk.rect[w].top_left)
  <2>3. w \in Live(desk) /\ Reshapes(desk, d, w)
    BY <2>1, <2>2 DEF Sane
  <2>4. moved \in Points
    <3>1. d.rect[w] \in AnyRect /\ desk.rect[w] \in AnyRect
      BY <2>2, <2>3 DEF DeskSound, Reshapes
    <3> QED BY <3>1, RectType, PointSums
  <2> HIDE DEF moved
  <2>5. ASSUME NEW x \in Below(desk, w)
        PROVE  Minus(d.rect[x].top_left, desk.rect[x].top_left) = moved
    <3>1. CASE x = w
      BY <3>1 DEF moved
    <3>2. CASE x # w
      <4>1. x \in Live(desk)
        BY <2>2, <2>3, BelowLive DEF DeskSound
      <4>2. desk.rect[x] \in AnyRect /\ d.rect[x] = Shifted(desk.rect[x], moved)
        BY <2>2, <2>3, <3>2, <4>1 DEF Reshapes, DeskSound, moved
      <4> QED BY <2>4, <4>2, ShiftedType
    <3> QED BY <3>1, <3>2
  <2> QED BY <2>2, <2>5 DEF moved
<1> QED BY <1>1, CoreInvariant, PTL DEF Spec, TreeTogether

LEMMA HomesNext ==
    ASSUME NEW mid, NEW d, NEW op, Sane(mid, d, op), DeskSound(desk), NoHiding,
           HomeKept(desk, home), NoneHidden(desk)
    PROVE  HomeKept(d, Homes(d, Homes(mid, home, op), op)) /\ NoneHidden(d)
<1>1. /\ DeskSound(mid) /\ DeskSound(d) /\ NoneHidden(mid) /\ NoneHidden(d)
      /\ Follows(desk, mid, op.placed) /\ Follows(mid, d, op.placed)
  BY DEF Sane
<1>2. HomeKept(mid, Homes(mid, home, op))
  BY <1>1, HomesKept
<1> QED BY <1>1, <1>2, HomesKept

\* A window that is restored goes back to where it would be had it never been
\* maximized, minimized or fullscreen (modify_window() and
\* place_and_size_for_state()), over any history of states, movements and
\* displays.  The invariant behind it: wherever a window is and whatever its
\* state, restore_rect, brought up to date, is that place.
THEOREM RestoredWhereItWas ==
    ASSUME InheritsAll, LimitsSound, NoHiding, PlainRestores
    PROVE  Spec => RestoreReturns
<1> DEFINE AtHome == HomeKept(desk, home) /\ NoneHidden(desk)
           Restores ==
             \A w \in Live(desk) \cap DOMAIN desk'.info :
                LET idle == ~gesture.resizing /\ ~gesture.pinching
                    restored == /\ desk.info[w].state # "restored"
                                /\ desk'.info[w].state = "restored"
                IN  idle /\ restored => desk'.rect[w] = home[w]
<1>1. Init => AtHome
  BY CoreInit
<1>2. Core /\ AtHome /\ [Next]_vars => AtHome'
  <2> SUFFICES ASSUME Core, AtHome, [Next]_vars PROVE AtHome'
    OBVIOUS
  <2>1. CASE Next
    <3>1. PICK mid, d, op : Sane(mid, d, op)
      BY <2>1, NextSane
    <3>2. desk' = d /\ home' = Homes(d, Homes(mid, home, op), op) /\ DeskSound(desk)
      BY <3>1 DEF Sane, StepVia, Core
    <3>3. HomeKept(d, Homes(d, Homes(mid, home, op), op)) /\ NoneHidden(d)
      BY <3>1, <3>2, HomesNext
    <3> QED BY <3>2, <3>3
  <2>2. CASE UNCHANGED vars
    BY <2>2 DEF vars, HomeKept, NoneHidden, Live
  <2> QED BY <2>1, <2>2
<1>3. Core /\ AtHome /\ [Next]_vars => [Restores]_vars
  <2> SUFFICES ASSUME Core, AtHome, Next, ~gesture.resizing, ~gesture.pinching,
                      NEW w \in Live(desk) \cap Live(desk'),
                      desk.info[w].state # "restored", desk'.info[w].state = "restored"
               PROVE  desk'.rect[w] = home[w]
    BY DEF Live
  <2>1. PICK mid, d, op : Sane(mid, d, op)
    BY NextSane
  <2>2. desk' = d /\ Returns(desk, d)
    BY <2>1 DEF Sane, StepVia
  <2>3. d.rect[w] = RestoreRect(desk.info[w], desk.rect[w])
    BY <2>2 DEF Returns
  <2> QED BY <2>2, <2>3 DEF HomeKept
<1> QED BY <1>1, <1>2, <1>3, CoreInvariant, PTL DEF Spec, RestoreReturns

-----------------------------------------------------------------------------
(* What is true after some of the operations.                              *)

\* The name of an operation says which it was.
LEMMA NextKinds ==
    ASSUME InheritsAll, LimitsSound, Core, Next
    PROVE  /\ last'.op = "display" => Plugs
           /\ last'.op = "add" => add_surface
           /\ last'.op = "resize" => resize
<1>1. \A mid, d, op : Sane(mid, d, op) => last' = op
  BY DEF Sane, StepVia
<1>2. CASE add_surface
  <2>1. PICK mid, d, op, params, spec : Sane(mid, d, op) /\ Added(d, op, params, spec)
    BY <1>2, AddStep
  <2>2. last'.op = "add"
    BY <1>1, <2>1 DEF Added
  <2> QED BY <1>2, <2>2
<1>3. CASE modify_surface
  BY <1>1, <1>3, RequestStep
<1>4. CASE remove_surface
  BY <1>1, <1>4, RemoveStep
<1>5. CASE Plugs
  BY <1>1, <1>5, DisplayStep
<1>6. CASE drag_active_window
  BY <1>1, <1>6, DragStep
<1>7. CASE resize
  BY <1>1, <1>7, ResizeStep
<1>8. CASE end_gesture
  BY <1>1, <1>8, EndStep
<1>9. CASE pinch
  BY <1>1, <1>9, PinchStep
<1>10. CASE touch_down
  BY <1>1, <1>10, TouchStep
<1>11. CASE move_by_key
  BY <1>1, <1>11, KeyStep
<1>12. CASE toggle
  BY <1>1, <1>12, ToggleStep
<1> QED
  BY <1>2, <1>3, <1>4, <1>5, <1>6, <1>7, <1>8, <1>9, <1>10, <1>11, <1>12
  DEF Next, Client, Gesture

\* After displays have come or gone every fullscreen window that is not below
\* another covers its output, or some output if that one is not connected
\* (add_display(), remove_display()), whatever order the set is gone through in.
THEOREM FullscreenCovered ==
    ASSUME InheritsAll, LimitsSound
    PROVE  Spec => []FullscreenCovers
<1>1. Init => FullscreenCovers
  BY DEF Init, FullscreenCovers, Other, Op
<1>2. Core /\ FullscreenCovers /\ [Next]_vars => FullscreenCovers'
  <2> SUFFICES ASSUME Core, FullscreenCovers, [Next]_vars PROVE FullscreenCovers'
    OBVIOUS
  <2>1. CASE UNCHANGED vars
    BY <2>1 DEF vars, FullscreenCovers
  <2>2. CASE Next /\ last'.op # "display"
    BY <2>2 DEF FullscreenCovers
  <2>3. CASE Next /\ last'.op = "display"
    <3>1. PICK mid, d, op : Sane(mid, d, op) /\ d \in Refitted(desk, outputs')
      BY <2>3, NextKinds, DisplayStep
    <3>2. OutputsSound(outputs')
      BY <2>3, NextKinds, DisplayStep
    <3>3. desk' = d /\ DeskSound(d) /\ DeskSound(desk)
      BY <3>1 DEF Sane, StepVia, Core
    <3>4. /\ d.info = desk.info
          /\ \A w \in desk.fullscreen :
                (\A p \in desk.fullscreen : w \notin Below(desk, p))
                    => Covers(outputs', desk.info[w], d.rect[w])
      BY <3>1, <3>2, <3>3, RefittedDesk
    <3>5. Live(d) = Live(desk) /\ d.fullscreen = desk.fullscreen
      BY <3>3, <3>4 DEF DeskSound, Live
    <3>6. \A p \in Live(desk) : Below(d, p) = Below(desk, p)
      <4>1. IsFiniteSet(Live(desk)) /\ SameTrees(desk, d)
        BY <3>3, <3>4, <3>5 DEF DeskSound, SameTrees
      <4> QED BY <4>1, BelowSame
    <3> SUFFICES ASSUME outputs' # <<>>, NEW w \in Live(d), d.info[w].state = "fullscreen",
                        \A p \in Live(d) : w \in Below(d, p) => p \notin d.fullscreen
                 PROVE  \E i \in DOMAIN outputs' :
                          /\ d.rect[w] = outputs'[i].area
                          /\ (\E j \in DOMAIN outputs' : outputs'[j].id = d.info[w].output_id)
                                => outputs'[i].id = d.info[w].output_id
      BY <3>3 DEF FullscreenCovers
    <3>7. w \in desk.fullscreen /\ desk.fullscreen \subseteq Live(desk)
      BY <3>3, <3>4, <3>5 DEF DeskSound
    <3>8. Covers(outputs', desk.info[w], d.rect[w])
      BY <3>4, <3>5, <3>6, <3>7
    <3>9. is_set(desk.info[w], "output_id")
      BY <3>3, <3>7 DEF DeskSound, InfoSound, is_set
    <3> QED BY <3>4, <3>8, <3>9 DEF Covers
  <2> QED BY <2>1, <2>2, <2>3
<1> QED BY <1>1, <1>2, CoreInvariant, PTL DEF Spec

\* The arithmetic of one axis: where an edge is held, or the other one is.
EdgeHeld(lo, hi, width, at, delta, left) ==
    LET kept == Kept(lo, hi, width + (IF left THEN -1 ELSE 1) * delta, delta)
        then == at + (IF left THEN kept.delta ELSE 0)
    IN  then = at \/ then + kept.n = at + width

LEMMA OneEdge ==
    ASSUME NEW lo \in Int, NEW hi \in Int, NEW width \in lo..hi, NEW at \in Int,
           NEW delta \in Int, NEW left \in BOOLEAN
    PROVE  EdgeHeld(lo, hi, width, at, delta, left)
<1>1. CASE left
  <2>1. (IF left THEN -1 ELSE 1) * delta = -delta
    BY <1>1
  <2>2. width + (-delta) \in Int /\ width \in Int
    OBVIOUS
  <2> QED BY <1>1, <2>1, <2>2 DEF Kept, EdgeHeld
<1>2. CASE ~left
  BY <1>2 DEF EdgeHeld
<1> QED BY <1>1, <1>2

LEMMA StretchedEdges ==
    ASSUME NEW d, DeskSound(d), NEW w \in Live(d), NEW g, GestureSound(g), NEW delta \in Points
    PROVE  LET m == Stretched(d, w, g, delta)
               now == d.rect[w]
               info == d.info[w]
           IN  /\ \/ now.size.width \notin Least(info.min_width)..info.max_width
                  \/ m.top_left.x = now.top_left.x
                  \/ m.top_left.x + m.size.width = now.top_left.x + now.size.width
               /\ \/ now.size.height \notin Least(info.min_height)..info.max_height
                  \/ m.top_left.y = now.top_left.y
                  \/ m.top_left.y + m.size.height = now.top_left.y + now.size.height
<1> DEFINE now == d.rect[w]
           info == d.info[w]
           x == Kept(Least(info.min_width), info.max_width,
                     now.size.width + (IF g.left_resize THEN -1 ELSE 1) * delta.x, delta.x)
           y == Kept(Least(info.min_height), info.max_height,
                     now.size.height + (IF g.top_resize THEN -1 ELSE 1) * delta.y, delta.y)
           m == Stretched(d, w, g, delta)
<1>1. /\ m.top_left.x = now.top_left.x + (IF g.left_resize THEN x.delta ELSE 0)
      /\ m.top_left.y = now.top_left.y + (IF g.top_resize THEN y.delta ELSE 0)
      /\ m.size.width = x.n /\ m.size.height = y.n
  BY DEF Stretched, keep_size_within_limits, Plus, Point, Size
<1>2. /\ now.size.width \in Int /\ now.size.height \in Int
      /\ now.top_left.x \in Int /\ now.top_left.y \in Int
  BY RectType DEF DeskSound
<1>3. delta.x \in Int /\ delta.y \in Int /\ g.left_resize \in BOOLEAN /\ g.top_resize \in BOOLEAN
  BY DEF Points, GestureSound
<1>4. /\ Least(info.min_width) \in Int /\ info.max_width \in Int
      /\ Least(info.min_height) \in Int /\ info.max_height \in Int
  <2>1. InfoLimits(info) /\ MinExtent \in Int
    BY PoliciesAssumption DEF DeskSound, InfoSound
  <2> QED BY <2>1 DEF InfoLimits, Least
<1> HIDE DEF m, now, info
<1>5. ASSUME now.size.width \in Least(info.min_width)..info.max_width
      PROVE  \/ m.top_left.x = now.top_left.x
             \/ m.top_left.x + m.size.width = now.top_left.x + now.size.width
  <2> DEFINE lo == Least(info.min_width)
             hi == info.max_width
             at == now.top_left.x
             len == now.size.width
             by == delta.x
             back == g.left_resize
  <2>1. x = Kept(lo, hi, len + (IF back THEN -1 ELSE 1) * by, by)
    OBVIOUS
  <2>2. lo \in Int /\ hi \in Int /\ at \in Int /\ len \in lo..hi /\ by \in Int /\ back \in BOOLEAN
    BY <1>2, <1>3, <1>4, <1>5
  <2>3. m.top_left.x = at + (IF back THEN x.delta ELSE 0) /\ m.size.width = x.n
    BY <1>1
  <2> HIDE DEF lo, hi, at, len, by, back, x
  <2>4. EdgeHeld(lo, hi, len, at, by, back)
    BY <2>2, OneEdge
  <2>5. m.top_left.x = at \/ m.top_left.x + m.size.width = at + len
    BY <2>1, <2>3, <2>4 DEF EdgeHeld
  <2> QED BY <2>5 DEF at, len
<1>6. ASSUME now.size.height \in Least(info.min_height)..info.max_height
      PROVE  \/ m.top_left.y = now.top_left.y
             \/ m.top_left.y + m.size.height = now.top_left.y + now.size.height
  <2> DEFINE lo == Least(info.min_height)
             hi == info.max_height
             at == now.top_left.y
             len == now.size.height
             by == delta.y
             back == g.top_resize
  <2>1. y = Kept(lo, hi, len + (IF back THEN -1 ELSE 1) * by, by)
    OBVIOUS
  <2>2. lo \in Int /\ hi \in Int /\ at \in Int /\ len \in lo..hi /\ by \in Int /\ back \in BOOLEAN
    BY <1>2, <1>3, <1>4, <1>6
  <2>3. m.top_left.y = at + (IF back THEN y.delta ELSE 0) /\ m.size.height = y.n
    BY <1>1
  <2> HIDE DEF lo, hi, at, len, by, back, y
  <2>4. EdgeHeld(lo, hi, len, at, by, back)
    BY <2>2, OneEdge
  <2>5. m.top_left.y = at \/ m.top_left.y + m.size.height = at + len
    BY <2>1, <2>3, <2>4 DEF EdgeHeld
  <2> QED BY <2>5 DEF at, len
<1> QED BY <1>5, <1>6 DEF m, now, info

\* A resize gesture moves one edge of a window on either axis, never both
\* (resize() and keep_size_within_limits()), whatever the limits, the anchor
\* and the movement.
THEOREM NeverSlides ==
    ASSUME InheritsAll, LimitsSound
    PROVE  Spec => NoSlide
<1> DEFINE OneEdgeEach ==
        last'.op = "resize" =>
            LET w == last'.window  now == desk.rect[w]  then == desk'.rect[w]
                info == desk.info[w]
            IN  /\ \/ now.size.width \notin Least(info.min_width)..info.max_width
                   \/ then.top_left.x = now.top_left.x
                   \/ bottom_right(then).x = bottom_right(now).x
                /\ \/ now.size.height \notin Least(info.min_height)..info.max_height
                   \/ then.top_left.y = now.top_left.y
                   \/ bottom_right(then).y = bottom_right(now).y
<1>1. Core /\ [Next]_vars => [OneEdgeEach]_vars
  <2> SUFFICES ASSUME Core, Next, last'.op = "resize" PROVE OneEdgeEach
    OBVIOUS
  <2>1. resize
    BY NextKinds
  <2>2. GestureSound(gesture') /\ DeskSound(desk)
    BY <2>1, ResizeStep DEF Core
  <2>3. PICK w \in Live(desk), delta \in Points :
            /\ last'.op = "resize" /\ last'.window = w /\ Live(desk') = Live(desk)
            /\ LET m == Stretched(desk, w, gesture', delta)
               IN  desk'.rect[w] = Rect(m.top_left, m.size)
    BY <2>1, ResizeStep
  <2> DEFINE m == Stretched(desk, w, gesture', delta)
             now == desk.rect[w]
             then == Rect(m.top_left, m.size)
  <2>4. m.top_left \in Points /\ m.size \in Sizes
    BY <2>2, StretchedType
  <2>5. now \in AnyRect /\ then \in AnyRect /\ then.top_left = m.top_left /\ then.size = m.size
    <3>1. now \in AnyRect
      BY <2>2 DEF DeskSound
    <3> HIDE DEF m, now
    <3> QED BY <2>4, <3>1, RectType
  <2>6. /\ bottom_right(now).x = now.top_left.x + now.size.width
        /\ bottom_right(now).y = now.top_left.y + now.size.height
        /\ bottom_right(then).x = m.top_left.x + m.size.width
        /\ bottom_right(then).y = m.top_left.y + m.size.height
    BY <2>5, CornersType
  <2>7. /\ \/ now.size.width \notin Least(desk.info[w].min_width)..desk.info[w].max_width
           \/ m.top_left.x = now.top_left.x
           \/ m.top_left.x + m.size.width = now.top_left.x + now.size.width
        /\ \/ now.size.height \notin Least(desk.info[w].min_height)..desk.info[w].max_height
           \/ m.top_left.y = now.top_left.y
           \/ m.top_left.y + m.size.height = now.top_left.y + now.size.height
    BY <2>2, StretchedEdges
  <2>8. desk'.rect[w] = then
    BY <2>3
  <2> HIDE DEF m, now, then
  <2> QED BY <2>3, <2>5, <2>6, <2>7, <2>8 DEF now
<1> QED BY <1>1, CoreInvariant, PTL DEF Spec, NoSlide

-----------------------------------------------------------------------------
(* New windows.                                                            *)

\* What is placed with leave to slide both ways is placed next to a parent, and
\* has no titlebar to leave room for: menus and tips.
SlidesByParent ==
    \A params \in Creations :
        {"slide_x", "slide_y"} \subseteq value_or(params, "placement_hints", {}) =>
            params.parent /\ ~needs_titlebar(value_or(from_creation(params), "type", "normal"))

\* A window placed next to part of its parent, with leave to slide both ways,
\* is inside the active display if it fits there at all, wherever the parent
\* is, and whatever else may be tried first (place_relative()).
THEOREM PlacedInside ==
    ASSUME InheritsAll, LimitsSound, SlidesByParent
    PROVE  Spec => []SlidInside
<1>1. Init => SlidInside
  BY DEF Init, SlidInside, Other, Op
<1>2. Core /\ SlidInside /\ [Next]_vars => SlidInside'
  <2> SUFFICES ASSUME Core, SlidInside, [Next]_vars PROVE SlidInside'
    OBVIOUS
  <2>1. CASE UNCHANGED vars
    BY <2>1 DEF vars, SlidInside
  <2>2. CASE Next /\ last'.op # "add"
    BY <2>2 DEF SlidInside
  <2>3. CASE Next /\ last'.op = "add"
    <3>1. add_surface
      BY <2>3, NextKinds
    <3>2. PICK mid, d, op, params, spec : Sane(mid, d, op) /\ Added(d, op, params, spec)
      BY <3>1, AddStep
    <3>3. last' = op
      BY <3>2 DEF Sane, StepVia
    <3>4. /\ params \in Creations /\ op.hints = value_or(params, "placement_hints", {})
          /\ LET m == place_new_window(spec) IN op.placed = Rect(m.top_left, m.size)
      BY <3>2 DEF Added
    <3>5. PICK ctx \in Contexts(desk), p \in Live(desk) \cup {NoWindow} :
            /\ spec = NewSurface(desk, params, p, ctx)
            /\ params.parent <=> p # NoWindow
            /\ op.display = ActiveDisplay(desk, ctx)
      <4>1. Answered(d, op, params, spec)
        BY <3>2 DEF Added
      <4> QED BY Zenon, <4>1 DEF Answered
    <3> DEFINE c == from_creation(params)
    <3>6. /\ BuildSound(spec) /\ spec.type = value_or(c, "type", "normal")
          /\ /\ p # NoWindow /\ is_set(c, "placement_hints")
             /\ {"slide_x", "slide_y"} \subseteq c.placement_hints
             /\ spec.size.width <= op.display.size.width
             /\ spec.size.height <= op.display.size.height
             => Contains(op.display, Rect(spec.top_left, spec.size))
      <4>1. OutputsSound(outputs) /\ DeskSound(desk)
        BY DEF Core
      <4> HIDE DEF c
      <4> QED BY <3>4, <3>5, <4>1, SurfaceSound DEF c
    <3> SUFFICES ASSUME {"slide_x", "slide_y"} \subseteq op.hints,
                        op.placed.size.width <= op.display.size.width,
                        op.placed.size.height <= op.display.size.height
                 PROVE  Contains(op.display, op.placed)
      BY <3>3 DEF SlidInside
    <3>7. is_set(params, "placement_hints") /\ op.hints = params.placement_hints
      BY <3>4 DEF value_or
    <3>8. is_set(c, "placement_hints") /\ c.placement_hints = op.hints
      BY <3>7, TakenFields
    <3>9. p # NoWindow /\ ~needs_titlebar(spec.type)
      BY <3>4, <3>5, <3>6 DEF SlidesByParent
    <3>10. op.placed = Rect(spec.top_left, spec.size) /\ op.placed.size = spec.size
      <4>1. LET m == place_new_window(spec)
            IN  /\ m.size = spec.size
                /\ m.top_left = Point(spec.top_left.x, spec.top_left.y + 0)
        BY <3>6, <3>9, RoomLeft
      <4>2. spec.top_left \in Points
        BY <3>6 DEF BuildSound, Sound, WellTyped, is_set
      <4>3. Point(spec.top_left.x, spec.top_left.y + 0) = spec.top_left
        BY <4>2 DEF Point, Points
      <4> QED BY <3>4, <4>1, <4>3 DEF Rect
    <3> QED BY <3>6, <3>8, <3>9, <3>10
  <2> QED BY <2>1, <2>2, <2>3
<1> QED BY <1>1, <1>2, CoreInvariant, PTL DEF Spec

\* New windows have an extent and do not ask for an output, which would have
\* them fullscreen, and on whichever output that is; displays have an extent.
PlainWindows ==
    /\ \A params \in Creations : LET c == from_creation(params) IN
            c.output_id = 0 /\ c.size.width > 0 /\ c.size.height > 0
    /\ \A id \in DOMAIN OutputAreas : Positive(OutputAreas[id])

\* What a user sees of a window and of the titlebar above it.
WithTitlebar(rect, above) ==
    Rect(Plus(rect.top_left, Point(0, -above)), Size(rect.size.width, rect.size.height + above))

LEMMA TitlebarSeen ==
    ASSUME NEW outs, OutputsSound(outs), \A i \in DOMAIN outs : Positive(outs[i].area),
           NEW r \in AnyRect, SeenOn(outs, r),
           NEW above \in Nat, NEW raised \in {0, above}
    PROVE  LET lower == Rect(Point(r.top_left.x, r.top_left.y + raised), r.size)
           IN  \E i \in DOMAIN outs : overlaps(outs[i].area, WithTitlebar(lower, above))
<1> DEFINE lower == Rect(Point(r.top_left.x, r.top_left.y + raised), r.size)
           all == WithTitlebar(lower, above)
<1>1. /\ r.top_left.x \in Int /\ r.top_left.y \in Int
      /\ r.size.width \in Int /\ r.size.height \in Int /\ raised \in Nat /\ raised <= above
  BY RectType
<1>2. /\ all.top_left.x = r.top_left.x + 0
      /\ all.top_left.y = (r.top_left.y + raised) + (-above)
      /\ all.size.width = r.size.width /\ all.size.height = r.size.height + above
      /\ all = Rect(Point(all.top_left.x, all.top_left.y), Size(all.size.width, all.size.height))
  BY DEF WithTitlebar, Rect, Plus, Point, Size
<1> HIDE DEF all
<1>3. all \in AnyRect
  <2>1. /\ all.top_left.x \in Int /\ all.top_left.y \in Int
        /\ all.size.width \in Int /\ all.size.height \in Int
    BY <1>1, <1>2
  <2> QED BY <1>2, <2>1 DEF AnyRect, Points, Sizes, Rect, Point, Size
<1>4. Contains(all, r)
  <2>1. /\ bottom_right(all).x = all.top_left.x + all.size.width
        /\ bottom_right(all).y = all.top_left.y + all.size.height
        /\ bottom_right(r).x = r.top_left.x + r.size.width
        /\ bottom_right(r).y = r.top_left.y + r.size.height
    BY <1>3, CornersType
  <2> QED BY <1>1, <1>2, <2>1 DEF Contains
<1>5. PICK i \in DOMAIN outs : overlaps(outs[i].area, r)
  BY DEF SeenOn
<1>6. outs[i].area \in AnyRect /\ Positive(outs[i].area) /\ Positive(r)
  <2>1. outs \in Seq([id : DOMAIN OutputAreas, area : Rects])
    BY DEF OutputsSound
  <2>2. outs[i].area \in Rects
    BY <1>5, <2>1, AreasType
  <2> QED BY <2>2, RectType DEF SeenOn
<1>7. overlaps(outs[i].area, all)
  BY <1>3, <1>4, <1>5, <1>6, OverlapsMore
<1> QED BY <1>7 DEF all

\* The area of all displays is seen on the first.
LEMMA AllSeen ==
    ASSUME NEW outs, OutputsSound(outs), outs # <<>>,
           \A i \in DOMAIN outs : Positive(outs[i].area)
    PROVE  LET all == bounding_rectangle(Areas(outs))
           IN  all \in AnyRect /\ SeenOn(outs, all)
<1> DEFINE all == bounding_rectangle(Areas(outs))
<1>1. outs \in Seq([id : DOMAIN OutputAreas, area : Rects])
  BY DEF OutputsSound
<1>2. all \in Rects /\ \A i \in DOMAIN outs : Contains(all, outs[i].area)
  BY <1>1, AllAreas
<1> HIDE DEF all
<1>3. 1 \in DOMAIN outs /\ outs[1].area \in Rects
  <2>1. DOMAIN outs = 1..Len(outs) /\ \A i \in DOMAIN outs : outs[i].area \in Rects
    BY <1>1, AreasType
  <2>2. Len(outs) \in Nat /\ Len(outs) # 0
    BY <1>1
  <2> QED BY <2>1, <2>2
<1> DEFINE o == outs[1].area
<1>4. o \in AnyRect /\ all \in AnyRect /\ Positive(o) /\ Contains(all, o)
  BY <1>2, <1>3, RectType
<1> HIDE DEF o
<1>5. overlaps(o, o)
  <2>1. /\ o.top_left.x \in Int /\ o.top_left.y \in Int
        /\ o.size.width \in Int /\ o.size.height \in Int
    BY <1>4, RectType
  <2> QED BY <1>4, <2>1, OverlapsIs DEF Positive
<1>6. Positive(all) /\ overlaps(o, all)
  BY <1>4, <1>5, OverlapsMore
<1> QED BY <1>3, <1>4, <1>6 DEF SeenOn, o, all

\* A new window without a parent is on some display, or its titlebar is,
\* wherever the application's first window has been taken since and whatever
\* became of that one's display (place_new_surface() and the policy).
THEOREM NewWindowSeen ==
    ASSUME InheritsAll, LimitsSound, PlainWindows
    PROVE  Spec => []NewWindowVisible
<1> DEFINE Large == {r \in Rects : Positive(r)}
           Extent == outputs \in Seq([id : DOMAIN OutputAreas, area : Large])
<1>1. \A id \in DOMAIN OutputAreas : OutputAreas[id] \in Large
  BY DataAssumption DEF PlainWindows
<1>2. Init => Extent
  <2> SUFFICES ASSUME Init PROVE Extent
    OBVIOUS
  <2>1. [id |-> FirstOutput, area |-> OutputAreas[FirstOutput]] \in [id : DOMAIN OutputAreas, area : Large]
    BY <1>1, PoliciesAssumption
  <2> HIDE DEF Large
  <2> QED BY <2>1 DEF Init
<1> HIDE DEF Large
<1>3. Core /\ Extent /\ [Next]_vars => Extent'
  <2> SUFFICES ASSUME Core, Extent, [Next]_vars PROVE Extent'
    OBVIOUS
  <2>1. UNCHANGED vars \/ Plugs \/ outputs' = outputs
    BY NextSane
  <2>2. CASE Plugs
    BY <1>1, <2>2, AreasKept
  <2> QED BY <2>1, <2>2 DEF vars
<1>4. Extent => \A i \in DOMAIN outputs : Positive(outputs[i].area)
  <2> SUFFICES ASSUME Extent, NEW i \in DOMAIN outputs PROVE Positive(outputs[i].area)
    OBVIOUS
  <2> DEFINE Output == [id : DOMAIN OutputAreas, area : Large]
  <2>1. outputs[i] \in Output
    <3>1. outputs \in Seq(Output)
      OBVIOUS
    <3> HIDE DEF Output
    <3> QED BY <3>1
  <2> QED BY <2>1 DEF Large
<1>5. Init => NewWindowVisible
  BY DEF Init, NewWindowVisible, Other, Op
<1>6. Core /\ Extent /\ NewWindowVisible /\ [Next]_vars => NewWindowVisible'
  <2> SUFFICES ASSUME Core, Extent, NewWindowVisible, [Next]_vars PROVE NewWindowVisible'
    OBVIOUS
  <2>1. CASE UNCHANGED vars
    BY <2>1 DEF vars, NewWindowVisible
  <2>2. CASE Next /\ last'.op # "add"
    BY <2>2 DEF NewWindowVisible
  <2>3. CASE Next /\ last'.op = "add"
    <3>1. add_surface
      BY <2>3, NextKinds
    <3>2. PICK mid, d, op, params, spec : Sane(mid, d, op) /\ Added(d, op, params, spec)
      BY <3>1, AddStep
    <3>3. /\ last' = op /\ desk' = d /\ policy' = policy /\ outputs' = outputs
          /\ OutputsSound(outputs) /\ DeskSound(desk) /\ DeskSound(d)
          /\ \A i \in DOMAIN outputs : Positive(outputs[i].area)
      BY <1>4, <3>1, <3>2, AddStep DEF Sane, StepVia, Core
    <3> DEFINE w == op.window
               rect == d.rect[w]
               above == IF policy = "titlebar" /\ needs_titlebar(d.info[w].type)
                        THEN title_bar_height ELSE 0
               raised == IF /\ policy = "titlebar" /\ spec.state # "fullscreen"
                            /\ needs_titlebar(spec.type) THEN title_bar_height ELSE 0
               r == Rect(spec.top_left, spec.size)
               lower == Rect(Point(r.top_left.x, r.top_left.y + raised), r.size)
    <3> SUFFICES ASSUME outputs # <<>>, d.info[w].parent = NoWindow
                 PROVE  \E i \in DOMAIN outputs : overlaps(outputs[i].area, WithTitlebar(rect, above))
      BY <3>3 DEF NewWindowVisible, WithTitlebar
    <3>4. /\ params \in Creations /\ d.info[w].type = spec.type
          /\ LET m == place_new_window(spec)
             IN  \/ rect = Rect(m.top_left, m.size)
                 \/ policy = "kiosk" /\ rect = bounding_rectangle(Areas(outputs))
      BY <3>2 DEF Added
    <3>5. PICK ctx \in Contexts(desk) : spec = NewSurface(desk, params, NoWindow, ctx)
      <4>1. Answered(d, op, params, spec)
        BY <3>2 DEF Added
      <4>2. PICK ctx \in Contexts(desk), p \in Live(desk) \cup {NoWindow} :
                spec = NewSurface(desk, params, p, ctx) /\ d.info[op.window].parent = p
        BY Zenon, <4>1 DEF Answered
      <4> QED BY <4>2
    <3>6. /\ from_creation(params).output_id = 0
          /\ from_creation(params).size.width > 0 /\ from_creation(params).size.height > 0
      BY <3>4 DEF PlainWindows
    <3>7. BuildSound(spec) /\ SeenOn(outputs, r)
      BY <3>3, <3>4, <3>5, <3>6, SurfaceSound
    <3>8. r \in AnyRect /\ r.top_left = spec.top_left /\ r.size = spec.size
      BY <3>7, RectType DEF BuildSound, Sound, WellTyped, is_set
    <3>9. above \in Nat /\ raised \in {0, above}
      BY <3>4, TitleBarAssumption
    <3>10. CASE policy = "kiosk" /\ rect = bounding_rectangle(Areas(outputs))
      <4>1. rect \in AnyRect /\ SeenOn(outputs, rect)
        BY <3>3, <3>10, AllSeen
      <4>2. above = 0
        BY <3>10
      <4>3. rect.top_left.y \in Int /\ rect.top_left \in Points
        BY <4>1, RectType
      <4>4. Rect(Point(rect.top_left.x, rect.top_left.y + 0), rect.size) = rect
        BY <4>1, <4>3 DEF AnyRect, Points, Rect, Point
      <4> HIDE DEF rect, above
      <4>5. LET q == Rect(Point(rect.top_left.x, rect.top_left.y + 0), rect.size)
            IN  \E i \in DOMAIN outputs : overlaps(outputs[i].area, WithTitlebar(q, 0))
        BY <3>3, <4>1, TitlebarSeen
      <4> QED BY <4>2, <4>4, <4>5
    <3>11. CASE LET m == place_new_window(spec) IN rect = Rect(m.top_left, m.size)
      <4>1. LET m == place_new_window(spec)
            IN  m.size = spec.size /\ m.top_left = Point(spec.top_left.x, spec.top_left.y + raised)
        BY <3>7, RoomLeft
      <4>2. rect = lower
        BY <3>8, <3>11, <4>1
      <4> HIDE DEF rect, above, r, raised
      <4>3. \E i \in DOMAIN outputs : overlaps(outputs[i].area, WithTitlebar(lower, above))
        BY <3>3, <3>7, <3>8, <3>9, TitlebarSeen
      <4> QED BY <4>2, <4>3
    <3> QED BY <3>4, <3>10, <3>11
  <2> QED BY <2>1, <2>2, <2>3
<1> QED BY <1>2, <1>3, <1>5, <1>6, CoreInvariant, PTL DEF Spec
=============================================================================
