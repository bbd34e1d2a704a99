----------------------------- MODULE Rectangles -----------------------------
(***************************************************************************)
(* mir::geometry as the window manager uses it: points, displacements,     *)
(* sizes, rectangles, the collection Rectangles, and the display layout    *)
(* (mir::shell::DisplayLayout).  None of it is in this repository; it is   *)
(* modelled from the calls miral makes.                                    *)
(*                                                                         *)
(* Points and displacements are records with fields x and y, sizes records *)
(* with fields width and height.                                           *)
(***************************************************************************)
EXTENDS Integers, Sequences, FiniteSets

Point(x, y) == [x |-> x, y |-> y]
Size(w, h)  == [width |-> w, height |-> h]
Rect(p, s)  == [top_left |-> p, size |-> s]

Points == [x : Int, y : Int]
Sizes  == [width : Int, height : Int]

\* The rectangles that are no smaller than nothing.
Rects == [top_left : [x : Int, y : Int], size : [width : Nat, height : Nat]]

Origin == Point(0, 0)

\* The default-constructed rectangle.
NoArea == Rect(Origin, Size(0, 0))

Plus(p, d)  == Point(p.x + d.x, p.y + d.y)
Minus(p, q) == Point(p.x - q.x, p.y - q.y)

\* as_displacement() of a size.
Span(s) == Point(s.width, s.height)

\* Division truncates toward zero, and so does the scaling of a displacement
\* by 0.5 when it is converted back to a whole number of pixels.
Quot(a, b) == IF a < 0 THEN -((-a) \div b) ELSE a \div b
Half(d)    == Point(Quot(d.x, 2), Quot(d.y, 2))

bottom_right(r) == Plus(r.top_left, Span(r.size))
top_right(r)    == Point(r.top_left.x + r.size.width, r.top_left.y)
bottom_left(r)  == Point(r.top_left.x, r.top_left.y + r.size.height)

AreaOf(r) == r.size.width * r.size.height

\* Rectangle::contains(Rectangle)
Contains(outer, inner) ==
    /\ inner.top_left.x >= outer.top_left.x
    /\ inner.top_left.y >= outer.top_left.y
    /\ bottom_right(inner).x <= bottom_right(outer).x
    /\ bottom_right(inner).y <= bottom_right(outer).y

\* Rectangle::contains(Point): the right and the bottom edge are outside.
Holds(r, p) ==
    /\ p.x >= r.top_left.x /\ p.x < bottom_right(r).x
    /\ p.y >= r.top_left.y /\ p.y < bottom_right(r).y

overlaps(a, b) ==
    /\ a.top_left.x < bottom_right(b).x /\ b.top_left.x < bottom_right(a).x
    /\ a.top_left.y < bottom_right(b).y /\ b.top_left.y < bottom_right(a).y
    /\ AreaOf(a) > 0 /\ AreaOf(b) > 0

LeastOf(S)    == CHOOSE n \in S : \A m \in S : n <= m
GreatestOf(S) == CHOOSE n \in S : \A m \in S : n >= m

overlap_area(a, b) ==
    IF ~overlaps(a, b) THEN 0
    ELSE (LeastOf({bottom_right(a).x, bottom_right(b).x})
            - GreatestOf({a.top_left.x, b.top_left.x}))
         * (LeastOf({bottom_right(a).y, bottom_right(b).y})
            - GreatestOf({a.top_left.y, b.top_left.y}))

-----------------------------------------------------------------------------
(* What is left of a vector once std::remove_if() has been over it: the    *)
(* elements at the positions in S, in order.                               *)
Remaining(s, S) ==
    LET kept[n \in 0..Len(s)] ==
            IF n = 0 THEN <<>>
            ELSE IF n \in S THEN Append(kept[n - 1], s[n]) ELSE kept[n - 1]
    IN  kept[Len(s)]

-----------------------------------------------------------------------------
(* mir::geometry::Rectangles, a sequence that may hold a rectangle twice.  *)

\* remove(): the first equal one; a rectangle that is not there is ignored.
RemoveRect(rs, r) ==
    LET at == {i \in DOMAIN rs : rs[i] = r}
    IN  IF at = {} THEN rs
        ELSE SubSeq(rs, 1, LeastOf(at) - 1) \o SubSeq(rs, LeastOf(at) + 1, Len(rs))

bounding_rectangle(rs) ==
    IF rs = <<>> THEN NoArea
    ELSE LET all    == {rs[i] : i \in DOMAIN rs}
             left   == LeastOf({r.top_left.x : r \in all})
             top    == LeastOf({r.top_left.y : r \in all})
             right  == GreatestOf({bottom_right(r).x : r \in all})
             bottom == GreatestOf({bottom_right(r).y : r \in all})
         IN  Rect(Point(left, top), Size(right - left, bottom - top))

\* The first of the rectangles that shares the largest area with r; as in the
\* loop of active_display(), one that shares nothing will do.
MostOverlapped(rs, r) ==
    rs[LeastOf({i \in DOMAIN rs :
                \A j \in DOMAIN rs : overlap_area(rs[i], r) >= overlap_area(rs[j], r)})]

\* DisplayLayout::size_to_output(): the output the rectangle is most on, which
\* like the active display may be one it does not touch.
size_to_output(rs, r) == IF rs = <<>> THEN r ELSE MostOverlapped(rs, r)
=============================================================================
