----------------------------- MODULE MCGeometry -----------------------------
(* Model values for the windows; a unit of length is about 100 pixels.     *)
EXTENDS ShellPolicies

MCAreas == <<Rect(Origin, Size(8, 6)), Rect(Point(8, 0), Size(6, 6))>>
MCDesk  == Rect(Point(-10, -10), Size(34, 26))

LOCAL Plain == [top_left |-> Origin, size |-> Size(5, 3), output_id |-> 0, parent |-> FALSE]

\* A plain window, a dialog created maximized, and a tip next to a button.
MCCreations ==
    {Plain,
     [type |-> "dialog", parent |-> TRUE, state |-> "maximized", size |-> Size(3, 2)] @@ Plain,
     [type |-> "tip", parent |-> TRUE, size |-> Size(4, 2),
      aux_rect |-> Rect(Point(4, 1), Size(1, 1)), placement_hints |-> {"flip_x", "slide_x", "slide_y"},
      window_placement_gravity |-> "northwest", aux_rect_placement_gravity |-> "northeast"]
        @@ Plain}

MCRequests ==
    {AttributeRequest("state", s) : s \in {"restored", "minimized"}}
    \cup {[state |-> "fullscreen", output_id |-> 2], [width |-> 7, height |-> 2],
          [min_width |-> 4, width_inc |-> 2]}

MCMovements == {Point(4, -3)}
MCCursors == {Point(9, 1)}
MCFingers == {Rect(Point(2, 1), Size(3, 1))}
Symmetry == Permutations(Windows)
MCCorners == {<<TRUE, FALSE>>, <<FALSE, TRUE>>}
MCPolicies == {"kiosk", "titlebar"}
=============================================================================
