----------------------------- MODULE MCTiling -----------------------------
(* Model values for the tiling policy; a unit of length is about 100 pixels. *)
EXTENDS TilingWindowManager

LOCAL Out(id, x, w, on) ==
    [id |-> id, area |-> Rect(Point(x, 0), Size(w, 4)), connected |-> TRUE, on |-> on]

\* One output; and a larger one with another that is off, which counts as well.
MCConfigs ==
    {<<Out(1, 0, 6, TRUE)>>, <<Out(1, 0, 8, TRUE), Out(2, 8, 2, FALSE)>>}
MCFirstConfig == <<Out(1, 0, 6, TRUE)>>

LOCAL Plain == [top_left |-> Origin, size |-> Size(3, 2), output_id |-> 0, parent |-> FALSE]
MCCreations == {Plain, [type |-> "dialog", parent |-> TRUE] @@ Plain}
MCRequests == {[state |-> "maximized"], [state |-> "hidden"], [width |-> 2, height |-> 3]}
MCOutputAreas == <<>>
MCCursors == {Point(1, 1), Point(2, 3)}
Symmetry == Permutations(Apps) \cup Permutations(Windows)
=============================================================================
