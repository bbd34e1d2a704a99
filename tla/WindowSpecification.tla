------------------------ MODULE WindowSpecification ------------------------
(***************************************************************************)
(* miral::WindowSpecification (miral/window_specification.cpp): what a     *)
(* client asks for, or a policy decides, about a window.                   *)
(*                                                                         *)
(* Its members are all mir::optional_value, so a specification is a        *)
(* function whose domain is the set of the fields that are set.  The       *)
(* branches for a Mir server before 0.25 are left out.  A set of placement *)
(* hints stands for the bit mask: flip_any is flip_x and flip_y.           *)
(***************************************************************************)
EXTENDS Rectangles, TLC

NothingSet == [field \in {} |-> 0]

is_set(spec, field) == field \in DOMAIN spec

\* The accessor that reads a field, and reading it with a default.
value_or(spec, field, default) == IF is_set(spec, field) THEN spec[field] ELSE default

\* Assigning through the accessor that returns a reference; and consume(),
\* which reads a field and leaves it unset.
Assign(spec, field, value) ==
    [f \in DOMAIN spec \cup {field} |-> IF f = field THEN value ELSE spec[f]]
Consume(spec, field) == [f \in DOMAIN spec \ {field} |-> spec[f]]

\* Those of the named fields that are set.
Only(spec, fields) == [f \in DOMAIN spec \cap fields |-> spec[f]]

\* copy_if_set() for every field of the source.
CopySet(dest, source) ==
    [f \in DOMAIN source \cup DOMAIN dest |-> value_or(source, f, dest[f])]

\* The fields of Mir's structures that both constructors take over unchanged.
TakenOver ==
    {"name", "type", "state", "preferred_orientation", "aux_rect", "placement_hints",
     "window_placement_gravity", "aux_rect_placement_gravity", "min_width", "min_height",
     "max_width", "max_height", "width_inc", "height_inc", "min_aspect", "max_aspect",
     "streams", "parent", "input_shape", "shell_chrome", "confine_pointer"}

FlipAny == {"flip_x", "flip_y"}

\* The placement that an edge attachment of the old interface stands for; the
\* hints of "any" differ between a new window and the change of a window.
AttachmentPlacement(attachment, any_hints) ==
    [window_placement_gravity |-> "northwest",
     aux_rect_placement_gravity |->
        IF attachment = "horizontal" THEN "southwest" ELSE "northeast",
     placement_hints |->
        CASE attachment = "vertical"   -> {"flip_x"}
          [] attachment = "horizontal" -> {"flip_y"}
          [] attachment = "any"        -> any_hints]

Attached(source, any_hints) ==
    IF is_set(source, "edge_attachment") /\ ~is_set(source, "placement_hints")
    THEN AttachmentPlacement(source.edge_attachment, any_hints)
    ELSE NothingSet

\* The offset takes both halves.
PlacementOffset(source) ==
    IF {"aux_rect_placement_offset_x", "aux_rect_placement_offset_y"} \subseteq DOMAIN source
    THEN [aux_rect_placement_offset |->
            Point(source.aux_rect_placement_offset_x, source.aux_rect_placement_offset_y)]
    ELSE NothingSet

\* From mir::shell::SurfaceSpecification, a request to change a window: it has
\* no position, and its size counts only when both halves are set.
from_modification(mods) ==
    LET both == {"width", "height"} \subseteq DOMAIN mods
        size == IF both THEN [size |-> Size(mods.width, mods.height)] ELSE NothingSet
        same == Only(mods, TakenOver \cup {"output_id", "buffer_usage", "pixel_format"})
    IN  CopySet(CopySet(CopySet(same, size), PlacementOffset(mods)),
                Attached(mods, FlipAny \cup {"antipodes"}))

\* From mir::scene::SurfaceCreationParameters, whose position, size, name,
\* pixel format, buffer usage, input mode and output are always there.
from_creation(params) ==
    LET same == Only(params, TakenOver \cup {"top_left", "size", "pixel_format", "buffer_usage",
                                             "output_id", "input_mode", "content_id"})
    IN  CopySet(CopySet(same, PlacementOffset(params)), Attached(params, FlipAny))

\* update(): what a specification sets goes into the creation parameters,
\* except for the user data, which Mir has no place for.
update(spec, params) ==
    LET offset == IF ~is_set(spec, "aux_rect_placement_offset") THEN NothingSet
                  ELSE [aux_rect_placement_offset_x |-> spec.aux_rect_placement_offset.x,
                        aux_rect_placement_offset_y |-> spec.aux_rect_placement_offset.y]
        own    == {"userdata", "aux_rect_placement_offset"}
    IN  CopySet(CopySet(params, Only(spec, DOMAIN spec \ own)), offset)
=============================================================================
