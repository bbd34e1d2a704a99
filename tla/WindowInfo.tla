----------------------------- MODULE WindowInfo -----------------------------
(***************************************************************************)
(* What a window's type and state allow.                                   *)
(*                                                                         *)
(* The predicates of miral::WindowInfo (miral/window_info.cpp) that the    *)
(* window manager consults, as operators on Mir's window types and states, *)
(* and the type half of validate_modification_request()                    *)
(* (miral/basic_window_manager.cpp).                                       *)
(***************************************************************************)

\* MirWindowType (mir_window_types, the enum's end marker, is no type).
WindowTypes ==
    {"normal", "utility", "dialog", "gloss", "freestyle", "menu",
     "inputmethod", "satellite", "tip"}

\* MirWindowState, without mir_window_state_unknown, which no window info
\* built from a specification has.
WindowStates ==
    {"restored", "minimized", "maximized", "vertmaximized", "horizmaximized",
     "fullscreen", "hidden"}

\* The states in which a window is not shown.
HiddenStates == {"hidden", "minimized"}

can_be_active(type) ==
    type \in {"normal", "utility", "dialog", "freestyle", "menu"}

\* Windows of these types have a titlebar; the others have no decoration.
needs_titlebar(type) == type \in {"normal", "utility", "dialog", "satellite"}

(***************************************************************************)
(* The type check of a client's modification request.  The inner switches  *)
(* have no break after them: an original type of the first group is also   *)
(* held to the rules of the two groups below it, and a menu to the last    *)
(* one.  So nothing but "no change" is ever accepted, and for a normal,    *)
(* utility or dialog window not even that.                                 *)
(***************************************************************************)
type_change_accepted(original_type, target_type) ==
    LET regular == {"normal", "utility", "dialog", "satellite"} IN
    /\ original_type \in regular => target_type \in regular
    /\ original_type \in regular \cup {"menu"} => target_type \in {"menu", "satellite"}
    /\ target_type = original_type

\* The parent rules of a modification request; has_parent says whether the
\* window would have a parent if the request were accepted.
parent_accepted(target_type, has_parent) ==
    /\ target_type \in {"normal", "utility"} => ~has_parent
    /\ target_type \in {"satellite", "gloss", "tip"} => has_parent
=============================================================================
