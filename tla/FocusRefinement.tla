-------------------------- MODULE FocusRefinement --------------------------
(* BasicWindowManager implements InputFocus. *)
EXTENDS BasicWindowManager

Promise == INSTANCE InputFocus WITH
                order <- focus.mru,
                shown <- VisibleSurfaces(window_info),
                told  <- focus.told

\* Every operation of the window manager is a step that the promise about the
\* focus allows, or changes nothing of it (select_active_window(), refocus(),
\* set_state(), remove_window()).
FocusPromise == Promise!Spec
=============================================================================
