----------------------------- MODULE InputFocus -----------------------------
(***************************************************************************)
(* What the window manager promises about the input focus, whatever        *)
(* applications, trees, states and workspaces there are: windows appear    *)
(* and disappear one at a time, the focus goes from window to window, and  *)
(* the order in which windows had it last is kept.  In particular          *)
(*   - a window that appears does not take the focus from another;         *)
(*   - a window that disappears takes it from no other either, and if it   *)
(*     was the active one, another that had it before and is still to be   *)
(*     seen gets it;                                                       *)
(*   - the attempts to find that window leave no trace: one step makes one *)
(*     window more recent than it was, and no other.                       *)
(***************************************************************************)
EXTENDS MRUWindowList

CONSTANT Windows

VARIABLES
    order,      \* the windows that had the focus, in the order they last did
    shown,      \* the windows to be seen
    told        \* the window with the focus, as far as the policy knows

vars == <<order, shown, told>>

Init == order = <<>> /\ shown = {} /\ told = {}

\* A window gets the focus.
Focused(w) ==
    /\ w \in shown'
    /\ order' = Push(order, w)
    /\ told' = {w}

Select(w) == Focused(w) /\ UNCHANGED shown

\* No window has the focus any longer.
Deselect == told' = {} /\ UNCHANGED <<order, shown>>

\* A window that appears may get the focus if no window is active.  If it had
\* the focus before, it gets it again, or the window that it hands it on to.
Appear(w) ==
    /\ w \notin shown
    /\ shown' = shown \cup {w}
    /\ \/ UNCHANGED <<order, told>> /\ (Top(order, shown) = NoWindow => w \notin Range(order))
       \/ Top(order, shown) = NoWindow /\ \E x \in Windows : Focused(x)

\* A window is hidden, or is gone for good; kept is the order with or without
\* it.  The window that gets the focus need not have had it before.
Disappear(w) ==
    /\ w \in shown
    /\ shown' = shown \ {w}
    /\ \E kept \in {order, Erase(order, w)} :
        IF w # Top(order, shown)
        THEN order' = kept /\ UNCHANGED told
        ELSE \/ \E x \in shown' : order' = Push(kept, x) /\ told' = {x}
             \/ order' = kept /\ told' = {} /\ Range(kept) \cap shown' = {}

\* A window that was not to be seen is gone for good.
Forget(w) ==
    /\ w \notin shown
    /\ order' = Erase(order, w)
    /\ UNCHANGED <<shown, told>>

Next == \/ \E w \in Windows : Select(w) \/ Appear(w) \/ Disappear(w) \/ Forget(w)
        \/ Deselect

Spec == Init /\ [][Next]_vars
=============================================================================
