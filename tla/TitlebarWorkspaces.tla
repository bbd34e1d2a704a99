------------------------- MODULE TitlebarWorkspaces -------------------------
(***************************************************************************)
(* The workspaces of miral-shell: TitlebarWindowManagerPolicy's four       *)
(* workspaces (fewer here), of which one is shown, composed with the       *)
(* window manager it calls back into.                                      *)
(*                                                                         *)
(* The window manager is BasicWindowManager, whose state this module       *)
(* extends and whose operators it is written with.  Where the policy       *)
(* intervenes (advise_new_window, advise_adding_to_workspace,              *)
(* handle_modify_window, the keys) the operation is stated here, whole.    *)
(* Titlebars, which follow their windows, are the module Decorations'.     *)
(*                                                                         *)
(* An operation changes windows one at a time, and each change may move    *)
(* the focus.  It is therefore a sequence of steps on a "scene": the part  *)
(* of the state such a step reads and writes.                              *)
(***************************************************************************)
EXTENDS BasicWindowManager, SequencesExt

CONSTANTS
    FirstWorkspace,     \* key_to_workspace[KEY_F1]
    FirstStates,        \* the states windows are created with
    Toggles,            \* the states there is a key for
    MaxUses             \* bounds what users and clients do in a behaviour once
                        \* the windows are there

ASSUME TitlebarAssumption ==
    /\ FirstWorkspace \in Workspaces
    /\ FirstStates \cup Toggles \subseteq WindowStates
    /\ IsFiniteSet(Apps)

VARIABLES
    active_workspace,
    workspace_to_active,    \* the active window when a workspace was left
    policy_data,            \* PolicyData, on the live windows
    wanted,                 \* history: the state its client last asked for
    uses                    \* how often users and clients have done something

policy_vars == <<active_workspace, workspace_to_active, policy_data, wanted, uses>>
shell_vars == <<vars, policy_vars>>

-----------------------------------------------------------------------------
(* Scenes.                                                                 *)

Scene(foc, info, data) ==
    [focus |-> foc, info |-> info, data |-> data, fullscreen |-> fullscreen_surfaces]

\* modify_window() with nothing but a state: set_state().
Stated(rows, scene, w, value) ==
    [scene EXCEPT
        !.focus = FocusAfterState(@, scene.info, rows, w, value),
        !.info[w].state = value,
        !.fullscreen = IF value = "fullscreen" THEN @ \cup {w} ELSE @ \ {w}]

\* Faulty: overwrites what it remembers each time.
apply_workspace_hidden_again(rows, scene, w) ==
    Stated(rows, [scene EXCEPT
                    !.data[w] = [in_hidden_workspace |-> TRUE,
                                 old_state |-> scene.info[w].state]],
           w, "hidden")

apply_workspace_hidden_to(rows, scene, w) ==
    IF scene.data[w].in_hidden_workspace THEN scene
    ELSE Stated(rows, [scene EXCEPT
                        !.data[w] = [in_hidden_workspace |-> TRUE,
                                     old_state |-> scene.info[w].state]],
                w, "hidden")

apply_workspace_visible_to(rows, scene, w) ==
    IF scene.data[w].in_hidden_workspace
    THEN Stated(rows, [scene EXCEPT !.data[w].in_hidden_workspace = FALSE],
                w, scene.data[w].old_state)
    ELSE scene

HideAll(rows, scene, list) ==
    FoldLeft(LAMBDA s, w : apply_workspace_hidden_to(rows, s, w), scene, list)

ShowAll(rows, scene, list) ==
    FoldLeft(LAMBDA s, w : apply_workspace_visible_to(rows, s, w), scene, list)

\* advise_adding_to_workspace(): "added" joins the workspace ws.
advise_adding_to_workspace(rows, scene, ws, added) ==
    IF ws = active_workspace THEN ShowAll(rows, scene, added) ELSE HideAll(rows, scene, added)

InWorkspace(rows, ws) == {w \in Windows : <<ws, w>> \in rows}

\* The rows of a workspace are in the order of the windows' addresses.
Orders(S) == SetToSeqs(S)

\* The operation ends with this scene.
Leaves(scene) ==
    /\ focus' = scene.focus
    /\ window_info' = scene.info
    /\ policy_data' = scene.data
    /\ fullscreen_surfaces' = scene.fullscreen

-----------------------------------------------------------------------------
(* Windows come, change and go.                                            *)

NewData == [in_hidden_workspace |-> FALSE, old_state |-> "restored"]

WithValue(f, w, value) == [x \in DOMAIN f \cup {w} |-> IF x = w THEN value ELSE f[x]]

WithoutWindow(f, w) == [x \in DOMAIN f \ {w} |-> f[x]]

\* A top-level window joins the active workspace.
NewTopLevel(a, w, type, state) ==
    LET info  == WithWindow(window_info, w,
                    [app |-> a, type |-> type, state |-> state,
                     parent |-> NoWindow, children |-> <<>>])
        rows  == Rows \cup {<<active_workspace, w>>}
        fresh == [Scene(focus, info, WithValue(policy_data, w, NewData))
                    EXCEPT !.fullscreen = IF state = "fullscreen" THEN @ \cup {w} ELSE @]
    IN  /\ Leaves(advise_adding_to_workspace(rows, fresh, active_workspace, <<w>>))
        /\ workspaces_to_windows' = rows

(***************************************************************************)
(* A child joins its parent's workspaces first.  If that hides it, it      *)
(* counts as fullscreen no longer by the time add_surface() looks.         *)
(***************************************************************************)
NewChild(a, w, type, state, parent) ==
    LET info   == WithWindow(window_info, w,
                    [app |-> a, type |-> type, state |-> state,
                     parent |-> parent, children |-> <<>>])
        joined == workspaces_containing(Rows, parent)
        rows   == Rows \cup (joined \X {w})
        Enter(scene, ws) == advise_adding_to_workspace(rows, scene, ws, <<w>>)
    IN  \E order \in Orders(joined) :
            LET entered  == FoldLeft(Enter, Scene(focus, info, WithValue(policy_data, w, NewData)), order)
                inserted == [entered EXCEPT !.fullscreen =
                                IF entered.info[w].state = "fullscreen" THEN @ \cup {w} ELSE @]
            IN  /\ Leaves(IF policy_data[parent].in_hidden_workspace
                          THEN apply_workspace_hidden_to(rows, inserted, w)
                          ELSE inserted)
                /\ workspaces_to_windows' = rows

\* add_surface() with the policy's place_new_window() and advise_new_window().
NewWindow(a, w, type, state, parent) ==
    /\ a \in Range(sessions)
    /\ w \notin Live \cup ready
    /\ Locker
    /\ app_info' = [app_info EXCEPT ![a] = Append(@, w)]
    /\ IF parent = NoWindow
       THEN NewTopLevel(a, w, type, state)
       ELSE parent \in Live /\ NewChild(a, w, type, state, parent)
    /\ wanted' = WithValue(wanted, w, state)
    /\ UNCHANGED <<sessions, workspace, posted, ready,
                   active_workspace, workspace_to_active, uses>>

\* While its workspace is hidden, a window's state is only remembered.
handle_modify_window(w, state) ==
    IF policy_data[w].in_hidden_workspace
    THEN Leaves(Scene(focus, window_info, [policy_data EXCEPT ![w].old_state = state]))
    ELSE Leaves(Stated(Rows, Scene(focus, window_info, policy_data), w, state))

\* A client's request for a state, accepted (see modify_surface).
StateRequest(w, state) ==
    /\ w \in Live
    /\ parent_accepted(window_info[w].type, window_info[w].parent # NoWindow)
    /\ Locker
    /\ workspaces_to_windows' = Rows
    /\ handle_modify_window(w, state)
    /\ wanted' = [wanted EXCEPT ![w] = state]
    /\ UNCHANGED <<sessions, app_info, workspace, posted, ready,
                   active_workspace, workspace_to_active>>

\* Alt+F11 and its like: the active window in and out of a state.
toggle(state) ==
    LET new == IF window_info[active].state = state THEN "restored" ELSE state IN
    /\ active # NoWindow
    /\ Locker
    /\ workspaces_to_windows' = Rows
    /\ Leaves(Stated(Rows, Scene(focus, window_info, policy_data), active, new))
    /\ wanted' = [wanted EXCEPT ![active] = new]
    /\ UNCHANGED <<sessions, app_info, workspace, posted, ready,
                   active_workspace, workspace_to_active>>

\* remove_surface(): PolicyData goes with the WindowInfo.  The window's entry in
\* workspace_to_active stays, but is in no workspace: as good as none.
Removal(w, first) ==
    /\ remove_surface(w, first)
    /\ policy_data' = WithoutWindow(policy_data, w)
    /\ wanted' = WithoutWindow(wanted, w)
    /\ workspace_to_active' = [ws \in Workspaces |->
            IF workspace_to_active[ws] = w THEN NoWindow ELSE workspace_to_active[ws]]
    /\ UNCHANGED active_workspace

-----------------------------------------------------------------------------
(* switch_workspace_to().                                                  *)

\* Faulty: leaves it to the first shown.
ShowNoneFirst(rows, scene, ws) == scene

\* "If there's no active window, the first shown grabs focus: get the right
\* one", if it is still in the workspace.
ShowRemembered(rows, scene, ws) ==
    LET ww == workspace_to_active[ws] IN
    IF active = NoWindow /\ ww # NoWindow /\ <<ws, ww>> \in rows
    THEN apply_workspace_visible_to(rows, scene, ww)
    ELSE scene

\* Faulty: the rows of the old workspace stay.
TakenAlso(window, old, ws) ==
    LET tree == IF window = NoWindow THEN {} ELSE Tree(window_info, window)
    IN  Rows \cup ({ws} \X tree)

\* The rows after the taken window's tree has changed workspace.
Taken(window, old, ws) ==
    LET tree == IF window = NoWindow THEN {} ELSE Tree(window_info, window)
    IN  (Rows \ ({old} \X tree)) \cup ({ws} \X tree)

\* Faulty: hides the active window along with the others.
HideOldTogether(rows, scene, old, hiding) ==
    HideAll(rows, scene, IF active # NoWindow /\ <<old, active>> \in rows
                         THEN <<active>> \o hiding ELSE hiding)

\* Faulty: keeps showing the old workspace's active window.
HideOldButActive(rows, scene, old, hiding) == HideAll(rows, scene, hiding)

\* "If we hide the active window focus will shift: do that last".
HideOld(rows, scene, old, hiding) ==
    LET hidden == HideAll(rows, scene, hiding) IN
    IF active # NoWindow /\ <<old, active>> \in rows
    THEN apply_workspace_hidden_to(rows, hidden, active) ELSE hidden

(***************************************************************************)
(* Leaves the active workspace for ws, taking window's tree if there is    *)
(* one.  The windows the tree brings to ws are announced to the policy     *)
(* when ws is already the active one, so they are shown if need be (none   *)
(* of them is hidden, and their order is of no account).                   *)
(***************************************************************************)
switch_workspace_to(ws, window) ==
    LET old   == active_workspace
        rows  == Taken(window, old, ws)
        begun == ShowRemembered(Rows, Scene(focus, window_info, policy_data), ws)
        added == InWorkspace(rows, ws) \ InWorkspace(Rows, ws)
    IN
    /\ ws # old
    /\ \E showing \in Orders(InWorkspace(rows, ws)),
          hiding \in Orders(InWorkspace(rows, old) \ {active}) :
            Leaves(HideOld(rows, ShowAll(rows, begun, SetToSeq(added) \o showing), old, hiding))
    /\ active_workspace' = ws
    /\ workspace_to_active' =
            IF active # NoWindow /\ <<old, active>> \in rows
            THEN [workspace_to_active EXCEPT ![old] = active] ELSE workspace_to_active
    /\ workspaces_to_windows' = rows
    /\ Locker
    /\ UNCHANGED <<sessions, app_info, workspace, posted, ready, wanted>>

\* Alt+Meta+Fn switches, Ctrl+Meta+Fn takes the active window along.
SwitchKey(ws, taking) ==
    switch_workspace_to(ws, IF taking THEN active ELSE NoWindow)

-----------------------------------------------------------------------------
\* The shell starts with its workspaces made, and with its sessions there.
TitlebarInit ==
    /\ sessions \in Orders(Apps)
    /\ app_info = [a \in Apps |-> <<>>]
    /\ window_info = <<>>
    /\ fullscreen_surfaces = {}
    /\ workspaces_to_windows = {}
    /\ workspace = [ws \in Workspaces |-> "owned"]
    /\ dead_workspaces = {}
    /\ posted = {}
    /\ ready = {}
    /\ focus = [mru |-> <<>>, session |-> NoApp, surface |-> NoWindow, told |-> {}]
    /\ active_workspace = FirstWorkspace
    /\ workspace_to_active = [ws \in Workspaces |-> NoWindow]
    /\ policy_data = <<>>
    /\ wanted = <<>>
    /\ uses = 0

\* What the policy leaves to the window manager and its base class: on the
\* arrival of a frame, and on a click, a raise request or a key.
Arrives ==
    /\ \/ \E w \in Live : frame_posted(w)
       \/ \E w \in ready : handle_window_ready(w)
    /\ UNCHANGED policy_vars

Refocused ==
    /\ \/ \E hint \in Live \cup {NoWindow} : select_window(hint)
       \/ \E first \in FirstSessions : next_application(first)
       \/ focus_next_within_application
       \/ focus_prev_within_application
    /\ UNCHANGED <<active_workspace, workspace_to_active, policy_data, wanted>>

Used ==
    /\ uses < MaxUses
    /\ uses' = uses + 1

TitlebarNext ==
    \/ \E a \in Apps, w \in Windows, type \in Types, state \in FirstStates,
          parent \in Live \cup {NoWindow} : NewWindow(a, w, type, state, parent)
    \/ Arrives
    \/ \E w \in Live, state \in States : StateRequest(w, state) /\ Used
    \/ \E state \in Toggles : toggle(state) /\ Used
    \/ \E w \in Live, first \in FirstSessions : Removal(w, first) /\ Used
    \/ \E ws \in Workspaces, taking \in BOOLEAN : SwitchKey(ws, taking) /\ Used
    \/ Refocused /\ Used

TitlebarSpec == TitlebarInit /\ [][TitlebarNext]_shell_vars

-----------------------------------------------------------------------------
(* Properties.                                                             *)

InActiveWorkspace(w) == <<active_workspace, w>> \in workspaces_to_windows

\* Every window is in one workspace, its parent's if it has one, and is marked
\* hidden exactly if that is not the active one; what is so marked is not
\* shown.  Neither a window created in a hidden workspace, nor a client's
\* request or a key meanwhile, nor any order of showing and hiding leaves a
\* window of another workspace on the screen or loses one of the active one.
HiddenExactly ==
    \A w \in Live :
        /\ Cardinality({ws \in Workspaces : <<ws, w>> \in workspaces_to_windows}) = 1
        /\ policy_data[w].in_hidden_workspace <=> ~InActiveWorkspace(w)
        /\ policy_data[w].in_hidden_workspace => window_info[w].state = "hidden"

\* Leaving a workspace and coming back restores the state each window's
\* client last asked for, before or while the window was hidden.
StatesKept ==
    \A w \in Live :
        wanted[w] = IF policy_data[w].in_hidden_workspace
                    THEN policy_data[w].old_state ELSE window_info[w].state

\* No window of a hidden workspace has the focus, for the window manager, for
\* Mir or in what the policy has been told, whatever order they were hidden in.
FocusShown ==
    /\ active # NoWindow => InActiveWorkspace(active)
    /\ \A w \in focus.told : InActiveWorkspace(w)

\* A switch to a workspace with a window that has had the focus and is shown
\* gives some window there the focus, whether it is the hiding of the old
\* active window that moves it or the first window shown that takes it.  (A
\* click on the background may leave the active window without the focus.)
SwitchFocuses ==
    [][LET focusable == {w \in Live :
                /\ <<active_workspace', w>> \in workspaces_to_windows'
                /\ w \in Range(focus.mru)
                /\ window_info'[w].state \notin HiddenStates}
       IN  active_workspace' # active_workspace /\ focusable # {} /\ focus.surface = active
           => active' # NoWindow /\ focus'.surface = active' /\ focus'.told = {active'}]_shell_vars

\* x is on the list, and y at the same place or after it.
NotAfter(list, x, y) == \E i, j \in DOMAIN list : i <= j /\ list[i] = x /\ list[j] = y

\* A switch puts no window of the workspace that is left before another on
\* the MRU list, none on it and takes none off: its active window is hidden
\* last, when the focus can no longer pass through the others on its way out.
SwitchKeepsOrder ==
    [][LET left == {w \in Windows : <<active_workspace, w>> \in workspaces_to_windows'}
       IN  active_workspace' # active_workspace
           => \A x, y \in left : NotAfter(focus'.mru, x, y) <=> NotAfter(focus.mru, x, y)]_shell_vars

\* Coming back to a workspace with no window active gives the focus to the
\* window that had it when the workspace was left, if it is there and shown.
\* workspace_to_active may by then name a window that has been taken elsewhere.
RememberedFocus ==
    [][LET ww == workspace_to_active[active_workspace']
           restorable == /\ ww \in Live
                         /\ <<active_workspace', ww>> \in workspaces_to_windows
                         /\ ww \in posted
                         /\ policy_data[ww].old_state \notin HiddenStates
       IN  active_workspace' # active_workspace /\ active = NoWindow /\ restorable
           => active' = ww]_shell_vars
=============================================================================
