------------------------- MODULE BasicWindowManager -------------------------
(***************************************************************************)
(* The window model of miral::BasicWindowManager under the canonical       *)
(* window management policy: the tree of windows, the MRU list, the set of *)
(* fullscreen windows, the workspace bimap, and where the input focus is.  *)
(*                                                                         *)
(* Every operation of the class runs under its mutex (struct Locker), so   *)
(* each one is a single action.  Three things happen outside the mutex and *)
(* are actions of their own: a client posts the first frame of a surface,  *)
(* the last owner of a workspace lets it go, and the workspace's           *)
(* destructor enters it in the list of dead workspaces.                    *)
(*                                                                         *)
(* Mir's part (sessions, surfaces, which surface has the keyboard) is      *)
(* modelled from how this class uses it.  configure(state) and show() or   *)
(* hide() on a surface are always called together with info.state(...), so *)
(* a surface's own state is not a variable; the order of the calls inside  *)
(* set_state() is kept by passing the set of visible surfaces explicitly.  *)
(***************************************************************************)
EXTENDS WindowInfo, MRUWindowList, FiniteSets

CONSTANTS
    Windows,        \* identities of windows (a surface and its Window)
    Apps,           \* identities of client sessions
    NoApp,          \* the null Application
    Workspaces,     \* identities of Workspace objects
    Types,          \* the types of window clients create
    TypeRequests,   \* the types clients ask to change a window to
    States,         \* the window states clients ask for
    Unset,          \* an unset mir::optional_value
    Liberties       \* what clients and policies do beyond the plain use:
                    \*   "reparent"  clients give windows a new parent
                    \*   "cycle"     ... even one of the window's descendants
                    \*   "early"     policies force_close() a window whose
                    \*               ready notification is under way
                    \*   "release"   policies let go of workspaces

ASSUME ConstantsAssumption ==
    /\ NoWindow \notin Windows
    /\ NoApp \notin Apps
    /\ Unset \notin Windows \cup WindowTypes \cup WindowStates
    /\ Types \subseteq WindowTypes /\ TypeRequests \subseteq WindowTypes
    /\ States \subseteq WindowStates
    /\ Liberties \subseteq {"reparent", "cycle", "early", "release"}

\* TLC and the code both need finitely many of them at a time.
ASSUME FiniteWindows == IsFiniteSet(Windows)

VARIABLES
    sessions,               \* Mir's sessions, in the order they connected
    app_info,               \* app_info[a]: ApplicationInfo::windows()
    window_info,            \* a function on the live windows
    fullscreen_surfaces,
    workspaces_to_windows,  \* the rows of the bimap
    workspace,              \* owner count of a Workspace: see WorkspaceStates
    dead_workspaces,        \* DeadWorkspaces::workspaces
    posted,                 \* windows whose surface has had a frame
    ready,                  \* SurfaceReadyObservers waiting for the mutex
    focus                   \* what select_active_window() changes:
                            \*   mru      mru_active_windows
                            \*   session  Mir's focused session
                            \*   surface  Mir's focused surface
                            \*   told     windows the policy has been told
                            \*            gained the focus and not lost it

vars == <<sessions, app_info, window_info, fullscreen_surfaces,
          workspaces_to_windows, workspace, dead_workspaces, posted, ready, focus>>

\* "absent": no such object; "owned": some shared_ptr keeps it;
\* "dying": no owner left, its destructor has not yet reported it.
WorkspaceStates == {"absent", "owned", "dying"}

Live == DOMAIN window_info

-----------------------------------------------------------------------------
(* Visibility, and the window select_active_window() settles on.           *)

\* The windows whose surface is visible: shown, and a frame has been posted.
VisibleSurfaces(info) ==
    {w \in posted \cap DOMAIN info : info[w].state \notin HiddenStates}

is_visible(info, visible, w) ==
    info[w].state \notin HiddenStates /\ w \in visible

\* Positions in w's children of the dialogs that would take focus from it.
VisibleDialogs(info, visible, w) ==
    {i \in DOMAIN info[w].children :
        LET child == info[w].children[i]
        IN  info[child].type = "dialog" /\ is_visible(info, visible, child)}

\* select_active_window()'s recursion ends at a window that can have the focus
\* and has no dialog to hand it on to.
Settles(info, visible, hint) ==
    /\ VisibleDialogs(info, visible, hint) = {}
    /\ can_be_active(info[hint].type)
    /\ is_visible(info, visible, hint)

\* The hint it calls itself with otherwise: the first dialog, or the parent.
Redirect(info, visible, hint) ==
    LET dialogs == VisibleDialogs(info, visible, hint) IN
    IF dialogs # {} THEN info[hint].children[Min(dialogs)] ELSE info[hint].parent

\* Where the recursion ends: NoWindow if no window can be activated.  The walk
\* goes up at most once and down at most once through each window, unless the
\* parents form a cycle (in the code it may then never end).
Selected(info, visible, hint) ==
    LET depth == 2 * Cardinality(DOMAIN info)
        walk[n \in 0..depth] ==
            IF n = 0 THEN hint
            ELSE LET w == walk[n - 1]
                 IN  IF w \notin DOMAIN info \/ Settles(info, visible, w) THEN w
                     ELSE Redirect(info, visible, w)
        last == walk[depth]
    IN  IF last \in DOMAIN info /\ Settles(info, visible, last) THEN last ELSE NoWindow

(***************************************************************************)
(* The two ends of select_active_window().  The window told of the loss is *)
(* the active_window() from before, whether or not it had the focus.       *)
(***************************************************************************)
FocusLost(foc, w) == [foc EXCEPT !.told = @ \ {w}]

\* Faulty: the gain is reported of the window that had the focus before.
ActivateTellingPrevious(foc, prev, app, w) ==
    [foc EXCEPT !.mru = Push(@, w), !.session = app, !.surface = w, !.told = {prev}]

Activate(foc, prev, app, w) ==
    LET moved == [foc EXCEPT !.mru = Push(@, w), !.session = app, !.surface = w]
        lost  == IF prev \notin {NoWindow, w} THEN FocusLost(moved, prev) ELSE moved
    IN  [lost EXCEPT !.told = @ \cup {w}]

\* Faulty: the policy is not told.
DeactivateSilently(foc, prev) == [foc EXCEPT !.session = NoApp, !.surface = NoWindow]

Deactivate(foc, prev) ==
    FocusLost([foc EXCEPT !.session = NoApp, !.surface = NoWindow], prev)

select_active_window(foc, info, visible, hint) ==
    LET prev == Top(foc.mru, visible)
        w    == Selected(info, visible, hint)
    IN  IF hint = NoWindow
        THEN IF prev # NoWindow THEN Deactivate(foc, prev) ELSE foc
        ELSE IF w # NoWindow THEN Activate(foc, prev, info[w].app, w)
        ELSE foc

(***************************************************************************)
(* mru_active_windows.enumerate() with a callback that tries to select the *)
(* windows in "among" and stops at the first success.  A selection that    *)
(* fails changes nothing, so only the successful one matters: its hint.    *)
(***************************************************************************)
Candidate(foc, info, visible, among) ==
    Newest(foc.mru, {w \in visible \cap among : Selected(info, visible, w) # NoWindow})

TrySelect(foc, info, visible, hint) ==
    IF hint = NoWindow THEN foc ELSE select_active_window(foc, info, visible, hint)

-----------------------------------------------------------------------------
(* Workspaces.                                                             *)

\* workspaces_containing(): only those that can still be lock()ed.
workspaces_containing(rows, w) ==
    {ws \in Workspaces : workspace[ws] = "owned" /\ <<ws, w>> \in rows}

\* The windows in some workspace of the set wss.
Sharing(rows, wss) == {w \in Windows : \E ws \in wss : <<ws, w>> \in rows}

\* Following parent() up to the root.
Root(info, w) ==
    LET up[n \in 0..Cardinality(DOMAIN info)] ==
            IF n = 0 THEN w
            ELSE LET x == up[n - 1]
                 IN  IF info[x].parent = NoWindow THEN x ELSE info[x].parent
    IN  up[Cardinality(DOMAIN info)]

\* A window and, through children(), all its descendants.
Descendants(info, w) ==
    LET down[n \in 0..Cardinality(DOMAIN info)] ==
            IF n = 0 THEN {w}
            ELSE LET S == down[n - 1]
                 IN  S \cup UNION {Range(info[x].children) : x \in S}
    IN  {x \in DOMAIN info : x \in down[Cardinality(DOMAIN info)]}

\* The tree add_tree_to_workspace() and remove_tree_from_workspace() act on.
Tree(info, w) == Descendants(info, Root(info, w))

-----------------------------------------------------------------------------
(* Locker's constructor: the rows of the workspaces reported dead go.      *)

\* Faulty: the list is emptied, the rows stay.
RowsKept == workspaces_to_windows

Rows == {row \in workspaces_to_windows : row[1] \notin dead_workspaces}

Locker == dead_workspaces' = {}

Reversed(list) == [i \in DOMAIN list |-> list[Len(list) + 1 - i]]

\* active_window().
active == Top(focus.mru, VisibleSurfaces(window_info))

-----------------------------------------------------------------------------
(* Moving the focus on.                                                    *)

\* Mir's sessions in the order focus_next_session() visits them, starting
\* after the focused one.  With no focused session Mir picks a first one.
Rotation(foc, first) ==
    LET n  == Len(sessions)
        at == IF foc.session = NoApp
              THEN (CHOOSE i \in DOMAIN sessions : sessions[i] = first) - 1
              ELSE CHOOSE i \in DOMAIN sessions : sessions[i] = foc.session
    IN  [k \in 1..n |-> sessions[((at + k - 1) % n) + 1]]

\* Mir focuses the first surface of a session, told policy or not.
FocusSession(foc, apps, app) ==
    [foc EXCEPT !.session = app,
                !.surface = IF apps[app] = <<>> THEN NoWindow ELSE apps[app][1]]

\* focus_controller->focus_next_session(): the next session with a surface.
focus_next_session(foc, apps, first) ==
    LET turn == Rotation(foc, first)
        with == {k \in DOMAIN turn : apps[turn[k]] # <<>>}
    IN  IF turn = <<>> THEN [foc EXCEPT !.session = NoApp, !.surface = NoWindow]
        ELSE FocusSession(foc, apps, IF with = {} THEN turn[1] ELSE turn[Min(with)])

(***************************************************************************)
(* focus_next_application().  Its loop tries one session after the other   *)
(* for a recent window in a workspace of the active window, and stops at   *)
(* the active window's own session at the latest.  After the loop, or      *)
(* without workspaces, the next session's most recent window is taken, or  *)
(* as a last resort wherever Mir has put the focus.                        *)
(***************************************************************************)
focus_next_application(foc, apps, info, visible, rows, first) ==
    LET prev == Top(foc.mru, visible)
        wss  == IF prev = NoWindow THEN {} ELSE workspaces_containing(rows, prev)
        turn == Rotation(foc, first)
        InWorkspace(k) ==
            Candidate(foc, info, visible, Range(apps[turn[k]]) \cap Sharing(rows, wss))
        stop == {k \in DOMAIN turn : /\ apps[turn[k]] # <<>>
                                     /\ \/ InWorkspace(k) # NoWindow
                                        \/ turn[k] = info[prev].app}
        loops   == wss # {} /\ stop # {}
        looped  == IF loops THEN FocusSession(foc, apps, turn[Min(stop)]) ELSE foc
        next    == focus_next_session(looped, apps, first)
        in_next == IF next.session = NoApp THEN NoWindow
                   ELSE Candidate(foc, info, visible, Range(apps[next.session]))
    IN  IF loops /\ InWorkspace(Min(stop)) # NoWindow
        THEN select_active_window(looped, info, visible, InWorkspace(Min(stop)))
        ELSE select_active_window(next, info, visible,
                IF in_next # NoWindow THEN in_next ELSE next.surface)

\* Faulty: prefers the application to the workspace.
RefocusApplicationFirst(foc, apps, info, visible, rows, app, parent, wss, first) ==
    LET Recent(among) == Candidate(foc, info, visible, among)
        attempts == <<Recent(Range(apps[app])), Recent(Sharing(rows, wss)), Recent(Windows)>>
        hits == {i \in DOMAIN attempts : attempts[i] # NoWindow}
    IN  IF hits # {}
        THEN select_active_window(foc, info, visible, attempts[Min(hits)])
        ELSE focus_next_application(foc, apps, info, visible, rows, first)

(***************************************************************************)
(* refocus(): after the active window, of application app, has gone.  The  *)
(* attempts in the order of the code; the first that succeeds is the one.  *)
(***************************************************************************)
refocus(foc, apps, info, visible, rows, app, parent, wss, first) ==
    LET Recent(among) == Candidate(foc, info, visible, among)
        attempts == <<
            IF parent # NoWindow /\ Selected(info, visible, parent) # NoWindow
            THEN parent ELSE NoWindow,
            Recent(Range(apps[app]) \cap Sharing(rows, wss)),
            Recent(Sharing(rows, wss)),
            Recent(Range(apps[app])),
            Recent(Windows)>>
        hits == {i \in DOMAIN attempts : attempts[i] # NoWindow}
    IN  IF hits # {}
        THEN select_active_window(foc, info, visible, attempts[Min(hits)])
        ELSE focus_next_application(foc, apps, info, visible, rows, first)

(***************************************************************************)
(* focus_next_within_application() with siblings in the vector's order,    *)
(* focus_prev_within_application() with siblings reversed.  Starting after *)
(* the active window and wrapping round, first among the windows in a      *)
(* shared workspace, then among all: the first whose selection does not    *)
(* come back to the active window ends the search, even if it fails.       *)
(***************************************************************************)
focus_within_application(foc, info, visible, rows, siblings, prev) ==
    LET n      == Len(siblings)
        at     == CHOOSE i \in DOMAIN siblings : siblings[i] = prev
        turn   == [k \in 1..(n - 1) |-> siblings[((at + k - 1) % n) + 1]]
        shared == {k \in DOMAIN turn :
                      turn[k] \in Sharing(rows, workspaces_containing(rows, prev))}
        away   == {k \in DOMAIN turn : Selected(info, visible, turn[k]) # prev}
        first  == IF shared \cap away # {} THEN Min(shared \cap away)
                  ELSE IF away # {} THEN Min(away) ELSE n
        \* the selections made on the way, all of which reactivate prev
        back   == IF shared \cap away # {} THEN {k \in shared : k < first}
                  ELSE shared \cup {k \in DOMAIN turn : k < first}
        again  == IF back # {} THEN Activate(foc, prev, info[prev].app, prev) ELSE foc
    IN  IF away # {} THEN select_active_window(again, info, visible, turn[first])
        ELSE again
-----------------------------------------------------------------------------
(* Changing a window's state.                                              *)

\* One more attempt, if w or no window is active still.
TryAway(foc, info, visible, w, among) ==
    IF Top(foc.mru, visible) \in {w, NoWindow}
    THEN TrySelect(foc, info, visible, Candidate(foc, info, visible, among))
    ELSE foc

\* In the end w does not keep the focus.
GiveUp(foc, info, visible, w) ==
    IF Top(foc.mru, visible) = w
    THEN select_active_window(foc, info, visible, NoWindow) ELSE foc

\* Faulty: gives up after the parent.
FocusAwayParentOnly(foc, info, visible, rows, w) ==
    GiveUp(select_active_window(foc, info, visible, w), info, visible, w)

\* Faulty: does not try the shared workspaces first.
FocusAwayAnywhere(foc, info, visible, rows, w) ==
    GiveUp(TryAway(select_active_window(foc, info, visible, w), info, visible, w, Windows \ {w}),
           info, visible, w)

\* set_state() on the way to hidden or minimized, with w the active window:
\* the focus moves while w's surface is still visible, its info already not.
FocusAwayFrom(foc, info, visible, rows, w) ==
    LET shared == Sharing(rows, workspaces_containing(rows, w)) \ {w} IN
    GiveUp(TryAway(TryAway(select_active_window(foc, info, visible, w),
                           info, visible, w, shared),
                   info, visible, w, Windows \ {w}),
           info, visible, w)

\* Faulty: showing a window always focuses it.
FocusAfterStateStealing(foc, info, rows, w, value) ==
    LET visible == VisibleSurfaces(info)
        after   == [info EXCEPT ![w].state = value]
    IN  IF info[w].state = value THEN foc
        ELSE IF value \in HiddenStates
        THEN IF Top(foc.mru, visible) = w
             THEN FocusAwayFrom(foc, after, visible, rows, w) ELSE foc
        ELSE select_active_window(foc, after, VisibleSurfaces(after), w)

\* The focus after set_state(w, value), info being the one before it.
FocusAfterState(foc, info, rows, w, value) ==
    LET visible == VisibleSurfaces(info)
        after   == [info EXCEPT ![w].state = value]
    IN  IF info[w].state = value THEN foc
        ELSE IF value \in HiddenStates
        THEN IF Top(foc.mru, visible) = w
             THEN FocusAwayFrom(foc, after, visible, rows, w) ELSE foc
        ELSE IF info[w].state \in HiddenStates /\ Top(foc.mru, visible) = NoWindow
        THEN select_active_window(foc, after, VisibleSurfaces(after), w)
        ELSE foc

\* Faulty: a window never stops being fullscreen.
FullscreenForever(w, value) ==
    IF value = "fullscreen" THEN fullscreen_surfaces \cup {w} ELSE fullscreen_surfaces

FullscreenAfterState(w, value) ==
    IF value = "fullscreen" THEN fullscreen_surfaces \cup {w}
    ELSE fullscreen_surfaces \ {w}

\* Faulty: the old parent keeps the child.
ReparentAddOnly(info, w, p) ==
    [x \in DOMAIN info |->
        [info[x] EXCEPT !.children = IF x = p THEN Append(@, w) ELSE @,
                        !.parent   = IF x = w THEN p ELSE @]]

\* modify_window()'s change of parent, with both child lists kept in step.
Reparent(info, w, p) ==
    IF info[w].parent = p THEN info
    ELSE [x \in DOMAIN info |->
            LET without == IF x = info[w].parent THEN Erase(info[x].children, w)
                           ELSE info[x].children
            IN  [info[x] EXCEPT
                    !.children = IF x = p THEN Append(without, w) ELSE without,
                    !.parent   = IF x = w THEN p ELSE @]]

-----------------------------------------------------------------------------
(* The operations.                                                         *)

Init ==
    /\ sessions = <<>>
    /\ app_info = [a \in Apps |-> <<>>]
    /\ window_info = [w \in {} |-> {}]
    /\ fullscreen_surfaces = {}
    /\ workspaces_to_windows = {}
    /\ workspace = [ws \in Workspaces |-> "absent"]
    /\ dead_workspaces = {}
    /\ posted = {}
    /\ ready = {}
    /\ focus = [mru |-> <<>>, session |-> NoApp, surface |-> NoWindow, told |-> {}]

add_session(a) ==
    /\ a \notin Range(sessions)
    /\ Locker
    /\ sessions' = Append(sessions, a)
    /\ app_info' = [app_info EXCEPT ![a] = <<>>]
    /\ workspaces_to_windows' = Rows
    /\ focus' = focus
    /\ UNCHANGED <<window_info, fullscreen_surfaces, workspace, posted, ready>>

\* Mir removes a closing session's surfaces first, one remove_surface() each.
remove_session(a) ==
    /\ a \in Range(sessions)
    /\ app_info[a] = <<>>
    /\ Locker
    /\ sessions' = Erase(sessions, a)
    /\ workspaces_to_windows' = Rows
    /\ focus' = [focus EXCEPT !.session = IF @ = a THEN NoApp ELSE @]
    /\ UNCHANGED <<app_info, window_info, fullscreen_surfaces, workspace, posted, ready>>

\* A new window enters the table, and its parent's children.
WithWindow(info, w, added) ==
    [x \in DOMAIN info \cup {w} |->
        IF x = w THEN added
        ELSE IF x = added.parent THEN [info[x] EXCEPT !.children = Append(@, w)]
        ELSE info[x]]

\* ... and its parent's tree joins it in each of the parent's workspaces.
add_surface(a, w, type, state, parent) ==
    LET info == WithWindow(window_info, w,
                    [app |-> a, type |-> type, state |-> state,
                     parent |-> parent, children |-> <<>>])
        inherited == IF parent = NoWindow THEN {} ELSE workspaces_containing(Rows, parent)
    IN
    /\ a \in Range(sessions)
    /\ w \notin Live \cup ready
    /\ parent \in Live \cup {NoWindow}
    /\ Locker
    /\ window_info' = info
    /\ app_info' = [app_info EXCEPT ![a] = Append(@, w)]
    /\ workspaces_to_windows' = Rows \cup (inherited \X Tree(info, w))
    /\ fullscreen_surfaces' =
        IF state = "fullscreen" THEN fullscreen_surfaces \cup {w} ELSE fullscreen_surfaces
    /\ focus' = focus
    /\ UNCHANGED <<sessions, workspace, posted, ready>>

\* A client's first frame: the surface may be visible from now on, and its
\* SurfaceReadyObserver heads for the mutex.
frame_posted(w) ==
    /\ w \in Live \ posted
    /\ posted' = posted \cup {w}
    /\ ready' = ready \cup {w}
    /\ UNCHANGED <<sessions, app_info, window_info, fullscreen_surfaces,
                   workspaces_to_windows, workspace, dead_workspaces, focus>>

\* The observer's callback: the canonical policy's handle_window_ready().
\* It refers to the WindowInfo; if that has gone nothing sensible is left.
handle_window_ready(w) ==
    /\ w \in ready
    /\ Locker
    /\ ready' = ready \ {w}
    /\ focus' = IF w \in Live /\ can_be_active(window_info[w].type)
                THEN select_active_window(focus, window_info, VisibleSurfaces(window_info), w)
                ELSE focus
    /\ workspaces_to_windows' = Rows
    /\ UNCHANGED <<sessions, app_info, window_info, fullscreen_surfaces, workspace, posted>>

(***************************************************************************)
(* modify_surface() and set_surface_attribute(): validation, then the      *)
(* canonical policy's modify_window().  A rejected request throws before   *)
(* anything has changed.  A set type is never a change (see                *)
(* type_change_accepted), and a set parent that is not a live window       *)
(* fails in info_for().                                                    *)
(***************************************************************************)
modify_surface(w, type, state, parent) ==
    LET old  == window_info[w]
        accepted ==
            /\ type # Unset => type_change_accepted(old.type, type)
            /\ parent_accepted(old.type, IF parent = Unset THEN old.parent # NoWindow ELSE TRUE)
        info == IF parent = Unset THEN window_info ELSE Reparent(window_info, w, parent)
    IN
    /\ w \in Live
    /\ Locker
    /\ workspaces_to_windows' = Rows
    /\ IF accepted
       THEN /\ window_info' = IF state = Unset THEN info ELSE [info EXCEPT ![w].state = state]
            /\ fullscreen_surfaces' = IF state = Unset THEN fullscreen_surfaces
                                      ELSE FullscreenAfterState(w, state)
            /\ focus' = IF state = Unset THEN focus
                        ELSE FocusAfterState(focus, info, Rows, w, state)
       ELSE /\ focus' = focus
            /\ UNCHANGED <<window_info, fullscreen_surfaces>>
    /\ UNCHANGED <<sessions, app_info, workspace, posted, ready>>

\* Faulty: the parent keeps the child.
EraseFromMapOnly(info, w) ==
    [x \in DOMAIN info \ {w} |->
        [info[x] EXCEPT !.parent = IF x \in Range(info[w].children) THEN NoWindow ELSE @]]

\* Faulty: the children keep the parent.
EraseKeepingOrphans(info, w) ==
    [x \in DOMAIN info \ {w} |->
        [info[x] EXCEPT !.children = IF x = info[w].parent THEN Erase(@, w) ELSE @]]

\* erase(): w leaves its parent's children and its children lose their parent.
erase(info, w) ==
    [x \in DOMAIN info \ {w} |->
        [info[x] EXCEPT
            !.children = IF x = info[w].parent THEN Erase(@, w) ELSE @,
            !.parent   = IF x \in Range(info[w].children) THEN NoWindow ELSE @]]

(***************************************************************************)
(* remove_window(), reached from remove_surface() and force_close().       *)
(* "first" is Mir's choice of a session should it have none in focus.      *)
(***************************************************************************)
remove_window(w, first) ==
    LET app       == window_info[w].app
        is_active == active = w
        wss       == workspaces_containing(Rows, w)
        rows      == {row \in Rows : row[2] # w}
        apps      == [app_info EXCEPT ![app] = Erase(@, w)]
        info      == erase(window_info, w)
        removed   == [focus EXCEPT !.mru     = Erase(@, w),
                                    !.surface = IF @ = w THEN NoWindow ELSE @,
                                    !.told    = @ \ {w}]
    IN
    /\ Locker
    /\ workspaces_to_windows' = rows
    /\ app_info' = apps
    /\ window_info' = info
    /\ fullscreen_surfaces' = fullscreen_surfaces \ {w}
    /\ posted' = posted \ {w}
    /\ focus' = IF is_active
                THEN refocus(removed, apps, info, VisibleSurfaces(info), rows,
                             app, window_info[w].parent, wss, first)
                ELSE removed
    /\ UNCHANGED <<sessions, workspace>>

\* A client's requests are handled one at a time: none is handled while its
\* frame's observer waits.
remove_surface(w, first) ==
    /\ w \in Live \ ready
    /\ remove_window(w, first)
    /\ UNCHANGED ready

\* A policy's force_close() runs on whatever thread called the policy.
force_close(w, first) ==
    /\ w \in Live
    /\ w \in ready => "early" \in Liberties
    /\ remove_window(w, first)
    /\ UNCHANGED ready
-----------------------------------------------------------------------------
(* What policies do with WindowManagerTools, from a handler or under       *)
(* invoke_under_lock().                                                    *)

\* select_active_window(): a click, with NoWindow for one on the background,
\* or handle_raise_window() for a raise request that is not out of date.
select_window(hint) ==
    /\ hint \in Live \cup {NoWindow}
    /\ Locker
    /\ focus' = select_active_window(focus, window_info, VisibleSurfaces(window_info), hint)
    /\ workspaces_to_windows' = Rows
    /\ UNCHANGED <<sessions, app_info, window_info, fullscreen_surfaces, workspace, posted, ready>>

next_application(first) ==
    /\ Locker
    /\ focus' = focus_next_application(focus, app_info, window_info,
                    VisibleSurfaces(window_info), Rows, first)
    /\ workspaces_to_windows' = Rows
    /\ UNCHANGED <<sessions, app_info, window_info, fullscreen_surfaces, workspace, posted, ready>>

within_application(siblings) ==
    /\ active # NoWindow
    /\ Locker
    /\ focus' = focus_within_application(focus, window_info, VisibleSurfaces(window_info),
                                        Rows, siblings, active)
    /\ workspaces_to_windows' = Rows
    /\ UNCHANGED <<sessions, app_info, window_info, fullscreen_surfaces, workspace, posted, ready>>

focus_next_within_application ==
    within_application(app_info[window_info[active].app])

focus_prev_within_application ==
    within_application(Reversed(app_info[window_info[active].app]))

\* A new Workspace shares no identity with one some weak_ptr still refers to.
create_workspace(ws) ==
    /\ workspace[ws] = "absent"
    /\ ws \notin dead_workspaces
    /\ \A w \in Windows : <<ws, w>> \notin Rows
    /\ Locker
    /\ workspace' = [workspace EXCEPT ![ws] = "owned"]
    /\ workspaces_to_windows' = Rows
    /\ focus' = focus
    /\ UNCHANGED <<sessions, app_info, window_info, fullscreen_surfaces, posted, ready>>

\* A change of the bimap by a policy that holds the workspaces it names.
ChangeRows(rows) ==
    /\ Locker
    /\ workspaces_to_windows' = rows
    /\ focus' = focus
    /\ UNCHANGED <<sessions, app_info, window_info, fullscreen_surfaces, workspace, posted, ready>>

add_tree_to_workspace(w, ws) ==
    /\ w \in Live
    /\ workspace[ws] = "owned"
    /\ ChangeRows(Rows \cup ({ws} \X Tree(window_info, w)))

remove_tree_from_workspace(w, ws) ==
    /\ w \in Live
    /\ workspace[ws] = "owned"
    /\ ChangeRows(Rows \ ({ws} \X Tree(window_info, w)))

move_workspace_content_to_workspace(to, from) ==
    /\ workspace[to] = "owned" /\ workspace[from] = "owned"
    /\ ChangeRows({row \in Rows : row[1] # from} \cup
                  {<<to, row[2]>> : row \in {r \in Rows : r[1] = from}})

-----------------------------------------------------------------------------
(* The end of a workspace, which takes no part in the window manager's     *)
(* mutex: the last shared_ptr goes (from here on weak_ptr::lock() fails),  *)
(* then ~Workspace enters it in the list under the list's own mutex.       *)

release_workspace(ws) ==
    /\ "release" \in Liberties
    /\ workspace[ws] = "owned"
    /\ workspace' = [workspace EXCEPT ![ws] = "dying"]
    /\ UNCHANGED <<sessions, app_info, window_info, fullscreen_surfaces,
                   workspaces_to_windows, dead_workspaces, posted, ready, focus>>

destroy_workspace(ws) ==
    /\ workspace[ws] = "dying"
    /\ workspace' = [workspace EXCEPT ![ws] = "absent"]
    /\ dead_workspaces' = dead_workspaces \cup {ws}
    /\ UNCHANGED <<sessions, app_info, window_info, fullscreen_surfaces,
                   workspaces_to_windows, posted, ready, focus>>

-----------------------------------------------------------------------------
\* The parents a request may name for w.
NewParents(w) ==
    {Unset} \cup {p \in Live : /\ "reparent" \in Liberties
                               /\ "cycle" \in Liberties \/ p \notin Descendants(window_info, w)}

\* Mir's first session when none is in focus: any there is.
FirstSessions ==
    IF sessions = <<>> \/ focus.session # NoApp THEN {NoApp} ELSE Range(sessions)

Next ==
    \/ \E a \in Apps : add_session(a)
    \/ \E a \in Apps : remove_session(a)
    \/ \E a \in Apps, w \in Windows, type \in Types, state \in States,
          parent \in Live \cup {NoWindow} : add_surface(a, w, type, state, parent)
    \/ \E w \in Live : frame_posted(w)
    \/ \E w \in ready : handle_window_ready(w)
    \/ \E w \in Live, type \in TypeRequests \cup {Unset}, state \in States \cup {Unset} :
          \E parent \in NewParents(w) : modify_surface(w, type, state, parent)
    \/ \E w \in Live, first \in FirstSessions : remove_surface(w, first)
    \/ \E w \in Live, first \in FirstSessions : force_close(w, first)
    \/ \E hint \in Live \cup {NoWindow} : select_window(hint)
    \/ \E first \in FirstSessions : next_application(first)
    \/ focus_next_within_application
    \/ focus_prev_within_application
    \/ \E ws \in Workspaces : create_workspace(ws)
    \/ \E w \in Live, ws \in Workspaces : add_tree_to_workspace(w, ws)
    \/ \E w \in Live, ws \in Workspaces : remove_tree_from_workspace(w, ws)
    \/ \E to, from \in Workspaces : move_workspace_content_to_workspace(to, from)
    \/ \E ws \in Workspaces : release_workspace(ws)
    \/ \E ws \in Workspaces : destroy_workspace(ws)

Spec == Init /\ [][Next]_vars

-----------------------------------------------------------------------------
(* Properties.                                                             *)

\* What is known of a window, and of the focus.
WindowInfos == [app      : Apps,
                type     : WindowTypes,
                state    : WindowStates,
                parent   : Windows \cup {NoWindow},
                children : Seq(Windows)]

Foci == [mru     : Seq(Windows),
         session : Apps \cup {NoApp},
         surface : Windows \cup {NoWindow},
         told    : SUBSET Windows]

\* The shape of the state: which windows, applications and workspaces each
\* of the window manager's tables ranges over.
TypeOK ==
    /\ sessions \in Seq(Apps)
    /\ app_info \in [Apps -> Seq(Windows)]
    /\ Live \subseteq Windows
    /\ window_info \in [Live -> WindowInfos]
    /\ fullscreen_surfaces \subseteq Windows
    /\ workspaces_to_windows \subseteq Workspaces \X Windows
    /\ workspace \in [Workspaces -> WorkspaceStates]
    /\ dead_workspaces \subseteq Workspaces
    /\ posted \subseteq Windows
    /\ ready \subseteq Windows
    /\ focus \in Foci

\* No list of windows holds a window twice.  add_child(), add_window() and
\* push() are the only ways in, and erase-remove the only way out.
NoDuplicates ==
    /\ IsInjective(sessions)
    /\ IsInjective(focus.mru)
    /\ \A a \in Apps : IsInjective(app_info[a])
    /\ \A w \in Live : IsInjective(window_info[w].children)

\* Every window the manager remembers anywhere is one info_for() finds: after
\* remove_window() no table, list or bimap row still names the window, so no
\* later operation can run into the std::out_of_range of map::at().
ReferencesLive ==
    /\ \A w \in Live : window_info[w].parent \in Live \cup {NoWindow}
    /\ \A w \in Live : Range(window_info[w].children) \subseteq Live
    /\ \A a \in Apps : \A w \in Range(app_info[a]) : w \in Live /\ window_info[w].app = a
    /\ \A w \in Live : /\ w \in Range(app_info[window_info[w].app])
                       /\ window_info[w].app \in Range(sessions)
    /\ Range(focus.mru) \subseteq Live
    /\ \A row \in workspaces_to_windows : row[2] \in Live
    /\ focus.surface \in Live \cup {NoWindow}
    /\ focus.session \in Range(sessions) \cup {NoApp}
    /\ posted \subseteq Live

\* parent() and children() describe the same tree, whichever way windows are
\* created, reparented and removed.
TreeConsistent ==
    \A w, x \in Live : x \in Range(window_info[w].children) <=> window_info[x].parent = w

\* No window is its own ancestor, so the recursions over parents and children
\* (raise_tree, add_tree_to_workspace, select_active_window) end.
Forest ==
    \A w \in Live : window_info[w].parent = NoWindow
                    \/ window_info[w].parent \notin Descendants(window_info, w)

\* add_display() and remove_display() resize exactly the fullscreen windows.
FullscreenExact ==
    fullscreen_surfaces = {w \in Live : window_info[w].state = "fullscreen"}

\* What the MRU list holds can be active and has been seen.
MruActivatable ==
    \A w \in Range(focus.mru) : w \in posted /\ can_be_active(window_info[w].type)

\* The policy has been told of at most one focused window, and that window is
\* active_window(): advise_focus_gained/lost never leave the policy with two
\* focused windows, or with one that is hidden, closed or no longer active.
PolicyFocus == focus.told \subseteq {active}

\* What makes PolicyFocus inductive: a window that was told stays the newest
\* of the MRU list, and visible, until the policy is told otherwise.
ToldIsNewest ==
    \A w \in focus.told :
        /\ focus.mru # <<>> /\ w = focus.mru[Len(focus.mru)]
        /\ w \in VisibleSurfaces(window_info)

\* A row of a workspace that is gone is always going to be reclaimed: its
\* workspace is in the list the next Locker empties, or about to be.
DeadRowsReclaimed ==
    \A row \in workspaces_to_windows :
        row[1] \in dead_workspaces \/ workspace[row[1]] # "absent"

\* The active window w is closed, hidden or minimized in this step.
GoesAway(w) ==
    /\ w = active
    /\ \/ w \notin Live'
       \/ window_info'[w].state \in HiddenStates

\* When the active window goes away and any other window on the MRU list is
\* visible, a window gets the focus, and Mir, the policy and active_window()
\* agree on which.
FocusSurvives ==
    [][\A w \in Live :
        GoesAway(w) /\ (Range(focus.mru) \cap VisibleSurfaces(window_info)) \ {w} # {}
        => /\ active' # NoWindow
           /\ focus'.surface = active'
           /\ focus'.session = window_info'[active'].app
           /\ focus'.told = {active'}]_vars

\* ... and that window shares a workspace with the one that went away if any
\* visible window on the MRU list does.
FocusStaysInWorkspace ==
    [][\A w \in Live :
        LET wss == workspaces_containing(Rows, w) IN
        GoesAway(w) /\ ((Range(focus.mru) \cap VisibleSurfaces(window_info)) \ {w})
                            \cap Sharing(Rows, wss) # {}
        => active' \in Sharing(Rows, wss)]_vars
=============================================================================
