----------------------- MODULE WindowManagementTrace ------------------------
(***************************************************************************)
(* miral::WindowManagementTrace, which stands between the window manager   *)
(* and the policy when tracing is asked for: to the window manager it is   *)
(* the policy, to the policy it is the tools.  It writes a log of the      *)
(* calls each way.                                                         *)
(*                                                                         *)
(* Input events are frequent and mostly of no consequence, so the event    *)
(* is kept in log_input (by a pointer that is good only while the event is *)
(* handled) and written when the policy first calls a tool.  Calls made    *)
(* under one hold of the window manager's mutex form a block, closed by a  *)
(* separator if any tool was counted in it.                                *)
(*                                                                         *)
(* The calls nest: window manager, policy, tools, which is the window      *)
(* manager again, and so on.  "frames" says whose code runs; all but the   *)
(* bottom frame were entered through a function of this class, which logs  *)
(* an exception that passes.                                               *)
(***************************************************************************)
EXTENDS Naturals, Sequences, SequencesExt

CONSTANTS
    Events,         \* input events, each handled once
    Threads,        \* threads that use invoke_under_lock()
    Nobody,         \* no thread, no event
    Window,         \* what the window manager's own operations are called
    MaxDepth,       \* bounds the nesting of calls
    MaxLog,         \* bounds the length of the log to which a call adds
    MaxBlocks       \* bounds how often the mutex is taken

\* The lines of the log that are not events.  "tool" is counted, "place" is
\* place_and_size_for_state(), "workspace" one of the workspace functions.
CallLines == {"tool", "place", "workspace", "policy", "invoke", "exception", "----"}

ASSUME TraceAssumption ==
    /\ MaxDepth \in Nat /\ MaxLog \in Nat /\ MaxBlocks \in Nat
    /\ Nobody \notin Threads \cup {Window}
    /\ Events \cap (Threads \cup {Nobody, Window} \cup {"empty", "nothing"} \cup CallLines) = {}

VARIABLES
    cause,          \* what the holder of the mutex does: an event, a thread's
                    \* callback, Window; Nobody if it is free
    frames,         \* the calls in progress, the innermost last
    log_input,      \* "empty", "nothing" or the event to log
    trace_count,
    waiting,        \* threads that wait in invoke_under_lock() for the mutex
    handled,        \* history: the events there have been
    block,          \* history: how often the mutex has been taken
    log             \* what has been written: [line, block, late]

vars == <<cause, frames, log_input, trace_count, waiting, handled, block, log>>

Lines == CallLines \cup Events

Ending == frames # <<>> /\ Head(frames) = "ending"

\* A line the policy causes in its own advise_end() is late: it comes after
\* the separator of its block.
Written(line) == <<[line |-> line, block |-> block, late |-> Ending]>>

\* A line of a thread that does not hold the mutex.
Aside(line) == <<[line |-> line, block |-> 0, late |-> FALSE]>>

Top == IF frames = <<>> THEN "none" ELSE Last(frames)

\* Policy code runs: it may call the tools.
PolicyRuns == Top \in {"policy", "placing", "ending"}

Room == Len(log) < MaxLog /\ Len(frames) < MaxDepth

Init ==
    /\ cause = Nobody
    /\ frames = <<>>
    /\ log_input = "empty"
    /\ trace_count \in 0..1         \* not initialized
    /\ waiting = {}
    /\ handled = {}
    /\ block = 0
    /\ log = <<>>

-----------------------------------------------------------------------------
(* Taking and letting go of the mutex.                                     *)

\* Faulty: the event of the last block may still be logged.
begin_keeping_input ==
    /\ log_input' = IF log_input = "empty" THEN "nothing" ELSE log_input
    /\ trace_count' = 0

\* Locker's constructor calls it.
advise_begin == log_input' = "nothing" /\ trace_count' = 0

\* An operation of the window manager that is not about input.
WindowOperation ==
    /\ cause = Nobody /\ block < MaxBlocks
    /\ advise_begin
    /\ cause' = Window
    /\ frames' = <<"manager">>
    /\ block' = block + 1
    /\ UNCHANGED <<waiting, handled, log>>

\* handle_keyboard_event(), handle_touch_event() and handle_pointer_event(),
\* the only call into the policy for their Locker, after advise_begin().
handle_event(e) ==
    /\ cause = Nobody /\ block < MaxBlocks
    /\ e \notin handled
    /\ log_input' = e
    /\ trace_count' = 0
    /\ cause' = e
    /\ frames' = <<"manager", "policy">>
    /\ handled' = handled \cup {e}
    /\ block' = block + 1
    /\ UNCHANGED <<waiting, log>>

\* The policy's other threads come in by invoke_under_lock(), which logs
\* before it has the mutex and so must leave log_input alone.
invoke_under_lock(t) ==
    /\ t \notin waiting \cup {cause} /\ Len(log) < MaxLog
    /\ log' = log \o Aside("invoke")
    /\ waiting' = waiting \cup {t}
    /\ UNCHANGED <<cause, frames, log_input, trace_count, handled, block>>

Callback(t) ==
    /\ cause = Nobody /\ block < MaxBlocks
    /\ t \in waiting
    /\ advise_begin
    /\ waiting' = waiting \ {t}
    /\ cause' = t
    /\ frames' = <<"manager", "policy">>
    /\ block' = block + 1
    /\ UNCHANGED <<handled, log>>

\* Faulty: a separator for every block.
SeparatorAlways == Written("----")

Separator == IF trace_count > 0 THEN Written("----") ELSE <<>>

\* Locker's destructor; the policy's own advise_end() comes last, and may call
\* tools (the tiling policy's does).
advise_end ==
    /\ frames = <<"manager">>
    /\ log' = log \o Separator
    /\ frames' = <<"ending">>
    /\ UNCHANGED <<cause, log_input, trace_count, waiting, handled, block>>

Unlock ==
    /\ frames = <<"ending">>
    /\ cause' = Nobody
    /\ frames' = <<>>
    /\ UNCHANGED <<log_input, trace_count, waiting, handled, block, log>>

-----------------------------------------------------------------------------
(* From the window manager to the policy.                                  *)

\* handle_window_ready(), handle_modify_window(), handle_raise_window(),
\* confirm_inherited_move(), and every advise_ but begin and end.
ToPolicy ==
    /\ Top \in {"manager", "asked"} /\ Room
    /\ frames = <<"manager">> => cause = Window
    /\ log' = log \o Written("policy")
    /\ frames' = Append(frames, "policy")
    /\ UNCHANGED <<cause, log_input, trace_count, waiting, handled, block>>

\* Logged with its result, when it returns.
place_new_window ==
    /\ frames = <<"manager">> /\ cause = Window /\ Room
    /\ frames' = Append(frames, "placing")
    /\ UNCHANGED <<cause, log_input, trace_count, waiting, handled, block, log>>

-----------------------------------------------------------------------------
(* From the policy to the window manager.                                  *)

\* Faulty: the event stays to be logged again.
InputLoggedOften(lines) ==
    /\ log' = log \o (IF log_input \in Events THEN Written(log_input) ELSE <<>>) \o lines
    /\ UNCHANGED log_input

\* log_input() is called, and then these lines are written.
InputLogged(lines) ==
    /\ log' = log \o (IF log_input \in Events THEN Written(log_input) ELSE <<>>) \o lines
    /\ log_input' = IF log_input \in Events THEN "nothing" ELSE log_input

\* count_applications(), find_application(), info_for(), active_window(),
\* select_active_window(), window_at(), active_display(), id_for_window():
\* logged with the result and counted when they return, and only then.
Query ==
    /\ PolicyRuns /\ Room
    /\ InputLogged(<<>>)
    /\ frames' = Append(frames, "asked")
    /\ UNCHANGED <<cause, trace_count, waiting, handled, block>>

\* for_each_application(), ask_client_to_close(), force_close(),
\* drag_window(), focus_next_application(), focus_next_within_application()
\* and _prev_, raise_tree(), modify_window(): logged and counted first; the
\* window manager may advise the policy.
Command ==
    /\ PolicyRuns /\ Room
    /\ InputLogged(Written("tool"))
    /\ trace_count' = trace_count + 1
    /\ frames' = Append(frames, "manager")
    /\ UNCHANGED <<cause, waiting, handled, block>>

place_and_size_for_state ==
    /\ PolicyRuns /\ Room
    /\ InputLogged(Written("place"))
    /\ UNCHANGED <<cause, frames, trace_count, waiting, handled, block>>

\* create_workspace(), add_tree_to_workspace() and their like: logged, but
\* neither the event nor the count.  The window manager does not see this
\* class as a WorkspacePolicy, so they lead to no call of the policy.
WorkspaceTool ==
    /\ PolicyRuns /\ Room
    /\ log' = log \o Written("workspace")
    /\ UNCHANGED <<cause, frames, log_input, trace_count, waiting, handled, block>>

Return ==
    /\ Len(frames) > 1
    /\ frames' = Front(frames)
    /\ log' = log \o CASE Top = "placing" -> Written("policy")
                       [] Top = "asked"   -> Written("tool")
                       [] OTHER           -> <<>>
    /\ trace_count' = IF Top = "asked" THEN trace_count + 1 ELSE trace_count
    /\ UNCHANGED <<cause, log_input, waiting, handled, block>>

\* MIRAL_TRACE_EXCEPTION in each function that is left.  The frame of a
\* callback was entered through none: invoke_under_lock() itself logs, once
\* the mutex is free again.
Passed == Len(frames) - (IF cause \in Threads THEN 2 ELSE 1)

\* An exception that nothing catches, from whoever runs.  (One that leaves
\* Locker's destructor ends the program.)
Fail ==
    /\ Top \in {"manager", "asked", "policy", "placing"} /\ ~Ending /\ Len(log) < MaxLog
    /\ log' = log \o [i \in 1..Passed |-> Written("exception")[1]] \o Separator
              \o (IF cause \in Threads THEN Aside("exception") ELSE <<>>)
    /\ frames' = <<"ending">>
    /\ UNCHANGED <<cause, log_input, trace_count, waiting, handled, block>>

Next ==
    \/ WindowOperation
    \/ \E e \in Events : handle_event(e)
    \/ \E t \in Threads : invoke_under_lock(t)
    \/ \E t \in Threads : Callback(t)
    \/ advise_end
    \/ Unlock
    \/ ToPolicy
    \/ place_new_window
    \/ Query
    \/ Command
    \/ place_and_size_for_state
    \/ WorkspaceTool
    \/ Return
    \/ Fail

Spec == Init /\ [][Next]_vars

-----------------------------------------------------------------------------
(* Properties.                                                             *)

TypeOK ==
    /\ cause \in Events \cup Threads \cup {Nobody, Window}
    /\ frames \in Seq({"manager", "asked", "policy", "placing", "ending"})
    /\ log_input \in {"empty", "nothing"} \cup Events
    /\ trace_count \in Nat
    /\ waiting \subseteq Threads
    /\ handled \subseteq Events
    /\ block \in Nat
    /\ log \in Seq([line : Lines, block : Nat, late : BOOLEAN])

\* The event log_input points to is the one being handled whenever a tool can
\* be called: no call in a later block, and none by another thread, logs an
\* event that has gone.
InputCurrent == PolicyRuns => log_input \in {"nothing", cause}

\* An event that leads to a call of a tool is logged once, in its own block
\* and before any such call; one that does not is not logged at all.  (A call
\* that fails leaves only the exceptions' lines.)
EventsLoggedOnce ==
    LET In(b, lines) == {i \in DOMAIN log : log[i].block = b /\ log[i].line \in lines}
        At(e) == {i \in DOMAIN log : log[i].line = e}
    IN  \A e \in Events : \A i, j \in At(e) :
            /\ i = j
            /\ log[i].block # 0
            /\ \A k \in In(log[i].block, {"tool", "place"}) : i < k
            /\ cause # e => In(log[i].block, {"tool", "place", "exception"}) # {}

\* Between the counted calls of different blocks, and only there, stands a
\* separator: the trace shows which calls were made under one hold of the
\* lock, but for the late ones.
BlocksSeparated ==
    LET tools      == {i \in DOMAIN log : log[i].line = "tool" /\ ~log[i].late}
        separators == {i \in DOMAIN log : log[i].line = "----"}
    IN  /\ \A i, j \in tools : i < j =>
            (log[i].block # log[j].block <=> \E k \in separators : i < k /\ k < j)
        /\ \A k \in separators : \E i \in tools : i < k /\ log[i].block = log[k].block
=============================================================================
