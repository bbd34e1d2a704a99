----------------------------- MODULE Decorations -----------------------------
(***************************************************************************)
(* DecorationProvider and Worker of miral-shell: the titlebars.            *)
(*                                                                         *)
(* The provider is an internal client.  The window manager's threads call  *)
(* it under the window manager's mutex; they put work in a queue, which    *)
(* the client's own thread, the worker, executes.  The request to create a *)
(* titlebar is answered by the server, under the window manager's mutex    *)
(* again, and the answer arrives on a thread of the client library, which  *)
(* calls insert() with the address of the titlebar's Data.  The provider's *)
(* mutex guards its two maps, not the Data in them.                        *)
(***************************************************************************)
EXTENDS SequencesExt, FiniteSets

CONSTANTS
    Windows,        \* clients' windows that need a titlebar
    NoWindow,
    MaxQueue,       \* nothing new is asked for with this much work queued
    MaxChanges,     \* how often the focus or a window changes by itself
    Liberties       \* "race"  threads interleave inside the provider's calls
                    \* "stop"  the shell shuts down

ASSUME DecorationsAssumption ==
    /\ NoWindow \notin Windows /\ {MaxQueue, MaxChanges} \subseteq Nat
    /\ Liberties \subseteq {"race", "stop"}

VARIABLES
    window,         \* of a client: "unborn", "open" or "gone"
    active,         \* the window with the focus
    changes,        \* how often change_focus and change_window have happened
    calls,          \* the provider's functions the window manager has yet to
                    \* call before it releases its mutex
    data,           \* window_to_titlebar
    awaiting,       \* windows_awaiting_titlebar
    work_queue,
    worker,         \* "working", or "done"
    request,        \* to create a titlebar: see RequestStates
    released,       \* titlebars given to mir_window_release()
    painted,        \* the intensity a titlebar was last painted with
    stopping        \* the work stop() has yet to enqueue

vars == <<window, active, changes, calls, data, awaiting, work_queue, worker, request,
          released, painted, stopping>>

\* "placed", "refused": answered by the server; "inserting": in insert(),
\* on_create() has been called; "titled": insert() is over.
RequestStates == {"none", "sent", "placed", "refused", "inserting", "titled"}

Intensities == {"dim", "bright"}

\* DecorationProvider::Data: titlebar tells whether the pointer is set.
NewData == [titlebar |-> FALSE, on_create |-> "nothing", intensity |-> "bright", window |-> FALSE]

Work(do, w, i) == [do |-> do, w |-> w, intensity |-> i]
Call(op, w, i) == [op |-> op, w |-> w, intensity |-> i, surface |-> "unread"]

Init ==
    /\ window = [w \in Windows |-> "unborn"]
    /\ active = NoWindow
    /\ changes = 0
    /\ calls = <<>>
    /\ data = [w \in {} |-> NewData]
    /\ awaiting = {}
    /\ work_queue = <<>>
    /\ worker = "working"
    /\ request = [w \in Windows |-> "none"]
    /\ released = {}
    /\ painted = [w \in Windows |-> "dim"]
    /\ stopping = <<>>

\* Nothing interrupts a thread inside the provider, without the "race" liberty.
Undisturbed ==
    "race" \in Liberties \/
        (/\ \A i \in DOMAIN calls : calls[i].surface = "unread"
         /\ \A w \in Windows : request[w] # "inserting")

wm_mutex_free == calls = <<>>

Quiet == /\ wm_mutex_free
         /\ Len(work_queue) < MaxQueue
         /\ stopping = <<>> /\ "done" \notin {work_queue[i].do : i \in DOMAIN work_queue}
         /\ worker = "working"

-----------------------------------------------------------------------------
(* The window manager's side.                                              *)

Wanted(w) == IF active = w THEN "bright" ELSE "dim"

FocusCalls(from, to) ==
    (IF from = NoWindow THEN <<>> ELSE <<Call("paint", from, "dim")>>) \o
    (IF to = NoWindow THEN <<>> ELSE <<Call("paint", to, "bright")>>)

\* handle_window_ready() of the titlebar policy: create_titlebar_for() and
\* then the focus.
open_window(w) ==
    /\ Quiet
    /\ window[w] = "unborn"
    /\ window' = [window EXCEPT ![w] = "open"]
    /\ work_queue' = Append(work_queue, Work("create", w, "dim"))
    /\ active' = w
    /\ calls' = FocusCalls(active, w)
    /\ UNCHANGED <<changes, data, awaiting, worker, request, released, painted, stopping>>

\* advise_focus_lost() and advise_focus_gained().
change_focus(w) ==
    /\ Quiet
    /\ changes < MaxChanges /\ changes' = changes + 1
    /\ window[w] = "open" /\ active # w
    /\ active' = w
    /\ calls' = FocusCalls(active, w)
    /\ UNCHANGED <<window, data, awaiting, work_queue, worker, request, released,
                   painted, stopping>>

\* advise_state_change() or resize_titlebar_for().
change_window(w) ==
    /\ Quiet
    /\ changes < MaxChanges /\ changes' = changes + 1
    /\ window[w] = "open"
    /\ calls' = <<Call("repaint", w, "dim")>>
    /\ UNCHANGED <<window, active, data, awaiting, work_queue, worker, request,
                   released, painted, stopping>>

\* advise_delete_window(), and the focus goes to another window.
close_window(w) ==
    /\ Quiet
    /\ window[w] = "open"
    /\ window' = [window EXCEPT ![w] = "gone"]
    /\ LET left == {x \in Windows \ {w} : window[x] = "open"} IN
       \E next \in IF active # w THEN {active} ELSE IF left = {} THEN {NoWindow} ELSE left :
          /\ active' = next
          /\ calls' = <<Call("destroy", w, "dim")>> \o
                      (IF next = active THEN <<>> ELSE FocusCalls(NoWindow, next))
    /\ UNCHANGED <<changes, data, awaiting, work_queue, worker, request, released, painted, stopping>>

\* Faulty: destroy looks at the titlebar and leaves it there.
LookWithoutTaking(d, call) ==
    IF call.op = "paint" THEN [d EXCEPT !.intensity = call.intensity] ELSE d

\* The Data after the first look at it: paint notes the intensity, destroy
\* takes the titlebar.
FirstLook(d, call) ==
    CASE call.op = "paint"   -> [d EXCEPT !.intensity = call.intensity]
      [] call.op = "destroy" -> [d EXCEPT !.titlebar = FALSE]
      [] OTHER               -> d

\* Faulty: the release does not wait for its turn.
ReleasedFirst(queue, w) == <<Work("release", w, "dim")>> \o queue

\* The work queue, with the release of w's titlebar.
ReleasedLast(queue, w) == Append(queue, Work("release", w, "dim"))

\* find_titlebar_data(), the first look at the titlebar, and its release.
call_find ==
    /\ calls # <<>> /\ Head(calls).surface = "unread"
    /\ Undisturbed
    /\ LET call == Head(calls)
           w    == call.w
           has  == w \in DOMAIN data /\ data[w].titlebar
           read == [call EXCEPT !.surface = IF has THEN "set" ELSE "null"]
       IN  /\ calls' = (IF w \in DOMAIN data THEN <<read>> ELSE <<>>) \o Tail(calls)
           /\ data' = [x \in DOMAIN data |-> IF x = w THEN FirstLook(data[w], call) ELSE data[x]]
           /\ work_queue' = IF call.op = "destroy" /\ has
                            THEN ReleasedLast(work_queue, w) ELSE work_queue
    /\ UNCHANGED <<window, active, changes, awaiting, worker, request, released, painted, stopping>>

\* Faulty: destroy forgets the titlebar without waiting for it to be created.
AnswerlessDestroy(d, queue, call) ==
    IF call.op = "destroy" THEN <<d, Append(queue, Work("erase", call.w, "dim"))>>
    ELSE IF call.surface = "set"
    THEN <<d, Append(queue, Work("paint", call.w, d.intensity))>>
    ELSE <<IF call.op = "paint" THEN [d EXCEPT !.on_create = "paint"] ELSE d, queue>>

\* Faulty: a titlebar that has yet to be created is not painted.
ForgottenPaint(d, queue, call) ==
    IF call.op = "destroy"
    THEN IF d.titlebar THEN <<d, Append(queue, Work("erase", call.w, "dim"))>>
         ELSE <<[d EXCEPT !.on_create = "erase"], queue>>
    ELSE IF call.surface = "set"
    THEN <<d, Append(queue, Work("paint", call.w, d.intensity))>>
    ELSE <<d, queue>>

\* What the rest of the call does with the Data d and the queue.
Remainder(d, queue, call) ==
    IF call.op = "destroy"
    THEN IF d.titlebar THEN <<d, Append(queue, Work("erase", call.w, "dim"))>>
         ELSE <<[d EXCEPT !.on_create = "erase"], queue>>
    ELSE IF call.surface = "set"
    THEN <<d, Append(queue, Work("paint", call.w, d.intensity))>>
    ELSE <<IF call.op = "paint" THEN [d EXCEPT !.on_create = "paint"] ELSE d, queue>>

\* ... which goes on with the pointer it has found; should the Data be gone
\* by now, nothing sensible is left of it.
call_act ==
    /\ calls # <<>> /\ Head(calls).surface # "unread"
    /\ calls' = Tail(calls)
    /\ LET call == Head(calls)
           w    == call.w
       IN  IF w \notin DOMAIN data THEN UNCHANGED <<data, work_queue>>
           ELSE LET after == Remainder(data[w], work_queue, call)
                IN  /\ data' = [data EXCEPT ![w] = after[1]]
                    /\ work_queue' = after[2]
    /\ UNCHANGED <<window, active, changes, awaiting, worker, request, released, painted, stopping>>

\* The server handles the request: place_new_decoration() throws if the window
\* has gone, otherwise advise_new_titlebar() and a first paint follow.
place_titlebar(w) ==
    /\ request[w] = "sent"
    /\ wm_mutex_free /\ Undisturbed
    /\ awaiting' = awaiting \ {w}
    /\ IF window[w] = "open"
       THEN /\ request' = [request EXCEPT ![w] = "placed"]
            /\ data' = [x \in DOMAIN data \cup {w} |->
                           IF x # w THEN data[x]
                           ELSE [(IF w \in DOMAIN data THEN data[w] ELSE NewData)
                                 EXCEPT !.window = TRUE]]
            /\ calls' = <<Call("paint", w, Wanted(w))>>
       ELSE /\ request' = [request EXCEPT ![w] = "refused"]
            /\ UNCHANGED <<data, calls>>
    /\ UNCHANGED <<window, active, changes, work_queue, worker, released, painted, stopping>>

-----------------------------------------------------------------------------
(* insert(), on the client library's thread: first on_create(), which puts *)
(* its work in the queue, then the titlebar.                               *)

insert_on_create(w) ==
    /\ request[w] \in {"placed", "refused"}
    /\ Undisturbed
    /\ request' = [request EXCEPT ![w] = IF w \in DOMAIN data THEN "inserting" ELSE "titled"]
    /\ work_queue' =
        IF w \in DOMAIN data /\ data[w].on_create # "nothing"
        THEN Append(work_queue, Work(data[w].on_create, w, data[w].intensity))
        ELSE work_queue
    /\ UNCHANGED <<window, active, changes, calls, data, awaiting, worker, released, painted, stopping>>

insert_titlebar(w) ==
    /\ request[w] = "inserting"
    /\ request' = [request EXCEPT ![w] = "titled"]
    /\ data' = IF w \in DOMAIN data THEN [data EXCEPT ![w].titlebar = TRUE] ELSE data
    /\ UNCHANGED <<window, active, changes, calls, awaiting, work_queue, worker, released,
                   painted, stopping>>

-----------------------------------------------------------------------------
(* The worker.                                                             *)

\* Faulty: the request is on its way before the window is entered.
SentUnnamed(w) ==
    /\ request' = [request EXCEPT ![w] = "sent"]
    /\ data' = [x \in DOMAIN data \cup {w} |-> IF x \in DOMAIN data THEN data[x] ELSE NewData]
    /\ UNCHANGED <<awaiting, released, painted>>

\* The work of create_titlebar_for(), under the provider's mutex.
create_titlebar(w) ==
    /\ awaiting' = awaiting \cup {w}
    /\ data' = [x \in DOMAIN data \cup {w} |-> IF x \in DOMAIN data THEN data[x] ELSE NewData]
    /\ request' = [request EXCEPT ![w] = "sent"]
    /\ UNCHANGED <<released, painted>>

paint_surface(w, intensity) ==
    /\ painted' = [painted EXCEPT ![w] = intensity]
    /\ UNCHANGED <<awaiting, data, request, released>>

release_titlebar(w) ==
    /\ released' = released \cup {w}
    /\ UNCHANGED <<awaiting, data, request, painted>>

\* Faulty: the titlebars are left to the end of the connection.
EraseUnreleased(ws) ==
    /\ data' = [w \in DOMAIN data \ ws |-> data[w]]
    /\ UNCHANGED <<awaiting, request, painted, released>>

\* window_to_titlebar.erase() or clear(), and ~Data().
erase_data(ws) ==
    /\ data' = [w \in DOMAIN data \ ws |-> data[w]]
    /\ released' = released \cup {w \in ws \cap DOMAIN data : data[w].titlebar}
    /\ UNCHANGED <<awaiting, request, painted>>

\* One turn of Worker::do_work().
do_work ==
    /\ worker = "working"
    /\ work_queue # <<>>
    /\ Undisturbed
    /\ work_queue' = Tail(work_queue)
    /\ LET work == Head(work_queue) IN
       \/ work.do = "create" /\ create_titlebar(work.w) /\ UNCHANGED worker
       \/ work.do = "paint" /\ paint_surface(work.w, work.intensity) /\ UNCHANGED worker
       \/ work.do = "release" /\ release_titlebar(work.w) /\ UNCHANGED worker
       \/ work.do = "erase" /\ erase_data({work.w}) /\ UNCHANGED worker
       \/ work.do = "clear" /\ erase_data(Windows) /\ UNCHANGED worker
       \/ work.do = "disconnect" /\ UNCHANGED <<awaiting, data, request, released, painted, worker>>
       \/ work.do = "done" /\ worker' = "done"
          /\ UNCHANGED <<awaiting, data, request, released, painted>>
    /\ UNCHANGED <<window, active, changes, calls, stopping>>

-----------------------------------------------------------------------------
(* Shutting down.                                                          *)

\* Faulty: nobody tells the worker.
StopWithoutDone == <<"clear", "disconnect">>

StopWork == <<"clear", "disconnect", "done">>

stop_begin ==
    /\ "stop" \in Liberties
    /\ Quiet
    /\ stopping' = StopWork
    /\ UNCHANGED <<window, active, changes, calls, data, awaiting, work_queue, worker,
                   request, released, painted>>

stop_enqueue ==
    /\ stopping # <<>>
    /\ work_queue' = Append(work_queue, Work(Head(stopping), NoWindow, "dim"))
    /\ stopping' = Tail(stopping)
    /\ UNCHANGED <<window, active, changes, calls, data, awaiting, worker, request,
                   released, painted>>

\* Nothing is left to do: every window is gone, or the shell has stopped.
finished ==
    /\ calls = <<>> /\ stopping = <<>>
    /\ worker = "done" \/ (work_queue = <<>> /\ \A w \in Windows : window[w] = "gone")
    /\ \A w \in Windows : request[w] \in {"none", "titled"} \/ (worker = "done")
    /\ UNCHANGED vars

Next ==
    \/ \E w \in Windows : open_window(w) \/ change_focus(w) \/ change_window(w) \/ close_window(w)
    \/ call_find \/ call_act
    \/ \E w \in Windows : place_titlebar(w) \/ insert_on_create(w) \/ insert_titlebar(w)
    \/ do_work
    \/ stop_begin \/ stop_enqueue
    \/ finished

\* Every thread goes on; windows need not be opened, closed or changed.
Fairness ==
    /\ WF_vars(call_find) /\ WF_vars(call_act)
    /\ \A w \in Windows : /\ WF_vars(place_titlebar(w))
                          /\ WF_vars(insert_on_create(w)) /\ WF_vars(insert_titlebar(w))
    /\ WF_vars(do_work) /\ WF_vars(stop_enqueue)

Spec == Init /\ [][Next]_vars /\ Fairness

-----------------------------------------------------------------------------
(* Properties.                                                             *)

\* The shape of the state.
TypeOK ==
    /\ window \in [Windows -> {"unborn", "open", "gone"}]
    /\ active \in Windows \cup {NoWindow}
    /\ changes \in 0..MaxChanges
    /\ calls \in Seq([op : {"paint", "repaint", "destroy"}, w : Windows,
                      intensity : Intensities, surface : {"unread", "set", "null"}])
    /\ DOMAIN data \subseteq Windows
    /\ \A w \in DOMAIN data :
          data[w] \in [titlebar : BOOLEAN, on_create : {"nothing", "paint", "erase"},
                       intensity : Intensities, window : BOOLEAN]
    /\ awaiting \subseteq Windows
    /\ work_queue \in Seq([do : {"create", "paint", "release", "erase", "clear",
                                 "disconnect", "done"},
                           w : Windows \cup {NoWindow}, intensity : Intensities])
    /\ worker \in {"working", "done"}
    /\ request \in [Windows -> RequestStates]
    /\ released \subseteq Windows
    /\ painted \in [Windows -> Intensities]
    /\ stopping \in Seq({"clear", "disconnect", "done"})

\* The releases of w's titlebar that are queued.
Releases(w) == {i \in DOMAIN work_queue : work_queue[i].do = "release" /\ work_queue[i].w = w}

\* A titlebar has one owner: its Data, the work that will release it, or
\* nobody any more.  So mir_window_release() is called at most once for each,
\* whatever destroy_titlebar_for(), insert() and ~Data() do at the same time.
OneOwner ==
    \A w \in Windows :
        Cardinality(Releases(w)) + Cardinality({w} \cap released)
        + Cardinality({x \in {w} \cap DOMAIN data : data[x].titlebar}) <= 1

\* From the moment stop() is called.
Stopping ==
    \/ stopping # <<>> \/ worker = "done"
    \/ \E i \in DOMAIN work_queue : work_queue[i].do = "done"

\* Until the shell stops, the worker never paints a titlebar it has released:
\* whatever is asked of a titlebar is in the queue before its release.
PaintsLive ==
    \A i \in DOMAIN work_queue :
        work_queue[i].do = "paint" /\ ~Stopping =>
            /\ work_queue[i].w \notin released
            /\ \A j \in Releases(work_queue[i].w) : i < j

\* The server finds the window a requested titlebar is for by its name.
RequestsAwaited == \A w \in Windows : request[w] = "sent" => w \in awaiting

\* Until the shell stops, the answer to a request finds the Data whose address
\* was given to create_window(), even if the window has gone in between.
AnswersFindData ==
    \A w \in Windows :
        request[w] \in {"sent", "placed", "refused"} /\ ~Stopping => w \in DOMAIN data

\* Once windows are left alone, a titlebar shows whether its window has the focus.
PaintedAsFocused ==
    \A w \in Windows :
        []<>(window[w] = "open" /\ request[w] = "titled" => painted[w] = Wanted(w))

\* A titlebar that the server has made is released in the end once its window
\* has gone, even when the window goes while the answer is on its way.
TitlebarsGo ==
    \A w \in Windows :
        window[w] = "gone" /\ w \in DOMAIN data /\ data[w].window ~> w \in released

\* stop() ends the worker, so that the client's thread can be joined.
StopEnds == stopping # <<>> ~> worker = "done"
=============================================================================
