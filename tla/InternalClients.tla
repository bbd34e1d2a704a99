--------------------------- MODULE InternalClients ---------------------------
(***************************************************************************)
(* miral::MirRunner, StartupInternalClient and InternalClientLauncher: the *)
(* life of a server and of the clients that run inside its process.        *)
(*                                                                         *)
(* The threads are: the one in run_with(), which runs Mir's main loop;     *)
(* each client's; one of Mir's that tells a runner of its session; the     *)
(* policy's, which may launch a client while it holds the window manager's *)
(* mutex; and one that stops the server.  A client's session and windows    *)
(* come and go under the window manager's mutex.                           *)
(***************************************************************************)
EXTENDS SequencesExt

CONSTANTS
    Startup,        \* clients of StartupInternalClient
    Launched,       \* clients of one InternalClientLauncher
    NoClient,
    StopCallbacks,  \* callbacks given to add_stop_callback()
    Hook,           \* the one with which a shell tells its clients to end
    Liberties       \* "thread"  stop() is called on a thread of its own, not
                    \*           only by a signal, on the main loop's
                    \* "policy"  the policy launches clients from a handler,
                    \*           not only from its constructor

Clients == Startup \cup Launched

ASSUME ClientsAssumption ==
    /\ NoClient \notin Clients /\ Startup \cap Launched = {}
    /\ Hook \in StopCallbacks /\ "join" \notin StopCallbacks /\ IsFiniteSet(Startup)
    /\ Liberties \subseteq {"thread", "policy"}

VARIABLES
    server,         \* "none", "configured" (weak_server is set), "running",
                    \* "stopped" (the main loop has been told), "down"
    stop_callback,  \* MirRunner's: the callbacks it calls, in order
    armed,          \* the copy the server has of it
    invoked,        \* the callbacks that have been called, in order
    queue,          \* the main loop's actions: Startup clients, or "launcher"
    running,        \* the client whose run() the main loop is in
    session,        \* runners that have been notified of their session
    thread,         \* of each client: see ThreadStates
    registered,     \* client_runners
    launcher,       \* InternalClientLauncher's current runner
    launch,         \* the launch() under way: its client, and its next step
    stop,           \* the stop(): where, its remaining calls and joins
    mutexes         \* those held: "runner", "registry", "window manager"

vars == <<server, stop_callback, armed, invoked, queue, running, session, thread,
          registered, launcher, launch, stop, mutexes>>

\* "ended": client_code has returned, the thread is still to be joined.
ThreadStates == {"none", "running", "ended", "joined"}

NoLaunch == [client |-> NoClient, next |-> "none"]
NoStop   == [on |-> "none", calls |-> <<>>, joining |-> {}]

Init ==
    /\ server = "none"
    /\ stop_callback = <<"join">>
    /\ armed = <<>>
    /\ invoked = <<>>
    /\ queue = <<>>
    /\ running = NoClient
    /\ session = {}
    /\ thread = [c \in Clients |-> "none"]
    /\ registered = {}
    /\ launcher = NoClient
    /\ launch = NoLaunch
    /\ stop = NoStop
    /\ mutexes = {}

-----------------------------------------------------------------------------
(* MirRunner.                                                              *)

\* Faulty: the new callback comes last.
CalledAfter(existing, callback) == existing \o <<callback>>

\* A new stop callback is called before the existing ones.
Updated(existing, callback) == <<callback>> \o existing

add_stop_callback(callback) ==
    /\ callback \notin Range(stop_callback)
    /\ "runner" \notin mutexes
    /\ stop_callback' = Updated(stop_callback, callback)
    /\ UNCHANGED <<server, armed, invoked, queue, running, session, thread,
                   registered, launcher, launch, stop, mutexes>>

\* Faulty: the startup clients are not entered in client_runners.
RunnersForgotten == {}

\* register_runner() in StartupInternalClient::operator().
StartupRunners == Startup

\* The part of run_with() under the mutex: the options register the startup
\* clients, the server gets its copy of the stop callback.  A shell adds its
\* hook before.
configure ==
    /\ server = "none"
    /\ Hook \in Range(stop_callback)
    /\ "runner" \notin mutexes
    /\ server' = "configured"
    /\ registered' = registered \cup StartupRunners
    /\ armed' = stop_callback
    /\ UNCHANGED <<stop_callback, invoked, queue, running, session, thread,
                   launcher, launch, stop, mutexes>>

\* server->run(): the policy is built, and the init callbacks enqueue the
\* startup clients; then the main loop runs.
start ==
    /\ server = "configured"
    /\ launch = NoLaunch
    /\ server' = "running"
    /\ \E order \in SetToSeqs(Startup) : queue' = queue \o order
    /\ UNCHANGED <<stop_callback, armed, invoked, running, session, thread,
                   registered, launcher, launch, stop, mutexes>>

\* The main loop has returned and run_with() ends.
shutdown ==
    /\ server = "stopped"
    /\ running = NoClient
    /\ server' = "down"
    /\ UNCHANGED <<stop_callback, armed, invoked, queue, running, session, thread,
                   registered, launcher, launch, stop, mutexes>>

-----------------------------------------------------------------------------
(* InternalClientRunner::run(), on the main loop.                          *)

main_loop_free == running = NoClient /\ stop.on # "main loop"

\* open_client_socket() and mir_connect_sync().  An action of the launcher
\* runs whichever runner the launcher has by now.
run_begin ==
    /\ server = "running"
    /\ main_loop_free
    /\ queue # <<>>
    /\ running' = IF Head(queue) = "launcher" THEN launcher ELSE Head(queue)
    /\ queue' = Tail(queue)
    /\ UNCHANGED <<server, stop_callback, armed, invoked, session, thread,
                   registered, launcher, launch, stop, mutexes>>

\* Faulty: the runner does not remember its session.
NotificationLost(c) ==
    /\ running = c
    /\ c \notin session
    /\ UNCHANGED vars

\* The callback of open_client_socket(), on one of Mir's threads: the window
\* manager has the new session by then.
connect_notification(c) ==
    /\ running = c
    /\ c \notin session
    /\ "window manager" \notin mutexes
    /\ session' = session \cup {c}
    /\ UNCHANGED <<server, stop_callback, armed, invoked, queue, running, thread,
                   registered, launcher, launch, stop, mutexes>>

\* The wait for the session is over: the client's thread starts.
run_end(c) ==
    /\ running = c
    /\ c \in session
    /\ thread' = [thread EXCEPT ![c] = "running"]
    /\ running' = NoClient
    /\ UNCHANGED <<server, stop_callback, armed, invoked, queue, session,
                   registered, launcher, launch, stop, mutexes>>

\* client_code returns and the connection is released.
end_client(c) ==
    /\ thread[c] = "running"
    /\ "window manager" \notin mutexes
    /\ thread' = [thread EXCEPT ![c] = "ended"]
    /\ UNCHANGED <<server, stop_callback, armed, invoked, queue, running, session,
                   registered, launcher, launch, stop, mutexes>>

\* ~InternalClientRunner() after run_with().
destroy_runner(c) ==
    /\ server = "down"
    /\ thread[c] = "ended"
    /\ thread' = [thread EXCEPT ![c] = "joined"]
    /\ UNCHANGED <<server, stop_callback, armed, invoked, queue, running, session,
                   registered, launcher, launch, stop, mutexes>>

-----------------------------------------------------------------------------
(* InternalClientLauncher::launch(), one client after the other: the next  *)
(* one when the last one's thread has ended (it may wait to be joined).    *)

launch_begin(c) ==
    /\ launch = NoLaunch
    /\ thread[c] = "none" /\ c # launcher
    /\ launcher # NoClient => thread[launcher] \in {"ended", "joined"}
    /\ \/ server = "configured" /\ UNCHANGED mutexes
       \/ /\ "policy" \in Liberties
          /\ server \in {"running", "stopped"}
          /\ "window manager" \notin mutexes
          /\ mutexes' = mutexes \cup {"window manager"}
    /\ thread' = IF launcher # NoClient THEN [thread EXCEPT ![launcher] = "joined"] ELSE thread
    /\ launcher' = c
    /\ launch' = [client |-> c, next |-> "enqueue"]
    /\ UNCHANGED <<server, stop_callback, armed, invoked, queue, running, session,
                   registered, stop>>

launch_enqueue ==
    /\ launch.next = "enqueue"
    /\ queue' = Append(queue, "launcher")
    /\ launch' = [launch EXCEPT !.next = "register"]
    /\ UNCHANGED <<server, stop_callback, armed, invoked, running, session, thread,
                   registered, launcher, stop, mutexes>>

launch_register ==
    /\ launch.next = "register"
    /\ "registry" \notin mutexes
    /\ registered' = registered \cup {launch.client}
    /\ mutexes' = mutexes \ {"window manager"}
    /\ launch' = NoLaunch
    /\ UNCHANGED <<server, stop_callback, armed, invoked, queue, running, session,
                   thread, launcher, stop>>

-----------------------------------------------------------------------------
(* stop(): the stop callbacks on the thread that stops the server, then    *)
(* join_runners_for() under its mutex, then the main loop is told.         *)

\* A signal, on the main loop between two of its actions.
stop_by_signal ==
    /\ server = "running" /\ stop = NoStop
    /\ main_loop_free
    /\ stop' = [on |-> "main loop", calls |-> armed, joining |-> {}]
    /\ UNCHANGED <<server, stop_callback, armed, invoked, queue, running, session,
                   thread, registered, launcher, launch, mutexes>>

\* MirRunner::stop(), which keeps the runner's mutex.
stop_by_runner ==
    /\ "thread" \in Liberties
    /\ server = "running" /\ stop = NoStop
    /\ "runner" \notin mutexes
    /\ mutexes' = mutexes \cup {"runner"}
    /\ stop' = [on |-> "thread", calls |-> armed, joining |-> {}]
    /\ UNCHANGED <<server, stop_callback, armed, invoked, queue, running, session,
                   thread, registered, launcher, launch>>

call_stop_callback ==
    /\ stop.joining = {}
    /\ stop.calls # <<>> /\ Head(stop.calls) # "join"
    /\ invoked' = Append(invoked, Head(stop.calls))
    /\ stop' = [stop EXCEPT !.calls = Tail(@)]
    /\ UNCHANGED <<server, stop_callback, armed, queue, running, session, thread,
                   registered, launcher, launch, mutexes>>

join_begin ==
    /\ stop.calls # <<>> /\ Head(stop.calls) = "join"
    /\ "registry" \notin mutexes
    /\ mutexes' = mutexes \cup {"registry"}
    /\ stop' = [stop EXCEPT !.calls = Tail(@), !.joining = registered]
    /\ invoked' = Append(invoked, "join")
    /\ UNCHANGED <<server, stop_callback, armed, queue, running, session, thread,
                   registered, launcher, launch>>

\* join_client_thread(): nothing to do for a thread that has not started.
join_client_thread(c) ==
    /\ c \in stop.joining
    /\ thread[c] # "running"
    /\ thread' = IF thread[c] = "ended" THEN [thread EXCEPT ![c] = "joined"] ELSE thread
    /\ stop' = [stop EXCEPT !.joining = @ \ {c}]
    /\ UNCHANGED <<server, stop_callback, armed, invoked, queue, running, session,
                   registered, launcher, launch, mutexes>>

\* The entries are erased, the mutexes released, and the main loop stops.
stop_end ==
    /\ server = "running" /\ stop.on # "none"
    /\ stop.calls = <<>> /\ stop.joining = {}
    /\ registered' = {}
    /\ mutexes' = mutexes \ {"registry", "runner"}
    /\ server' = "stopped"
    /\ stop' = [stop EXCEPT !.joining = {}]
    /\ UNCHANGED <<stop_callback, armed, invoked, queue, running, session, thread,
                   launcher, launch>>

-----------------------------------------------------------------------------
\* The process has nothing left to do.
ended ==
    /\ server = "down"
    /\ \A c \in Clients : thread[c] \in {"none", "joined"}
    /\ UNCHANGED vars

Next ==
    \/ \E callback \in StopCallbacks : add_stop_callback(callback)
    \/ configure \/ start \/ shutdown
    \/ run_begin
    \/ \E c \in Clients : connect_notification(c) \/ run_end(c) \/ end_client(c)
    \/ \E c \in Clients : destroy_runner(c)
    \/ \E c \in Launched : launch_begin(c)
    \/ launch_enqueue \/ launch_register
    \/ stop_by_signal \/ stop_by_runner
    \/ call_stop_callback \/ join_begin \/ stop_end
    \/ \E c \in Clients : join_client_thread(c)
    \/ ended

\* What the threads do when they can.  A client ends once it has been told:
\* "client_code will be executed on its own thread, this must exit"
\* (include/miral/internal_client.h).  Nobody has to launch a client, to stop
\* the server or to add a callback.
Fairness ==
    /\ WF_vars(configure) /\ WF_vars(start) /\ WF_vars(shutdown)
    /\ WF_vars(run_begin)
    /\ \A c \in Clients :
        /\ WF_vars(connect_notification(c)) /\ WF_vars(run_end(c))
        /\ WF_vars(Hook \in Range(invoked) /\ end_client(c))
        /\ WF_vars(join_client_thread(c)) /\ WF_vars(destroy_runner(c))
    /\ WF_vars(launch_enqueue) /\ WF_vars(launch_register)
    /\ WF_vars(call_stop_callback) /\ WF_vars(join_begin) /\ WF_vars(stop_end)

Spec == Init /\ [][Next]_vars /\ Fairness

-----------------------------------------------------------------------------
(* Properties.                                                             *)

\* The shape of the state.
TypeOK ==
    /\ server \in {"none", "configured", "running", "stopped", "down"}
    /\ \A list \in {stop_callback, armed, invoked} :
          list \in Seq(StopCallbacks \cup {"join"})
    /\ queue \in Seq(Startup \cup {"launcher"})
    /\ running \in Clients \cup {NoClient}
    /\ session \subseteq Clients
    /\ thread \in [Clients -> ThreadStates]
    /\ registered \subseteq Clients
    /\ launcher \in Launched \cup {NoClient}
    /\ launch \in [client : Launched \cup {NoClient}, next : {"none", "enqueue", "register"}]
    /\ stop \in [on : {"none", "main loop", "thread"},
                 calls : Seq(StopCallbacks \cup {"join"}), joining : SUBSET Clients]
    /\ mutexes \subseteq {"runner", "registry", "window manager"}

\* When a signal has stopped the server, no startup client outlives it: the
\* stop callback runs between two actions of the main loop, and those of the
\* startup clients whose turn has come by then are in client_runners.
JoinedBySignal ==
    server = "down" /\ stop.on = "main loop" => \A c \in Startup : thread[c] # "running"

\* Clients are told to end before anyone waits for them to.
ToldBeforeJoined == stop.joining # {} => Hook \in Range(invoked)

\* Stopping the server ends, unless a launch waits to enter its client in the
\* registry that the joining thread has locked.
StopBlockedByLaunchOnly ==
    stop.on # "none" ~> \/ server = "down"
                        \/ launch.next = "register" /\ "registry" \in mutexes

\* An internal client of a server that is not stopped comes to run.
ClientsRun ==
    \A c \in Clients : c \in registered \cup Range(queue) /\ server = "running"
                       ~> thread[c] # "none" \/ stop.on # "none" \/ server # "running"

-----------------------------------------------------------------------------
(* What the documentation says and the code does not do.                   *)

\* stop(): "Tell the Mir server to exit" (include/miral/runner.h), which ends
\* in run_with() having returned.
StopExits == stop.on # "none" ~> server = "down"
=============================================================================
