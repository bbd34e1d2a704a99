------------------------ MODULE InternalClients_proofs ------------------------
(***************************************************************************)
(* Stopping a server, for any number of clients and stop callbacks: the    *)
(* clients are told before they are waited for, and when it is a signal    *)
(* that stops the server no startup client is left.  (That stopping ends   *)
(* at all is a matter of liveness, and depends on the launches.)           *)
(***************************************************************************)
EXTENDS InternalClients, TLAPS, SequenceTheorems, FiniteSetTheorems

Callbacks == StopCallbacks \cup {"join"}

-----------------------------------------------------------------------------
(* Lists of callbacks.                                                     *)

LEMMA FirstOfList ==
    ASSUME NEW S, NEW s \in Seq(S), s # <<>>
    PROVE  /\ Head(s) \in S /\ Tail(s) \in Seq(S)
           /\ Range(s) = {Head(s)} \cup Range(Tail(s))
<1>1. /\ Head(s) \in S /\ Tail(s) \in Seq(S) /\ Len(Tail(s)) = Len(s) - 1
      /\ \A i \in 1..Len(Tail(s)) : Tail(s)[i] = s[i + 1]
  BY HeadTailProperties
<1>2. DOMAIN s = 1..Len(s) /\ DOMAIN Tail(s) = 1..Len(Tail(s)) /\ Len(s) \in Nat \ {0}
  BY <1>1, LenProperties, EmptySeq
<1>3. Head(s) = s[1]
  OBVIOUS
<1>4. Range(s) \subseteq {Head(s)} \cup Range(Tail(s))
  <2> SUFFICES ASSUME NEW i \in 1..Len(s), i # 1
               PROVE  s[i] \in Range(Tail(s))
    BY <1>2, <1>3 DEF Range
  <2>1. i - 1 \in 1..Len(Tail(s)) /\ Tail(s)[i - 1] = s[i]
    BY <1>1, <1>2
  <2> QED
    BY <1>2, <2>1 DEF Range
<1>5. {Head(s)} \cup Range(Tail(s)) \subseteq Range(s)
  BY <1>1, <1>2, <1>3 DEF Range
<1> QED
  BY <1>1, <1>4, <1>5

LEMMA NothingInEmptyList == Range(<<>>) = {}
<1>1. DOMAIN <<>> = {}
  OBVIOUS
<1> QED
  BY <1>1 DEF Range

LEMMA LongerList ==
    ASSUME NEW S, NEW s \in Seq(S), NEW e \in S
    PROVE  /\ Append(s, e) \in Seq(S)
           /\ Range(Append(s, e)) = Range(s) \cup {e}
<1>1. /\ Append(s, e) \in Seq(S) /\ Len(s) \in Nat
      /\ DOMAIN s = 1..Len(s) /\ DOMAIN Append(s, e) = 1..Len(s) + 1
      /\ \A i \in 1..Len(s) : Append(s, e)[i] = s[i]
      /\ Append(s, e)[Len(s) + 1] = e
  OBVIOUS
<1>2. Range(Append(s, e)) \subseteq Range(s) \cup {e}
  <2> SUFFICES ASSUME NEW i \in 1..Len(s) + 1
               PROVE  Append(s, e)[i] \in Range(s) \cup {e}
    BY <1>1 DEF Range
  <2>1. CASE i = Len(s) + 1
    BY <1>1, <2>1
  <2>2. CASE i \in 1..Len(s)
    BY <1>1, <2>2 DEF Range
  <2> QED
    BY <1>1, <2>1, <2>2
<1>3. Range(s) \cup {e} \subseteq Range(Append(s, e))
  <2>1. e \in Range(Append(s, e))
    BY <1>1 DEF Range
  <2>2. ASSUME NEW i \in 1..Len(s) PROVE s[i] \in Range(Append(s, e))
    <3>1. i \in 1..Len(s) + 1 /\ Append(s, e)[i] = s[i]
      BY <1>1
    <3> QED
      BY <1>1, <3>1 DEF Range
  <2> QED
    BY <1>1, <2>1, <2>2 DEF Range
<1> QED
  BY <1>1, <1>2, <1>3

\* A callback that is added comes first, and the others keep their order.
LEMMA UpdatedProperties ==
    ASSUME NEW S, NEW s \in Seq(S), NEW e \in S
    PROVE  /\ Updated(s, e) \in Seq(S)
           /\ DOMAIN Updated(s, e) = 1..Len(s) + 1
           /\ Updated(s, e)[1] = e
           /\ \A i \in 1..Len(s) : Updated(s, e)[i + 1] = s[i]
           /\ Range(Updated(s, e)) = Range(s) \cup {e}
<1> DEFINE u == Updated(s, e)
<1>1. <<e>> \in Seq(S) /\ Len(<<e>>) = 1 /\ <<e>>[1] = e /\ Len(s) \in Nat /\ DOMAIN s = 1..Len(s)
  OBVIOUS
<1>2. /\ u \in Seq(S) /\ Len(u) = 1 + Len(s)
      /\ \A i \in 1..1 + Len(s) : u[i] = IF i <= 1 THEN <<e>>[i] ELSE s[i - 1]
  BY <1>1, ConcatProperties DEF Updated
<1>3. DOMAIN u = 1..Len(s) + 1
  BY <1>1, <1>2, LenProperties
<1>4. u[1] = e /\ \A i \in 1..Len(s) : u[i + 1] = s[i]
  BY <1>1, <1>2
<1>5. Range(u) = Range(s) \cup {e}
  <2>1. \A i \in 1..Len(s) + 1 : i = 1 \/ (i - 1 \in 1..Len(s) /\ u[i] = s[i - 1])
    BY <1>1, <1>2
  <2>2. ASSUME NEW i \in DOMAIN u PROVE u[i] \in Range(s) \cup {e}
    BY <1>1, <1>3, <1>4, <2>1 DEF Range
  <2>3. e \in Range(u)
    BY <1>1, <1>3, <1>4 DEF Range
  <2>4. ASSUME NEW i \in DOMAIN s PROVE s[i] \in Range(u)
    <3>1. i + 1 \in DOMAIN u /\ u[i + 1] = s[i]
      BY <1>1, <1>3, <1>4
    <3> QED
      BY <3>1 DEF Range
  <2> QED
    BY <2>2, <2>3, <2>4 DEF Range
<1> QED
  BY <1>2, <1>3, <1>4, <1>5

\* The shell's hook stands before every join.
HookFirst(calls) ==
    \A i \in DOMAIN calls : calls[i] = "join" => \E j \in 1..(i - 1) : calls[j] = Hook

LEMMA HookIsNotJoin == Hook \in Callbacks /\ Hook # "join" /\ NoClient \notin Clients
BY ClientsAssumption DEF Callbacks

LEMMA HookFirstInTail ==
    ASSUME NEW S, NEW s \in Seq(S), s # <<>>, HookFirst(s)
    PROVE  Head(s) = Hook \/ (Head(s) # "join" /\ HookFirst(Tail(s)))
<1>1. /\ Tail(s) \in Seq(S) /\ Len(Tail(s)) = Len(s) - 1 /\ Len(s) \in Nat \ {0}
      /\ \A i \in 1..Len(Tail(s)) : Tail(s)[i] = s[i + 1]
      /\ DOMAIN s = 1..Len(s) /\ DOMAIN Tail(s) = 1..Len(s) - 1
      /\ Head(s) = s[1]
  BY HeadTailProperties, LenProperties, EmptySeq
<1>2. Head(s) # "join"
  <2>1. 1 \in DOMAIN s /\ 1..(1 - 1) = {}
    BY <1>1
  <2> QED
    BY <1>1, <2>1 DEF HookFirst
<1>3. ASSUME Head(s) # Hook, NEW i \in DOMAIN Tail(s), Tail(s)[i] = "join"
      PROVE  \E j \in 1..(i - 1) : Tail(s)[j] = Hook
  <2>1. i + 1 \in DOMAIN s /\ s[i + 1] = "join"
    BY <1>1, <1>3
  <2>2. PICK j \in 1..i : s[j] = Hook
    BY <1>1, <2>1 DEF HookFirst
  <2>3. j # 1
    BY <1>1, <1>3, <2>2
  <2>4. j - 1 \in 1..(i - 1) /\ Tail(s)[j - 1] = Hook
    BY <1>1, <2>2, <2>3
  <2> QED
    BY <2>4
<1> QED
  BY <1>2, <1>3 DEF HookFirst

LEMMA HookFirstUpdated ==
    ASSUME NEW s \in Seq(Callbacks), NEW e \in StopCallbacks,
           e = Hook \/ HookFirst(s)
    PROVE  HookFirst(Updated(s, e))
<1>1. /\ DOMAIN Updated(s, e) = 1..Len(s) + 1 /\ Updated(s, e)[1] = e
      /\ \A i \in 1..Len(s) : Updated(s, e)[i + 1] = s[i]
      /\ Len(s) \in Nat /\ DOMAIN s = 1..Len(s)
  <2>1. e \in Callbacks
    BY DEF Callbacks
  <2>2. Len(s) \in Nat /\ DOMAIN s = 1..Len(s)
    OBVIOUS
  <2>3. /\ DOMAIN Updated(s, e) = 1..Len(s) + 1 /\ Updated(s, e)[1] = e
        /\ \A i \in 1..Len(s) : Updated(s, e)[i + 1] = s[i]
    BY <2>1, UpdatedProperties
  <2> QED
    BY <2>2, <2>3
<1> SUFFICES ASSUME NEW i \in 1..Len(s) + 1, Updated(s, e)[i] = "join"
             PROVE  \E j \in 1..(i - 1) : Updated(s, e)[j] = Hook
  BY <1>1 DEF HookFirst
<1>2. i # 1
  BY <1>1, ClientsAssumption
<1>3. CASE e = Hook
  BY <1>1, <1>2, <1>3
<1>4. CASE HookFirst(s)
  <2>1. i - 1 \in DOMAIN s /\ s[i - 1] = "join"
    BY <1>1, <1>2
  <2>2. PICK j \in 1..(i - 2) : s[j] = Hook
    BY <1>4, <2>1 DEF HookFirst
  <2>3. j + 1 \in 1..(i - 1) /\ Updated(s, e)[j + 1] = Hook
    BY <1>1, <2>2
  <2> QED
    BY <2>3
<1> QED
  BY <1>3, <1>4

-----------------------------------------------------------------------------
(* The shape of the state.                                                 *)

LEMMA OrderIsList ==
    ASSUME NEW order \in SetToSeqs(Startup)
    PROVE  order \in Seq(Startup)
<1>1. IsFiniteSet(Startup)
  BY ClientsAssumption
<1>2. Cardinality(Startup) \in Nat
  BY <1>1, FS_CardinalityType
<1>3. order \in [1..Cardinality(Startup) -> Startup]
  BY DEF SetToSeqs
<1> QED
  BY <1>2, <1>3

\* TypeOK in two parts: the lists of callbacks with the stop, and the rest.
Lists == /\ stop_callback \in Seq(Callbacks) /\ armed \in Seq(Callbacks)
         /\ invoked \in Seq(Callbacks)
         /\ stop \in [on : {"none", "main loop", "thread"}, calls : Seq(Callbacks),
                      joining : SUBSET Clients]

Work ==
    /\ server \in {"none", "configured", "running", "stopped", "down"}
    /\ queue \in Seq(Startup \cup {"launcher"})
    /\ running \in Clients \cup {NoClient}
    /\ session \subseteq Clients
    /\ thread \in [Clients -> ThreadStates]
    /\ registered \subseteq Clients
    /\ launcher \in Launched \cup {NoClient}
    /\ launch \in [client : Launched \cup {NoClient}, next : {"none", "enqueue", "register"}]
    /\ launch.next # "none" => launch.client \in Launched
    /\ mutexes \subseteq {"runner", "registry", "window manager"}

LEMMA ShapeInitially == Init => Lists /\ Work
<1> SUFFICES ASSUME Init PROVE Lists /\ Work
  OBVIOUS
<1>1. <<"join">> \in Seq(Callbacks) /\ <<>> \in Seq(Callbacks)
  BY DEF Callbacks
<1>2. NoStop \in [on : {"none", "main loop", "thread"}, calls : Seq(Callbacks), joining : SUBSET Clients]
  BY <1>1 DEF NoStop
<1>3. /\ NoLaunch \in [client : Launched \cup {NoClient}, next : {"none", "enqueue", "register"}]
      /\ NoLaunch.next = "none"
  BY DEF NoLaunch
<1>4. Lists
  BY <1>1, <1>2 DEF Init, Lists
<1>5. Work
  <2>1. <<>> \in Seq(Startup \cup {"launcher"})
    OBVIOUS
  <2>2. thread \in [Clients -> ThreadStates]
    BY DEF Init, ThreadStates
  <2> QED
    BY <1>3, <2>1, <2>2 DEF Init, Work
<1> QED
  BY <1>4, <1>5

LEMMA ShapeIsTypeOK == Lists /\ Work => TypeOK
BY Zenon DEF TypeOK, Lists, Work, Callbacks

LEMMA ListsKept ==
    ASSUME Lists, Work, [Next]_vars
    PROVE  Lists'
<1>1. ASSUME NEW callback \in StopCallbacks, add_stop_callback(callback)
      PROVE  Lists'
  <2>1. callback \in Callbacks
    BY DEF Callbacks
  <2>2. stop_callback' \in Seq(Callbacks)
    BY <1>1, <2>1, UpdatedProperties DEF add_stop_callback, Lists
  <2> QED
    BY <1>1, <2>2 DEF add_stop_callback, Lists
<1>2. CASE configure
  BY <1>2 DEF configure, Lists
<1>3. CASE UNCHANGED <<stop_callback, armed, invoked, stop>>
  BY <1>3 DEF Lists
<1>4. CASE stop_by_signal
  BY <1>4 DEF stop_by_signal, Lists
<1>5. CASE stop_by_runner
  BY <1>5 DEF stop_by_runner, Lists
<1>6. CASE call_stop_callback
  <2>1. stop.calls \in Seq(Callbacks) /\ stop.calls # <<>>
    BY <1>6 DEF call_stop_callback, Lists
  <2>2. Head(stop.calls) \in Callbacks /\ Tail(stop.calls) \in Seq(Callbacks)
    BY <2>1, FirstOfList
  <2>3. invoked' \in Seq(Callbacks)
    BY <1>6, <2>2, LongerList DEF call_stop_callback, Lists
  <2> QED
    BY <1>6, <2>2, <2>3 DEF call_stop_callback, Lists
<1>7. CASE join_begin
  <2>1. stop.calls \in Seq(Callbacks) /\ stop.calls # <<>>
    BY <1>7 DEF join_begin, Lists
  <2>2. Tail(stop.calls) \in Seq(Callbacks)
    BY <2>1, FirstOfList
  <2>3. invoked' \in Seq(Callbacks)
    BY <1>7, LongerList DEF join_begin, Lists, Callbacks
  <2> QED
    BY <1>7, <2>2, <2>3 DEF join_begin, Lists, Work
<1>8. ASSUME NEW c \in Clients, join_client_thread(c)
      PROVE  Lists'
  BY <1>8 DEF join_client_thread, Lists
<1>9. CASE stop_end
  BY <1>9 DEF stop_end, Lists
<1>10. ASSUME NEW c \in Clients,
              connect_notification(c) \/ run_end(c) \/ end_client(c) \/ destroy_runner(c)
       PROVE  Lists'
  BY <1>3, <1>10 DEF connect_notification, run_end, end_client, destroy_runner
<1>11. ASSUME NEW c \in Launched, launch_begin(c)
       PROVE  Lists'
  BY <1>3, <1>11 DEF launch_begin
<1>12. CASE start \/ shutdown \/ run_begin \/ launch_enqueue \/ launch_register \/ ended \/ UNCHANGED vars
  BY <1>3, <1>12 DEF start, shutdown, run_begin, launch_enqueue, launch_register, ended, vars
<1> QED
  BY <1>1, <1>2, <1>4, <1>5, <1>6, <1>7, <1>8, <1>9, <1>10, <1>11, <1>12 DEF Next

LEMMA WorkKept ==
    ASSUME Lists, Work, [Next]_vars
    PROVE  Work'
<1>0. Launched \subseteq Clients /\ Startup \subseteq Clients
  BY DEF Clients
<1>1. ASSUME NEW callback \in StopCallbacks, add_stop_callback(callback)
      PROVE  Work'
  BY <1>1 DEF add_stop_callback, Work
<1>2. CASE configure
  BY <1>0, <1>2 DEF configure, Work, StartupRunners
<1>3. CASE start
  <2>1. PICK order \in SetToSeqs(Startup) : queue' = queue \o order
    BY <1>3 DEF start
  <2>2. order \in Seq(Startup \cup {"launcher"})
    BY OrderIsList, SeqMonotonic
  <2>3. queue' \in Seq(Startup \cup {"launcher"})
    BY <2>1, <2>2, ConcatProperties DEF Work
  <2> QED
    BY <1>3, <2>3 DEF start, Work
<1>4. CASE shutdown
  BY <1>4 DEF shutdown, Work
<1>5. CASE run_begin
  <2>1. queue \in Seq(Startup \cup {"launcher"}) /\ queue # <<>>
    BY <1>5 DEF run_begin, Work
  <2>2. Head(queue) \in Startup \cup {"launcher"} /\ Tail(queue) \in Seq(Startup \cup {"launcher"})
    BY <2>1, FirstOfList
  <2>3. running' \in Clients \cup {NoClient}
    BY <1>0, <1>5, <2>2 DEF run_begin, Work
  <2> QED
    BY <1>5, <2>2, <2>3 DEF run_begin, Work
<1>6. ASSUME NEW c \in Clients, connect_notification(c)
      PROVE  Work'
  BY <1>6 DEF connect_notification, Work
<1>7. ASSUME NEW c \in Clients, run_end(c) \/ end_client(c) \/ destroy_runner(c)
      PROVE  Work'
  BY <1>7 DEF run_end, end_client, destroy_runner, Work, ThreadStates
<1>8. ASSUME NEW c \in Launched, launch_begin(c)
      PROVE  Work'
  <2>1. thread' \in [Clients -> ThreadStates]
    BY <1>8 DEF launch_begin, Work, ThreadStates
  <2>2. mutexes' \subseteq {"runner", "registry", "window manager"}
    BY <1>8 DEF launch_begin, Work
  <2>3. launch' \in [client : Launched \cup {NoClient}, next : {"none", "enqueue", "register"}]
    BY <1>8 DEF launch_begin, Work
  <2> QED
    BY <1>8, <2>1, <2>2, <2>3 DEF launch_begin, Work
<1>9. CASE launch_enqueue
  <2>1. queue \in Seq(Startup \cup {"launcher"}) /\ queue' = Append(queue, "launcher")
    BY <1>9 DEF launch_enqueue, Work
  <2>2. queue' \in Seq(Startup \cup {"launcher"})
    BY <2>1, LongerList
  <2>3. /\ launch' \in [client : Launched \cup {NoClient}, next : {"none", "enqueue", "register"}]
        /\ launch'.client \in Launched
    BY <1>9 DEF launch_enqueue, Work
  <2> QED
    BY <1>9, <2>2, <2>3 DEF launch_enqueue, Work
<1>10. CASE launch_register
  <2>1. launch.client \in Clients
    BY <1>10, <1>0 DEF launch_register, Work
  <2> QED
    BY <1>10, <2>1 DEF launch_register, Work, NoLaunch
<1>11. CASE stop_by_signal
  BY <1>11 DEF stop_by_signal, Work
<1>12. CASE stop_by_runner
  BY <1>12 DEF stop_by_runner, Work
<1>13. CASE call_stop_callback
  BY <1>13 DEF call_stop_callback, Work
<1>14. CASE join_begin
  BY <1>14 DEF join_begin, Work
<1>15. ASSUME NEW c \in Clients, join_client_thread(c)
       PROVE  Work'
  BY <1>15 DEF join_client_thread, Work, ThreadStates
<1>16. CASE stop_end
  BY <1>16 DEF stop_end, Work
<1>17. CASE ended \/ UNCHANGED vars
  BY <1>17 DEF ended, vars, Work
<1> QED
  BY <1>1, <1>2, <1>3, <1>4, <1>5, <1>6, <1>7, <1>8, <1>9, <1>10, <1>11, <1>12, <1>13,
     <1>14, <1>15, <1>16, <1>17 DEF Next

\* The state keeps its shape, with any number of clients and callbacks.
THEOREM ClientsTypeOK == Spec => []TypeOK
<1>1. Lists /\ Work /\ [Next]_vars => (Lists /\ Work)'
  BY ListsKept, WorkKept
<1> QED
  BY <1>1, ShapeInitially, ShapeIsTypeOK, PTL DEF Spec

-----------------------------------------------------------------------------
(* The order of the stop callbacks.                                        *)

\* The hook is called before the join whatever else has been added: a shell
\* cannot run without its hook, the server's copy is taken then, and stop()
\* works through that copy in order.
HookInv ==
    /\ Hook \in Range(stop_callback) => HookFirst(stop_callback)
    /\ HookFirst(armed)
    /\ Hook \in Range(invoked) \/ HookFirst(stop.calls)
    /\ ToldBeforeJoined

LEMMA HookInvInitially == Init => HookInv
<1> SUFFICES ASSUME Init PROVE HookInv
  OBVIOUS
<1>1. Hook \notin Range(stop_callback)
  <2>1. \A i \in DOMAIN stop_callback : stop_callback[i] = "join"
    BY DEF Init
  <2> QED
    BY <2>1, HookIsNotJoin DEF Range
<1>2. HookFirst(armed) /\ HookFirst(stop.calls)
  BY DEF Init, NoStop, HookFirst
<1>3. stop.joining = {}
  BY DEF Init, NoStop
<1> QED
  BY <1>1, <1>2, <1>3 DEF HookInv, ToldBeforeJoined

LEMMA HookInvKept ==
    ASSUME Lists, HookInv, [Next]_vars
    PROVE  HookInv'
<1>1. ASSUME NEW callback \in StopCallbacks, add_stop_callback(callback)
      PROVE  HookInv'
  <2>1. Hook \in Range(stop_callback') => callback = Hook \/ Hook \in Range(stop_callback)
    <3>1. callback \in Callbacks
      BY DEF Callbacks
    <3>2. Range(Updated(stop_callback, callback)) = Range(stop_callback) \cup {callback}
      <4>1. stop_callback \in Seq(Callbacks)
        BY DEF Lists
      <4> QED
        BY <3>1, <4>1, UpdatedProperties
    <3> QED
      BY <1>1, <3>2 DEF add_stop_callback
  <2>2. Hook \in Range(stop_callback') => HookFirst(stop_callback')
    <3> SUFFICES ASSUME callback = Hook \/ HookFirst(stop_callback)
                 PROVE  HookFirst(Updated(stop_callback, callback))
      BY <1>1, <2>1 DEF HookInv, add_stop_callback
    <3> QED
      BY HookFirstUpdated DEF Lists
  <2>3. UNCHANGED <<armed, invoked, stop>>
    BY <1>1 DEF add_stop_callback
  <2> QED
    BY <2>2, <2>3 DEF HookInv, HookFirst, Range, ToldBeforeJoined
<1>2. CASE configure
  BY <1>2 DEF configure, HookInv, ToldBeforeJoined
<1>3. CASE UNCHANGED <<stop_callback, armed, invoked, stop>>
  BY <1>3 DEF HookInv, HookFirst, Range, ToldBeforeJoined
<1>4. CASE stop_by_signal \/ stop_by_runner
  <2>1. stop'.calls = armed /\ stop'.joining = {}
    <3>1. CASE stop_by_signal
      BY <3>1 DEF stop_by_signal
    <3>2. CASE stop_by_runner
      BY <3>2 DEF stop_by_runner
    <3> QED
      BY <1>4, <3>1, <3>2
  <2>2. UNCHANGED <<stop_callback, armed, invoked>>
    BY <1>4 DEF stop_by_signal, stop_by_runner
  <2> QED
    BY <2>1, <2>2 DEF HookInv, HookFirst, Range, ToldBeforeJoined
<1>5. CASE call_stop_callback
  <2>1. stop.calls \in Seq(Callbacks) /\ stop.calls # <<>>
    BY <1>5 DEF call_stop_callback, Lists
  <2>2. invoked' = Append(invoked, Head(stop.calls)) /\ Head(stop.calls) \in Callbacks
    BY <1>5, <2>1, FirstOfList DEF call_stop_callback
  <2>3. Range(invoked') = Range(invoked) \cup {Head(stop.calls)}
    <3>1. invoked \in Seq(Callbacks)
      BY DEF Lists
    <3> QED
      BY <2>2, <3>1, LongerList
  <2>4. stop'.calls = Tail(stop.calls) /\ stop'.joining = {}
    BY <1>5 DEF call_stop_callback, Lists
  <2>5. Hook \in Range(invoked') \/ HookFirst(stop'.calls)
    BY <2>1, <2>3, <2>4, HookFirstInTail DEF HookInv
  <2>6. UNCHANGED <<stop_callback, armed>>
    BY <1>5 DEF call_stop_callback
  <2> QED
    BY <2>4, <2>5, <2>6 DEF HookInv, HookFirst, Range, ToldBeforeJoined
<1>6. CASE join_begin
  <2>1. stop.calls \in Seq(Callbacks) /\ stop.calls # <<>> /\ Head(stop.calls) = "join"
    BY <1>6 DEF join_begin, Lists
  <2>2. Hook \in Range(invoked)
    BY <2>1, HookFirstInTail, HookIsNotJoin DEF HookInv
  <2>3. Range(invoked') = Range(invoked) \cup {"join"}
    <3>1. invoked \in Seq(Callbacks) /\ "join" \in Callbacks /\ invoked' = Append(invoked, "join")
      BY <1>6 DEF join_begin, Lists, Callbacks
    <3> QED
      BY <3>1, LongerList
  <2>4. UNCHANGED <<stop_callback, armed>>
    BY <1>6 DEF join_begin
  <2> QED
    BY <2>2, <2>3, <2>4 DEF HookInv, HookFirst, Range, ToldBeforeJoined
<1>7. ASSUME NEW c \in Clients, join_client_thread(c)
      PROVE  HookInv'
  <2>1. stop'.calls = stop.calls /\ stop'.joining \subseteq stop.joining
    BY <1>7 DEF join_client_thread, Lists
  <2>2. UNCHANGED <<stop_callback, armed, invoked>>
    BY <1>7 DEF join_client_thread
  <2> QED
    BY <2>1, <2>2 DEF HookInv, HookFirst, Range, ToldBeforeJoined
<1>8. CASE stop_end
  <2>1. stop'.calls = stop.calls /\ stop'.joining = {}
    BY <1>8 DEF stop_end, Lists
  <2>2. UNCHANGED <<stop_callback, armed, invoked>>
    BY <1>8 DEF stop_end
  <2> QED
    BY <2>1, <2>2 DEF HookInv, HookFirst, Range, ToldBeforeJoined
<1>9. ASSUME NEW c \in Clients,
             connect_notification(c) \/ run_end(c) \/ end_client(c) \/ destroy_runner(c)
      PROVE  HookInv'
  BY <1>3, <1>9 DEF connect_notification, run_end, end_client, destroy_runner
<1>10. ASSUME NEW c \in Launched, launch_begin(c)
       PROVE  HookInv'
  BY <1>3, <1>10 DEF launch_begin
<1>11. CASE start \/ shutdown \/ run_begin \/ launch_enqueue \/ launch_register \/ ended \/ UNCHANGED vars
  BY <1>3, <1>11 DEF start, shutdown, run_begin, launch_enqueue, launch_register, ended, vars
<1> QED
  BY <1>1, <1>2, <1>4, <1>5, <1>6, <1>7, <1>8, <1>9, <1>10, <1>11 DEF Next

\* Nobody waits for a client before the shell's hook has told the clients to
\* end, for any callbacks added in any order, before and after the hook.
THEOREM ClientsToldBeforeJoined == Spec => []ToldBeforeJoined
<1>1. Lists /\ Work /\ HookInv /\ [Next]_vars => (Lists /\ Work /\ HookInv)'
  BY ListsKept, WorkKept, HookInvKept
<1>2. HookInv => ToldBeforeJoined
  BY DEF HookInv
<1> QED
  BY <1>1, <1>2, ShapeInitially, HookInvInitially, PTL DEF Spec

-----------------------------------------------------------------------------
(* Stopping by a signal.                                                   *)

\* Where a stop is, and that it comes to the join.
CallsInv ==
    /\ "join" \in Range(stop_callback)
    /\ server # "none" => "join" \in Range(armed)
    /\ stop.on = "none" => stop.calls = <<>> /\ invoked = <<>>
    /\ stop.on # "none" => "join" \in Range(stop.calls) \cup Range(invoked)
    /\ stop.calls # <<>> => server = "running"
    /\ server \in {"stopped", "down"} => stop.on # "none" /\ stop.calls = <<>> /\ stop.joining = {}

\* From a signal on, the main loop starts no client any more; after the join
\* a startup client has no thread unless it is still to be joined.
RunsInv ==
    /\ server \in {"configured", "running"} => Startup \subseteq registered
    /\ stop.on = "main loop" => running = NoClient
    /\ stop.on = "main loop" /\ "join" \in Range(invoked) =>
        \A c \in Startup : c \in stop.joining \/ thread[c] # "running"

LEMMA CallsAndRunsInitially == Init => CallsInv /\ RunsInv
<1> SUFFICES ASSUME Init PROVE CallsInv /\ RunsInv
  OBVIOUS
<1>1. "join" \in Range(stop_callback)
  <2>1. 1 \in DOMAIN stop_callback /\ stop_callback[1] = "join"
    BY DEF Init
  <2> QED
    BY <2>1 DEF Range
<1>2. stop.on = "none" /\ stop.calls = <<>> /\ invoked = <<>>
  BY DEF Init, NoStop
<1> QED
  BY <1>1, <1>2 DEF Init, CallsInv, RunsInv

\* The calls that are left, with one made.
LEMMA OneCallMade ==
    ASSUME Lists, stop.calls # <<>>
    PROVE  /\ Range(stop.calls) = {Head(stop.calls)} \cup Range(Tail(stop.calls))
           /\ Range(Append(invoked, Head(stop.calls))) = Range(invoked) \cup {Head(stop.calls)}
<1>1. stop.calls \in Seq(Callbacks) /\ invoked \in Seq(Callbacks)
  BY DEF Lists
<1>2. Head(stop.calls) \in Callbacks
  BY <1>1, FirstOfList
<1> QED
  BY <1>1, <1>2, FirstOfList, LongerList

LEMMA CallsInvKept ==
    ASSUME Lists, CallsInv, [Next]_vars
    PROVE  CallsInv'
<1>1. ASSUME NEW callback \in StopCallbacks, add_stop_callback(callback)
      PROVE  CallsInv'
  <2>1. "join" \in Range(stop_callback')
    <3>1. callback \in Callbacks /\ stop_callback \in Seq(Callbacks)
      BY DEF Callbacks, Lists
    <3>2. Range(Updated(stop_callback, callback)) = Range(stop_callback) \cup {callback}
      BY <3>1, UpdatedProperties
    <3> QED
      BY <1>1, <3>2 DEF add_stop_callback, CallsInv
  <2> QED
    BY <1>1, <2>1 DEF add_stop_callback, CallsInv, Range
<1>2. CASE configure
  BY <1>2 DEF configure, CallsInv, Range
<1>3. CASE UNCHANGED <<server, stop_callback, armed, invoked, stop>>
  BY <1>3 DEF CallsInv, Range
<1>4. CASE start \/ shutdown
  BY <1>4 DEF start, shutdown, CallsInv, Range
<1>5. CASE stop_by_signal \/ stop_by_runner
  <2>1. stop'.calls = armed /\ stop'.joining = {} /\ stop'.on # "none"
    <3>1. CASE stop_by_signal
      BY <3>1 DEF stop_by_signal
    <3>2. CASE stop_by_runner
      BY <3>2 DEF stop_by_runner
    <3> QED
      BY <1>5, <3>1, <3>2
  <2>2. server = "running" /\ UNCHANGED <<server, stop_callback, armed, invoked>>
    BY <1>5 DEF stop_by_signal, stop_by_runner
  <2> QED
    BY <2>1, <2>2 DEF CallsInv, Range
<1>6. CASE call_stop_callback \/ join_begin
  <2>1. /\ stop.calls # <<>>
        /\ invoked' = Append(invoked, Head(stop.calls))
        /\ stop'.calls = Tail(stop.calls) /\ stop'.on = stop.on
        /\ UNCHANGED <<server, stop_callback, armed>>
    BY <1>6 DEF call_stop_callback, join_begin, Lists
  <2>2. server = "running" /\ stop.on # "none"
    BY <2>1 DEF CallsInv
  <2>3. "join" \in Range(stop'.calls) \cup Range(invoked')
    BY <2>1, <2>2, OneCallMade DEF CallsInv
  <2> QED
    BY <2>1, <2>2, <2>3 DEF CallsInv, Range
<1>7. ASSUME NEW c \in Clients, join_client_thread(c)
      PROVE  CallsInv'
  <2>1. stop'.calls = stop.calls /\ stop'.on = stop.on /\ stop'.joining \subseteq stop.joining
    BY <1>7 DEF join_client_thread, Lists
  <2>2. UNCHANGED <<server, stop_callback, armed, invoked>>
    BY <1>7 DEF join_client_thread
  <2> QED
    BY <2>1, <2>2 DEF CallsInv, Range
<1>8. CASE stop_end
  <2>1. /\ stop'.calls = stop.calls /\ stop'.on = stop.on /\ stop'.joining = {}
        /\ stop.calls = <<>> /\ stop.on # "none" /\ server = "running" /\ server' = "stopped"
    BY <1>8 DEF stop_end, Lists
  <2>2. UNCHANGED <<stop_callback, armed, invoked>>
    BY <1>8 DEF stop_end
  <2> QED
    BY <2>1, <2>2 DEF CallsInv, Range
<1>9. ASSUME NEW c \in Clients,
             connect_notification(c) \/ run_end(c) \/ end_client(c) \/ destroy_runner(c)
      PROVE  CallsInv'
  BY <1>3, <1>9 DEF connect_notification, run_end, end_client, destroy_runner
<1>10. ASSUME NEW c \in Launched, launch_begin(c)
       PROVE  CallsInv'
  BY <1>3, <1>10 DEF launch_begin
<1>11. CASE run_begin \/ launch_enqueue \/ launch_register \/ ended \/ UNCHANGED vars
  BY <1>3, <1>11 DEF run_begin, launch_enqueue, launch_register, ended, vars
<1> QED
  BY <1>1, <1>2, <1>4, <1>5, <1>6, <1>7, <1>8, <1>9, <1>10, <1>11 DEF Next

LEMMA RunsInvKept ==
    ASSUME Lists, Work, CallsInv, RunsInv, [Next]_vars
    PROVE  RunsInv'
<1>0. Startup \subseteq Clients /\ Launched \subseteq Clients /\ NoClient \notin Clients
  BY HookIsNotJoin DEF Clients
<1>1. CASE configure
  BY <1>1 DEF configure, RunsInv, StartupRunners, Range
<1>2. CASE start \/ shutdown
  BY <1>2 DEF start, shutdown, RunsInv, Range
<1>3. CASE run_begin
  BY <1>3 DEF run_begin, main_loop_free, RunsInv, Range
<1>4. ASSUME NEW c \in Clients, run_end(c)
      PROVE  RunsInv'
  <2>1. stop.on # "main loop"
    BY <1>0, <1>4 DEF run_end, RunsInv
  <2> QED
    BY <1>4, <2>1 DEF run_end, RunsInv, Range
<1>5. ASSUME NEW c \in Clients, end_client(c) \/ destroy_runner(c)
      PROVE  RunsInv'
  <2>1. \A s \in Startup : thread[s] # "running" => thread'[s] # "running"
    BY <1>0, <1>5 DEF end_client, destroy_runner, Work
  <2>2. UNCHANGED <<server, registered, stop, running, invoked>>
    BY <1>5 DEF end_client, destroy_runner
  <2> QED
    BY <2>1, <2>2 DEF RunsInv, Range
<1>6. ASSUME NEW c \in Launched, launch_begin(c)
      PROVE  RunsInv'
  <2>1. \A s \in Startup : thread[s] # "running" => thread'[s] # "running"
    <3>1. thread' = thread \/ thread' = [thread EXCEPT ![launcher] = "joined"]
      BY <1>6 DEF launch_begin
    <3> QED
      BY <1>0, <3>1 DEF Work
  <2>2. UNCHANGED <<server, registered, stop, running, invoked>>
    BY <1>6 DEF launch_begin
  <2> QED
    BY <2>1, <2>2 DEF RunsInv, Range
<1>7. CASE launch_register
  BY <1>7 DEF launch_register, RunsInv, Range
<1>8. CASE stop_by_signal
  <2>1. Range(invoked) = {} /\ running = NoClient
    <3>1. stop.on = "none" /\ running = NoClient
      BY <1>8 DEF stop_by_signal, main_loop_free, NoStop
    <3>2. invoked = <<>>
      BY <3>1 DEF CallsInv
    <3> QED
      BY <3>1, <3>2, NothingInEmptyList
  <2>2. UNCHANGED <<server, registered, running, invoked, thread>>
    BY <1>8 DEF stop_by_signal
  <2> QED
    BY <2>1, <2>2 DEF RunsInv, Range
<1>9. CASE stop_by_runner
  <2>1. stop'.on = "thread" /\ UNCHANGED <<server, registered>>
    BY <1>9 DEF stop_by_runner
  <2> QED
    BY <2>1 DEF RunsInv
<1>10. CASE call_stop_callback
  <2>1. /\ stop.calls # <<>> /\ Head(stop.calls) # "join"
        /\ invoked' = Append(invoked, Head(stop.calls))
        /\ stop'.on = stop.on /\ stop'.joining = stop.joining
        /\ UNCHANGED <<server, registered, running, thread>>
    BY <1>10 DEF call_stop_callback, Lists
  <2>2. "join" \in Range(invoked') => "join" \in Range(invoked)
    BY <2>1, OneCallMade
  <2> QED
    BY <2>1, <2>2 DEF RunsInv, Range
<1>11. CASE join_begin
  <2>1. stop'.on = stop.on /\ stop'.joining = registered
    BY <1>11 DEF join_begin, Lists
  <2>2. server = "running" /\ UNCHANGED <<server, registered, running, thread>>
    BY <1>11 DEF join_begin, CallsInv
  <2> QED
    BY <2>1, <2>2 DEF RunsInv
<1>12. ASSUME NEW c \in Clients, join_client_thread(c)
       PROVE  RunsInv'
  <2>1. stop'.on = stop.on /\ stop'.joining = stop.joining \ {c} /\ thread[c] # "running"
    BY <1>12 DEF join_client_thread, Lists
  <2>2. \A s \in Startup : thread[s] # "running" => thread'[s] # "running"
    BY <1>0, <1>12 DEF join_client_thread, Work
  <2>3. UNCHANGED <<server, registered, running, invoked>>
    BY <1>12 DEF join_client_thread
  <2> QED
    BY <2>1, <2>2, <2>3 DEF RunsInv, Range
<1>13. CASE stop_end
  <2>1. stop'.on = stop.on /\ stop'.joining = stop.joining
    BY <1>13 DEF stop_end, Lists
  <2>2. server' = "stopped" /\ UNCHANGED <<running, invoked, thread>>
    BY <1>13 DEF stop_end
  <2> QED
    BY <2>1, <2>2 DEF RunsInv, Range
<1>14. CASE UNCHANGED <<server, registered, running, invoked, stop, thread>>
  BY <1>14 DEF RunsInv, Range
<1>15. ASSUME NEW callback, add_stop_callback(callback)
       PROVE  RunsInv'
  BY <1>14, <1>15 DEF add_stop_callback
<1>16. ASSUME NEW c, connect_notification(c)
       PROVE  RunsInv'
  BY <1>14, <1>16 DEF connect_notification
<1>17. CASE launch_enqueue \/ ended \/ UNCHANGED vars
  BY <1>14, <1>17 DEF launch_enqueue, ended, vars
<1> QED
  BY <1>1, <1>2, <1>3, <1>4, <1>5, <1>6, <1>7, <1>8, <1>9, <1>10, <1>11, <1>12, <1>13,
     <1>15, <1>16, <1>17 DEF Next

\* A server that a signal has stopped leaves no startup client running, for
\* any number of clients and whatever the launcher does meanwhile.
THEOREM StartupJoinedBySignal == Spec => []JoinedBySignal
<1>1. Lists /\ Work /\ CallsInv /\ RunsInv /\ [Next]_vars
      => (Lists /\ Work /\ CallsInv /\ RunsInv)'
  BY ListsKept, WorkKept, CallsInvKept, RunsInvKept
<1>2. CallsInv /\ RunsInv => JoinedBySignal
  <2> SUFFICES ASSUME CallsInv, RunsInv, server = "down", stop.on = "main loop"
               PROVE  \A c \in Startup : thread[c] # "running"
    BY DEF JoinedBySignal
  <2>1. stop.calls = <<>> /\ stop.joining = {} /\ "join" \in Range(stop.calls) \cup Range(invoked)
    BY DEF CallsInv
  <2>2. "join" \in Range(invoked)
    BY <2>1, NothingInEmptyList
  <2> QED
    BY <2>1, <2>2 DEF RunsInv
<1> QED
  BY <1>1, <1>2, ShapeInitially, CallsAndRunsInitially, PTL DEF Spec
=============================================================================
