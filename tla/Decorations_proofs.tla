-------------------------- MODULE Decorations_proofs --------------------------
(***************************************************************************)
(* What the interleavings of the window manager, the worker and the        *)
(* client library cannot do to a titlebar, for any number of windows and   *)
(* any queue: have it released twice, have the server look for a window    *)
(* the provider has not named, or have an answer miss its Data.            *)
(***************************************************************************)
EXTENDS Decorations, TLAPS, SequenceTheorems, FiniteSetTheorems

WindowWork == [do : {"create", "paint", "release", "erase"}, w : Windows, intensity : Intensities]
StopItems  == [do : {"clear", "disconnect", "done"}, w : {NoWindow}, intensity : Intensities]
WorkItems  == WindowWork \cup StopItems
CallItems  == [op : {"paint", "repaint", "destroy"}, w : Windows,
               intensity : Intensities, surface : {"unread", "set", "null"}]
DataItems  == [titlebar : BOOLEAN, on_create : {"nothing", "paint", "erase"},
               intensity : Intensities, window : BOOLEAN]

\* The work stop() has yet to enqueue, at each of its steps.
StopSteps == {<<"clear", "disconnect", "done">>, <<"disconnect", "done">>, <<"done">>, <<>>}

\* The shape of the state, as far as the steps below need it.
Shape ==
    /\ window \in [Windows -> {"unborn", "open", "gone"}]
    /\ active \in Windows \cup {NoWindow}
    /\ calls \in Seq(CallItems)
    /\ DOMAIN data \subseteq Windows
    /\ \A w \in DOMAIN data : data[w] \in DataItems
    /\ work_queue \in Seq(WorkItems)
    /\ request \in [Windows -> RequestStates]
    /\ released \subseteq Windows
    /\ stopping \in StopSteps

-----------------------------------------------------------------------------
(* The queue.                                                              *)

Queued(queue, do, w) == \E i \in DOMAIN queue : queue[i].do = do /\ queue[i].w = w

\* A titlebar is created once, and its release is queued once.
Once(queue) ==
    \A i, j \in DOMAIN queue :
        queue[i].do \in {"create", "release"} /\ queue[j].do = queue[i].do
        /\ queue[j].w = queue[i].w => i = j

LEMMA QueueShorter ==
    ASSUME NEW S, NEW q \in Seq(S), q # <<>>
    PROVE  /\ Head(q) \in S /\ Tail(q) \in Seq(S)
           /\ \A do, w : Queued(Tail(q), do, w) => Queued(q, do, w)
           /\ Once(q) => Once(Tail(q))
           /\ Once(q) /\ Head(q).do \in {"create", "release"}
              => ~Queued(Tail(q), Head(q).do, Head(q).w)
<1>1. /\ Head(q) \in S /\ Tail(q) \in Seq(S) /\ Len(Tail(q)) = Len(q) - 1
      /\ \A i \in 1..Len(Tail(q)) : Tail(q)[i] = q[i + 1]
  BY HeadTailProperties
<1>2. DOMAIN q = 1..Len(q) /\ DOMAIN Tail(q) = 1..Len(q) - 1 /\ Len(q) \in Nat \ {0}
  BY <1>1, LenProperties, EmptySeq
<1>3. Head(q) = q[1] /\ 1 \in DOMAIN q
  BY <1>2
<1>4. \A i \in DOMAIN Tail(q) : i + 1 \in DOMAIN q /\ i + 1 # 1 /\ Tail(q)[i] = q[i + 1]
  BY <1>1, <1>2
<1>5. \A i, j \in DOMAIN Tail(q) : i + 1 = j + 1 => i = j
  BY <1>2
<1>6. \A do, w : Queued(Tail(q), do, w) => Queued(q, do, w)
  BY <1>4 DEF Queued
<1>7. Once(q) => Once(Tail(q))
  BY <1>4, <1>5 DEF Once
<1>8. ASSUME Once(q), Head(q).do \in {"create", "release"}
      PROVE  ~Queued(Tail(q), Head(q).do, Head(q).w)
  BY <1>3, <1>4, <1>8 DEF Once, Queued
<1> QED
  BY <1>1, <1>6, <1>7, <1>8

LEMMA QueueLonger ==
    ASSUME NEW S, NEW q \in Seq(S), NEW e \in S
    PROVE  /\ Append(q, e) \in Seq(S)
           /\ \A do, w : Queued(Append(q, e), do, w) <=> Queued(q, do, w) \/ (e.do = do /\ e.w = w)
           /\ Once(q) /\ (e.do \in {"create", "release"} => ~Queued(q, e.do, e.w))
              => Once(Append(q, e))
<1> DEFINE long == Append(q, e)
           last == Len(q) + 1
<1>1. /\ long \in Seq(S) /\ Len(q) \in Nat
      /\ DOMAIN q = 1..Len(q) /\ DOMAIN long = 1..last
      /\ \A i \in 1..Len(q) : long[i] = q[i]
      /\ long[last] = e
  OBVIOUS
<1>2. DOMAIN long = DOMAIN q \cup {last}
  BY <1>1
<1> HIDE DEF long, last
<1>3. \A do, w : Queued(long, do, w) <=> Queued(q, do, w) \/ (e.do = do /\ e.w = w)
  BY <1>1, <1>2 DEF Queued
<1>4. ASSUME Once(q), e.do \in {"create", "release"} => ~Queued(q, e.do, e.w)
      PROVE  Once(long)
  BY <1>1, <1>2, <1>4 DEF Once, Queued
<1> QED
  BY <1>1, <1>3, <1>4 DEF long

\* What an item that is neither a creation nor a release adds.
LEMMA OtherWork ==
    ASSUME NEW q \in Seq(WorkItems), NEW e \in WorkItems, e.do \notin {"create", "release"}
    PROVE  /\ Append(q, e) \in Seq(WorkItems)
           /\ \A w : Queued(Append(q, e), "create", w) <=> Queued(q, "create", w)
           /\ \A w : Queued(Append(q, e), "release", w) <=> Queued(q, "release", w)
           /\ Once(q) => Once(Append(q, e))
BY QueueLonger

\* Only the first item leaves.
LEMMA QueueRest ==
    ASSUME NEW S, NEW q \in Seq(S), q # <<>>, NEW do, NEW w, Head(q).do # do, Queued(q, do, w)
    PROVE  Queued(Tail(q), do, w)
<1>1. /\ Tail(q) \in Seq(S) /\ Len(Tail(q)) = Len(q) - 1
      /\ \A i \in 1..Len(Tail(q)) : Tail(q)[i] = q[i + 1]
  BY HeadTailProperties
<1>2. DOMAIN q = 1..Len(q) /\ DOMAIN Tail(q) = 1..Len(q) - 1 /\ Len(q) \in Nat \ {0}
  BY <1>1, LenProperties, EmptySeq
<1>3. Head(q) = q[1]
  OBVIOUS
<1>4. PICK i \in DOMAIN q : q[i].do = do /\ q[i].w = w
  BY DEF Queued
<1>5. i # 1
  BY <1>3, <1>4
<1>6. i - 1 \in DOMAIN Tail(q) /\ Tail(q)[i - 1] = q[i]
  BY <1>1, <1>2, <1>5
<1> QED
  BY <1>4, <1>6 DEF Queued

-----------------------------------------------------------------------------
(* The shape.                                                              *)

LEMMA FocusCallsShape ==
    ASSUME NEW from \in Windows \cup {NoWindow}, NEW to \in Windows \cup {NoWindow}
    PROVE  FocusCalls(from, to) \in Seq(CallItems)
<1>1. ASSUME NEW w \in Windows, NEW i \in Intensities
      PROVE  <<Call("paint", w, i)>> \in Seq(CallItems)
  BY DEF Call, CallItems
<1>2. <<>> \in Seq(CallItems)
  OBVIOUS
<1>3. (IF from = NoWindow THEN <<>> ELSE <<Call("paint", from, "dim")>>) \in Seq(CallItems)
  BY <1>1, <1>2 DEF Intensities
<1>4. (IF to = NoWindow THEN <<>> ELSE <<Call("paint", to, "bright")>>) \in Seq(CallItems)
  BY <1>1, <1>2 DEF Intensities
<1> QED
  BY <1>3, <1>4, ConcatProperties DEF FocusCalls

LEMMA WorkShape ==
    ASSUME NEW w \in Windows, NEW i \in Intensities
    PROVE  /\ Work("create", w, i) \in WorkItems /\ Work("paint", w, i) \in WorkItems
           /\ Work("release", w, i) \in WorkItems /\ Work("erase", w, i) \in WorkItems
           /\ Work("clear", NoWindow, i) \in WorkItems /\ Work("disconnect", NoWindow, i) \in WorkItems
           /\ Work("done", NoWindow, i) \in WorkItems
BY DEF Work, WorkItems, WindowWork, StopItems

\* The rest of a call changes neither the titlebar nor the window's name, and
\* queues no creation and no release.
LEMMA RemainderShape ==
    ASSUME NEW d \in DataItems, NEW q \in Seq(WorkItems), NEW call \in CallItems
    PROVE  LET after == Remainder(d, q, call) IN
           /\ after[1] \in DataItems /\ after[1].titlebar = d.titlebar
           /\ \/ after[2] = q
              \/ \E do \in {"paint", "erase"}, i \in Intensities :
                    /\ after[2] = Append(q, Work(do, call.w, i))
                    /\ do = "erase" => d.titlebar
<1>1. CASE call.op = "destroy" /\ d.titlebar
  BY <1>1 DEF Remainder, Intensities
<1>2. CASE call.op = "destroy" /\ ~d.titlebar
  BY <1>2 DEF Remainder, DataItems
<1>3. CASE call.op # "destroy" /\ call.surface = "set"
  BY <1>3 DEF Remainder, DataItems
<1>4. CASE call.op # "destroy" /\ call.surface # "set"
  BY <1>4 DEF Remainder, DataItems
<1> QED
  BY <1>1, <1>2, <1>3, <1>4

LEMMA FirstLookShape ==
    ASSUME NEW d \in DataItems, NEW call \in CallItems
    PROVE  /\ FirstLook(d, call) \in DataItems
           /\ FirstLook(d, call).titlebar = (IF call.op = "destroy" THEN FALSE ELSE d.titlebar)
BY DEF FirstLook, DataItems, CallItems

LEMMA FirstCall ==
    ASSUME Shape, calls # <<>>
    PROVE  /\ Head(calls) \in CallItems /\ Tail(calls) \in Seq(CallItems)
           /\ Head(calls).w \in Windows /\ Head(calls).intensity \in Intensities
<1>1. calls \in Seq(CallItems)
  BY DEF Shape
<1>2. Head(calls) \in CallItems /\ Tail(calls) \in Seq(CallItems)
  BY <1>1, HeadTailProperties
<1> QED
  BY <1>2 DEF CallItems

LEMMA FirstWork ==
    ASSUME Shape, work_queue # <<>>
    PROVE  /\ Head(work_queue) \in WorkItems /\ Tail(work_queue) \in Seq(WorkItems)
           /\ Head(work_queue).do \in {"create", "paint", "release", "erase"}
              => Head(work_queue).w \in Windows
<1>1. work_queue \in Seq(WorkItems)
  BY DEF Shape
<1>2. Head(work_queue) \in WorkItems /\ Tail(work_queue) \in Seq(WorkItems)
  BY <1>1, HeadTailProperties
<1> QED
  BY <1>2 DEF WorkItems, WindowWork, StopItems

LEMMA StopStep ==
    ASSUME NEW s \in StopSteps, s # <<>>
    PROVE  /\ Head(s) \in {"clear", "disconnect", "done"} /\ Tail(s) \in StopSteps
           /\ Head(s) # "done" => Tail(s) # <<>>
<1>1. CASE s = <<"clear", "disconnect", "done">>
  <2>1. Head(s) = "clear" /\ Tail(s) = <<"disconnect", "done">>
    BY <1>1
  <2> QED
    BY <2>1 DEF StopSteps
<1>2. CASE s = <<"disconnect", "done">>
  <2>1. Head(s) = "disconnect" /\ Tail(s) = <<"done">>
    BY <1>2
  <2> QED
    BY <2>1 DEF StopSteps
<1>3. CASE s = <<"done">>
  <2>1. Head(s) = "done" /\ Tail(s) = <<>>
    BY <1>3
  <2> QED
    BY <2>1 DEF StopSteps
<1> QED
  BY <1>1, <1>2, <1>3 DEF StopSteps

LEMMA ShapeInitially == Init => Shape
BY DEF Init, Shape, RequestStates, StopSteps

LEMMA ShapeKept ==
    ASSUME Shape, [Next]_vars
    PROVE  Shape'
<1>1. ASSUME NEW w \in Windows, open_window(w)
      PROVE  Shape'
  <2>1. work_queue' \in Seq(WorkItems)
    <3>1. work_queue \in Seq(WorkItems) /\ work_queue' = Append(work_queue, Work("create", w, "dim"))
      BY <1>1 DEF open_window, Shape
    <3>2. Work("create", w, "dim") \in WorkItems
      BY WorkShape DEF Intensities
    <3> QED
      BY <3>1, <3>2, QueueLonger
  <2>2. calls' \in Seq(CallItems)
    BY <1>1, FocusCallsShape DEF open_window, Shape
  <2> QED
    BY <1>1, <2>1, <2>2 DEF open_window, Shape
<1>2. ASSUME NEW w \in Windows, change_focus(w)
      PROVE  Shape'
  <2>1. calls' \in Seq(CallItems)
    BY <1>2, FocusCallsShape DEF change_focus, Shape
  <2> QED
    BY <1>2, <2>1 DEF change_focus, Shape
<1>3. ASSUME NEW w \in Windows, change_window(w)
      PROVE  Shape'
  <2>1. <<Call("repaint", w, "dim")>> \in Seq(CallItems)
    BY DEF Call, CallItems, Intensities
  <2> QED
    BY <1>3, <2>1 DEF change_window, Shape
<1>4. ASSUME NEW w \in Windows, close_window(w)
      PROVE  Shape'
  <2>1. PICK next \in Windows \cup {NoWindow} :
            /\ active' = next
            /\ calls' = <<Call("destroy", w, "dim")>> \o
                        (IF next = active THEN <<>> ELSE FocusCalls(NoWindow, next))
    <3>1. active \in Windows \cup {NoWindow}
      BY DEF Shape
    <3> QED
      BY <1>4, <3>1 DEF close_window
  <2>2. <<Call("destroy", w, "dim")>> \in Seq(CallItems) /\ <<>> \in Seq(CallItems)
    BY DEF Call, CallItems, Intensities
  <2>3. FocusCalls(NoWindow, next) \in Seq(CallItems)
    BY FocusCallsShape
  <2>4. calls' \in Seq(CallItems)
    BY <2>1, <2>2, <2>3, ConcatProperties
  <2>5. window' = [window EXCEPT ![w] = "gone"] /\ UNCHANGED <<data, work_queue, request, released, stopping>>
    BY <1>4 DEF close_window
  <2> QED
    BY <2>1, <2>4, <2>5 DEF Shape
<1>5. CASE call_find
  <2> DEFINE call == Head(calls)
             has  == call.w \in DOMAIN data /\ data[call.w].titlebar
             read == [call EXCEPT !.surface = IF has THEN "set" ELSE "null"]
  <2>1. call \in CallItems /\ call.w \in Windows /\ Tail(calls) \in Seq(CallItems)
    BY <1>5, FirstCall DEF call_find
  <2>2. calls' \in Seq(CallItems)
    <3>1. read \in CallItems
      BY <2>1 DEF CallItems
    <3>2. <<read>> \in Seq(CallItems) /\ <<>> \in Seq(CallItems)
      BY <3>1
    <3>3. calls' = (IF call.w \in DOMAIN data THEN <<read>> ELSE <<>>) \o Tail(calls)
      BY <1>5 DEF call_find
    <3> QED
      BY <2>1, <3>2, <3>3, ConcatProperties
  <2>3. DOMAIN data' = DOMAIN data /\ \A x \in DOMAIN data : data'[x] \in DataItems
    <3>1. data' = [x \in DOMAIN data |-> IF x = call.w THEN FirstLook(data[call.w], call) ELSE data[x]]
      BY <1>5 DEF call_find
    <3>2. \A x \in DOMAIN data : data[x] \in DataItems
      BY DEF Shape
    <3>3. \A x \in DOMAIN data : x = call.w => FirstLook(data[call.w], call) \in DataItems
      BY <2>1, <3>2, FirstLookShape
    <3> QED
      BY <3>1, <3>2, <3>3
  <2>4. work_queue' \in Seq(WorkItems)
    <3>1. work_queue' \in {work_queue, Append(work_queue, Work("release", call.w, "dim"))}
      BY <1>5 DEF call_find, ReleasedLast
    <3>2. Work("release", call.w, "dim") \in WorkItems /\ work_queue \in Seq(WorkItems)
      BY <2>1, WorkShape DEF Intensities, Shape
    <3>3. Append(work_queue, Work("release", call.w, "dim")) \in Seq(WorkItems)
      BY <3>2, QueueLonger
    <3> QED
      BY <3>1, <3>2, <3>3
  <2>5. UNCHANGED <<window, active, stopping, request, released>>
    BY <1>5 DEF call_find
  <2> QED
    BY <2>2, <2>3, <2>4, <2>5 DEF Shape
<1>6. CASE call_act
  <2> DEFINE call  == Head(calls)
             after == Remainder(data[call.w], work_queue, call)
  <2>1. call \in CallItems /\ call.w \in Windows /\ Tail(calls) \in Seq(CallItems)
    BY <1>6, FirstCall DEF call_act
  <2>2. UNCHANGED <<window, active, stopping, request, released>> /\ calls' = Tail(calls)
    BY <1>6 DEF call_act
  <2>3. CASE call.w \notin DOMAIN data
    <3>1. UNCHANGED <<data, work_queue>>
      BY <1>6, <2>3 DEF call_act
    <3> QED
      BY <2>1, <2>2, <3>1 DEF Shape
  <2>4. CASE call.w \in DOMAIN data
    <3>1. data' = [data EXCEPT ![call.w] = after[1]] /\ work_queue' = after[2]
      BY <1>6, <2>4 DEF call_act
    <3>2. data[call.w] \in DataItems /\ work_queue \in Seq(WorkItems)
      BY <2>4 DEF Shape
    <3>3. after[1] \in DataItems
      BY <2>1, <3>2, RemainderShape
    <3>4. \/ after[2] = work_queue
          \/ \E do \in {"paint", "erase"}, i \in Intensities :
                after[2] = Append(work_queue, Work(do, call.w, i))
      BY <2>1, <3>2, RemainderShape
    <3>5. \A do \in {"paint", "erase"}, i \in Intensities : Work(do, call.w, i) \in WorkItems
      BY <2>1, WorkShape
    <3>6. work_queue' \in Seq(WorkItems)
      BY <3>1, <3>2, <3>4, <3>5, QueueLonger
    <3>7. DOMAIN data' = DOMAIN data /\ \A x \in DOMAIN data : data'[x] \in DataItems
      BY <3>1, <3>3 DEF Shape
    <3> QED
      BY <2>1, <2>2, <3>6, <3>7 DEF Shape
  <2> QED
    BY <2>3, <2>4
<1>7. ASSUME NEW w \in Windows, place_titlebar(w)
      PROVE  Shape'
  <2>1. UNCHANGED <<window, active, stopping, work_queue, released>>
    BY <1>7 DEF place_titlebar
  <2>2. request' \in [Windows -> RequestStates]
    BY <1>7 DEF place_titlebar, Shape, RequestStates
  <2>3. CASE window[w] = "open"
    <3>1. data' = [x \in DOMAIN data \cup {w} |->
                      IF x # w THEN data[x]
                      ELSE [(IF w \in DOMAIN data THEN data[w] ELSE NewData) EXCEPT !.window = TRUE]]
      BY <1>7, <2>3 DEF place_titlebar
    <3>2. NewData \in DataItems
      BY DEF NewData, DataItems, Intensities
    <3>3. (IF w \in DOMAIN data THEN data[w] ELSE NewData) \in DataItems
      BY <3>2 DEF Shape
    <3>4. [(IF w \in DOMAIN data THEN data[w] ELSE NewData) EXCEPT !.window = TRUE] \in DataItems
      BY <3>3 DEF DataItems
    <3>5. DOMAIN data' \subseteq Windows /\ \A x \in DOMAIN data' : data'[x] \in DataItems
      BY <3>1, <3>4 DEF Shape
    <3>6. calls' \in Seq(CallItems)
      <4>1. Wanted(w) \in Intensities
        BY DEF Wanted, Intensities
      <4>2. Call("paint", w, Wanted(w)) \in CallItems
        BY <4>1 DEF Call, CallItems
      <4>3. calls' = <<Call("paint", w, Wanted(w))>>
        BY <1>7, <2>3 DEF place_titlebar
      <4> QED
        BY <4>2, <4>3
    <3> QED
      BY <2>1, <2>2, <3>5, <3>6 DEF Shape
  <2>4. CASE window[w] # "open"
    BY <1>7, <2>1, <2>2, <2>4 DEF place_titlebar, Shape
  <2> QED
    BY <2>3, <2>4
<1>8. ASSUME NEW w \in Windows, insert_on_create(w)
      PROVE  Shape'
  <2>1. request' \in [Windows -> RequestStates]
    BY <1>8 DEF insert_on_create, Shape, RequestStates
  <2>2. work_queue' \in Seq(WorkItems)
    <3>1. CASE w \in DOMAIN data /\ data[w].on_create # "nothing"
      <4>1. work_queue' = Append(work_queue, Work(data[w].on_create, w, data[w].intensity))
        BY <1>8, <3>1 DEF insert_on_create
      <4>2. data[w].on_create \in {"paint", "erase"} /\ data[w].intensity \in Intensities
        BY <3>1 DEF Shape, DataItems
      <4>3. Work(data[w].on_create, w, data[w].intensity) \in WorkItems
        BY <4>2, WorkShape
      <4>4. work_queue \in Seq(WorkItems)
        BY DEF Shape
      <4> QED
        BY <4>1, <4>3, <4>4, QueueLonger
    <3>2. CASE ~(w \in DOMAIN data /\ data[w].on_create # "nothing")
      BY <1>8, <3>2 DEF insert_on_create, Shape
    <3> QED
      BY <3>1, <3>2
  <2>3. UNCHANGED <<window, active, stopping, calls, data, released>>
    BY <1>8 DEF insert_on_create
  <2> QED
    BY <2>1, <2>2, <2>3 DEF Shape
<1>9. ASSUME NEW w \in Windows, insert_titlebar(w)
      PROVE  Shape'
  <2>1. request' \in [Windows -> RequestStates]
    BY <1>9 DEF insert_titlebar, Shape, RequestStates
  <2>2. DOMAIN data' = DOMAIN data /\ \A x \in DOMAIN data : data'[x] \in DataItems
    BY <1>9 DEF insert_titlebar, Shape, DataItems
  <2>3. UNCHANGED <<window, active, stopping, calls, work_queue, released>>
    BY <1>9 DEF insert_titlebar
  <2> QED
    BY <2>1, <2>2, <2>3 DEF Shape
<1>10. CASE do_work
  <2> DEFINE work == Head(work_queue)
  <2>1. work \in WorkItems /\ Tail(work_queue) \in Seq(WorkItems)
    BY <1>10, FirstWork DEF do_work
  <2>2. UNCHANGED <<window, active, stopping, calls>> /\ work_queue' = Tail(work_queue)
    BY <1>10 DEF do_work
  <2>3. CASE work.do = "create"
    <3>1. work.w \in Windows /\ create_titlebar(work.w)
      BY <1>10, <2>3, FirstWork DEF do_work
    <3>2. NewData \in DataItems
      BY DEF NewData, DataItems, Intensities
    <3>3. DOMAIN data' \subseteq Windows /\ \A x \in DOMAIN data' : data'[x] \in DataItems
      BY <3>1, <3>2 DEF create_titlebar, Shape
    <3>4. request' \in [Windows -> RequestStates] /\ released' = released
      BY <3>1 DEF create_titlebar, Shape, RequestStates
    <3> QED
      BY <2>1, <2>2, <3>3, <3>4 DEF Shape
  <2>4. CASE work.do = "release"
    <3>1. work.w \in Windows /\ release_titlebar(work.w)
      BY <1>10, <2>4, FirstWork DEF do_work
    <3> QED
      BY <2>1, <2>2, <3>1 DEF release_titlebar, Shape
  <2>5. CASE work.do \in {"erase", "clear"}
    <3>1. PICK ws : erase_data(ws)
      BY <1>10, <2>5 DEF do_work
    <3>2. DOMAIN data' \subseteq Windows /\ \A x \in DOMAIN data' : data'[x] \in DataItems
      BY <3>1 DEF erase_data, Shape
    <3>3. released' \subseteq Windows /\ request' = request
      BY <3>1 DEF erase_data, Shape
    <3> QED
      BY <2>1, <2>2, <3>2, <3>3 DEF Shape
  <2>6. CASE work.do \in {"paint", "disconnect", "done"}
    <3>1. UNCHANGED <<data, request, released>>
      BY <1>10, <2>6 DEF do_work, paint_surface
    <3> QED
      BY <2>1, <2>2, <3>1 DEF Shape
  <2> QED
    BY <2>1, <2>3, <2>4, <2>5, <2>6 DEF WorkItems, WindowWork, StopItems
<1>11. CASE stop_begin
  BY <1>11 DEF stop_begin, Shape, StopWork, StopSteps
<1>12. CASE stop_enqueue
  <2>0. stopping \in StopSteps /\ stopping # <<>> /\ work_queue \in Seq(WorkItems)
    BY <1>12 DEF stop_enqueue, Shape
  <2>1. Head(stopping) \in {"clear", "disconnect", "done"} /\ Tail(stopping) \in StopSteps
    BY <2>0, StopStep
  <2>2. Work(Head(stopping), NoWindow, "dim") \in WorkItems
    BY <2>1 DEF Work, WorkItems, StopItems, Intensities
  <2>3. work_queue' \in Seq(WorkItems)
    BY <1>12, <2>0, <2>2, QueueLonger DEF stop_enqueue
  <2>4. stopping' \in StopSteps
    BY <1>12, <2>1 DEF stop_enqueue
  <2> QED
    BY <1>12, <2>3, <2>4 DEF stop_enqueue, Shape
<1>13. CASE finished \/ UNCHANGED vars
  BY <1>13 DEF finished, vars, Shape
<1> QED
  BY <1>1, <1>2, <1>3, <1>4, <1>5, <1>6, <1>7, <1>8, <1>9, <1>10, <1>11, <1>12, <1>13 DEF Next

-----------------------------------------------------------------------------
(* Requests are awaited.                                                   *)

LEMMA AwaitedKept ==
    ASSUME Shape, RequestsAwaited, [Next]_vars
    PROVE  RequestsAwaited'
<1>1. CASE UNCHANGED <<request, awaiting>>
  BY <1>1 DEF RequestsAwaited
<1>2. ASSUME NEW w \in Windows, place_titlebar(w)
      PROVE  RequestsAwaited'
  <2>1. /\ awaiting' = awaiting \ {w}
        /\ \E to \in {"placed", "refused"} : request' = [request EXCEPT ![w] = to]
    BY <1>2 DEF place_titlebar
  <2> QED
    BY <2>1 DEF RequestsAwaited, Shape
<1>3. ASSUME NEW w \in Windows, insert_on_create(w) \/ insert_titlebar(w)
      PROVE  RequestsAwaited'
  <2>1. /\ awaiting' = awaiting
        /\ \E to \in {"inserting", "titled"} : request' = [request EXCEPT ![w] = to]
    BY <1>3 DEF insert_on_create, insert_titlebar
  <2> QED
    BY <2>1 DEF RequestsAwaited, Shape
<1>4. CASE do_work
  <2>1. CASE Head(work_queue).do = "create"
    <3>1. create_titlebar(Head(work_queue).w)
      BY <1>4, <2>1 DEF do_work
    <3> QED
      BY <3>1 DEF create_titlebar, RequestsAwaited, Shape
  <2>2. CASE Head(work_queue).do # "create"
    BY <1>1, <1>4, <2>2 DEF do_work, paint_surface, release_titlebar, erase_data
  <2> QED
    BY <2>1, <2>2
<1>5. ASSUME NEW w \in Windows, open_window(w) \/ change_focus(w) \/ change_window(w) \/ close_window(w)
      PROVE  RequestsAwaited'
  BY <1>1, <1>5 DEF open_window, change_focus, change_window, close_window
<1>6. CASE call_find \/ call_act \/ stop_begin \/ stop_enqueue \/ finished \/ UNCHANGED vars
  BY <1>1, <1>6 DEF call_find, call_act, stop_begin, stop_enqueue, finished, vars
<1> QED
  BY <1>2, <1>3, <1>4, <1>5, <1>6 DEF Next

\* The server finds the window of every titlebar that is requested, because
\* the worker enters it before the request is on its way.
THEOREM DecorationsAwaited == Spec => []RequestsAwaited
<1>1. Init => RequestsAwaited
  BY DEF Init, RequestsAwaited
<1>2. Shape /\ RequestsAwaited /\ [Next]_vars => (Shape /\ RequestsAwaited)'
  BY ShapeKept, AwaitedKept
<1> QED
  BY <1>1, <1>2, ShapeInitially, PTL DEF Spec

-----------------------------------------------------------------------------
(* Owners.                                                                 *)

Titlebar(w) == w \in DOMAIN data /\ data[w].titlebar

\* A window's titlebar is asked for once, when the window is new.
CreateInv ==
    \A w \in Windows :
        /\ Queued(work_queue, "create", w) => window[w] # "unborn" /\ request[w] = "none"
        /\ window[w] = "unborn" => request[w] = "none"

\* There is nothing to own until insert() sets the titlebar, which it does
\* once; from then on the titlebar only moves on, to the queue or to Mir.
OwnerInv ==
    /\ Once(work_queue)
    /\ \A w \in Windows :
        /\ Titlebar(w) => request[w] = "titled"
        /\ Queued(work_queue, "release", w) =>
            request[w] = "titled" /\ ~Titlebar(w) /\ w \notin released
        /\ w \in released => request[w] = "titled" /\ ~Titlebar(w)

\* Steps that touch no owner, and queue neither a creation nor a release.
LEMMA OwnersUntouched ==
    ASSUME CreateInv, OwnerInv,
           \A w \in Windows : window'[w] = "unborn" => window[w] = "unborn",
           \A w \in Windows : request'[w] = "none" <=> request[w] = "none",
           \A w \in Windows : request[w] = "titled" => request'[w] = "titled",
           \A w \in Windows : Titlebar(w)' <=> Titlebar(w),
           \A w \in Windows : Queued(work_queue', "create", w) => Queued(work_queue, "create", w),
           \A w \in Windows : Queued(work_queue', "release", w) => Queued(work_queue, "release", w),
           Once(work_queue'),
           released' = released
    PROVE  CreateInv' /\ OwnerInv'
<1>1. CreateInv'
  BY DEF CreateInv, Queued
<1>2. OwnerInv'
  BY DEF OwnerInv, Queued, Once
<1> QED
  BY <1>1, <1>2

LEMMA OwnersInitially == Init => CreateInv /\ OwnerInv
BY DEF Init, CreateInv, OwnerInv, Queued, Once, Titlebar

LEMMA OwnersKeptByFind ==
    ASSUME Shape, CreateInv, OwnerInv, call_find
    PROVE  CreateInv' /\ OwnerInv'
<1> DEFINE call == Head(calls)
           w    == call.w
           took == call.op = "destroy" /\ Titlebar(w)
<1>1. call \in CallItems /\ w \in Windows
  BY FirstCall DEF call_find
<1>2. /\ data' = [x \in DOMAIN data |-> IF x = w THEN FirstLook(data[w], call) ELSE data[x]]
      /\ work_queue' = IF took THEN Append(work_queue, Work("release", w, "dim")) ELSE work_queue
      /\ UNCHANGED <<window, request, released>>
  BY DEF call_find, ReleasedLast, Titlebar
<1>3. w \in DOMAIN data => data[w] \in DataItems
  BY DEF Shape
<1>4. \A x \in Windows : Titlebar(x)' <=> Titlebar(x) /\ ~(took /\ x = w)
  <2>1. DOMAIN data' = DOMAIN data /\ \A x \in DOMAIN data : x # w => data'[x] = data[x]
    BY <1>2
  <2>2. w \in DOMAIN data =>
           data'[w].titlebar = (IF call.op = "destroy" THEN FALSE ELSE data[w].titlebar)
    BY <1>1, <1>2, <1>3, FirstLookShape
  <2>3. ASSUME NEW x \in Windows, x # w PROVE Titlebar(x)' <=> Titlebar(x)
    BY <2>1, <2>3 DEF Titlebar
  <2>4. ASSUME NEW x \in Windows, x = w PROVE Titlebar(x)' <=> Titlebar(x) /\ ~took
    BY <2>1, <2>2, <2>4 DEF Titlebar
  <2> QED
    BY <2>3, <2>4
<1>5. CASE ~took
  BY <1>2, <1>4, <1>5, OwnersUntouched DEF OwnerInv
<1>6. CASE took
  <2> DEFINE item == Work("release", w, "dim")
  <2>1. item \in WorkItems /\ item.do = "release" /\ item.w = w /\ work_queue \in Seq(WorkItems)
    BY <1>1, WorkShape DEF Intensities, Work, Shape
  <2>2. work_queue' = Append(work_queue, item)
    BY <1>2, <1>6
  <2> HIDE DEF item
  <2>3. request[w] = "titled" /\ ~Queued(work_queue, "release", w) /\ w \notin released
    BY <1>1, <1>6 DEF OwnerInv
  <2>4. Once(work_queue')
    BY <2>1, <2>2, <2>3, QueueLonger DEF OwnerInv
  <2>5. \A x \in Windows : Queued(work_queue', "create", x) => Queued(work_queue, "create", x)
    BY <2>1, <2>2, QueueLonger
  <2>6. \A x \in Windows : Queued(work_queue', "release", x) => Queued(work_queue, "release", x) \/ x = w
    BY <2>1, <2>2, QueueLonger
  <2>7. CreateInv'
    BY <1>2, <2>5 DEF CreateInv, Queued
  <2>8. OwnerInv'
    <3> SUFFICES ASSUME NEW x \in Windows
                 PROVE  /\ Titlebar(x)' => request[x] = "titled"
                        /\ Queued(work_queue', "release", x) =>
                            request[x] = "titled" /\ ~Titlebar(x)' /\ x \notin released
                        /\ x \in released => request[x] = "titled" /\ ~Titlebar(x)'
      BY <1>2, <2>4 DEF OwnerInv, Queued, Once
    <3>1. CASE x = w
      BY <1>4, <1>6, <2>3, <3>1 DEF OwnerInv
    <3>2. CASE x # w
      BY <1>4, <2>6, <3>2 DEF OwnerInv
    <3> QED
      BY <3>1, <3>2
  <2> QED
    BY <2>7, <2>8
<1> QED
  BY <1>5, <1>6

LEMMA OwnersKeptByAct ==
    ASSUME Shape, CreateInv, OwnerInv, call_act
    PROVE  CreateInv' /\ OwnerInv'
<1> DEFINE call  == Head(calls)
           w     == call.w
           after == Remainder(data[w], work_queue, call)
<1>1. call \in CallItems /\ w \in Windows
  BY FirstCall DEF call_act
<1>2. UNCHANGED <<window, request, released>>
  BY DEF call_act
<1>3. CASE w \notin DOMAIN data
  <2>1. UNCHANGED <<data, work_queue>>
    BY <1>3 DEF call_act
  <2>2. \A x \in Windows : Titlebar(x)' <=> Titlebar(x)
    BY <2>1 DEF Titlebar
  <2> QED
    BY <1>2, <2>1, <2>2, OwnersUntouched DEF OwnerInv
<1>4. CASE w \in DOMAIN data
  <2>1. data' = [data EXCEPT ![w] = after[1]] /\ work_queue' = after[2]
    BY <1>4 DEF call_act
  <2>2. data[w] \in DataItems /\ work_queue \in Seq(WorkItems)
    BY <1>4 DEF Shape
  <2>3. /\ after[1].titlebar = data[w].titlebar
        /\ \/ after[2] = work_queue
           \/ \E do \in {"paint", "erase"}, i \in Intensities :
                 after[2] = Append(work_queue, Work(do, w, i))
    BY <1>1, <2>2, RemainderShape
  <2>4. \A x \in Windows : Titlebar(x)' <=> Titlebar(x)
    BY <1>4, <2>1, <2>3 DEF Titlebar
  <2>5. \A do \in {"paint", "erase"}, i \in Intensities :
           Work(do, w, i) \in WorkItems /\ Work(do, w, i).do \notin {"create", "release"}
    BY <1>1, WorkShape DEF Work
  <2>6. /\ \A x : Queued(work_queue', "create", x) <=> Queued(work_queue, "create", x)
        /\ \A x : Queued(work_queue', "release", x) <=> Queued(work_queue, "release", x)
        /\ Once(work_queue')
    <3>1. CASE work_queue' = work_queue
      BY <3>1 DEF OwnerInv
    <3>2. ASSUME NEW do \in {"paint", "erase"}, NEW i \in Intensities,
                 work_queue' = Append(work_queue, Work(do, w, i))
          PROVE  /\ \A x : Queued(work_queue', "create", x) <=> Queued(work_queue, "create", x)
                 /\ \A x : Queued(work_queue', "release", x) <=> Queued(work_queue, "release", x)
                 /\ Once(work_queue')
      BY <2>2, <2>5, <3>2, OtherWork DEF OwnerInv
    <3> QED
      BY <2>1, <2>3, <3>1, <3>2
  <2> QED
    BY <1>2, <2>4, <2>6, OwnersUntouched
<1> QED
  BY <1>3, <1>4

LEMMA OwnersKeptByWork ==
    ASSUME Shape, CreateInv, OwnerInv, do_work
    PROVE  CreateInv' /\ OwnerInv'
<1> DEFINE work == Head(work_queue)
<1>1. /\ work_queue \in Seq(WorkItems) /\ work_queue # <<>> /\ work_queue' = Tail(work_queue)
      /\ window' = window
  BY DEF do_work, Shape
<1>2. /\ \A do, x : Queued(work_queue', do, x) => Queued(work_queue, do, x)
      /\ Once(work_queue')
      /\ work.do \in {"create", "release"} => ~Queued(work_queue', work.do, work.w)
  BY <1>1, QueueShorter DEF OwnerInv
<1>3. Queued(work_queue, work.do, work.w)
  <2>1. 1 \in DOMAIN work_queue /\ Head(work_queue) = work_queue[1]
    BY <1>1, EmptySeq, LenProperties
  <2> QED
    BY <2>1 DEF Queued
<1>4. CASE work.do = "create"
  <2>1. work.w \in Windows /\ create_titlebar(work.w)
    BY <1>1, <1>4, FirstWork DEF do_work
  <2>2. request[work.w] = "none" /\ window[work.w] # "unborn"
    BY <1>3, <1>4, <2>1 DEF CreateInv
  <2>3. \A x \in Windows : request'[x] = IF x = work.w THEN "sent" ELSE request[x]
    BY <2>1 DEF create_titlebar, Shape
  <2>4. \A x \in Windows : Titlebar(x)' => Titlebar(x)
    BY <2>1 DEF create_titlebar, Titlebar, NewData
  <2>5. released' = released
    BY <2>1 DEF create_titlebar
  <2>6. CreateInv'
    <3> SUFFICES ASSUME NEW x \in Windows
                 PROVE  /\ Queued(work_queue', "create", x) =>
                              window[x] # "unborn" /\ request'[x] = "none"
                        /\ window[x] = "unborn" => request'[x] = "none"
      BY <1>1 DEF CreateInv, Queued
    <3>1. CASE x = work.w
      BY <1>2, <1>4, <2>2, <3>1
    <3>2. CASE x # work.w
      BY <1>2, <2>3, <3>2 DEF CreateInv
    <3> QED
      BY <3>1, <3>2
  <2>7. OwnerInv'
    <3> SUFFICES ASSUME NEW x \in Windows
                 PROVE  /\ Titlebar(x)' => request'[x] = "titled"
                        /\ Queued(work_queue', "release", x) =>
                            request'[x] = "titled" /\ ~Titlebar(x)' /\ x \notin released
                        /\ x \in released => request'[x] = "titled" /\ ~Titlebar(x)'
      BY <1>2, <2>5 DEF OwnerInv, Queued, Once
    <3>1. request[x] = "titled" => request'[x] = "titled"
      BY <2>2, <2>3
    <3> QED
      BY <1>2, <2>4, <3>1 DEF OwnerInv
  <2> QED
    BY <2>6, <2>7
<1>5. CASE work.do = "release"
  <2>1. work.w \in Windows /\ release_titlebar(work.w)
    BY <1>1, <1>5, FirstWork DEF do_work
  <2>2. released' = released \cup {work.w} /\ UNCHANGED <<data, request>>
    BY <2>1 DEF release_titlebar
  <2>3. request[work.w] = "titled" /\ ~Titlebar(work.w)
    BY <1>3, <1>5, <2>1 DEF OwnerInv
  <2>4. \A x \in Windows : Titlebar(x)' <=> Titlebar(x)
    BY <2>2 DEF Titlebar
  <2>5. CreateInv'
    BY <1>1, <1>2, <2>2 DEF CreateInv, Queued
  <2>6. OwnerInv'
    <3> SUFFICES ASSUME NEW x \in Windows
                 PROVE  /\ Titlebar(x)' => request[x] = "titled"
                        /\ Queued(work_queue', "release", x) =>
                            request[x] = "titled" /\ ~Titlebar(x)' /\ x \notin released'
                        /\ x \in released' => request[x] = "titled" /\ ~Titlebar(x)'
      BY <1>2, <2>2 DEF OwnerInv, Queued, Once
    <3>1. CASE x = work.w
      BY <1>2, <1>5, <2>3, <2>4, <3>1
    <3>2. CASE x # work.w
      BY <1>2, <2>2, <2>4, <3>2 DEF OwnerInv
    <3> QED
      BY <3>1, <3>2
  <2> QED
    BY <2>5, <2>6
<1>6. CASE work.do \in {"erase", "clear"}
  <2>1. PICK ws : erase_data(ws)
    BY <1>6 DEF do_work
  <2>2. /\ request' = request
        /\ \A x \in Windows : Titlebar(x)' <=> Titlebar(x) /\ x \notin ws
        /\ \A x \in Windows : x \in released' <=> x \in released \/ (x \in ws /\ Titlebar(x))
    BY <2>1 DEF erase_data, Titlebar
  <2>3. CreateInv'
    BY <1>1, <1>2, <2>2 DEF CreateInv, Queued
  <2>4. OwnerInv'
    <3> SUFFICES ASSUME NEW x \in Windows
                 PROVE  /\ Titlebar(x)' => request[x] = "titled"
                        /\ Queued(work_queue', "release", x) =>
                            request[x] = "titled" /\ ~Titlebar(x)' /\ x \notin released'
                        /\ x \in released' => request[x] = "titled" /\ ~Titlebar(x)'
      BY <1>2, <2>2 DEF OwnerInv, Queued, Once
    <3> QED
      BY <1>2, <2>2 DEF OwnerInv
  <2> QED
    BY <2>3, <2>4
<1>7. CASE work.do \in {"paint", "disconnect", "done"}
  <2>1. UNCHANGED <<data, request, released>>
    BY <1>7 DEF do_work, paint_surface
  <2>2. \A x \in Windows : Titlebar(x)' <=> Titlebar(x)
    BY <2>1 DEF Titlebar
  <2> QED
    BY <1>1, <1>2, <2>1, <2>2, OwnersUntouched
<1> QED
  BY <1>1, <1>4, <1>5, <1>6, <1>7, FirstWork DEF WorkItems, WindowWork, StopItems

LEMMA OwnersKeptByAnswer ==
    ASSUME Shape, CreateInv, OwnerInv, NEW w \in Windows,
           place_titlebar(w) \/ insert_on_create(w) \/ insert_titlebar(w)
    PROVE  CreateInv' /\ OwnerInv'
<1>1. UNCHANGED <<window, released>>
  BY DEF place_titlebar, insert_on_create, insert_titlebar
<1>2. CASE place_titlebar(w)
  <2>1. \A x \in Windows : request'[x] = request[x] \/
            (x = w /\ request[x] = "sent" /\ request'[x] \in {"placed", "refused"})
    BY <1>2 DEF place_titlebar, Shape
  <2>2. work_queue' = work_queue
    BY <1>2 DEF place_titlebar
  <2>3. \A x \in Windows : Titlebar(x)' <=> Titlebar(x)
    <3>1. CASE window[w] = "open"
      <4>1. data' = [x \in DOMAIN data \cup {w} |->
                        IF x # w THEN data[x]
                        ELSE [(IF w \in DOMAIN data THEN data[w] ELSE NewData) EXCEPT !.window = TRUE]]
        BY <1>2, <3>1 DEF place_titlebar
      <4>2. w \in DOMAIN data => data[w] \in DataItems
        BY DEF Shape
      <4>3. w \in DOMAIN data => data'[w].titlebar = data[w].titlebar
        BY <4>1, <4>2 DEF DataItems
      <4>4. w \notin DOMAIN data => ~data'[w].titlebar
        BY <4>1 DEF NewData
      <4> QED
        BY <4>1, <4>3, <4>4 DEF Titlebar
    <3>2. CASE window[w] # "open"
      BY <1>2, <3>2 DEF place_titlebar, Titlebar
    <3> QED
      BY <3>1, <3>2
  <2> QED
    BY <1>1, <2>1, <2>2, <2>3, OwnersUntouched DEF OwnerInv
<1>3. CASE insert_on_create(w)
  <2>1. \A x \in Windows : request'[x] = request[x] \/
            (x = w /\ request[x] \in {"placed", "refused"} /\ request'[x] \in {"inserting", "titled"})
    BY <1>3 DEF insert_on_create, Shape
  <2>2. \A x \in Windows : Titlebar(x)' <=> Titlebar(x)
    BY <1>3 DEF insert_on_create, Titlebar
  <2>3. /\ \A x : Queued(work_queue', "create", x) <=> Queued(work_queue, "create", x)
        /\ \A x : Queued(work_queue', "release", x) <=> Queued(work_queue, "release", x)
        /\ Once(work_queue')
    <3>1. CASE w \in DOMAIN data /\ data[w].on_create # "nothing"
      <4>1. work_queue' = Append(work_queue, Work(data[w].on_create, w, data[w].intensity))
        BY <1>3, <3>1 DEF insert_on_create
      <4>2. data[w].on_create \in {"paint", "erase"} /\ data[w].intensity \in Intensities
        BY <3>1 DEF Shape, DataItems
      <4>3. /\ Work(data[w].on_create, w, data[w].intensity) \in WorkItems
            /\ Work(data[w].on_create, w, data[w].intensity).do \notin {"create", "release"}
        BY <4>2, WorkShape DEF Work
      <4>4. work_queue \in Seq(WorkItems)
        BY DEF Shape
      <4> QED
        BY <4>1, <4>3, <4>4, OtherWork DEF OwnerInv
    <3>2. CASE ~(w \in DOMAIN data /\ data[w].on_create # "nothing")
      BY <1>3, <3>2 DEF insert_on_create, OwnerInv
    <3> QED
      BY <3>1, <3>2
  <2> QED
    BY <1>1, <2>1, <2>2, <2>3, OwnersUntouched
<1>4. CASE insert_titlebar(w)
  <2>1. \A x \in Windows : request'[x] = IF x = w THEN "titled" ELSE request[x]
    BY <1>4 DEF insert_titlebar, Shape
  <2>2. request[w] = "inserting" /\ work_queue' = work_queue
    BY <1>4 DEF insert_titlebar
  <2>3. \A x \in Windows : x # w => (Titlebar(x)' <=> Titlebar(x))
    BY <1>4 DEF insert_titlebar, Titlebar
  <2>4. CreateInv'
    BY <1>1, <2>1, <2>2 DEF CreateInv, Queued
  <2>5. w \notin released /\ ~Queued(work_queue, "release", w)
    BY <2>2 DEF OwnerInv
  <2>6. OwnerInv'
    <3> SUFFICES ASSUME NEW x \in Windows
                 PROVE  /\ Titlebar(x)' => request'[x] = "titled"
                        /\ Queued(work_queue, "release", x) =>
                            request'[x] = "titled" /\ ~Titlebar(x)' /\ x \notin released
                        /\ x \in released => request'[x] = "titled" /\ ~Titlebar(x)'
      BY <1>1, <2>2 DEF OwnerInv, Queued, Once
    <3>1. CASE x = w
      BY <2>1, <2>5, <3>1
    <3>2. CASE x # w
      BY <2>1, <2>3, <3>2 DEF OwnerInv
    <3> QED
      BY <3>1, <3>2
  <2> QED
    BY <2>4, <2>6
<1> QED
  BY <1>2, <1>3, <1>4

LEMMA OwnersKept ==
    ASSUME Shape, CreateInv, OwnerInv, [Next]_vars
    PROVE  CreateInv' /\ OwnerInv'
<1>1. ASSUME NEW w \in Windows, open_window(w)
      PROVE  CreateInv' /\ OwnerInv'
  <2> DEFINE item == Work("create", w, "dim")
  <2>1. item \in WorkItems /\ item.do = "create" /\ item.w = w /\ work_queue \in Seq(WorkItems)
    BY WorkShape DEF Intensities, Work, Shape
  <2>2. /\ work_queue' = Append(work_queue, item) /\ window[w] = "unborn"
        /\ UNCHANGED <<data, request, released>>
    BY <1>1 DEF open_window
  <2> HIDE DEF item
  <2>3. request[w] = "none" /\ ~Queued(work_queue, "create", w)
    BY <2>2 DEF CreateInv
  <2>4. Once(work_queue')
    BY <2>1, <2>2, <2>3, QueueLonger DEF OwnerInv
  <2>5. \A x \in Windows : Queued(work_queue', "create", x) => Queued(work_queue, "create", x) \/ x = w
    BY <2>1, <2>2, QueueLonger
  <2>6. \A x \in Windows : Queued(work_queue', "release", x) => Queued(work_queue, "release", x)
    BY <2>1, <2>2, QueueLonger
  <2>7. \A x \in Windows : window'[x] = IF x = w THEN "open" ELSE window[x]
    BY <1>1 DEF open_window, Shape
  <2>8. CreateInv'
    <3> SUFFICES ASSUME NEW x \in Windows
                 PROVE  /\ Queued(work_queue', "create", x) =>
                              window'[x] # "unborn" /\ request[x] = "none"
                        /\ window'[x] = "unborn" => request[x] = "none"
      BY <2>2 DEF CreateInv, Queued
    <3> QED
      BY <2>3, <2>5, <2>7 DEF CreateInv
  <2>9. \A x \in Windows : Titlebar(x)' <=> Titlebar(x)
    BY <2>2 DEF Titlebar
  <2>10. OwnerInv'
    BY <2>2, <2>4, <2>6, <2>9 DEF OwnerInv, Queued, Once
  <2> QED
    BY <2>8, <2>10
<1>2. CASE /\ UNCHANGED <<data, request, released, work_queue>>
           /\ \A x \in Windows : window'[x] = "unborn" => window[x] = "unborn"
  <2>1. \A x \in Windows : Titlebar(x)' <=> Titlebar(x)
    BY <1>2 DEF Titlebar
  <2> QED
    BY <1>2, <2>1, OwnersUntouched DEF OwnerInv
<1>3. ASSUME NEW w \in Windows, change_focus(w) \/ change_window(w)
      PROVE  CreateInv' /\ OwnerInv'
  BY <1>2, <1>3 DEF change_focus, change_window
<1>4. ASSUME NEW w \in Windows, close_window(w)
      PROVE  CreateInv' /\ OwnerInv'
  <2>1. window' = [window EXCEPT ![w] = "gone"] /\ UNCHANGED <<data, request, released, work_queue>>
    BY <1>4 DEF close_window
  <2> QED
    BY <1>2, <2>1 DEF Shape
<1>5. CASE stop_enqueue
  <2> DEFINE item == Work(Head(stopping), NoWindow, "dim")
  <2>1. Head(stopping) \in {"clear", "disconnect", "done"} /\ work_queue \in Seq(WorkItems)
    BY <1>5, StopStep DEF stop_enqueue, Shape
  <2>2. item \in WorkItems /\ item.do \notin {"create", "release"}
    BY <2>1, WorkShape DEF Work, WorkItems, StopItems, Intensities
  <2>3. work_queue' = Append(work_queue, item) /\ UNCHANGED <<window, data, request, released>>
    BY <1>5 DEF stop_enqueue
  <2> HIDE DEF item
  <2>4. /\ \A x : Queued(work_queue', "create", x) <=> Queued(work_queue, "create", x)
        /\ \A x : Queued(work_queue', "release", x) <=> Queued(work_queue, "release", x)
        /\ Once(work_queue')
    BY <2>1, <2>2, <2>3, OtherWork DEF OwnerInv
  <2>5. \A x \in Windows : Titlebar(x)' <=> Titlebar(x)
    BY <2>3 DEF Titlebar
  <2> QED
    BY <2>3, <2>4, <2>5, OwnersUntouched
<1>6. CASE stop_begin \/ finished \/ UNCHANGED vars
  BY <1>2, <1>6 DEF stop_begin, finished, vars
<1> QED
  BY <1>1, <1>3, <1>4, <1>5, <1>6, OwnersKeptByFind, OwnersKeptByAct, OwnersKeptByWork,
     OwnersKeptByAnswer DEF Next

LEMMA OwnersCounted ==
    ASSUME OwnerInv
    PROVE  OneOwner
<1> SUFFICES ASSUME NEW w \in Windows
             PROVE  Cardinality(Releases(w)) + Cardinality({w} \cap released)
                    + Cardinality({x \in {w} \cap DOMAIN data : data[x].titlebar}) <= 1
  BY DEF OneOwner
<1>1. /\ Cardinality({}) = 0
      /\ \A x : Cardinality({x}) = 1
  BY FS_EmptySet, FS_Singleton
<1>2. IF Queued(work_queue, "release", w)
      THEN \E i : Releases(w) = {i} ELSE Releases(w) = {}
  <2>1. \A i, j \in Releases(w) : i = j
    BY DEF OwnerInv, Once, Releases
  <2>2. Queued(work_queue, "release", w) <=> \E i : i \in Releases(w)
    BY DEF Queued, Releases
  <2>3. CASE \E i : i \in Releases(w)
    <3>1. PICK i : i \in Releases(w)
      BY <2>3
    <3>2. Releases(w) = {i}
      BY <2>1, <3>1
    <3> QED BY <2>2, <3>1, <3>2
  <2>4. CASE ~\E i : i \in Releases(w)
    BY <2>2, <2>4
  <2> QED BY <2>3, <2>4
<1>3. {w} \cap released = IF w \in released THEN {w} ELSE {}
  OBVIOUS
<1>4. {x \in {w} \cap DOMAIN data : data[x].titlebar} = IF Titlebar(w) THEN {w} ELSE {}
  BY DEF Titlebar
<1>5. /\ Cardinality(Releases(w)) = IF Queued(work_queue, "release", w) THEN 1 ELSE 0
      /\ Cardinality({w} \cap released) = IF w \in released THEN 1 ELSE 0
      /\ Cardinality({x \in {w} \cap DOMAIN data : data[x].titlebar}) = IF Titlebar(w) THEN 1 ELSE 0
  BY <1>1, <1>2, <1>3, <1>4
<1>6. /\ Queued(work_queue, "release", w) => ~Titlebar(w) /\ w \notin released
      /\ w \in released => ~Titlebar(w)
  BY DEF OwnerInv
<1> QED
  BY <1>5, <1>6

\* Mir is told to release a titlebar at most once, however the threads
\* interleave inside the provider's functions.
THEOREM DecorationsOneOwner == Spec => []OneOwner
<1>1. Shape /\ CreateInv /\ OwnerInv /\ [Next]_vars => (Shape /\ CreateInv /\ OwnerInv)'
  BY ShapeKept, OwnersKept
<1>2. OwnerInv => OneOwner
  BY OwnersCounted
<1> QED
  BY <1>1, <1>2, ShapeInitially, OwnersInitially, PTL DEF Spec

-----------------------------------------------------------------------------
(* Answers.                                                                *)

\* Until the worker clears the map, a Data goes by an "erase" only, and that
\* is queued when the answer has come or with it.
AnswerInv ==
    /\ \A w \in Windows : Queued(work_queue, "erase", w) => request[w] \in {"inserting", "titled"}
    /\ Queued(work_queue, "clear", NoWindow) => Stopping
    /\ AnswersFindData

LEMMA StoppingQueued ==
    ASSUME Shape
    PROVE  Stopping <=> stopping # <<>> \/ worker = "done" \/ Queued(work_queue, "done", NoWindow)
<1>1. \A i \in DOMAIN work_queue : work_queue[i].do = "done" => work_queue[i].w = NoWindow
  BY DEF Shape, WorkItems, WindowWork, StopItems
<1> QED
  BY <1>1 DEF Stopping, Queued

\* What a step puts in the queue.
LEMMA QueueSteps ==
    ASSUME Shape, OwnerInv, [Next]_vars, ~do_work
    PROVE  \/ work_queue' = work_queue
           \/ \E item \in WorkItems :
                /\ work_queue' = Append(work_queue, item)
                /\ item.do = "erase" => request'[item.w] \in {"inserting", "titled"}
                /\ item.do = "clear" => stopping # <<>>
<1>1. ASSUME NEW w \in Windows, open_window(w)
      PROVE  \E item \in WorkItems : work_queue' = Append(work_queue, item) /\ item.do = "create"
  BY <1>1, WorkShape DEF open_window, Intensities, Work
<1>2. CASE call_find
  <2>1. work_queue' \in {work_queue, Append(work_queue, Work("release", Head(calls).w, "dim"))}
    BY <1>2 DEF call_find, ReleasedLast
  <2>2. /\ Work("release", Head(calls).w, "dim") \in WorkItems
        /\ Work("release", Head(calls).w, "dim").do = "release"
    BY <1>2, FirstCall, WorkShape DEF call_find, Intensities, Work
  <2> QED
    BY <2>1, <2>2
<1>3. CASE call_act
  <2> DEFINE call  == Head(calls)
             after == Remainder(data[call.w], work_queue, call)
  <2>1. call \in CallItems /\ call.w \in Windows
    BY <1>3, FirstCall DEF call_act
  <2>2. request' = request
    BY <1>3 DEF call_act
  <2>3. CASE call.w \notin DOMAIN data
    BY <1>3, <2>3 DEF call_act
  <2>4. CASE call.w \in DOMAIN data
    <3>1. work_queue' = after[2] /\ data[call.w] \in DataItems /\ work_queue \in Seq(WorkItems)
      BY <1>3, <2>4 DEF call_act, Shape
    <3>2. \/ after[2] = work_queue
          \/ \E do \in {"paint", "erase"}, i \in Intensities :
                /\ after[2] = Append(work_queue, Work(do, call.w, i))
                /\ do = "erase" => data[call.w].titlebar
      BY <2>1, <3>1, RemainderShape
    <3>3. data[call.w].titlebar => request[call.w] = "titled"
      BY <2>1, <2>4 DEF OwnerInv, Titlebar
    <3>4. \A do \in {"paint", "erase"}, i \in Intensities :
             /\ Work(do, call.w, i) \in WorkItems
             /\ Work(do, call.w, i).do = do /\ Work(do, call.w, i).w = call.w
      BY <2>1, WorkShape DEF Work
    <3>5. CASE after[2] = work_queue
      BY <3>1, <3>5
    <3>6. ASSUME NEW do \in {"paint", "erase"}, NEW i \in Intensities,
                 after[2] = Append(work_queue, Work(do, call.w, i)),
                 do = "erase" => data[call.w].titlebar
          PROVE  \E item \in WorkItems :
                    /\ work_queue' = Append(work_queue, item)
                    /\ item.do = "erase" => request'[item.w] \in {"inserting", "titled"}
                    /\ item.do # "clear"
      <4> DEFINE item == Work(do, call.w, i)
      <4>1. item \in WorkItems /\ item.do = do /\ item.w = call.w
        BY <3>4
      <4>2. work_queue' = Append(work_queue, item)
        BY <3>1, <3>6
      <4>3. do = "erase" => request'[call.w] \in {"inserting", "titled"}
        BY <2>2, <3>3, <3>6
      <4> HIDE DEF item, call
      <4> QED
        BY <4>1, <4>2, <4>3
    <3> QED
      BY <3>2, <3>5, <3>6
  <2> QED
    BY <2>3, <2>4
<1>4. ASSUME NEW w \in Windows, insert_on_create(w)
      PROVE  \/ work_queue' = work_queue
             \/ \E item \in WorkItems :
                  /\ work_queue' = Append(work_queue, item)
                  /\ request'[item.w] \in {"inserting", "titled"} /\ item.do # "clear"
  <2>1. CASE w \in DOMAIN data /\ data[w].on_create # "nothing"
    <3> DEFINE item == Work(data[w].on_create, w, data[w].intensity)
    <3>1. work_queue' = Append(work_queue, item) /\ request'[w] \in {"inserting", "titled"}
      BY <1>4, <2>1 DEF insert_on_create, Shape
    <3>2. data[w].on_create \in {"paint", "erase"} /\ data[w].intensity \in Intensities
      BY <2>1 DEF Shape, DataItems
    <3>3. item \in WorkItems /\ item.do # "clear" /\ item.w = w
      BY <3>2, WorkShape DEF Work
    <3> HIDE DEF item
    <3> QED
      BY <3>1, <3>3
  <2>2. CASE ~(w \in DOMAIN data /\ data[w].on_create # "nothing")
    BY <1>4, <2>2 DEF insert_on_create
  <2> QED
    BY <2>1, <2>2
<1>5. CASE stop_enqueue
  <2> DEFINE item == Work(Head(stopping), NoWindow, "dim")
  <2>1. Head(stopping) \in {"clear", "disconnect", "done"} /\ stopping # <<>>
    BY <1>5, StopStep DEF stop_enqueue, Shape
  <2>2. item \in WorkItems /\ item.do # "erase"
    BY <2>1 DEF Work, WorkItems, StopItems, Intensities
  <2>3. work_queue' = Append(work_queue, item)
    BY <1>5 DEF stop_enqueue
  <2> HIDE DEF item
  <2> QED
    BY <2>1, <2>2, <2>3
<1>6. ASSUME NEW w \in Windows,
             change_focus(w) \/ change_window(w) \/ close_window(w) \/ place_titlebar(w)
             \/ insert_titlebar(w)
      PROVE  work_queue' = work_queue
  BY <1>6 DEF change_focus, change_window, close_window, place_titlebar, insert_titlebar
<1>7. CASE stop_begin \/ finished \/ UNCHANGED vars
  BY <1>7 DEF stop_begin, finished, vars
<1> QED
  BY <1>1, <1>2, <1>3, <1>4, <1>5, <1>6, <1>7 DEF Next

LEMMA StoppingStays ==
    ASSUME Shape, Shape', OwnerInv, [Next]_vars, Stopping
    PROVE  Stopping'
<1>0. stopping # <<>> \/ worker = "done" \/ Queued(work_queue, "done", NoWindow)
  BY StoppingQueued
<1>1. SUFFICES stopping' # <<>> \/ worker' = "done" \/ Queued(work_queue', "done", NoWindow)
  BY DEF Stopping, Queued
<1>2. CASE do_work
  <2>1. stopping' = stopping
    BY <1>2 DEF do_work
  <2>2. CASE Head(work_queue).do = "done"
    BY <1>2, <2>2 DEF do_work
  <2>3. CASE Head(work_queue).do # "done"
    <3>1. worker' = worker
      BY <1>2, <2>3 DEF do_work
    <3>2. /\ work_queue \in Seq(WorkItems) /\ work_queue # <<>> /\ work_queue' = Tail(work_queue)
      BY <1>2 DEF do_work, Shape
    <3>3. Queued(work_queue, "done", NoWindow) => Queued(work_queue', "done", NoWindow)
      BY <2>3, <3>2, QueueRest
    <3> QED
      BY <1>0, <2>1, <3>1, <3>3
  <2> QED
    BY <2>2, <2>3
<1>3. CASE ~do_work
  <2>1. Queued(work_queue, "done", NoWindow) => Queued(work_queue', "done", NoWindow)
    <3>1. ASSUME NEW item \in WorkItems, work_queue' = Append(work_queue, item)
          PROVE  Queued(work_queue, "done", NoWindow) => Queued(work_queue', "done", NoWindow)
      BY <3>1, QueueLonger DEF Shape
    <3> QED
      BY <1>3, <3>1, QueueSteps
  <2>2. worker' = worker
    BY <1>3 DEF Next, open_window, change_focus, change_window, close_window, call_find, call_act,
                place_titlebar, insert_on_create, insert_titlebar, stop_begin, stop_enqueue,
                finished, vars
  <2>3. CASE stop_enqueue
    <3>1. stopping \in StopSteps /\ stopping # <<>> /\ work_queue \in Seq(WorkItems)
      BY <2>3 DEF stop_enqueue, Shape
    <3>2. CASE Head(stopping) = "done"
      <4>1. work_queue' = Append(work_queue, Work("done", NoWindow, "dim"))
        BY <2>3, <3>2 DEF stop_enqueue
      <4>2. Work("done", NoWindow, "dim") \in WorkItems
        BY DEF Work, WorkItems, StopItems, Intensities
      <4>3. Work("done", NoWindow, "dim").do = "done" /\ Work("done", NoWindow, "dim").w = NoWindow
        BY DEF Work
      <4> QED
        BY <3>1, <4>1, <4>2, <4>3, QueueLonger
    <3>3. CASE Head(stopping) # "done"
      BY <2>3, <3>1, <3>3, StopStep DEF stop_enqueue
    <3> QED
      BY <3>2, <3>3
  <2>4. CASE stop_begin
    <3>1. stopping' = <<"clear", "disconnect", "done">>
      BY <2>4 DEF stop_begin, StopWork
    <3> QED
      BY <3>1
  <2>5. CASE ~stop_enqueue /\ ~stop_begin
    <3>1. stopping' = stopping
      BY <1>3, <2>5 DEF Next, open_window, change_focus, change_window, close_window, call_find,
                        call_act, place_titlebar, insert_on_create, insert_titlebar, finished, vars
    <3> QED
      BY <1>0, <2>1, <2>2, <3>1
  <2> QED
    BY <2>3, <2>4, <2>5
<1> QED
  BY <1>2, <1>3

\* Requests go forward, and no Data is lost but by the worker.
LEMMA ForwardSteps ==
    ASSUME Shape, [Next]_vars, ~do_work, NEW w \in Windows
    PROVE  /\ request[w] \in {"inserting", "titled"} => request'[w] \in {"inserting", "titled"}
           /\ request'[w] \in {"sent", "placed", "refused"} => request[w] \in {"sent", "placed", "refused"}
           /\ w \in DOMAIN data => w \in DOMAIN data'
<1>1. ASSUME NEW x \in Windows, place_titlebar(x)
      PROVE  /\ \E to \in {"placed", "refused"} : request' = [request EXCEPT ![x] = to]
             /\ request[x] = "sent" /\ DOMAIN data \subseteq DOMAIN data'
  BY <1>1 DEF place_titlebar
<1>2. ASSUME NEW x \in Windows, insert_on_create(x) \/ insert_titlebar(x)
      PROVE  /\ \E to \in {"inserting", "titled"} : request' = [request EXCEPT ![x] = to]
             /\ DOMAIN data' = DOMAIN data
  BY <1>2 DEF insert_on_create, insert_titlebar
<1>3. CASE request' = request /\ DOMAIN data' = DOMAIN data
  BY <1>3
<1>4. ASSUME NEW x \in Windows,
             open_window(x) \/ change_focus(x) \/ change_window(x) \/ close_window(x)
      PROVE  request' = request /\ DOMAIN data' = DOMAIN data
  BY <1>4 DEF open_window, change_focus, change_window, close_window
<1>5. CASE call_find
  BY <1>3, <1>5 DEF call_find
<1>6. CASE call_act
  BY <1>3, <1>6 DEF call_act
<1>7. CASE stop_begin \/ stop_enqueue \/ finished \/ UNCHANGED vars
  BY <1>3, <1>7 DEF stop_begin, stop_enqueue, finished, vars
<1>8. ASSUME NEW x \in Windows, place_titlebar(x)
      PROVE  /\ request[w] \in {"inserting", "titled"} => request'[w] \in {"inserting", "titled"}
             /\ request'[w] \in {"sent", "placed", "refused"} => request[w] \in {"sent", "placed", "refused"}
             /\ w \in DOMAIN data => w \in DOMAIN data'
  BY <1>1, <1>8 DEF Shape
<1>9. ASSUME NEW x \in Windows, insert_on_create(x) \/ insert_titlebar(x)
      PROVE  /\ request[w] \in {"inserting", "titled"} => request'[w] \in {"inserting", "titled"}
             /\ request'[w] \in {"sent", "placed", "refused"} => request[w] \in {"sent", "placed", "refused"}
             /\ w \in DOMAIN data => w \in DOMAIN data'
  BY <1>2, <1>9 DEF Shape
<1> QED
  BY <1>3, <1>4, <1>5, <1>6, <1>7, <1>8, <1>9 DEF Next

LEMMA AnswersKept ==
    ASSUME Shape, Shape', CreateInv, OwnerInv, AnswerInv, [Next]_vars
    PROVE  AnswerInv'
<1>0. Stopping => Stopping'
  BY StoppingStays
<1>1. CASE ~do_work
  <2>1. ASSUME NEW w \in Windows, Queued(work_queue', "erase", w)
        PROVE  request'[w] \in {"inserting", "titled"}
    <3>1. CASE Queued(work_queue, "erase", w)
      BY <1>1, <3>1, ForwardSteps DEF AnswerInv
    <3>2. CASE ~Queued(work_queue, "erase", w)
      <4>1. PICK item \in WorkItems :
               /\ work_queue' = Append(work_queue, item)
               /\ item.do = "erase" => request'[item.w] \in {"inserting", "titled"}
        BY <1>1, <2>1, <3>2, QueueSteps
      <4>2. item.do = "erase" /\ item.w = w
        BY <2>1, <3>2, <4>1, QueueLonger DEF Shape
      <4> QED
        BY <4>1, <4>2
    <3> QED
      BY <3>1, <3>2
  <2>2. ASSUME Queued(work_queue', "clear", NoWindow)
        PROVE  Stopping
    <3>1. CASE Queued(work_queue, "clear", NoWindow)
      BY <3>1 DEF AnswerInv
    <3>2. CASE ~Queued(work_queue, "clear", NoWindow)
      <4>1. PICK item \in WorkItems :
               work_queue' = Append(work_queue, item) /\ (item.do = "clear" => stopping # <<>>)
        BY <1>1, <2>2, <3>2, QueueSteps
      <4>2. item.do = "clear"
        BY <2>2, <3>2, <4>1, QueueLonger DEF Shape
      <4> QED
        BY <4>1, <4>2 DEF Stopping
    <3> QED
      BY <3>1, <3>2
  <2>3. AnswersFindData'
    <3> SUFFICES ASSUME NEW w \in Windows, request'[w] \in {"sent", "placed", "refused"}, ~Stopping'
                 PROVE  w \in DOMAIN data'
      BY DEF AnswersFindData
    <3>1. request[w] \in {"sent", "placed", "refused"} /\ ~Stopping
      BY <1>0, <1>1, ForwardSteps
    <3> QED
      BY <1>1, <3>1, ForwardSteps DEF AnswerInv, AnswersFindData
  <2> QED
    BY <1>0, <2>1, <2>2, <2>3 DEF AnswerInv, Queued
<1>2. CASE do_work
  <2> DEFINE work == Head(work_queue)
  <2>1. /\ work_queue \in Seq(WorkItems) /\ work_queue # <<>> /\ work_queue' = Tail(work_queue)
    BY <1>2 DEF do_work, Shape
  <2>2. \A do, x : Queued(work_queue', do, x) => Queued(work_queue, do, x)
    BY <2>1, QueueShorter
  <2>3. Queued(work_queue, work.do, work.w)
    <3>1. 1 \in DOMAIN work_queue /\ Head(work_queue) = work_queue[1]
      BY <2>1, EmptySeq, LenProperties
    <3> QED
      BY <3>1 DEF Queued
  <2>4. Queued(work_queue', "clear", NoWindow) => Stopping'
    BY <1>0, <2>2 DEF AnswerInv
  <2>5. CASE work.do = "create"
    <3>1. work.w \in Windows /\ create_titlebar(work.w)
      BY <1>2, <2>1, <2>5, FirstWork DEF do_work
    <3>2. request[work.w] = "none"
      BY <2>3, <2>5, <3>1 DEF CreateInv
    <3>3. \A x \in Windows : request'[x] = IF x = work.w THEN "sent" ELSE request[x]
      BY <3>1 DEF create_titlebar, Shape
    <3>4. DOMAIN data' = DOMAIN data \cup {work.w}
      BY <3>1 DEF create_titlebar
    <3>5. \A w \in Windows : Queued(work_queue', "erase", w) => request'[w] \in {"inserting", "titled"}
      BY <2>2, <3>2, <3>3 DEF AnswerInv
    <3>6. AnswersFindData'
      BY <1>0, <3>3, <3>4 DEF AnswerInv, AnswersFindData
    <3> QED
      BY <2>4, <3>5, <3>6 DEF AnswerInv, Queued
  <2>6. CASE work.do # "create"
    <3>1. request' = request
      BY <1>2, <2>6 DEF do_work, paint_surface, release_titlebar, erase_data
    <3>2. \A w \in Windows : Queued(work_queue', "erase", w) => request'[w] \in {"inserting", "titled"}
      BY <2>2, <3>1 DEF AnswerInv
    <3>3. CASE work.do = "erase"
      <4>1. work.w \in Windows /\ erase_data({work.w})
        BY <1>2, <2>1, <3>3, FirstWork DEF do_work
      <4>2. request[work.w] \in {"inserting", "titled"}
        BY <2>3, <3>3, <4>1 DEF AnswerInv
      <4>3. DOMAIN data' = DOMAIN data \ {work.w}
        BY <4>1 DEF erase_data
      <4>4. AnswersFindData'
        BY <1>0, <3>1, <4>2, <4>3 DEF AnswerInv, AnswersFindData
      <4> QED
        BY <2>4, <3>2, <4>4 DEF AnswerInv, Queued
    <3>4. CASE work.do = "clear"
      <4>1. work.w = NoWindow
        BY <2>1, <3>4, FirstWork DEF WorkItems, WindowWork, StopItems
      <4>2. Stopping'
        BY <1>0, <2>3, <3>4, <4>1 DEF AnswerInv
      <4>3. AnswersFindData'
        BY <4>2 DEF AnswersFindData
      <4> QED
        BY <2>4, <3>2, <4>3 DEF AnswerInv, Queued
    <3>5. CASE work.do \in {"paint", "release", "disconnect", "done"}
      <4>1. data' = data
        BY <1>2, <3>5 DEF do_work, paint_surface, release_titlebar
      <4>2. AnswersFindData'
        BY <1>0, <3>1, <4>1 DEF AnswerInv, AnswersFindData
      <4> QED
        BY <2>4, <3>2, <4>2 DEF AnswerInv, Queued
    <3> QED
      BY <2>1, <2>6, <3>3, <3>4, <3>5, FirstWork DEF WorkItems, WindowWork, StopItems
  <2> QED
    BY <2>5, <2>6
<1> QED
  BY <1>1, <1>2

\* The answer to a request for a titlebar finds the Data whose address went
\* out with it, also when the window has been closed meanwhile, until stop().
THEOREM DecorationsAnswered == Spec => []AnswersFindData
<1>1. Init => AnswerInv
  BY DEF Init, AnswerInv, AnswersFindData, Queued
<1>2. Shape /\ CreateInv /\ OwnerInv /\ AnswerInv /\ [Next]_vars
      => (Shape /\ CreateInv /\ OwnerInv /\ AnswerInv)'
  BY ShapeKept, OwnersKept, AnswersKept
<1>3. AnswerInv => AnswersFindData
  BY DEF AnswerInv
<1> QED
  BY <1>1, <1>2, <1>3, ShapeInitially, OwnersInitially, PTL DEF Spec
-----------------------------------------------------------------------------
(* Paints.                                                                 *)

\* Paints come before whatever releases the titlebar.
Ordered(queue) ==
    \A i, j \in DOMAIN queue :
        queue[i].do = "paint" /\ queue[j].do \in {"release", "erase"} /\ queue[i].w = queue[j].w
        => i < j

\* The window manager destroys a titlebar first thing when the window has gone,
\* and asks for nothing else of a window that is not open.
CallsInv ==
    /\ active # NoWindow => window[active] = "open"
    /\ \A i \in DOMAIN calls :
        window[calls[i].w] = (IF calls[i].op = "destroy" THEN "gone" ELSE "open")
    /\ \A w \in DOMAIN data : data[w].on_create = "erase" => window[w] = "gone"

\* The titlebar has been released, or its release or its Data's end is queued.
Finished(w) ==
    w \in released \/ Queued(work_queue, "release", w) \/ Queued(work_queue, "erase", w)

\* A titlebar is finished with when its window has gone and the answer to its
\* request has come, so that nothing is left that could have it painted.
PaintInv ==
    /\ Ordered(work_queue)
    /\ \A w \in Windows :
        /\ Finished(w) => window[w] = "gone" /\ request[w] \in {"inserting", "titled"}
        /\ w \in released => ~Queued(work_queue, "paint", w)

LEMMA OrderedLonger ==
    ASSUME NEW S, NEW q \in Seq(S), NEW e \in S, Ordered(q),
           e.do = "paint" => ~Queued(q, "release", e.w) /\ ~Queued(q, "erase", e.w)
    PROVE  Ordered(Append(q, e))
<1> DEFINE long == Append(q, e)
           last == Len(q) + 1
<1>1. /\ Len(q) \in Nat /\ DOMAIN q = 1..Len(q)
      /\ \A i \in 1..Len(q) : long[i] = q[i] /\ i < last
      /\ long[last] = e
  OBVIOUS
<1>2. DOMAIN long = DOMAIN q \cup {last}
  OBVIOUS
<1> HIDE DEF long, last
<1> SUFFICES ASSUME NEW i \in DOMAIN long, NEW j \in DOMAIN long,
                    long[i].do = "paint", long[j].do \in {"release", "erase"}, long[i].w = long[j].w
             PROVE  i < j
  BY DEF Ordered, long
<1>3. CASE i \in DOMAIN q /\ j \in DOMAIN q
  BY <1>1, <1>3 DEF Ordered
<1>4. CASE i \in DOMAIN q /\ j = last
  BY <1>1, <1>4
<1>5. CASE i = last /\ j \in DOMAIN q
  BY <1>1, <1>5 DEF Queued
<1>6. CASE i = last /\ j = last
  BY <1>6
<1> QED
  BY <1>2, <1>3, <1>4, <1>5, <1>6

LEMMA OrderedShorter ==
    ASSUME NEW S, NEW q \in Seq(S), q # <<>>, Ordered(q)
    PROVE  /\ Ordered(Tail(q))
           /\ Head(q).do \in {"release", "erase"} => ~Queued(Tail(q), "paint", Head(q).w)
<1>1. /\ Tail(q) \in Seq(S) /\ Len(Tail(q)) = Len(q) - 1
      /\ \A i \in 1..Len(Tail(q)) : Tail(q)[i] = q[i + 1]
  BY HeadTailProperties
<1>2. DOMAIN q = 1..Len(q) /\ DOMAIN Tail(q) = 1..Len(q) - 1 /\ Len(q) \in Nat \ {0}
  BY <1>1, LenProperties, EmptySeq
<1>3. Head(q) = q[1] /\ 1 \in DOMAIN q
  BY <1>2
<1>4. \A i \in DOMAIN Tail(q) : i + 1 \in DOMAIN q /\ ~(i + 1 < 1) /\ Tail(q)[i] = q[i + 1]
  BY <1>1, <1>2
<1>5. \A i, j \in DOMAIN Tail(q) : i + 1 < j + 1 => i < j
  BY <1>2
<1>6. Ordered(Tail(q))
  BY <1>4, <1>5 DEF Ordered
<1>7. Head(q).do \in {"release", "erase"} => ~Queued(Tail(q), "paint", Head(q).w)
  BY <1>3, <1>4 DEF Ordered, Queued
<1> QED
  BY <1>6, <1>7

\* Which window a call the window manager makes for the focus is about.
LEMMA FocusCallsOf ==
    ASSUME NEW from \in Windows \cup {NoWindow}, NEW to \in Windows \cup {NoWindow}
    PROVE  \A i \in DOMAIN FocusCalls(from, to) :
              LET call == FocusCalls(from, to)[i]
              IN  call.op = "paint" /\ call.w \in {from, to} \ {NoWindow}
<1>1. CASE from = NoWindow /\ to = NoWindow
  BY <1>1 DEF FocusCalls
<1>2. CASE from = NoWindow /\ to # NoWindow
  BY <1>2 DEF FocusCalls, Call
<1>3. CASE from # NoWindow /\ to = NoWindow
  BY <1>3 DEF FocusCalls, Call
<1>4. CASE from # NoWindow /\ to # NoWindow
  BY <1>4 DEF FocusCalls, Call
<1> QED
  BY <1>1, <1>2, <1>3, <1>4

LEMMA FirstAndRest ==
    ASSUME NEW S, NEW first \in Seq(S), Len(first) = 1, NEW rest \in Seq(S)
    PROVE  \A i \in DOMAIN (first \o rest) :
              (first \o rest)[i] = first[1] \/ \E j \in DOMAIN rest : (first \o rest)[i] = rest[j]
<1> DEFINE all == first \o rest
<1>1. all \in Seq(S) /\ Len(all) = Len(first) + Len(rest)
      /\ \A i \in 1..(Len(first) + Len(rest)) :
            all[i] = IF i <= Len(first) THEN first[i] ELSE rest[i - Len(first)]
  BY ConcatProperties, Zenon
<1> HIDE DEF all
<1>2. DOMAIN all = 1..(1 + Len(rest)) /\ DOMAIN rest = 1..Len(rest) /\ Len(rest) \in Nat
  BY <1>1, LenProperties
<1> QED BY <1>1, <1>2 DEF all

\* The calls after the first are left.
LEMMA CallsShorter ==
    ASSUME Shape, calls # <<>>
    PROVE  /\ \A i \in DOMAIN Tail(calls) : i + 1 \in DOMAIN calls /\ Tail(calls)[i] = calls[i + 1]
           /\ 1 \in DOMAIN calls /\ Head(calls) = calls[1]
<1>1. calls \in Seq(CallItems)
  BY DEF Shape
<1> QED
  BY <1>1

LEMMA CallsInvKept ==
    ASSUME Shape, Shape', CallsInv, CreateInv, [Next]_vars
    PROVE  CallsInv'
<1> DEFINE Fits(call) == window'[call.w] = (IF call.op = "destroy" THEN "gone" ELSE "open")
<1>1. CASE UNCHANGED <<active, window, calls>> /\ DOMAIN data' \subseteq DOMAIN data
           /\ \A w \in DOMAIN data' : data'[w].on_create = data[w].on_create
  BY <1>1 DEF CallsInv
<1>2. ASSUME NEW w \in Windows, open_window(w) PROVE CallsInv'
  <2>1. /\ window'[w] = "open" /\ window[w] = "unborn" /\ data' = data /\ active' = w
        /\ \A x \in Windows : x # w => window'[x] = window[x]
        /\ calls' = FocusCalls(active, w) /\ active \in Windows \cup {NoWindow}
    BY <1>2 DEF open_window, Shape
  <2>2. \A x \in {active, w} \ {NoWindow} : window'[x] = "open"
    BY <2>1 DEF CallsInv
  <2>3. \A i \in DOMAIN calls' : calls'[i].op = "paint" /\ calls'[i].w \in {active, w} \ {NoWindow}
    BY <2>1, FocusCallsOf
  <2>4. \A x \in DOMAIN data' : x \in Windows
    BY DEF Shape
  <2> QED
    BY <2>1, <2>2, <2>3, <2>4 DEF CallsInv
<1>3. ASSUME NEW w \in Windows, change_focus(w) PROVE CallsInv'
  <2>1. /\ window' = window /\ window[w] = "open" /\ data' = data /\ active' = w
        /\ calls' = FocusCalls(active, w) /\ active \in Windows \cup {NoWindow}
    BY <1>3 DEF change_focus, Shape
  <2>2. \A i \in DOMAIN calls' : calls'[i].op = "paint" /\ calls'[i].w \in {active, w} \ {NoWindow}
    BY <2>1, FocusCallsOf
  <2> QED
    BY <2>1, <2>2 DEF CallsInv
<1>4. ASSUME NEW w \in Windows, change_window(w) PROVE CallsInv'
  BY <1>4 DEF change_window, CallsInv, Call
<1>5. ASSUME NEW w \in Windows, close_window(w) PROVE CallsInv'
  <2> DEFINE first == <<Call("destroy", w, "dim")>>
  <2>1. /\ window'[w] = "gone" /\ window[w] = "open" /\ data' = data
        /\ \A x \in Windows : x # w => window'[x] = window[x]
    BY <1>5 DEF close_window, Shape
  <2>2. PICK rest : /\ calls' = first \o rest
                    /\ rest = <<>> \/ rest = FocusCalls(NoWindow, active')
    BY <1>5 DEF close_window
  <2>3. active' # NoWindow => active' # w /\ window'[active'] = "open" /\ active' \in Windows
    BY <1>5, <2>1 DEF close_window, CallsInv, Shape
  <2>4. /\ rest \in Seq(CallItems)
        /\ \A i \in DOMAIN rest : rest[i].op = "paint" /\ rest[i].w \in {active'} \ {NoWindow}
    <3>1. CASE rest = <<>>
      BY <3>1
    <3>2. CASE rest = FocusCalls(NoWindow, active')
      <4>1. active' \in Windows \cup {NoWindow}
        BY <2>3
      <4> QED BY <3>2, <4>1, FocusCallsOf, FocusCallsShape
    <3> QED BY <2>2, <3>1, <3>2
  <2>5. first \in Seq(CallItems) /\ Len(first) = 1 /\ first[1].op = "destroy" /\ first[1].w = w
    BY DEF Call, CallItems, Intensities
  <2> HIDE DEF first
  <2>6. \A i \in DOMAIN calls' :
           calls'[i] = first[1] \/ \E j \in DOMAIN rest : calls'[i] = rest[j]
    BY <2>2, <2>4, <2>5, FirstAndRest
  <2>7. \A i \in DOMAIN calls' : Fits(calls'[i])
    BY <2>1, <2>3, <2>4, <2>5, <2>6
  <2>8. \A x \in DOMAIN data' : x \in Windows
    BY DEF Shape
  <2> QED
    BY <2>1, <2>3, <2>7, <2>8 DEF CallsInv
<1>6. CASE call_find
  <2> DEFINE call == Head(calls)
             w    == call.w
             read == [call EXCEPT !.surface =
                        IF w \in DOMAIN data /\ data[w].titlebar THEN "set" ELSE "null"]
             kept == IF w \in DOMAIN data THEN <<read>> ELSE <<>>
  <2>1. /\ calls # <<>> /\ calls' = kept \o Tail(calls) /\ UNCHANGED <<window, active>>
        /\ data' = [x \in DOMAIN data |-> IF x = w THEN FirstLook(data[w], call) ELSE data[x]]
    BY <1>6 DEF call_find
  <2>2. call \in CallItems /\ read \in CallItems /\ read.op = call.op /\ read.w = w
        /\ Tail(calls) \in Seq(CallItems)
    BY <2>1, FirstCall DEF CallItems
  <2> HIDE DEF read
  <2>3. \A i \in DOMAIN calls' : calls'[i] = read \/ \E j \in DOMAIN Tail(calls) : calls'[i] = Tail(calls)[j]
    BY <2>1, <2>2
  <2>4. \A i \in DOMAIN calls' : Fits(calls'[i])
    BY <2>1, <2>2, <2>3, CallsShorter DEF CallsInv
  <2>5. \A x \in DOMAIN data' : data'[x].on_create = data[x].on_create
    BY <2>1 DEF FirstLook, Shape, DataItems
  <2> QED
    BY <2>1, <2>4, <2>5 DEF CallsInv
<1>7. CASE call_act
  <2> DEFINE call  == Head(calls)
             w     == call.w
             after == Remainder(data[w], work_queue, call)
  <2>1. calls # <<>> /\ calls' = Tail(calls) /\ UNCHANGED <<window, active>> /\ call \in CallItems
    BY <1>7, FirstCall DEF call_act
  <2>2. \A i \in DOMAIN calls' : Fits(calls'[i])
    BY <2>1, CallsShorter DEF CallsInv
  <2>3. CASE w \notin DOMAIN data
    BY <1>7, <2>1, <2>2, <2>3 DEF call_act, CallsInv
  <2>4. CASE w \in DOMAIN data
    <3>1. data' = [data EXCEPT ![w] = after[1]] /\ data[w] \in DataItems
      BY <1>7, <2>4 DEF call_act, Shape
    <3>2. after[1].on_create = "erase" => data[w].on_create = "erase" \/ call.op = "destroy"
      BY <3>1 DEF Remainder, DataItems
    <3>3. call.op = "destroy" => window[w] = "gone"
      BY <2>1, CallsShorter DEF CallsInv
    <3> QED
      BY <2>1, <2>2, <3>1, <3>2, <3>3 DEF CallsInv
  <2> QED
    BY <2>3, <2>4
<1>8. ASSUME NEW w \in Windows, place_titlebar(w) PROVE CallsInv'
  <2>1. CASE window[w] = "open"
    <3>1. /\ calls' = <<Call("paint", w, Wanted(w))>> /\ UNCHANGED <<window, active>>
          /\ data' = [x \in DOMAIN data \cup {w} |->
                         IF x # w THEN data[x]
                         ELSE [(IF w \in DOMAIN data THEN data[w] ELSE NewData)
                               EXCEPT !.window = TRUE]]
      BY <1>8, <2>1 DEF place_titlebar
    <3>2. data'[w].on_create = (IF w \in DOMAIN data THEN data[w].on_create ELSE "nothing")
      BY <3>1 DEF Shape, DataItems, NewData
    <3>3. \A x \in DOMAIN data' : data'[x].on_create = "erase" => window'[x] = "gone"
      <4>1. \A x \in DOMAIN data : data[x].on_create = "erase" => window'[x] = "gone"
        BY <3>1 DEF CallsInv
      <4>2. \A x \in DOMAIN data' : x # w => x \in DOMAIN data /\ data'[x] = data[x]
        BY <3>1
      <4> QED BY <3>2, <4>1, <4>2
    <3>4. DOMAIN calls' = {1} /\ calls'[1].w = w /\ calls'[1].op = "paint"
      BY <3>1 DEF Call
    <3> QED
      BY <2>1, <3>1, <3>3, <3>4 DEF CallsInv
  <2>2. CASE window[w] # "open"
    BY <1>1, <1>8, <2>2 DEF place_titlebar
  <2> QED
    BY <2>1, <2>2
<1>9. ASSUME NEW w \in Windows, insert_on_create(w) \/ insert_titlebar(w) PROVE CallsInv'
  <2>1. UNCHANGED <<active, window, calls>> /\ DOMAIN data' = DOMAIN data
    BY <1>9 DEF insert_on_create, insert_titlebar
  <2>2. \A x \in DOMAIN data' : data'[x].on_create = data[x].on_create
    BY <1>9 DEF insert_on_create, insert_titlebar, Shape, DataItems
  <2> QED
    BY <1>1, <2>1, <2>2
<1>10. CASE do_work
  <2>1. UNCHANGED <<active, window, calls>>
    BY <1>10 DEF do_work
  <2>2. \A x \in DOMAIN data' : data'[x].on_create = "erase"
                                => x \in DOMAIN data /\ data[x].on_create = "erase"
    BY <1>10 DEF do_work, create_titlebar, paint_surface, release_titlebar, erase_data, NewData
  <2> QED
    BY <2>1, <2>2 DEF CallsInv
<1>11. CASE stop_begin \/ stop_enqueue \/ finished \/ UNCHANGED vars
  BY <1>1, <1>11 DEF stop_begin, stop_enqueue, finished, vars
<1> QED
  BY <1>2, <1>3, <1>4, <1>5, <1>6, <1>7, <1>8, <1>9, <1>10, <1>11 DEF Next


\* What a step adds to the queue of a window: the end of a titlebar for one
\* that has gone, a paint for one that is open or has just been answered.
LEMMA PaintSteps ==
    ASSUME Shape, Shape', OwnerInv, CallsInv, [Next]_vars, ~do_work
    PROVE  \/ work_queue' = work_queue
           \/ \E item \in WorkItems :
                /\ work_queue' = Append(work_queue, item)
                /\ item.do \in {"release", "erase"} =>
                     window'[item.w] = "gone" /\ request'[item.w] \in {"inserting", "titled"}
                /\ item.do = "paint" =>
                     window[item.w] = "open" \/ request[item.w] \in {"placed", "refused"}
<1> DEFINE Adds(item) ==
       /\ work_queue' = Append(work_queue, item)
       /\ item.do \in {"release", "erase"} =>
            window'[item.w] = "gone" /\ request'[item.w] \in {"inserting", "titled"}
       /\ item.do = "paint" =>
            window[item.w] = "open" \/ request[item.w] \in {"placed", "refused"}
       Queues == work_queue' = work_queue \/ \E item \in WorkItems : Adds(item)
<1> SUFFICES Queues
  OBVIOUS
<1>1. ASSUME NEW w \in Windows, open_window(w)
      PROVE  \E item \in WorkItems : Adds(item)
  <2>1. work_queue' = Append(work_queue, Work("create", w, "dim"))
    BY <1>1 DEF open_window
  <2>2. Work("create", w, "dim") \in WorkItems /\ Work("create", w, "dim").do = "create"
    BY WorkShape DEF Intensities, Work
  <2> QED
    BY <2>1, <2>2
<1>2. CASE call_find
  <2> DEFINE w    == Head(calls).w
             item == Work("release", w, "dim")
  <2>1. Head(calls) \in CallItems /\ w \in Windows /\ UNCHANGED <<window, request>>
    BY <1>2, FirstCall DEF call_find
  <2>2. CASE Head(calls).op = "destroy" /\ w \in DOMAIN data /\ data[w].titlebar
    <3>1. work_queue' = Append(work_queue, item)
      BY <1>2, <2>2 DEF call_find, ReleasedLast
    <3>2. window[w] = "gone"
      BY <1>2, <2>2, CallsShorter DEF call_find, CallsInv
    <3>3. request[w] = "titled"
      BY <2>1, <2>2 DEF OwnerInv, Titlebar
    <3>4. item \in WorkItems /\ item.do = "release" /\ item.w = w
      BY <2>1, WorkShape DEF Intensities, Work
    <3> HIDE DEF item, w
    <3>5. Adds(item)
      BY <2>1, <3>1, <3>2, <3>3, <3>4
    <3> QED
      BY <3>4, <3>5
  <2>3. CASE ~(Head(calls).op = "destroy" /\ w \in DOMAIN data /\ data[w].titlebar)
    BY <1>2, <2>3 DEF call_find
  <2> QED
    BY <2>2, <2>3
<1>3. CASE call_act
  <2> DEFINE call  == Head(calls)
             w     == call.w
             after == Remainder(data[w], work_queue, call)
  <2>1. call \in CallItems /\ w \in Windows /\ UNCHANGED <<window, request>>
    BY <1>3, FirstCall DEF call_act
  <2>2. CASE w \notin DOMAIN data
    BY <1>3, <2>2 DEF call_act
  <2>3. CASE w \in DOMAIN data
    <3>1. work_queue' = after[2] /\ data[w] \in DataItems
      BY <1>3, <2>3 DEF call_act, Shape
    <3>2. CASE call.op = "destroy" /\ data[w].titlebar
      <4> DEFINE item == Work("erase", w, "dim")
      <4>1. work_queue' = Append(work_queue, item)
        BY <3>1, <3>2 DEF Remainder
      <4>2. window[w] = "gone"
        BY <1>3, <3>2, CallsShorter DEF call_act, CallsInv
      <4>3. request[w] = "titled"
        BY <2>1, <2>3, <3>2 DEF OwnerInv, Titlebar
      <4>4. item \in WorkItems /\ item.do = "erase" /\ item.w = w
        BY <2>1, WorkShape DEF Intensities, Work
      <4> HIDE DEF item, w
      <4>5. Adds(item)
        BY <2>1, <4>1, <4>2, <4>3, <4>4
      <4> QED
        BY <4>4, <4>5
    <3>3. CASE call.op # "destroy" /\ call.surface = "set"
      <4> DEFINE item == Work("paint", w, data[w].intensity)
      <4>1. work_queue' = Append(work_queue, item)
        BY <3>1, <3>3 DEF Remainder
      <4>2. window[w] = "open"
        BY <1>3, <3>3, CallsShorter DEF call_act, CallsInv
      <4>3. item \in WorkItems /\ item.do = "paint" /\ item.w = w
        BY <2>1, <3>1, WorkShape DEF DataItems, Work
      <4> HIDE DEF item, w
      <4>4. Adds(item)
        BY <2>1, <4>1, <4>2, <4>3
      <4> QED
        BY <4>3, <4>4
    <3>4. CASE ~(call.op = "destroy" /\ data[w].titlebar) /\ ~(call.op # "destroy" /\ call.surface = "set")
      BY <3>1, <3>4 DEF Remainder
    <3> QED
      BY <3>2, <3>3, <3>4
  <2> QED
    BY <2>2, <2>3
<1>4. ASSUME NEW w \in Windows, insert_on_create(w)
      PROVE  work_queue' = work_queue \/ \E item \in WorkItems : Adds(item)
  <2>1. CASE w \in DOMAIN data /\ data[w].on_create # "nothing"
    <3> DEFINE item == Work(data[w].on_create, w, data[w].intensity)
    <3>1. /\ work_queue' = Append(work_queue, item) /\ request'[w] = "inserting"
          /\ request[w] \in {"placed", "refused"} /\ window' = window
      BY <1>4, <2>1 DEF insert_on_create, Shape
    <3>2. data[w].on_create \in {"paint", "erase"} /\ data[w].intensity \in Intensities
      BY <2>1 DEF Shape, DataItems
    <3>3. item \in WorkItems /\ item.do = data[w].on_create /\ item.w = w
      BY <3>2, WorkShape DEF Work
    <3>4. data[w].on_create = "erase" => window[w] = "gone"
      BY <2>1 DEF CallsInv
    <3> HIDE DEF item
    <3>5. Adds(item)
      BY <3>1, <3>2, <3>3, <3>4
    <3> QED
      BY <3>3, <3>5
  <2>2. CASE ~(w \in DOMAIN data /\ data[w].on_create # "nothing")
    BY <1>4, <2>2 DEF insert_on_create
  <2> QED
    BY <2>1, <2>2
<1>5. CASE stop_enqueue
  <2> DEFINE item == Work(Head(stopping), NoWindow, "dim")
  <2>1. Head(stopping) \in {"clear", "disconnect", "done"} /\ stopping # <<>>
    BY <1>5, StopStep DEF stop_enqueue, Shape
  <2>2. item \in WorkItems /\ item.do \in {"clear", "disconnect", "done"}
    BY <2>1 DEF Work, WorkItems, StopItems, Intensities
  <2>3. work_queue' = Append(work_queue, item)
    BY <1>5 DEF stop_enqueue
  <2> HIDE DEF item
  <2> QED
    BY <2>1, <2>2, <2>3
<1>6. ASSUME NEW w \in Windows,
             change_focus(w) \/ change_window(w) \/ close_window(w) \/ place_titlebar(w)
             \/ insert_titlebar(w)
      PROVE  work_queue' = work_queue
  BY <1>6 DEF change_focus, change_window, close_window, place_titlebar, insert_titlebar
<1>7. CASE stop_begin \/ finished \/ UNCHANGED vars
  BY <1>7 DEF stop_begin, finished, vars
<1>8. (\E item \in WorkItems : Adds(item)) => Queues
  OBVIOUS
<1>9. work_queue' = work_queue => Queues
  OBVIOUS
<1> HIDE DEF Adds, Queues
<1> QED
  BY <1>1, <1>2, <1>3, <1>4, <1>5, <1>6, <1>7, <1>8, <1>9 DEF Next

\* A window that has gone stays so.
LEMMA GoneForGood ==
    ASSUME Shape, [Next]_vars, NEW w \in Windows, window[w] = "gone"
    PROVE  window'[w] = "gone"
<1>1. CASE window' = window
  BY <1>1
<1>2. ASSUME NEW x \in Windows, open_window(x) \/ close_window(x)
      PROVE  window'[w] = "gone"
  BY <1>2 DEF open_window, close_window, Shape
<1>3. CASE \E x \in Windows : change_focus(x) \/ change_window(x)
                            \/ place_titlebar(x) \/ insert_on_create(x) \/ insert_titlebar(x)
  BY <1>1, <1>3 DEF change_focus, change_window, place_titlebar, insert_on_create, insert_titlebar
<1>4. CASE call_find \/ call_act \/ do_work \/ stop_begin \/ stop_enqueue \/ finished \/ UNCHANGED vars
  BY <1>1, <1>4 DEF call_find, call_act, do_work, stop_begin, stop_enqueue, finished, vars
<1> QED
  BY <1>2, <1>3, <1>4 DEF Next

LEMMA PaintsKept ==
    ASSUME Shape, Shape', CreateInv, OwnerInv, AnswerInv, CallsInv, [Next]_vars,
           Stopping \/ PaintInv
    PROVE  Stopping' \/ PaintInv'
<1>1. CASE Stopping
  BY <1>1, StoppingStays
<1>2. CASE PaintInv /\ ~Stopping /\ ~do_work
  <2>1. ASSUME NEW w \in Windows, Finished(w)
        PROVE  window'[w] = "gone" /\ request'[w] \in {"inserting", "titled"}
    BY <1>2, <2>1, GoneForGood, ForwardSteps DEF PaintInv
  <2>2. released' = released
    BY <1>2 DEF Next, open_window, change_focus, change_window, close_window, call_find, call_act,
                place_titlebar, insert_on_create, insert_titlebar, stop_begin, stop_enqueue,
                finished, vars
  <2>3. CASE work_queue' = work_queue
    BY <1>2, <2>1, <2>2, <2>3 DEF PaintInv, Finished, Queued
  <2>4. ASSUME NEW item \in WorkItems,
               work_queue' = Append(work_queue, item),
               item.do \in {"release", "erase"} =>
                   window'[item.w] = "gone" /\ request'[item.w] \in {"inserting", "titled"},
               item.do = "paint" =>
                   window[item.w] = "open" \/ request[item.w] \in {"placed", "refused"}
        PROVE  PaintInv'
    <3>1. \A do, w : Queued(work_queue', do, w) <=> Queued(work_queue, do, w) \/ (item.do = do /\ item.w = w)
      BY <2>4, QueueLonger DEF Shape
    <3>2. item.do \in {"create", "paint", "release", "erase"} => item.w \in Windows
      BY DEF WorkItems, WindowWork, StopItems
    <3>3. item.do = "paint" => ~Finished(item.w)
      BY <1>2, <2>4, <3>2 DEF PaintInv
    <3>4. Ordered(work_queue')
      BY <1>2, <2>4, <3>3, OrderedLonger DEF PaintInv, Finished, Shape
    <3>5. ASSUME NEW w \in Windows
          PROVE  /\ Finished(w)' => window'[w] = "gone" /\ request'[w] \in {"inserting", "titled"}
                 /\ w \in released' => ~Queued(work_queue', "paint", w)
      <4>0. Finished(w)' <=> \/ w \in released' \/ Queued(work_queue', "release", w)
                             \/ Queued(work_queue', "erase", w)
        BY DEF Finished, Queued
      <4>1. Finished(w)' => Finished(w) \/ (item.do \in {"release", "erase"} /\ item.w = w)
        BY <2>2, <3>1, <4>0 DEF Finished
      <4>2. w \in released' => ~Queued(work_queue', "paint", w)
        BY <1>2, <2>2, <3>1, <3>3 DEF PaintInv, Finished
      <4> QED
        BY <2>1, <2>4, <4>1, <4>2
    <3> QED
      BY <3>4, <3>5 DEF PaintInv, Ordered, Queued
  <2> QED
    BY <1>2, <2>3, <2>4, PaintSteps
<1>3. CASE PaintInv /\ ~Stopping /\ do_work
  <2> DEFINE work == Head(work_queue)
  <2>1. work_queue \in Seq(WorkItems) /\ work_queue # <<>> /\ work_queue' = Tail(work_queue)
    BY <1>3 DEF do_work, Shape
  <2>2. \A do, x : Queued(work_queue', do, x) => Queued(work_queue, do, x)
    BY <2>1, QueueShorter
  <2>3. Queued(work_queue, work.do, work.w)
    <3>1. 1 \in DOMAIN work_queue /\ Head(work_queue) = work_queue[1]
      BY <2>1, EmptySeq, LenProperties
    <3> QED
      BY <3>1 DEF Queued
  <2>4. /\ Ordered(work_queue')
        /\ work.do \in {"release", "erase"} => ~Queued(work_queue', "paint", work.w)
    BY <1>3, <2>1, OrderedShorter DEF PaintInv
  <2>5. window' = window /\ \A w \in Windows : request[w] # "none" => request'[w] = request[w]
    <3>1. window' = window
      BY <1>3 DEF do_work
    <3>2. CASE work.do = "create"
      <4>1. work.w \in Windows /\ create_titlebar(work.w)
        BY <1>3, <2>1, <3>2, FirstWork DEF do_work
      <4>2. request[work.w] = "none"
        BY <2>3, <3>2, <4>1 DEF CreateInv
      <4> QED
        BY <3>1, <4>1, <4>2 DEF create_titlebar, Shape
    <3>3. CASE work.do # "create"
      BY <1>3, <3>1, <3>3 DEF do_work, paint_surface, release_titlebar, erase_data
    <3> QED
      BY <3>2, <3>3
  <2>6. work.do # "clear"
    <3>1. work.do = "clear" => work.w = NoWindow
      BY <2>1, FirstWork DEF WorkItems, WindowWork, StopItems
    <3> QED
      BY <1>3, <2>3, <3>1 DEF AnswerInv
  <2>7. \A w \in released' : w \in released \/ (work.do \in {"release", "erase"} /\ w = work.w)
    BY <1>3, <2>6 DEF do_work, create_titlebar, paint_surface, release_titlebar, erase_data
  <2>8. ASSUME NEW w \in Windows
        PROVE  /\ Finished(w)' => window'[w] = "gone" /\ request'[w] \in {"inserting", "titled"}
               /\ w \in released' => ~Queued(work_queue', "paint", w)
    <3>1. Finished(w)' => Finished(w)
      BY <2>2, <2>3, <2>7 DEF Finished, Queued
    <3>2. Finished(w)' => window'[w] = "gone" /\ request'[w] \in {"inserting", "titled"}
      BY <1>3, <2>5, <3>1 DEF PaintInv
    <3>3. w \in released' => ~Queued(work_queue', "paint", w)
      BY <1>3, <2>2, <2>4, <2>7 DEF PaintInv
    <3> QED
      BY <3>2, <3>3
  <2> QED
    BY <2>4, <2>8 DEF PaintInv, Ordered, Queued
<1> QED
  BY <1>1, <1>2, <1>3

\* Whatever is asked of a titlebar reaches the worker before its release: until
\* the shell stops, no queued paint is for a titlebar that Mir has got back, or
\* comes after its release.
THEOREM DecorationsPaintLive == Spec => []PaintsLive
<1> DEFINE IInv == Shape /\ CreateInv /\ OwnerInv /\ AnswerInv /\ CallsInv /\ (Stopping \/ PaintInv)
<1>1. Init => IInv
  <2>1. Init => CallsInv /\ PaintInv /\ AnswerInv
    BY DEF Init, CallsInv, PaintInv, Ordered, Finished, AnswerInv, AnswersFindData, Queued
  <2> QED
    BY <2>1, ShapeInitially, OwnersInitially
<1>2. IInv /\ [Next]_vars => IInv'
  BY ShapeKept, OwnersKept, AnswersKept, CallsInvKept, PaintsKept
<1>3. IInv => PaintsLive
  <2> SUFFICES ASSUME Shape, PaintInv, ~Stopping, NEW i \in DOMAIN work_queue,
                      work_queue[i].do = "paint"
               PROVE  /\ work_queue[i].w \notin released
                      /\ \A j \in Releases(work_queue[i].w) : i < j
    BY DEF PaintsLive
  <2>1. work_queue[i].w \notin released
    BY DEF PaintInv, Queued, Shape
  <2>2. \A j \in Releases(work_queue[i].w) : i < j
    BY DEF PaintInv, Ordered, Releases
  <2> QED
    BY <2>1, <2>2
<1> QED
  BY <1>1, <1>2, <1>3, PTL DEF Spec
=============================================================================
