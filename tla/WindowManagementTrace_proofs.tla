--------------------- MODULE WindowManagementTrace_proofs ---------------------
(***************************************************************************)
(* What the trace shows, however calls nest, threads come in and calls     *)
(* fail: no input event that has gone is logged (log_input is a pointer    *)
(* that is good only while the event is handled), the events that are      *)
(* logged stand once and before the calls they led to, and the separators  *)
(* stand between the blocks.                                               *)
(***************************************************************************)
EXTENDS WindowManagementTrace, TLAPS, SequenceTheorems

\* From the moment the mutex is taken until it is free again log_input is
\* what advise_begin() or handle_event() has made it, or "nothing" again.
InputOfBlock == frames = <<>> \/ log_input \in {"nothing", cause}

\* Where log_input() is called it keeps to that.
LEMMA LoggingKeepsInput ==
    ASSUME NEW lines, InputLogged(lines), log_input \in {"nothing", cause}
    PROVE  log_input' \in {"nothing", cause}
BY DEF InputLogged

LEMMA RunningHasFrames ==
    ASSUME Top # "none"
    PROVE  frames # <<>>
BY DEF Top

LEMMA InputOfBlockKept ==
    ASSUME InputOfBlock, [Next]_vars
    PROVE  InputOfBlock'
<1>1. CASE WindowOperation
  BY <1>1 DEF WindowOperation, advise_begin, InputOfBlock
<1>2. CASE \E e \in Events : handle_event(e)
  BY <1>2 DEF handle_event, InputOfBlock
<1>3. CASE \E t \in Threads : invoke_under_lock(t)
  BY <1>3 DEF invoke_under_lock, InputOfBlock
<1>4. CASE \E t \in Threads : Callback(t)
  BY <1>4 DEF Callback, advise_begin, InputOfBlock
<1>5. CASE advise_end
  BY <1>5 DEF advise_end, InputOfBlock
<1>6. CASE Unlock
  BY <1>6 DEF Unlock, InputOfBlock
<1>7. CASE ToPolicy
  <2>1. frames # <<>>
    BY <1>7, RunningHasFrames DEF ToPolicy
  <2> QED
    BY <1>7, <2>1 DEF ToPolicy, InputOfBlock
<1>8. CASE place_new_window
  BY <1>8 DEF place_new_window, InputOfBlock
<1>9. CASE Query \/ Command
  <2>1. frames # <<>>
    BY <1>9, RunningHasFrames DEF Query, Command, PolicyRuns
  <2>2. log_input' \in {"nothing", cause}
    BY <1>9, <2>1, LoggingKeepsInput DEF Query, Command, InputOfBlock
  <2>3. cause' = cause
    BY <1>9 DEF Query, Command
  <2> QED
    BY <2>2, <2>3 DEF InputOfBlock
<1>10. CASE place_and_size_for_state
  <2>1. frames # <<>>
    BY <1>10, RunningHasFrames DEF place_and_size_for_state, PolicyRuns
  <2>2. log_input' \in {"nothing", cause}
    BY <1>10, <2>1, LoggingKeepsInput DEF place_and_size_for_state, InputOfBlock
  <2> QED
    BY <1>10, <2>2 DEF place_and_size_for_state, InputOfBlock
<1>11. CASE WorkspaceTool
  BY <1>11 DEF WorkspaceTool, InputOfBlock
<1>12. CASE Return
  <2>1. frames # <<>>
    BY <1>12 DEF Return
  <2> QED
    BY <1>12, <2>1 DEF Return, InputOfBlock
<1>13. CASE Fail
  <2>1. frames # <<>>
    BY <1>13, RunningHasFrames DEF Fail
  <2> QED
    BY <1>13, <2>1 DEF Fail, InputOfBlock
<1>14. CASE UNCHANGED vars
  BY <1>14 DEF vars, InputOfBlock
<1> QED
  BY <1>1, <1>2, <1>3, <1>4, <1>5, <1>6, <1>7, <1>8, <1>9, <1>10, <1>11, <1>12,
     <1>13, <1>14 DEF Next

\* Whenever policy code runs, in a handler, a callback or advise_end(), the
\* event that a call of a tool would log is the one being handled, or none.
THEOREM TraceInputCurrent == Spec => []InputCurrent
<1>1. Init => InputOfBlock
  BY DEF Init, InputOfBlock
<1>2. InputOfBlock /\ [Next]_vars => InputOfBlock'
  BY InputOfBlockKept
<1>3. InputOfBlock => InputCurrent
  <2> SUFFICES ASSUME InputOfBlock, PolicyRuns
               PROVE  log_input \in {"nothing", cause}
    BY DEF InputCurrent
  <2>1. frames # <<>>
    BY RunningHasFrames DEF PolicyRuns
  <2> QED
    BY <2>1 DEF InputOfBlock
<1> QED
  BY <1>1, <1>2, <1>3, PTL DEF Spec

-----------------------------------------------------------------------------
(* The log grows at its end.  A step adds up to three runs of equal items: *)
(* the event, the lines of the call, the exceptions, the separator.        *)

FrameNames == {"manager", "asked", "policy", "placing", "ending"}
LogItems   == [line : Lines, block : Nat, late : BOOLEAN]

\* The lines that the properties relate to a block.
OfBlock == {"tool", "place", "----"} \cup Events

Tool(item)      == item.line = "tool" /\ ~item.late
Separates(item) == item.line = "----"

LEMMA LogShape ==
    ASSUME NEW L \in Seq(LogItems)
    PROVE  \A i \in DOMAIN L : i \in Nat /\ L[i].block \in Nat /\ L[i].late \in BOOLEAN
<1>1. DOMAIN L = 1..Len(L) /\ Len(L) \in Nat
  BY LenProperties
<1>2. \A i \in 1..Len(L) : L[i] \in LogItems
  BY ElementOfSeq
<1> QED
  BY <1>1, <1>2 DEF LogItems

\* new is old with a run of r at its end, empty or not.
Extends(old, new, r) ==
    /\ \A i \in DOMAIN old : i \in DOMAIN new /\ new[i] = old[i]
    /\ \A i \in DOMAIN new \ DOMAIN old : new[i] = r
    /\ \A i \in DOMAIN old, j \in DOMAIN new \ DOMAIN old : i < j
    /\ \A i \in DOMAIN new : i \in Nat
    /\ DOMAIN new = DOMAIN old => new = old

LEMMA Extension ==
    ASSUME NEW old \in Seq(LogItems), NEW r \in LogItems, NEW s \in Seq({r})
    PROVE  /\ old \o s \in Seq(LogItems)
           /\ Extends(old, old \o s, r)
           /\ s # <<>> => \E i \in DOMAIN (old \o s) : i \notin DOMAIN old
           /\ Len(s) <= 1 => \A i, j \in DOMAIN (old \o s) \ DOMAIN old : i = j
<1> DEFINE new == old \o s
<1>1. s \in Seq(LogItems) /\ \A i \in 1..Len(s) : s[i] = r
  OBVIOUS
<1>2. /\ new \in Seq(LogItems) /\ Len(new) = Len(old) + Len(s)
      /\ \A i \in 1..(Len(old) + Len(s)) :
            new[i] = IF i <= Len(old) THEN old[i] ELSE s[i - Len(old)]
  BY <1>1, ConcatProperties, Zenon
<1> HIDE DEF new
<1>3. /\ DOMAIN old = 1..Len(old) /\ DOMAIN new = 1..(Len(old) + Len(s))
      /\ Len(old) \in Nat /\ Len(s) \in Nat
  BY <1>1, <1>2, LenProperties
<1>4. \A i \in DOMAIN old : i \in DOMAIN new /\ new[i] = old[i]
  BY <1>2, <1>3
<1>5. \A i \in DOMAIN new \ DOMAIN old : new[i] = r
  <2> SUFFICES ASSUME NEW i \in DOMAIN new \ DOMAIN old PROVE new[i] = r
    OBVIOUS
  <2>1. i - Len(old) \in 1..Len(s) /\ ~(i <= Len(old)) /\ i \in 1..(Len(old) + Len(s))
    BY <1>3
  <2> QED
    BY <1>1, <1>2, <2>1
<1>6. \A i \in DOMAIN old, j \in DOMAIN new \ DOMAIN old : i < j
  BY <1>3
<1>7. DOMAIN new = DOMAIN old => new = old
  BY <1>2, <1>3, <1>4, SeqEqual
<1>8. s # <<>> => \E i \in DOMAIN new : i \notin DOMAIN old
  <2> SUFFICES ASSUME s # <<>> PROVE \E i \in DOMAIN new : i \notin DOMAIN old
    OBVIOUS
  <2>1. Len(s) # 0
    BY <1>1, EmptySeq
  <2> QED
    BY <1>3, <2>1
<1>9. Len(s) <= 1 => \A i, j \in DOMAIN new \ DOMAIN old : i = j
  BY <1>3
<1>10. Extends(old, new, r)
  <2>1. \A i \in DOMAIN new : i \in Nat
    BY <1>3
  <2> QED
    BY <1>4, <1>5, <1>6, <1>7, <2>1 DEF Extends
<1> QED
  BY <1>2, <1>8, <1>9, <1>10 DEF new

-----------------------------------------------------------------------------
(* The blocks of a log whose current block is b.                           *)

InBlocks(L, b) ==
    /\ \A i \in DOMAIN L : L[i].block <= b /\ (L[i].line \in OfBlock => L[i].block # 0)
    /\ \A i, j \in DOMAIN L : i < j /\ L[i].block # 0 /\ L[j].block # 0
                              => L[i].block <= L[j].block

HasTool(L, b) == \E i \in DOMAIN L : Tool(L[i]) /\ L[i].block = b

HasSeparator(L, b) == \E k \in DOMAIN L : Separates(L[k]) /\ L[k].block = b

\* A separator stands after all the tools of its block, and there are some;
\* every block before b that has tools has a separator.
Separated(L, b) ==
    /\ \A i \in DOMAIN L : Tool(L[i]) /\ L[i].block # b =>
          \E k \in DOMAIN L : Separates(L[k]) /\ L[k].block = L[i].block /\ i < k
    /\ \A k \in DOMAIN L : Separates(L[k]) =>
          /\ \E i \in DOMAIN L : Tool(L[i]) /\ L[i].block = L[k].block
          /\ \A i \in DOMAIN L : Tool(L[i]) /\ L[i].block = L[k].block => i < k

\* ... and b as well.
Closed(L, b) ==
    \A i \in DOMAIN L : Tool(L[i]) /\ L[i].block = b =>
        \E k \in DOMAIN L : Separates(L[k]) /\ L[k].block = b /\ i < k

LEMMA BlocksExtended ==
    ASSUME NEW L \in Seq(LogItems), NEW M \in Seq(LogItems), NEW r \in LogItems, Extends(L, M, r),
           NEW b \in Nat, InBlocks(L, b),
           r.block \in {0, b}, r.line \in OfBlock => r.block # 0
    PROVE  InBlocks(M, b)
<1>1. \A i \in DOMAIN M : M[i] = r \/ (i \in DOMAIN L /\ M[i] = L[i])
  BY DEF Extends
<1>2. \A i \in DOMAIN L : L[i].block \in Nat
  BY LogShape
<1>3. \A i \in DOMAIN M : M[i].block <= b /\ (M[i].line \in OfBlock => M[i].block # 0)
  BY <1>1 DEF InBlocks
<1>4. ASSUME NEW i \in DOMAIN M, NEW j \in DOMAIN M, i < j, M[i].block # 0, M[j].block # 0
      PROVE  M[i].block <= M[j].block
  <2>1. CASE j \in DOMAIN L
    <3>1. i \in DOMAIN L
      <4>1. i \notin DOMAIN L => j < i
        BY <2>1 DEF Extends
      <4>2. i \in Nat /\ j \in Nat
        BY DEF Extends
      <4> QED
        BY <1>4, <4>1, <4>2
    <3> QED
      BY <1>4, <2>1, <3>1 DEF Extends, InBlocks
  <2>2. CASE j \notin DOMAIN L
    <3>1. M[j] = r
      BY <2>2 DEF Extends
    <3> QED
      BY <1>3, <1>4, <3>1
  <2> QED
    BY <2>1, <2>2
<1> QED
  BY <1>3, <1>4 DEF InBlocks

\* Lines that are not separators, a tool's only if there is none yet.
LEMMA SeparatedExtended ==
    ASSUME NEW L \in Seq(LogItems), NEW M \in Seq(LogItems), NEW r \in LogItems, Extends(L, M, r),
           NEW b \in Nat, Separated(L, b), ~Separates(r),
           Tool(r) => r.block = b /\ ~HasSeparator(L, b)
    PROVE  /\ Separated(M, b)
           /\ HasSeparator(M, b) <=> HasSeparator(L, b)
           /\ Closed(L, b) /\ ~Tool(r) => Closed(M, b)
<1>1. \A i \in DOMAIN M : M[i] = r \/ (i \in DOMAIN L /\ M[i] = L[i])
  BY DEF Extends
<1>2. \A i \in DOMAIN L : i \in DOMAIN M /\ M[i] = L[i]
  BY DEF Extends
<1>3. \A k \in DOMAIN M : Separates(M[k]) => k \in DOMAIN L /\ M[k] = L[k]
  BY <1>1
<1>4. HasSeparator(M, b) <=> HasSeparator(L, b)
  BY <1>2, <1>3 DEF HasSeparator
<1>5. ASSUME NEW i \in DOMAIN M, Tool(M[i]), M[i].block # b
      PROVE  \E k \in DOMAIN M : Separates(M[k]) /\ M[k].block = M[i].block /\ i < k
  <2>1. i \in DOMAIN L /\ M[i] = L[i]
    BY <1>1, <1>5
  <2>2. PICK k \in DOMAIN L : Separates(L[k]) /\ L[k].block = L[i].block /\ i < k
    BY <1>5, <2>1 DEF Separated
  <2> QED
    BY <1>2, <2>1, <2>2
<1>6. ASSUME NEW k \in DOMAIN M, Separates(M[k])
      PROVE  /\ \E i \in DOMAIN M : Tool(M[i]) /\ M[i].block = M[k].block
             /\ \A i \in DOMAIN M : Tool(M[i]) /\ M[i].block = M[k].block => i < k
  <2>1. k \in DOMAIN L /\ M[k] = L[k]
    BY <1>3, <1>6
  <2>2. \E i \in DOMAIN M : Tool(M[i]) /\ M[i].block = M[k].block
    BY <1>2, <1>6, <2>1 DEF Separated
  <2>3. \A i \in DOMAIN L : Tool(L[i]) /\ L[i].block = L[k].block => i < k
    BY <1>6, <2>1 DEF Separated
  <2>4. ASSUME NEW i \in DOMAIN M, Tool(M[i]), M[i].block = M[k].block
        PROVE  i < k
    <3>1. i \in DOMAIN L
      <4>1. i \notin DOMAIN L => Tool(r) /\ M[k].block = b
        BY <1>1, <2>4
      <4> QED
        BY <1>6, <2>1, <4>1 DEF HasSeparator
    <3> QED
      BY <1>2, <2>1, <2>3, <2>4, <3>1
  <2> QED
    BY <2>2, <2>4
<1>7. Separated(M, b)
  BY <1>5, <1>6 DEF Separated
<1>8. ASSUME Closed(L, b), ~Tool(r)
      PROVE  Closed(M, b)
  BY <1>1, <1>2, <1>8 DEF Closed
<1> QED
  BY <1>4, <1>7, <1>8

\* What an extension does to the tools of the block.
LEMMA ToolsExtended ==
    ASSUME NEW L \in Seq(LogItems), NEW M \in Seq(LogItems), NEW r \in LogItems, Extends(L, M, r),
           NEW b \in Nat
    PROVE  /\ HasTool(L, b) => HasTool(M, b)
           /\ ~(Tool(r) /\ r.block = b) => (HasTool(M, b) <=> HasTool(L, b))
           /\ Tool(r) /\ r.block = b /\ (\E i \in DOMAIN M : i \notin DOMAIN L) => HasTool(M, b)
<1>1. \A i \in DOMAIN M : M[i] = r \/ (i \in DOMAIN L /\ M[i] = L[i])
  BY DEF Extends
<1>2. \A i \in DOMAIN L : i \in DOMAIN M /\ M[i] = L[i]
  BY DEF Extends
<1>3. \A i \in DOMAIN M : i \notin DOMAIN L => M[i] = r
  BY DEF Extends
<1> QED
  BY <1>1, <1>2, <1>3 DEF HasTool

\* The separator.
LEMMA SeparatorExtended ==
    ASSUME NEW L \in Seq(LogItems), NEW M \in Seq(LogItems), NEW r \in LogItems, Extends(L, M, r),
           NEW b \in Nat, Separated(L, b), Separates(r), r.block = b, HasTool(L, b),
           \E k \in DOMAIN M : k \notin DOMAIN L
    PROVE  Separated(M, b) /\ Closed(M, b)
<1>1. \A i \in DOMAIN M : M[i] = r \/ (i \in DOMAIN L /\ M[i] = L[i])
  BY DEF Extends
<1>2. \A i \in DOMAIN L : i \in DOMAIN M /\ M[i] = L[i]
  BY DEF Extends
<1>3. \A i \in DOMAIN M : Tool(M[i]) => i \in DOMAIN L /\ M[i] = L[i]
  BY <1>1 DEF Tool, Separates
<1>4. \A i \in DOMAIN L, j \in DOMAIN M : j \notin DOMAIN L => i < j /\ M[j] = r
  BY DEF Extends
<1>5. ASSUME NEW i \in DOMAIN M, Tool(M[i]), M[i].block # b
      PROVE  \E k \in DOMAIN M : Separates(M[k]) /\ M[k].block = M[i].block /\ i < k
  <2>1. i \in DOMAIN L /\ M[i] = L[i]
    BY <1>3, <1>5
  <2>2. PICK k \in DOMAIN L : Separates(L[k]) /\ L[k].block = L[i].block /\ i < k
    BY <1>5, <2>1 DEF Separated
  <2> QED
    BY <1>2, <2>1, <2>2
<1>6. ASSUME NEW k \in DOMAIN M, Separates(M[k])
      PROVE  /\ \E i \in DOMAIN M : Tool(M[i]) /\ M[i].block = M[k].block
             /\ \A i \in DOMAIN M : Tool(M[i]) /\ M[i].block = M[k].block => i < k
  <2>1. CASE k \in DOMAIN L
    <3>1. /\ \E i \in DOMAIN L : Tool(L[i]) /\ L[i].block = L[k].block
          /\ \A i \in DOMAIN L : Tool(L[i]) /\ L[i].block = L[k].block => i < k
      BY <1>2, <1>6, <2>1 DEF Separated
    <3> QED
      BY <1>2, <1>3, <2>1, <3>1
  <2>2. CASE k \notin DOMAIN L
    <3>1. M[k].block = b
      BY <1>1, <2>2
    <3>2. \E i \in DOMAIN M : Tool(M[i]) /\ M[i].block = b
      BY <1>2 DEF HasTool
    <3> QED
      BY <1>3, <1>4, <2>2, <3>1, <3>2
  <2> QED
    BY <2>1, <2>2
<1>7. Separated(M, b)
  BY <1>5, <1>6 DEF Separated
<1>8. Closed(M, b)
  <2>1. PICK k \in DOMAIN M : k \notin DOMAIN L
    OBVIOUS
  <2>2. M[k] = r
    BY <1>1, <2>1
  <2> QED
    BY <1>3, <1>4, <2>1, <2>2 DEF Closed
<1> QED
  BY <1>7, <1>8

\* Taking the mutex begins a block.
LEMMA NextBlock ==
    ASSUME NEW L \in Seq(LogItems), NEW b \in Nat, InBlocks(L, b), Separated(L, b), Closed(L, b)
    PROVE  /\ InBlocks(L, b + 1) /\ Separated(L, b + 1)
           /\ ~HasTool(L, b + 1) /\ ~HasSeparator(L, b + 1)
           /\ \A i \in DOMAIN L : L[i].block # b + 1
<1>1. \A i \in DOMAIN L : L[i].block \in Nat
  BY LogShape
<1>2. \A i \in DOMAIN L : L[i].block <= b + 1 /\ L[i].block # b + 1
  BY <1>1 DEF InBlocks
<1>3. InBlocks(L, b + 1)
  BY <1>2 DEF InBlocks
<1>4. Separated(L, b + 1)
  BY DEF Separated, Closed
<1> QED
  BY <1>2, <1>3, <1>4 DEF HasTool, HasSeparator

\* Such a log has separators where BlocksSeparated wants them.
LEMMA SeparatedMeans ==
    ASSUME log \in Seq(LogItems), block \in Nat,
           InBlocks(log, block), Separated(log, block)
    PROVE  BlocksSeparated
<1>0. /\ \A i \in DOMAIN log : log[i].block \in Nat /\ log[i].late \in BOOLEAN
      /\ \A i \in DOMAIN log : i \in Nat
  BY LogShape
<1>1. ASSUME NEW i \in DOMAIN log, NEW j \in DOMAIN log, Tool(log[i]), Tool(log[j]), i < j,
             log[i].block # log[j].block
      PROVE  \E k \in DOMAIN log : Separates(log[k]) /\ i < k /\ k < j
  <2>1. log[i].block <= log[j].block /\ log[j].block <= block /\ log[i].block # 0 /\ log[j].block # 0
    BY <1>1 DEF InBlocks, OfBlock, Tool
  <2>2. PICK k \in DOMAIN log : Separates(log[k]) /\ log[k].block = log[i].block /\ i < k
    BY <1>0, <1>1, <2>1 DEF Separated
  <2>3. ~(j < k)
    <3> SUFFICES ASSUME j < k PROVE FALSE
      OBVIOUS
    <3>1. log[j].block <= log[k].block
      BY <2>1, <2>2 DEF InBlocks
    <3> QED
      BY <1>0, <1>1, <2>1, <2>2, <3>1
  <2>4. j # k
    BY <1>1, <2>2 DEF Tool, Separates
  <2> QED
    BY <1>0, <2>2, <2>3, <2>4
<1>2. ASSUME NEW i \in DOMAIN log, NEW j \in DOMAIN log, NEW k \in DOMAIN log,
             Tool(log[i]), Tool(log[j]), Separates(log[k]), i < k, k < j
      PROVE  log[i].block # log[j].block
  <2> SUFFICES ASSUME log[i].block = log[j].block PROVE FALSE
    OBVIOUS
  <2>1. log[i].block # 0 /\ log[j].block # 0 /\ log[k].block # 0
    BY <1>2 DEF InBlocks, OfBlock, Tool, Separates
  <2>2. log[i].block <= log[k].block /\ log[k].block <= log[j].block
    BY <1>2, <2>1 DEF InBlocks
  <2>3. j < k
    BY <1>0, <1>2, <2>2 DEF Separated
  <2> QED
    BY <1>0, <1>2, <2>3
<1>3. ASSUME NEW k \in DOMAIN log, Separates(log[k])
      PROVE  \E i \in DOMAIN log : Tool(log[i]) /\ i < k /\ log[i].block = log[k].block
  BY <1>3 DEF Separated
<1> QED
  BY <1>1, <1>2, <1>3 DEF BlocksSeparated, Tool, Separates

-----------------------------------------------------------------------------
(* The calls in progress.                                                  *)

\* The window manager's own code is at the bottom, until the policy's
\* advise_end().
Open  == frames # <<>> /\ frames[1] = "manager"
Asked == \E k \in DOMAIN frames : frames[k] = "asked"

FrameInv ==
    /\ TypeOK
    /\ cause = Nobody <=> frames = <<>>
    /\ frames # <<>> => block # 0 /\ frames[1] \in {"manager", "ending"}

LEMMA Bottom ==
    ASSUME FrameInv
    PROVE  Ending <=> frames # <<>> /\ ~Open
<1>1. frames # <<>> => Head(frames) = frames[1]
  BY DEF FrameInv, TypeOK
<1> QED
  BY <1>1 DEF Ending, Open, FrameInv

LEMMA FramePushed ==
    ASSUME FrameInv, frames # <<>>, NEW f \in FrameNames, frames' = Append(frames, f)
    PROVE  /\ frames' \in Seq(FrameNames) /\ frames' # <<>> /\ frames'[1] = frames[1]
           /\ Asked' <=> Asked \/ f = "asked"
<1>1. frames \in Seq(FrameNames) /\ Len(frames) \in Nat \ {0}
  BY EmptySeq, LenProperties DEF FrameInv, TypeOK, FrameNames
<1>2. /\ frames' \in Seq(FrameNames) /\ DOMAIN frames' = 1..(Len(frames) + 1)
      /\ \A i \in 1..Len(frames) : frames'[i] = frames[i]
      /\ frames'[Len(frames) + 1] = f /\ DOMAIN frames = 1..Len(frames)
  BY <1>1
<1>3. DOMAIN frames' = DOMAIN frames \cup {Len(frames) + 1}
  BY <1>1, <1>2
<1>4. frames' # <<>>
  BY <1>1, <1>2
<1>5. Asked' <=> \E k \in DOMAIN frames' : frames'[k] = "asked"
  BY DEF Asked
<1>6. Asked' <=> Asked \/ f = "asked"
  BY <1>2, <1>3, <1>5 DEF Asked
<1> QED
  BY <1>1, <1>2, <1>4, <1>6

LEMMA FramePopped ==
    ASSUME FrameInv, Len(frames) > 1, frames' = Front(frames)
    PROVE  /\ frames' \in Seq(FrameNames) /\ frames # <<>> /\ frames' # <<>> /\ frames'[1] = frames[1]
           /\ Asked' => Asked
           /\ Top = "asked" => Asked
           /\ Top # "asked" /\ Asked => Asked'
<1>1. frames \in Seq(FrameNames) /\ Len(frames) \in Nat /\ frames # <<>>
      /\ DOMAIN frames = 1..Len(frames)
  BY LenProperties DEF FrameInv, TypeOK, FrameNames
<1>2. /\ frames' \in Seq(FrameNames) /\ Len(frames') = Len(frames) - 1
      /\ \A i \in 1..Len(frames') : frames'[i] = frames[i]
  BY <1>1 DEF Front
<1>3. DOMAIN frames' = 1..(Len(frames) - 1) /\ frames' # <<>>
  BY <1>1, <1>2, LenProperties
<1>4. Top = frames[Len(frames)]
  BY <1>1 DEF Top, Last
<1>5. DOMAIN frames = DOMAIN frames' \cup {Len(frames)} /\ 1 \in DOMAIN frames'
  BY <1>1, <1>3
<1>6. \A i \in DOMAIN frames' : frames'[i] = frames[i]
  BY <1>1, <1>2, <1>3
<1>7. Asked' <=> \E k \in DOMAIN frames' : frames'[k] = "asked"
  BY DEF Asked
<1> QED
  BY <1>1, <1>2, <1>3, <1>4, <1>5, <1>6, <1>7 DEF Asked

\* The bottom frame alone has asked for nothing.
LEMMA OneFrame ==
    ASSUME NEW f \in {"manager", "ending"}
    PROVE  /\ <<f>> \in Seq(FrameNames) /\ <<f>> # <<>> /\ <<f>>[1] = f
           /\ \A k \in DOMAIN <<f>> : <<f>>[k] # "asked"
BY DEF FrameNames

LEMMA TwoFrames ==
    /\ <<"manager", "policy">> \in Seq(FrameNames) /\ <<"manager", "policy">> # <<>>
    /\ <<"manager", "policy">>[1] = "manager"
    /\ \A k \in DOMAIN <<"manager", "policy">> : <<"manager", "policy">>[k] # "asked"
BY DEF FrameNames

-----------------------------------------------------------------------------
(* What is written.                                                        *)

Item(line)      == [line |-> line, block |-> block, late |-> Ending]
AsideItem(line) == [line |-> line, block |-> 0, late |-> FALSE]

LEMMA WrittenShape ==
    ASSUME FrameInv, NEW line \in Lines
    PROVE  /\ Item(line) \in LogItems /\ Written(line) = <<Item(line)>>
           /\ Written(line) \in Seq({Item(line)}) /\ Written(line) # <<>> /\ Len(Written(line)) = 1
           /\ Item(line).line = line /\ Item(line).block = block
           /\ Tool(Item(line)) <=> line = "tool" /\ ~Ending
<1>1. Ending \in BOOLEAN /\ block \in Nat
  BY DEF FrameInv, TypeOK, Ending
<1>2. Item(line) \in LogItems /\ Item(line).line = line /\ Item(line).block = block
      /\ Item(line).late = Ending
  BY <1>1 DEF Item, LogItems
<1>3. Written(line) = <<Item(line)>>
  BY DEF Written, Item
<1> QED
  BY <1>2, <1>3 DEF Tool

LEMMA AsideShape ==
    ASSUME NEW line \in {"invoke", "exception"}
    PROVE  /\ AsideItem(line) \in LogItems /\ Aside(line) \in Seq({AsideItem(line)})
           /\ AsideItem(line).line = line /\ AsideItem(line).block = 0
BY DEF AsideItem, Aside, LogItems, Lines, CallLines

\* No run.
LEMMA NoRun ==
    ASSUME NEW L \in Seq(LogItems)
    PROVE  L \o <<>> = L
OBVIOUS

\* The exceptions of Fail.
LEMMA Exceptions ==
    ASSUME FrameInv
    PROVE  LET s == [i \in 1..Passed |-> Written("exception")[1]] IN
           s \in Seq({Item("exception")}) /\ (Passed >= 1 => s # <<>>)
<1> DEFINE s == [i \in 1..Passed |-> Written("exception")[1]]
<1>1. Written("exception")[1] = Item("exception")
  <2>1. Written("exception") = <<Item("exception")>>
    BY DEF Written, Item
  <2> QED
    BY <2>1
<1>2. Passed \in Int
  BY LenProperties DEF Passed, FrameInv, TypeOK
<1>3. s \in [1..Passed -> {Item("exception")}]
  BY <1>1
<1>4. s \in Seq({Item("exception")})
  <2>1. CASE Passed \in Nat
    BY <1>3, <2>1, SeqDef
  <2>2. CASE Passed \notin Nat
    <3>1. 1..Passed = 1..0
      BY <1>2, <2>2
    <3>2. s \in [1..0 -> {Item("exception")}]
      BY <1>3, <3>1, Zenon
    <3>3. \A n \in Nat : \A S : [1..n -> S] \subseteq Seq(S)
      BY SeqDef
    <3> HIDE DEF s, Item
    <3> QED
      BY <3>2, <3>3
  <2> QED
    BY <2>1, <2>2
<1>5. ASSUME Passed >= 1 PROVE s # <<>>
  <2>1. 1 \in DOMAIN s
    BY <1>2, <1>5
  <2> QED
    BY <2>1
<1> QED
  BY <1>4, <1>5

\* The log after log_input() has been called.
AfterInput == log \o (IF log_input \in Events THEN Written(log_input) ELSE <<>>)

LEMMA InputShape ==
    ASSUME FrameInv
    PROVE  /\ AfterInput \in Seq(LogItems)
           /\ log_input \notin Events => AfterInput = log
           /\ log_input \in Events =>
                /\ Extends(log, AfterInput, Item(log_input)) /\ Item(log_input) \in LogItems
                /\ \A i, j \in DOMAIN AfterInput \ DOMAIN log : i = j
<1>0. log \in Seq(LogItems)
  BY DEF FrameInv, TypeOK, LogItems
<1>1. CASE log_input \in Events
  <2>1. /\ Item(log_input) \in LogItems
        /\ Written(log_input) \in Seq({Item(log_input)}) /\ Len(Written(log_input)) = 1
    BY <1>1, WrittenShape DEF Lines
  <2>2. AfterInput = log \o Written(log_input)
    BY <1>1 DEF AfterInput
  <2>3. \A r \in LogItems, s \in Seq({Item(log_input)}) :
           r = Item(log_input) /\ Len(s) <= 1 =>
              /\ log \o s \in Seq(LogItems) /\ Extends(log, log \o s, r)
              /\ \A i, j \in DOMAIN (log \o s) \ DOMAIN log : i = j
    BY <1>0, Extension
  <2>4. /\ AfterInput \in Seq(LogItems) /\ Extends(log, AfterInput, Item(log_input))
        /\ \A i, j \in DOMAIN AfterInput \ DOMAIN log : i = j
    <3> HIDE DEF Item, Written
    <3>1. Len(Written(log_input)) <= 1
      BY <2>1
    <3> QED
      BY <2>1, <2>2, <2>3, <3>1
  <2> QED
    BY <1>1, <2>1, <2>4
<1>2. CASE log_input \notin Events
  <2>1. AfterInput = log \o <<>>
    BY <1>2 DEF AfterInput
  <2> QED
    BY <1>0, <1>2, <2>1, NoRun
<1> QED
  BY <1>1, <1>2

LEMMA LogExtended ==
    ASSUME FrameInv, NEW L \in Seq(LogItems), NEW line \in Lines, NEW s \in Seq({Item(line)})
    PROVE  L \o s \in Seq(LogItems) /\ Extends(L, L \o s, Item(line)) /\ Item(line) \in LogItems
BY WrittenShape, Extension

\* The log after the exceptions of Fail, and its separator.
AfterExceptions == log \o [i \in 1..Passed |-> Written("exception")[1]]
AfterFail == AfterExceptions \o Separator

LEMMA FailShape ==
    ASSUME FrameInv
    PROVE  /\ AfterExceptions \in Seq(LogItems) /\ Extends(log, AfterExceptions, Item("exception"))
           /\ AfterFail \in Seq(LogItems) /\ Extends(AfterExceptions, AfterFail, Item("----"))
           /\ trace_count > 0 => \E i \in DOMAIN AfterFail : i \notin DOMAIN AfterExceptions
           /\ ~(trace_count > 0) => AfterFail = AfterExceptions
           /\ Passed >= 1 => \E i \in DOMAIN AfterExceptions : i \notin DOMAIN log
<1>1. log \in Seq(LogItems) /\ Item("exception") \in LogItems /\ Item("----") \in LogItems
  BY WrittenShape DEF FrameInv, TypeOK, LogItems, Lines, CallLines
<1>2. [i \in 1..Passed |-> Written("exception")[1]] \in Seq({Item("exception")})
  BY Exceptions
<1>3. Passed >= 1 => [i \in 1..Passed |-> Written("exception")[1]] # <<>>
  BY Exceptions
<1> DEFINE s == [i \in 1..Passed |-> Written("exception")[1]]
<1>4. /\ log \o s \in Seq(LogItems) /\ Extends(log, log \o s, Item("exception"))
      /\ s # <<>> => \E i \in DOMAIN (log \o s) : i \notin DOMAIN log
  <2> HIDE DEF s, Item
  <2>1. s \in Seq({Item("exception")})
    BY <1>2 DEF s
  <2> QED
    BY <1>1, <2>1, Extension
<1>5. /\ AfterExceptions \in Seq(LogItems) /\ Extends(log, AfterExceptions, Item("exception"))
      /\ Passed >= 1 => \E i \in DOMAIN AfterExceptions : i \notin DOMAIN log
  BY <1>3, <1>4 DEF AfterExceptions
<1>6. CASE trace_count > 0
  <2>1. Separator = Written("----")
    BY <1>6 DEF Separator
  <2>2. Written("----") \in Seq({Item("----")}) /\ Written("----") # <<>>
    BY WrittenShape DEF Lines, CallLines
  <2> HIDE DEF Item, Written, AfterExceptions
  <2> QED
    BY <1>1, <1>5, <1>6, <2>1, <2>2, Extension DEF AfterFail
<1>7. CASE ~(trace_count > 0)
  <2>1. Separator = <<>> /\ <<>> \in Seq({Item("----")})
    BY <1>7 DEF Separator
  <2> HIDE DEF Item, Written, AfterExceptions
  <2> QED
    BY <1>1, <1>5, <1>7, <2>1, Extension, NoRun DEF AfterFail
<1> QED
  BY <1>5, <1>6, <1>7

\* The shape of the state is kept.
LEMMA FrameInvKept ==
    ASSUME FrameInv, [Next]_vars
    PROVE  FrameInv'
<1>0. /\ frames \in Seq(FrameNames) /\ log \in Seq(LogItems) /\ block \in Nat /\ trace_count \in Nat
      /\ cause \in Events \cup Threads \cup {Nobody, Window} /\ waiting \subseteq Threads
      /\ handled \subseteq Events /\ log_input \in {"empty", "nothing"} \cup Events
  BY DEF FrameInv, TypeOK, FrameNames, LogItems
<1>1. SUFFICES /\ frames' \in Seq(FrameNames) /\ log' \in Seq(LogItems) /\ block' \in Nat
               /\ trace_count' \in Nat
               /\ cause' \in Events \cup Threads \cup {Nobody, Window} /\ waiting' \subseteq Threads
               /\ handled' \subseteq Events /\ log_input' \in {"empty", "nothing"} \cup Events
               /\ cause' = Nobody <=> frames' = <<>>
               /\ frames' # <<>> => block' # 0 /\ frames'[1] \in {"manager", "ending"}
  BY DEF FrameInv, TypeOK, FrameNames, LogItems
<1>2. CASE WindowOperation
  BY <1>0, <1>2, OneFrame, TraceAssumption DEF WindowOperation, advise_begin
<1>3. ASSUME NEW e \in Events, handle_event(e) PROVE FrameInv'
  <2>1. e # Nobody
    BY TraceAssumption
  <2>2. /\ frames' = <<"manager", "policy">> /\ cause' = e /\ block' = block + 1 /\ log' = log
        /\ trace_count' = 0 /\ log_input' = e /\ handled' = handled \cup {e} /\ waiting' = waiting
    BY <1>3 DEF handle_event
  <2>3. frames' \in Seq(FrameNames) /\ frames' # <<>> /\ frames'[1] = "manager"
    BY <2>2, TwoFrames
  <2> QED
    BY <1>0, <2>1, <2>2, <2>3 DEF FrameInv, TypeOK, FrameNames, LogItems
<1>4. ASSUME NEW t \in Threads, invoke_under_lock(t) PROVE FrameInv'
  <2>1. log' \in Seq(LogItems)
    <3>1. log' = log \o Aside("invoke")
      BY <1>4 DEF invoke_under_lock
    <3> QED
      BY <1>0, <3>1, AsideShape, Extension
  <2> QED
    BY <1>0, <1>4, <2>1 DEF invoke_under_lock, FrameInv, TypeOK, LogItems
<1>5. ASSUME NEW t \in Threads, Callback(t) PROVE FrameInv'
  <2>1. t # Nobody
    BY TraceAssumption
  <2>2. /\ frames' = <<"manager", "policy">> /\ cause' = t /\ block' = block + 1 /\ log' = log
        /\ trace_count' = 0 /\ log_input' = "nothing" /\ handled' = handled /\ waiting' \subseteq waiting
    BY <1>5 DEF Callback, advise_begin
  <2>3. frames' \in Seq(FrameNames) /\ frames' # <<>> /\ frames'[1] = "manager"
    BY <2>2, TwoFrames
  <2> QED
    BY <1>0, <2>1, <2>2, <2>3 DEF FrameInv, TypeOK, FrameNames, LogItems
<1>6. CASE advise_end
  <2>1. log' \in Seq(LogItems)
    <3>1. log' = log \o Separator
      BY <1>6 DEF advise_end
    <3>2. Separator \in Seq({Item("----")})
      <4>1. Written("----") \in Seq({Item("----")})
        BY WrittenShape DEF Lines, CallLines
      <4>2. <<>> \in Seq({Item("----")})
        OBVIOUS
      <4> QED
        BY <4>1, <4>2 DEF Separator
    <3> QED
      BY <1>0, <3>1, <3>2, LogExtended DEF Lines, CallLines
  <2>2. frames # <<>> /\ frames' = <<"ending">>
    BY <1>6 DEF advise_end
  <2> QED
    BY <1>0, <1>6, <2>1, <2>2, OneFrame DEF advise_end, FrameInv
<1>7. CASE Unlock
  BY <1>0, <1>7 DEF Unlock
<1>8. CASE ToPolicy
  <2>1. log' \in Seq(LogItems)
    BY <1>0, <1>8, WrittenShape, LogExtended DEF ToPolicy, Lines, CallLines
  <2>2. frames # <<>> /\ frames' = Append(frames, "policy")
    BY <1>8, RunningHasFrames DEF ToPolicy
  <2> QED
    BY <1>0, <1>8, <2>1, <2>2, FramePushed DEF ToPolicy, FrameNames, FrameInv
<1>9. CASE place_new_window
  <2>1. frames # <<>> /\ frames' = Append(frames, "placing")
    BY <1>9 DEF place_new_window
  <2> QED
    BY <1>0, <1>9, <2>1, FramePushed DEF place_new_window, FrameNames, FrameInv
<1>10. CASE Query
  <2>1. log' \in Seq(LogItems) /\ log_input' \in {"empty", "nothing"} \cup Events
    <3>1. log' = AfterInput \o <<>> /\ log_input' \in {log_input, "nothing"}
      BY <1>10 DEF Query, InputLogged, AfterInput
    <3> QED
      BY <1>0, <3>1, InputShape, NoRun
  <2>2. frames # <<>> /\ frames' = Append(frames, "asked")
    BY <1>10, RunningHasFrames DEF Query, PolicyRuns
  <2> QED
    BY <1>0, <1>10, <2>1, <2>2, FramePushed DEF Query, FrameNames, FrameInv
<1>11. CASE Command
  <2>1. log' \in Seq(LogItems) /\ log_input' \in {"empty", "nothing"} \cup Events
    <3>1. log' = AfterInput \o Written("tool") /\ log_input' \in {log_input, "nothing"}
      BY <1>11 DEF Command, InputLogged, AfterInput
    <3> QED
      BY <1>0, <3>1, InputShape, WrittenShape, LogExtended DEF Lines, CallLines
  <2>2. frames # <<>> /\ frames' = Append(frames, "manager")
    BY <1>11, RunningHasFrames DEF Command, PolicyRuns
  <2> QED
    BY <1>0, <1>11, <2>1, <2>2, FramePushed DEF Command, FrameNames, FrameInv
<1>12. CASE place_and_size_for_state
  <2>1. log' \in Seq(LogItems) /\ log_input' \in {"empty", "nothing"} \cup Events
    <3>1. log' = AfterInput \o Written("place") /\ log_input' \in {log_input, "nothing"}
      BY <1>12 DEF place_and_size_for_state, InputLogged, AfterInput
    <3> QED
      BY <1>0, <3>1, InputShape, WrittenShape, LogExtended DEF Lines, CallLines
  <2> QED
    BY <1>0, <1>12, <2>1 DEF place_and_size_for_state, FrameInv
<1>13. CASE WorkspaceTool
  <2>1. log' \in Seq(LogItems)
    BY <1>0, <1>13, WrittenShape, LogExtended DEF WorkspaceTool, Lines, CallLines
  <2> QED
    BY <1>0, <1>13, <2>1 DEF WorkspaceTool, FrameInv
<1>14. CASE Return
  <2>1. log' \in Seq(LogItems)
    <3>1. \E line \in {"policy", "tool"} : log' \in {log \o Written(line), log \o <<>>}
      BY <1>14 DEF Return
    <3>2. \A line \in {"policy", "tool"} : log \o Written(line) \in Seq(LogItems)
      BY <1>0, WrittenShape, LogExtended DEF Lines, CallLines
    <3> QED
      BY <1>0, <3>1, <3>2, NoRun
  <2>2. trace_count' \in Nat
    BY <1>0, <1>14 DEF Return
  <2>3. Len(frames) > 1 /\ frames' = Front(frames) /\ UNCHANGED <<cause, log_input, waiting, handled, block>>
    BY <1>14 DEF Return
  <2> QED
    BY <1>0, <2>1, <2>2, <2>3, FramePopped DEF FrameInv
<1>15. CASE Fail
  <2>1. log' \in Seq(LogItems)
    <3>1. log' = AfterFail \o (IF cause \in Threads THEN Aside("exception") ELSE <<>>)
      BY <1>15 DEF Fail, AfterFail, AfterExceptions
    <3> QED
      BY <3>1, FailShape, AsideShape, Extension, NoRun
  <2>2. frames # <<>> /\ frames' = <<"ending">>
    BY <1>15, RunningHasFrames DEF Fail
  <2> QED
    BY <1>0, <1>15, <2>1, <2>2, OneFrame DEF Fail, FrameInv
<1>16. CASE UNCHANGED vars
  BY <1>0, <1>16 DEF vars, FrameInv
<1> QED
  BY <1>2, <1>3, <1>4, <1>5, <1>6, <1>7, <1>8, <1>9, <1>10, <1>11, <1>12, <1>13, <1>14, <1>15,
     <1>16 DEF Next, FrameInv, TypeOK, FrameNames, LogItems

\* The shape of the trace's state.
THEOREM TraceTypeOK == Spec => []TypeOK
<1>1. Init => FrameInv
  BY DEF Init, FrameInv, TypeOK
<1>2. FrameInv => TypeOK
  BY DEF FrameInv
<1> QED
  BY <1>1, <1>2, FrameInvKept, PTL DEF Spec

-----------------------------------------------------------------------------
(* Blocks.                                                                 *)

\* While the window manager's code is at the bottom the block has no separator
\* yet, and the count tells whether it will have one; from then on it has one
\* if it needs one.
BlocksIn(L, n) ==
    /\ InBlocks(L, block)
    /\ Separated(L, block)
    /\ Open => ~HasSeparator(L, block) /\ (n > 0 <=> HasTool(L, block))
    /\ ~Open => Closed(L, block)

BlockInv == BlocksIn(log, trace_count)

LEMMA LinesOfBlock ==
    ASSUME FrameInv, frames # <<>>, NEW line \in Lines
    PROVE  /\ Item(line).block \in {0, block} /\ Item(line).block # 0
           /\ Item(line).line = line /\ (Separates(Item(line)) <=> line = "----")
           /\ Tool(Item(line)) <=> line = "tool" /\ Open
BY WrittenShape, Bottom DEF FrameInv, Separates

\* A run of lines is added, none of them a separator; a tool is counted.
LEMMA RunKeepsBlocks ==
    ASSUME FrameInv, frames # <<>>, NEW L \in Seq(LogItems), NEW n \in Nat, BlocksIn(L, n),
           NEW M \in Seq(LogItems), NEW line \in Lines, line # "----", Extends(L, M, Item(line)),
           line = "tool" => \E i \in DOMAIN M : i \notin DOMAIN L
    PROVE  BlocksIn(M, IF line = "tool" THEN n + 1 ELSE n)
<1> DEFINE r == Item(line)
<1>1. /\ r \in LogItems /\ block \in Nat /\ r.block \in {0, block} /\ r.block # 0 /\ r.block = block
      /\ ~Separates(r) /\ (Tool(r) <=> line = "tool" /\ Open) /\ Extends(L, M, r)
  BY WrittenShape, LinesOfBlock DEF FrameInv, TypeOK
<1> HIDE DEF r
<1>2. InBlocks(M, block)
  BY <1>1, BlocksExtended DEF BlocksIn
<1>3. /\ Separated(M, block)
      /\ HasSeparator(M, block) <=> HasSeparator(L, block)
      /\ Closed(L, block) /\ ~Tool(r) => Closed(M, block)
  BY <1>1, SeparatedExtended DEF BlocksIn
<1>4. /\ HasTool(L, block) => HasTool(M, block)
      /\ ~Tool(r) => (HasTool(M, block) <=> HasTool(L, block))
      /\ Tool(r) /\ (\E i \in DOMAIN M : i \notin DOMAIN L) => HasTool(M, block)
  BY <1>1, ToolsExtended
<1>5. CASE line = "tool"
  <2>1. n + 1 > 0
    OBVIOUS
  <2>2. Open => Tool(r) /\ HasTool(M, block)
    BY <1>1, <1>4, <1>5
  <2>3. ~Open => ~Tool(r) /\ Closed(M, block)
    BY <1>1, <1>3 DEF BlocksIn
  <2> QED
    BY <1>2, <1>3, <1>5, <2>1, <2>2, <2>3 DEF BlocksIn
<1>6. CASE line # "tool"
  <2>1. ~Tool(r)
    BY <1>1, <1>6
  <2> QED
    BY <1>2, <1>3, <1>4, <1>6, <2>1 DEF BlocksIn
<1> QED
  BY <1>5, <1>6

\* So does one line.
LEMMA LineKeepsBlocks ==
    ASSUME FrameInv, frames # <<>>, NEW L \in Seq(LogItems), NEW n \in Nat, BlocksIn(L, n),
           NEW line \in Lines, line # "----"
    PROVE  BlocksIn(L \o Written(line), IF line = "tool" THEN n + 1 ELSE n)
<1>1. /\ Item(line) \in LogItems /\ Written(line) \in Seq({Item(line)}) /\ Written(line) # <<>>
  BY WrittenShape
<1>2. /\ L \o Written(line) \in Seq(LogItems) /\ Extends(L, L \o Written(line), Item(line))
      /\ \E i \in DOMAIN (L \o Written(line)) : i \notin DOMAIN L
  <2> HIDE DEF Item, Written
  <2> QED
    BY <1>1, Extension
<1> QED
  BY <1>2, RunKeepsBlocks

LEMMA InputKeepsBlocks ==
    ASSUME FrameInv, frames # <<>>, BlockInv
    PROVE  BlocksIn(AfterInput, trace_count)
<1>1. CASE log_input \in Events
  <2>1. log_input \in Lines /\ log_input # "----" /\ log_input # "tool"
    BY <1>1, TraceAssumption DEF Lines, CallLines
  <2>2. log \in Seq(LogItems) /\ trace_count \in Nat
    BY DEF FrameInv, TypeOK, LogItems
  <2> QED
    BY <1>1, <2>1, <2>2, InputShape, RunKeepsBlocks DEF BlockInv
<1>2. CASE log_input \notin Events
  BY <1>2, InputShape DEF BlockInv
<1> QED
  BY <1>1, <1>2

\* A line of a thread outside the mutex is in no block.
LEMMA AsideKeepsBlocks ==
    ASSUME FrameInv, NEW L \in Seq(LogItems), NEW n, BlocksIn(L, n),
           NEW line \in {"invoke", "exception"}
    PROVE  BlocksIn(L \o Aside(line), n)
<1> DEFINE r == AsideItem(line)
           M == L \o Aside(line)
<1>1. /\ r \in LogItems /\ Aside(line) \in Seq({r}) /\ r.line = line /\ r.block = 0 /\ block \in Nat
  BY AsideShape DEF FrameInv, TypeOK
<1>2. r.line \notin OfBlock /\ ~Separates(r) /\ ~Tool(r)
  BY <1>1, TraceAssumption DEF OfBlock, Separates, Tool, CallLines
<1>3. M \in Seq(LogItems) /\ Extends(L, M, r)
  <2> HIDE DEF r
  <2> QED
    BY <1>1, Extension
<1> HIDE DEF r, M
<1>4. InBlocks(M, block)
  BY <1>1, <1>2, <1>3, BlocksExtended DEF BlocksIn
<1>5. /\ Separated(M, block)
      /\ HasSeparator(M, block) <=> HasSeparator(L, block)
      /\ Closed(L, block) => Closed(M, block)
  BY <1>1, <1>2, <1>3, SeparatedExtended DEF BlocksIn
<1>6. HasTool(M, block) <=> HasTool(L, block)
  BY <1>1, <1>2, <1>3, ToolsExtended
<1> QED
  BY <1>4, <1>5, <1>6 DEF BlocksIn, M

\* The separator, if there is to be one, closes the block.
LEMMA SeparatorCloses ==
    ASSUME FrameInv, Open, NEW L \in Seq(LogItems), BlocksIn(L, trace_count),
           NEW M \in Seq(LogItems), Extends(L, M, Item("----")),
           trace_count > 0 => \E i \in DOMAIN M : i \notin DOMAIN L,
           ~(trace_count > 0) => M = L
    PROVE  InBlocks(M, block) /\ Separated(M, block) /\ Closed(M, block)
<1>1. /\ Item("----") \in LogItems /\ block \in Nat /\ Separates(Item("----"))
      /\ Item("----").block = block /\ Item("----").block # 0
  BY WrittenShape, LinesOfBlock DEF FrameInv, TypeOK, Lines, CallLines, Open
<1>2. CASE trace_count > 0
  <2>1. HasTool(L, block)
    BY <1>2 DEF BlocksIn
  <2> HIDE DEF Item
  <2>2. InBlocks(M, block)
    BY <1>1, BlocksExtended DEF BlocksIn
  <2> QED
    BY <1>1, <1>2, <2>1, <2>2, SeparatorExtended DEF BlocksIn
<1>3. CASE ~(trace_count > 0)
  BY <1>3 DEF BlocksIn, Closed, HasTool
<1> QED
  BY <1>2, <1>3

LEMMA BlockInvKept ==
    ASSUME FrameInv, FrameInv', BlockInv, [Next]_vars
    PROVE  BlockInv'
<1>0. log \in Seq(LogItems) /\ block \in Nat /\ trace_count \in Nat
  BY DEF FrameInv, TypeOK, LogItems
<1>1. ASSUME block' = block, Open' <=> Open, BlocksIn(log', trace_count')
      PROVE  BlockInv'
  BY <1>1 DEF BlockInv, BlocksIn
<1>2. ASSUME cause = Nobody, block' = block + 1, log' = log, trace_count' = 0, Open'
      PROVE  BlockInv'
  <2>1. Closed(log, block)
    BY <1>2 DEF BlockInv, BlocksIn, FrameInv, Open
  <2>2. /\ InBlocks(log, block + 1) /\ Separated(log, block + 1)
        /\ ~HasTool(log, block + 1) /\ ~HasSeparator(log, block + 1)
    BY <1>0, <2>1, NextBlock DEF BlockInv, BlocksIn
  <2>3. /\ InBlocks(log', block') /\ Separated(log', block')
        /\ ~HasTool(log', block') /\ ~HasSeparator(log', block') /\ ~(trace_count' > 0)
    BY <1>2, <2>2
  <2> QED
    BY <1>2, <2>3 DEF BlockInv, BlocksIn
<1>3. ASSUME block' = block, ~Open', InBlocks(log', block), Separated(log', block), Closed(log', block)
      PROVE  BlockInv'
  BY <1>3 DEF BlockInv, BlocksIn
<1>4. CASE WindowOperation
  <2>1. Open'
    BY <1>4, OneFrame DEF WindowOperation, Open
  <2> QED
    BY <1>2, <1>4, <2>1 DEF WindowOperation, advise_begin
<1>5. ASSUME NEW e \in Events, handle_event(e) PROVE BlockInv'
  <2>1. Open'
    BY <1>5, TwoFrames DEF handle_event, Open
  <2> QED
    BY <1>2, <1>5, <2>1 DEF handle_event
<1>6. ASSUME NEW t \in Threads, invoke_under_lock(t) PROVE BlockInv'
  <2>1. UNCHANGED <<frames, block, trace_count>> /\ log' = log \o Aside("invoke")
    BY <1>6 DEF invoke_under_lock
  <2>2. BlocksIn(log', trace_count')
    BY <1>0, <2>1, AsideKeepsBlocks DEF BlockInv
  <2>3. Open' <=> Open
    BY <2>1 DEF Open
  <2> QED
    BY <1>1, <2>1, <2>2, <2>3
<1>7. ASSUME NEW t \in Threads, Callback(t) PROVE BlockInv'
  <2>1. Open'
    BY <1>7, TwoFrames DEF Callback, Open
  <2> QED
    BY <1>2, <1>7, <2>1 DEF Callback, advise_begin
<1>8. CASE advise_end
  <2>1. frames = <<"manager">> /\ frames' = <<"ending">> /\ block' = block /\ log' = log \o Separator
    BY <1>8 DEF advise_end
  <2>2. Open /\ ~Open'
    BY <2>1, OneFrame DEF Open
  <2>3. /\ log' \in Seq(LogItems) /\ Extends(log, log', Item("----"))
        /\ trace_count > 0 => \E i \in DOMAIN log' : i \notin DOMAIN log
        /\ ~(trace_count > 0) => log' = log
    <3>1. Item("----") \in LogItems /\ Written("----") \in Seq({Item("----")}) /\ Written("----") # <<>>
      BY WrittenShape DEF Lines, CallLines
    <3>2. <<>> \in Seq({Item("----")})
      OBVIOUS
    <3> HIDE DEF Item, Written
    <3>3. CASE trace_count > 0
      BY <1>0, <2>1, <3>1, <3>3, Extension DEF Separator
    <3>4. CASE ~(trace_count > 0)
      BY <1>0, <2>1, <3>1, <3>2, <3>4, Extension, NoRun DEF Separator
    <3> QED
      BY <3>3, <3>4
  <2> QED
    BY <1>0, <1>3, <2>1, <2>2, <2>3, SeparatorCloses DEF BlockInv
<1>9. CASE Unlock
  <2>1. frames = <<"ending">> /\ frames' = <<>> /\ UNCHANGED <<block, log>>
    BY <1>9 DEF Unlock
  <2>2. ~Open /\ ~Open'
    BY <2>1, OneFrame DEF Open
  <2> QED
    BY <1>3, <2>1, <2>2 DEF BlockInv, BlocksIn
<1>10. CASE ToPolicy
  <2>1. /\ frames # <<>> /\ frames' = Append(frames, "policy") /\ UNCHANGED <<block, trace_count>>
        /\ log' = log \o Written("policy")
    BY <1>10, RunningHasFrames DEF ToPolicy
  <2>2. Open' <=> Open
    BY <2>1, FramePushed DEF Open, FrameNames
  <2>3. BlocksIn(log', trace_count')
    BY <1>0, <2>1, LineKeepsBlocks DEF BlockInv, Lines, CallLines
  <2> QED
    BY <1>1, <2>1, <2>2, <2>3
<1>11. CASE place_new_window
  <2>1. /\ frames # <<>> /\ frames' = Append(frames, "placing") /\ UNCHANGED <<block, trace_count, log>>
    BY <1>11 DEF place_new_window
  <2>2. Open' <=> Open
    BY <2>1, FramePushed DEF Open, FrameNames
  <2> QED
    BY <1>1, <2>1, <2>2 DEF BlockInv
<1>12. CASE Query
  <2>1. /\ frames # <<>> /\ frames' = Append(frames, "asked") /\ UNCHANGED <<block, trace_count>>
        /\ log' = AfterInput \o <<>>
    BY <1>12, RunningHasFrames DEF Query, PolicyRuns, InputLogged, AfterInput
  <2>2. Open' <=> Open
    BY <2>1, FramePushed DEF Open, FrameNames
  <2>3. BlocksIn(log', trace_count')
    BY <2>1, InputKeepsBlocks, InputShape, NoRun
  <2> QED
    BY <1>1, <2>1, <2>2, <2>3
<1>13. CASE Command
  <2>1. /\ frames # <<>> /\ frames' = Append(frames, "manager") /\ block' = block
        /\ trace_count' = trace_count + 1 /\ log' = AfterInput \o Written("tool")
    BY <1>13, RunningHasFrames DEF Command, PolicyRuns, InputLogged, AfterInput
  <2>2. Open' <=> Open
    BY <2>1, FramePushed DEF Open, FrameNames
  <2>3. BlocksIn(log', trace_count')
    BY <1>0, <2>1, InputKeepsBlocks, InputShape, LineKeepsBlocks DEF Lines, CallLines
  <2> QED
    BY <1>1, <2>1, <2>2, <2>3
<1>14. CASE place_and_size_for_state
  <2>1. /\ frames # <<>> /\ UNCHANGED <<frames, block, trace_count>>
        /\ log' = AfterInput \o Written("place")
    BY <1>14, RunningHasFrames DEF place_and_size_for_state, PolicyRuns, InputLogged, AfterInput
  <2>2. Open' <=> Open
    BY <2>1 DEF Open
  <2>3. BlocksIn(log', trace_count')
    BY <1>0, <2>1, InputKeepsBlocks, InputShape, LineKeepsBlocks DEF Lines, CallLines
  <2> QED
    BY <1>1, <2>1, <2>2, <2>3
<1>15. CASE WorkspaceTool
  <2>1. /\ frames # <<>> /\ UNCHANGED <<frames, block, trace_count>>
        /\ log' = log \o Written("workspace")
    BY <1>15, RunningHasFrames DEF WorkspaceTool, PolicyRuns
  <2>2. Open' <=> Open
    BY <2>1 DEF Open
  <2>3. BlocksIn(log', trace_count')
    BY <1>0, <2>1, LineKeepsBlocks DEF BlockInv, Lines, CallLines
  <2> QED
    BY <1>1, <2>1, <2>2, <2>3
<1>16. CASE Return
  <2>1. Len(frames) > 1 /\ frames' = Front(frames) /\ block' = block
    BY <1>16 DEF Return
  <2>2. (Open' <=> Open) /\ frames # <<>>
    BY <2>1, FramePopped DEF Open
  <2>3. BlocksIn(log', trace_count')
    <3>1. CASE Top = "placing"
      <4>1. log' = log \o Written("policy") /\ trace_count' = trace_count
        BY <1>16, <3>1 DEF Return
      <4> QED
        BY <1>0, <2>2, <4>1, LineKeepsBlocks DEF BlockInv, Lines, CallLines
    <3>2. CASE Top = "asked"
      <4>1. log' = log \o Written("tool") /\ trace_count' = trace_count + 1
        BY <1>16, <3>2 DEF Return
      <4> QED
        BY <1>0, <2>2, <4>1, LineKeepsBlocks DEF BlockInv, Lines, CallLines
    <3>3. CASE Top \notin {"placing", "asked"}
      <4>1. log' = log \o <<>> /\ trace_count' = trace_count
        BY <1>16, <3>3 DEF Return
      <4> QED
        BY <1>0, <4>1, NoRun DEF BlockInv
    <3> QED
      BY <3>1, <3>2, <3>3
  <2> QED
    BY <1>1, <2>1, <2>2, <2>3
<1>17. CASE Fail
  <2>1. /\ frames # <<>> /\ ~Ending /\ frames' = <<"ending">> /\ block' = block
        /\ log' = AfterFail \o (IF cause \in Threads THEN Aside("exception") ELSE <<>>)
    BY <1>17, RunningHasFrames DEF Fail, AfterFail, AfterExceptions
  <2>2. Open /\ ~Open'
    BY <2>1, Bottom, OneFrame DEF Open
  <2>3. BlocksIn(AfterExceptions, trace_count)
    BY <1>0, <2>1, FailShape, RunKeepsBlocks DEF BlockInv, Lines, CallLines
  <2>4. InBlocks(AfterFail, block) /\ Separated(AfterFail, block) /\ Closed(AfterFail, block)
    BY <2>2, <2>3, FailShape, SeparatorCloses
  <2>5. CASE cause \notin Threads
    <3>1. log' = AfterFail
      BY <2>1, <2>5, FailShape, NoRun
    <3> QED
      BY <1>3, <2>1, <2>2, <2>4, <3>1
  <2>6. CASE cause \in Threads
    <3> DEFINE r == AsideItem("exception")
    <3>1. log' = AfterFail \o Aside("exception")
      BY <2>1, <2>6
    <3>2. r \in LogItems /\ Aside("exception") \in Seq({r}) /\ r.line = "exception" /\ r.block = 0
      BY AsideShape
    <3>3. r.line \notin OfBlock /\ ~Separates(r) /\ ~Tool(r)
      BY <3>2, TraceAssumption DEF OfBlock, Separates, Tool, CallLines
    <3>4. Extends(AfterFail, log', r) /\ log' \in Seq(LogItems) /\ AfterFail \in Seq(LogItems)
      <4> HIDE DEF r
      <4> QED
        BY <3>1, <3>2, FailShape, Extension
    <3> HIDE DEF r
    <3>5. InBlocks(log', block)
      BY <1>0, <2>4, <3>2, <3>3, <3>4, BlocksExtended
    <3>6. Separated(log', block) /\ Closed(log', block)
      BY <1>0, <2>4, <3>2, <3>3, <3>4, SeparatedExtended
    <3> QED
      BY <1>3, <2>1, <2>2, <3>5, <3>6
  <2> QED
    BY <2>5, <2>6
<1>18. CASE UNCHANGED vars
  BY <1>18 DEF vars, BlockInv, BlocksIn, Open
<1> QED
  BY <1>4, <1>5, <1>6, <1>7, <1>8, <1>9, <1>10, <1>11, <1>12, <1>13, <1>14, <1>15, <1>16,
     <1>17, <1>18 DEF Next

\* The trace shows which counted calls were made under one hold of the lock:
\* separators stand between the blocks and nowhere else, also where a call
\* fails, where policies call tools from their advise_end(), and whatever
\* trace_count was before the first block.
THEOREM TraceBlocksSeparated == Spec => []BlocksSeparated
<1>1. Init => FrameInv /\ BlockInv
  BY DEF Init, FrameInv, TypeOK, BlockInv, BlocksIn, InBlocks, Separated, Closed, Open
<1>2. FrameInv /\ BlockInv /\ [Next]_vars => (FrameInv /\ BlockInv)'
  BY FrameInvKept, BlockInvKept
<1>3. FrameInv /\ BlockInv => BlocksSeparated
  BY SeparatedMeans DEF FrameInv, TypeOK, BlockInv, BlocksIn, LogItems
<1> QED
  BY <1>1, <1>2, <1>3, PTL DEF Spec

-----------------------------------------------------------------------------
(* Events.                                                                 *)

Calls   == {"tool", "place"}
Results == {"tool", "place", "exception"}

\* Every event once, and before the calls of its block.
OnceLogged(L) ==
    /\ \A i, j \in DOMAIN L : L[i].line \in Events /\ L[j].line = L[i].line => i = j
    /\ \A i, k \in DOMAIN L :
        L[i].line \in Events /\ L[k].line \in Calls /\ L[k].block = L[i].block => i < k

\* What the event was logged for.
Answered(L, i) == \E k \in DOMAIN L : L[k].block = L[i].block /\ L[k].line \in Results

\* Every logged event has been handled, and answered, but for the one that is
\* being handled.
EventsKnown(L) ==
    \A i \in DOMAIN L : L[i].line \in Events =>
        /\ L[i].line \in handled
        /\ L[i].line # cause => Answered(L, i)
        /\ L[i].line = cause => L[i].block = block

CauseAnswered(L) ==
    \A i \in DOMAIN L : L[i].line \in Events /\ L[i].line = cause => Answered(L, i)

\* An event that may yet be logged has not been, and no call in its block has.
Unlogged(L, input) ==
    input \in Events =>
        /\ \A i \in DOMAIN L : L[i].line # input
        /\ \A k \in DOMAIN L : L[k].block = block => L[k].line \notin Calls

EventInv ==
    /\ OnceLogged(log)
    /\ EventsKnown(log)
    /\ Asked \/ CauseAnswered(log)
    /\ frames # <<>> => /\ log_input \in {"nothing", cause}
                        /\ Unlogged(log, log_input)
                        /\ log_input \in Events => ~Asked
    /\ cause \in Events => cause \in handled

\* Lines other than events.
LEMMA LineKeepsEvents ==
    ASSUME NEW L \in Seq(LogItems), NEW M \in Seq(LogItems), NEW r \in LogItems, Extends(L, M, r),
           r.line \notin Events, OnceLogged(L)
    PROVE  /\ OnceLogged(M)
           /\ EventsKnown(L) => EventsKnown(M)
           /\ CauseAnswered(L) => CauseAnswered(M)
           /\ r.line \in Results /\ r.block = block /\ (\E i \in DOMAIN M : i \notin DOMAIN L)
              => (EventsKnown(L) => CauseAnswered(M))
           /\ r.line \notin Calls => \A input : Unlogged(L, input) => Unlogged(M, input)
<1>1. \A i \in DOMAIN M : M[i] = r \/ (i \in DOMAIN L /\ M[i] = L[i])
  BY DEF Extends
<1>2. \A i \in DOMAIN L : i \in DOMAIN M /\ M[i] = L[i]
  BY DEF Extends
<1>3. \A i \in DOMAIN M : M[i].line \in Events => i \in DOMAIN L /\ M[i] = L[i]
  BY <1>1
<1>4. \A i \in DOMAIN L, k \in DOMAIN M : k \notin DOMAIN L => i < k
  BY DEF Extends
<1>5. \A i \in DOMAIN L : Answered(L, i) => Answered(M, i)
  BY <1>2 DEF Answered
<1>6. OnceLogged(M)
  <2>1. \A i, j \in DOMAIN M : M[i].line \in Events /\ M[j].line = M[i].line => i = j
    BY <1>3 DEF OnceLogged
  <2>2. ASSUME NEW i \in DOMAIN M, NEW k \in DOMAIN M, M[i].line \in Events,
               M[k].line \in Calls, M[k].block = M[i].block
        PROVE  i < k
    <3>1. i \in DOMAIN L /\ M[i] = L[i]
      BY <1>3, <2>2
    <3>2. CASE k \in DOMAIN L
      BY <1>2, <2>2, <3>1, <3>2 DEF OnceLogged
    <3>3. CASE k \notin DOMAIN L
      BY <1>4, <3>1, <3>3
    <3> QED
      BY <3>2, <3>3
  <2> QED
    BY <2>1, <2>2 DEF OnceLogged
<1>7. ASSUME EventsKnown(L)
      PROVE  EventsKnown(M)
  BY <1>3, <1>5, <1>7 DEF EventsKnown
<1>10. ASSUME CauseAnswered(L)
       PROVE  CauseAnswered(M)
  BY <1>3, <1>5, <1>10 DEF CauseAnswered
<1>8. ASSUME r.line \in Results, r.block = block, \E i \in DOMAIN M : i \notin DOMAIN L,
             EventsKnown(L)
      PROVE  CauseAnswered(M)
  <2>1. \A i \in DOMAIN M : M[i].block = block => Answered(M, i)
    BY <1>1, <1>8 DEF Answered
  <2> QED
    BY <1>3, <1>8, <2>1 DEF EventsKnown, CauseAnswered
<1>9. ASSUME r.line \notin Calls, NEW input, Unlogged(L, input)
      PROVE  Unlogged(M, input)
  <2>1. input \in Events => r.line # input
    OBVIOUS
  <2> QED
    BY <1>1, <1>9, <2>1 DEF Unlogged
<1> QED
  BY <1>6, <1>7, <1>8, <1>9, <1>10

\* The event itself.
LEMMA EventLogged ==
    ASSUME FrameInv, EventInv, frames # <<>>
    PROVE  /\ OnceLogged(AfterInput)
           /\ EventsKnown(AfterInput)
           /\ log_input \in Events \/ Asked \/ CauseAnswered(AfterInput)
<1>1. CASE log_input \notin Events
  BY <1>1, InputShape DEF EventInv
<1>2. CASE log_input \in Events
  <2> DEFINE L == log
             M == AfterInput
             r == Item(log_input)
  <2>0. Extends(L, M, r) /\ \A i, j \in DOMAIN M \ DOMAIN L : i = j
    BY <1>2, InputShape
  <2>1. \A i \in DOMAIN M : M[i] = r \/ (i \in DOMAIN L /\ M[i] = L[i])
    BY <2>0 DEF Extends
  <2>2. \A i \in DOMAIN L : i \in DOMAIN M /\ M[i] = L[i]
    BY <2>0 DEF Extends
  <2>3. /\ r.line = log_input /\ r.block = block
        /\ log_input \notin Calls /\ log_input # "nothing" /\ log_input = cause
    BY <1>2, WrittenShape, TraceAssumption DEF Lines, CallLines, Calls, EventInv
  <2>4. /\ \A i \in DOMAIN L : L[i].line # log_input
        /\ \A k \in DOMAIN L : L[k].block = block => L[k].line \notin Calls
    BY <1>2 DEF EventInv, Unlogged
  <2>5. \A i \in DOMAIN L : Answered(L, i) => Answered(M, i)
    BY <2>2 DEF Answered
  <2>6. OnceLogged(M)
    <3>0. \A i \in DOMAIN M : i \notin DOMAIN L => M[i] = r
      BY <2>1
    <3>1. ASSUME NEW i \in DOMAIN M, NEW j \in DOMAIN M, M[i].line \in Events, M[j].line = M[i].line
          PROVE  i = j
      <4>1. CASE i \in DOMAIN L /\ j \in DOMAIN L
        BY <2>2, <3>1, <4>1 DEF EventInv, OnceLogged
      <4>2. CASE i \in DOMAIN L /\ j \notin DOMAIN L
        BY <2>2, <2>3, <2>4, <3>0, <3>1, <4>2
      <4>3. CASE i \notin DOMAIN L /\ j \in DOMAIN L
        BY <2>2, <2>3, <2>4, <3>0, <3>1, <4>3
      <4>4. CASE i \notin DOMAIN L /\ j \notin DOMAIN L
        BY <2>0, <4>4
      <4> QED
        BY <4>1, <4>2, <4>3, <4>4
    <3>2. ASSUME NEW i \in DOMAIN M, NEW k \in DOMAIN M, M[i].line \in Events,
                 M[k].line \in Calls, M[k].block = M[i].block
          PROVE  i < k
      <4>1. k \in DOMAIN L /\ M[k] = L[k]
        BY <2>1, <2>3, <3>2
      <4>2. i \in DOMAIN L /\ M[i] = L[i]
        BY <2>1, <2>3, <2>4, <3>2, <4>1
      <4> QED
        BY <3>2, <4>1, <4>2 DEF EventInv, OnceLogged
    <3> QED
      BY <3>1, <3>2 DEF OnceLogged
  <2>7. EventsKnown(M)
    <3> SUFFICES ASSUME NEW i \in DOMAIN M, M[i].line \in Events
                 PROVE  /\ M[i].line \in handled
                        /\ M[i].line # cause => Answered(M, i)
                        /\ M[i].line = cause => M[i].block = block
      BY DEF EventsKnown
    <3>1. CASE i \in DOMAIN L
      BY <2>2, <2>5, <3>1 DEF EventInv, EventsKnown
    <3>2. CASE i \notin DOMAIN L
      BY <1>2, <2>1, <2>3, <3>2 DEF EventInv
    <3> QED
      BY <3>1, <3>2
  <2> QED
    BY <1>2, <2>6, <2>7
<1> QED
  BY <1>1, <1>2

\* A line written after a change of the log, by the holder of the mutex.
LEMMA LineAfter ==
    ASSUME FrameInv, NEW L \in Seq(LogItems), OnceLogged(L), EventsKnown(L),
           NEW line \in CallLines
    PROVE  /\ OnceLogged(L \o Written(line))
           /\ EventsKnown(L \o Written(line))
           /\ line \in Results \/ CauseAnswered(L) => CauseAnswered(L \o Written(line))
           /\ line \notin Calls => \A input : Unlogged(L, input) => Unlogged(L \o Written(line), input)
<1>1. /\ Item(line) \in LogItems /\ Written(line) \in Seq({Item(line)}) /\ Written(line) # <<>>
      /\ Item(line).line = line /\ Item(line).block = block /\ line \notin Events
  BY WrittenShape, TraceAssumption DEF Lines
<1>2. /\ L \o Written(line) \in Seq(LogItems) /\ Extends(L, L \o Written(line), Item(line))
      /\ \E i \in DOMAIN (L \o Written(line)) : i \notin DOMAIN L
  <2> HIDE DEF Item, Written
  <2> QED
    BY <1>1, Extension
<1> DEFINE M == L \o Written(line)
           r == Item(line)
<1> HIDE DEF M, r
<1>3. r \in LogItems /\ M \in Seq(LogItems) /\ Extends(L, M, r) /\ r.line = line
  BY <1>1, <1>2 DEF M, r
<1>4. r.block = block /\ \E i \in DOMAIN M : i \notin DOMAIN L
  BY <1>1, <1>2 DEF M, r
<1>5. /\ OnceLogged(M) /\ EventsKnown(M)
      /\ CauseAnswered(L) => CauseAnswered(M)
      /\ line \notin Calls => \A input : Unlogged(L, input) => Unlogged(M, input)
      /\ line \in Results => CauseAnswered(M)
  BY <1>1, <1>3, <1>4, LineKeepsEvents
<1> QED
  BY <1>1, <1>5 DEF M

LEMMA AsideAfter ==
    ASSUME NEW L \in Seq(LogItems), OnceLogged(L), EventsKnown(L),
           NEW line \in {"invoke", "exception"}
    PROVE  /\ OnceLogged(L \o Aside(line))
           /\ EventsKnown(L \o Aside(line))
           /\ CauseAnswered(L) => CauseAnswered(L \o Aside(line))
           /\ \A input : Unlogged(L, input) => Unlogged(L \o Aside(line), input)
<1>1. /\ AsideItem(line) \in LogItems /\ Aside(line) \in Seq({AsideItem(line)})
      /\ AsideItem(line).line = line /\ line \notin Events /\ line \notin Calls
  BY AsideShape, TraceAssumption DEF CallLines, Calls
<1>2. L \o Aside(line) \in Seq(LogItems) /\ Extends(L, L \o Aside(line), AsideItem(line))
  <2> HIDE DEF AsideItem, Aside
  <2> QED
    BY <1>1, Extension
<1> DEFINE M == L \o Aside(line)
           r == AsideItem(line)
<1> HIDE DEF M, r
<1>3. r \in LogItems /\ M \in Seq(LogItems) /\ Extends(L, M, r) /\ r.line = line
  BY <1>1, <1>2 DEF M, r
<1>4. /\ OnceLogged(M) /\ EventsKnown(M)
      /\ CauseAnswered(L) => CauseAnswered(M)
      /\ line \notin Calls => \A input : Unlogged(L, input) => Unlogged(M, input)
  BY <1>1, <1>3, LineKeepsEvents
<1> QED
  BY <1>1, <1>4 DEF M

LEMMA EventInvKept ==
    ASSUME FrameInv, FrameInv', BlockInv, EventInv, [Next]_vars
    PROVE  EventInv'
<1>0. log \in Seq(LogItems) /\ block \in Nat /\ Nobody \notin Events /\ Window \notin Events
  BY TraceAssumption DEF FrameInv, TypeOK, LogItems
<1>1. ASSUME UNCHANGED <<cause, block, handled>>,
             OnceLogged(log'), EventsKnown(log'), Asked' \/ CauseAnswered(log'),
             frames' # <<>> => /\ log_input' \in {"nothing", cause}
                               /\ Unlogged(log', log_input')
                               /\ log_input' \in Events => ~Asked'
      PROVE  EventInv'
  <2>1. EventsKnown(log)'
    BY <1>1 DEF EventsKnown, Answered
  <2>2. CauseAnswered(log)' <=> CauseAnswered(log')
    BY <1>1 DEF CauseAnswered, Answered
  <2>3. OnceLogged(log)'
    BY <1>1 DEF OnceLogged
  <2>4. Unlogged(log, log_input)' <=> Unlogged(log', log_input')
    BY <1>1 DEF Unlogged
  <2> QED
    BY <1>1, <2>1, <2>2, <2>3, <2>4 DEF EventInv
\* A block begins: nothing logged is of the new cause, or of the new block.
<1>2. ASSUME frames = <<>>, block' = block + 1, log' = log, ~Asked', handled \subseteq handled',
             \A i \in DOMAIN log : log[i].line \in Events => log[i].line # cause',
             log_input' \in {"nothing", cause'},
             log_input' \in Events => log_input' \notin handled,
             cause' \in Events => cause' \in handled'
      PROVE  EventInv'
  <2>1. cause = Nobody
    BY <1>2 DEF FrameInv
  <2>2. \A i \in DOMAIN log : log[i].line \in Events => log[i].line \in handled /\ Answered(log, i)
    BY <1>0, <2>1 DEF EventInv, EventsKnown
  <2>3. \A i \in DOMAIN log : log[i].block # block + 1
    BY <1>0, LogShape DEF BlockInv, BlocksIn, InBlocks
  <2>4. OnceLogged(log)' /\ EventsKnown(log)' /\ CauseAnswered(log)'
    BY <1>2, <2>2 DEF EventInv, OnceLogged, EventsKnown, CauseAnswered, Answered
  <2>5. Unlogged(log, log_input)'
    BY <1>2, <2>2, <2>3 DEF Unlogged
  <2>6. log_input' \in Events => ~Asked'
    BY <1>2
  <2> QED
    BY <1>2, <2>4, <2>5, <2>6 DEF EventInv
<1>3. CASE WindowOperation
  <2>1. frames = <<>> /\ frames' = <<"manager">>
    BY <1>3 DEF WindowOperation, FrameInv
  <2>2. ~Asked'
    BY <2>1, OneFrame DEF Asked
  <2>3. \A i \in DOMAIN log : log[i].line \in Events => log[i].line # cause'
    BY <1>0, <1>3 DEF WindowOperation
  <2>4. "nothing" \notin Events
    BY TraceAssumption
  <2> QED
    BY <1>0, <1>2, <1>3, <2>1, <2>2, <2>3, <2>4 DEF WindowOperation, advise_begin
<1>4. ASSUME NEW e \in Events, handle_event(e) PROVE EventInv'
  <2>1. frames = <<>> /\ frames' = <<"manager", "policy">>
    BY <1>4 DEF handle_event, FrameInv
  <2>2. ~Asked'
    BY <2>1, TwoFrames DEF Asked
  <2>3. \A i \in DOMAIN log : log[i].line \in Events => log[i].line # cause'
    BY <1>4 DEF handle_event, EventInv, EventsKnown
  <2> QED
    BY <1>2, <1>4, <2>1, <2>2, <2>3 DEF handle_event
<1>5. ASSUME NEW t \in Threads, Callback(t) PROVE EventInv'
  <2>1. frames = <<>> /\ frames' = <<"manager", "policy">>
    BY <1>5 DEF Callback, FrameInv
  <2>2. ~Asked'
    BY <2>1, TwoFrames DEF Asked
  <2>3. t \notin Events /\ "nothing" \notin Events
    BY TraceAssumption
  <2> QED
    BY <1>2, <1>5, <2>1, <2>2, <2>3 DEF Callback, advise_begin
<1>6. ASSUME NEW t \in Threads, invoke_under_lock(t) PROVE EventInv'
  <2>1. UNCHANGED <<frames, cause, block, handled, log_input>> /\ log' = log \o Aside("invoke")
    BY <1>6 DEF invoke_under_lock
  <2>2. Asked' <=> Asked
    BY <2>1 DEF Asked
  <2>3. /\ OnceLogged(log') /\ EventsKnown(log') /\ (CauseAnswered(log) => CauseAnswered(log'))
        /\ \A input : Unlogged(log, input) => Unlogged(log', input)
    BY <1>0, <2>1, AsideAfter DEF EventInv
  <2> QED
    BY <1>1, <2>1, <2>2, <2>3 DEF EventInv
\* Steps of the mutex's holder that write one line, or none, that is no call.
<1>7. ASSUME NEW line \in CallLines, line \notin Calls, log' \in {log, log \o Written(line)},
             UNCHANGED <<cause, block, handled, log_input>>,
             Asked => Asked', log_input' \in Events => ~Asked', frames # <<>>
      PROVE  EventInv'
  <2>1. /\ OnceLogged(log') /\ EventsKnown(log') /\ (CauseAnswered(log) => CauseAnswered(log'))
        /\ \A input : Unlogged(log, input) => Unlogged(log', input)
    BY <1>0, <1>7, LineAfter DEF EventInv
  <2> QED
    BY <1>1, <1>7, <2>1 DEF EventInv
<1>8. CASE advise_end
  <2>1. /\ frames = <<"manager">> /\ frames' = <<"ending">> /\ UNCHANGED <<cause, block, handled, log_input>>
        /\ log' = log \o Separator
    BY <1>8 DEF advise_end
  <2>2. ~Asked /\ ~Asked' /\ frames # <<>>
    BY <2>1, OneFrame DEF Asked
  <2>3. log' \in {log, log \o Written("----")}
    BY <1>0, <2>1, NoRun DEF Separator
  <2> QED
    BY <1>7, <2>1, <2>2, <2>3 DEF CallLines, Calls
<1>9. CASE Unlock
  <2>1. frames = <<"ending">> /\ frames' = <<>> /\ cause' = Nobody /\ UNCHANGED <<block, handled, log, log_input>>
    BY <1>9 DEF Unlock
  <2>2. ~Asked
    BY <2>1, OneFrame DEF Asked
  <2>3. \A i \in DOMAIN log : log[i].line \in Events => log[i].line \in handled /\ Answered(log, i)
    BY <2>2 DEF EventInv, EventsKnown, CauseAnswered
  <2>4. OnceLogged(log)' /\ EventsKnown(log)' /\ CauseAnswered(log)'
    BY <1>0, <2>1, <2>3 DEF EventInv, OnceLogged, EventsKnown, CauseAnswered, Answered
  <2> QED
    BY <1>0, <2>1, <2>4 DEF EventInv
<1>10. CASE ToPolicy
  <2>1. /\ frames # <<>> /\ frames' = Append(frames, "policy")
        /\ log' = log \o Written("policy") /\ UNCHANGED <<cause, block, handled, log_input>>
    BY <1>10, RunningHasFrames DEF ToPolicy
  <2>2. Asked' <=> Asked
    BY <2>1, FramePushed DEF FrameNames
  <2> QED
    BY <1>7, <2>1, <2>2 DEF CallLines, Calls, EventInv
<1>11. CASE place_new_window
  <2>1. /\ frames # <<>> /\ frames' = Append(frames, "placing")
        /\ UNCHANGED <<cause, block, handled, log_input, log>>
    BY <1>11 DEF place_new_window
  <2>2. Asked' <=> Asked
    BY <2>1, FramePushed DEF FrameNames
  <2>3. "policy" \in CallLines /\ "policy" \notin Calls
    BY DEF CallLines, Calls
  <2> QED
    BY <1>7, <2>1, <2>2, <2>3 DEF EventInv
<1>12. CASE WorkspaceTool
  <2>1. /\ frames # <<>> /\ frames' = frames
        /\ log' = log \o Written("workspace") /\ UNCHANGED <<cause, block, handled, log_input>>
    BY <1>12, RunningHasFrames DEF WorkspaceTool, PolicyRuns
  <2>2. Asked' <=> Asked
    BY <2>1 DEF Asked
  <2> QED
    BY <1>7, <2>1, <2>2 DEF CallLines, Calls, EventInv
\* The event has been logged, if it had to be.
<1>13. ASSUME frames # <<>>, UNCHANGED <<cause, block, handled>>,
              log_input' = IF log_input \in Events THEN "nothing" ELSE log_input,
              OnceLogged(log'), EventsKnown(log'), Asked' \/ CauseAnswered(log')
       PROVE  EventInv'
  <2>1. "nothing" \notin Events
    BY TraceAssumption
  <2>2. log_input' \notin Events /\ log_input' \in {"nothing", cause}
    BY <1>13, <2>1 DEF EventInv
  <2> QED
    BY <1>1, <1>13, <2>2 DEF Unlogged
<1>14. CASE Query
  <2>1. /\ frames # <<>> /\ frames' = Append(frames, "asked") /\ log' = AfterInput \o <<>>
        /\ UNCHANGED <<cause, block, handled>>
        /\ log_input' = IF log_input \in Events THEN "nothing" ELSE log_input
    BY <1>14, RunningHasFrames DEF Query, PolicyRuns, InputLogged, AfterInput
  <2>2. log' = AfterInput
    BY <2>1, InputShape, NoRun
  <2>3. Asked'
    BY <2>1, FramePushed DEF FrameNames
  <2> QED
    BY <1>13, <2>1, <2>2, <2>3, EventLogged
<1>15. ASSUME Command \/ place_and_size_for_state PROVE EventInv'
  <2>1. \E line \in Calls : /\ log' = AfterInput \o Written(line)
                            /\ frames # <<>> /\ UNCHANGED <<cause, block, handled>>
                            /\ log_input' = IF log_input \in Events THEN "nothing" ELSE log_input
    BY <1>15, RunningHasFrames DEF Command, place_and_size_for_state, PolicyRuns, InputLogged,
                                   AfterInput, Calls
  <2>2. PICK line \in Calls : log' = AfterInput \o Written(line)
    BY <2>1
  <2>3. line \in CallLines /\ line \in Results
    BY DEF Calls, CallLines, Results
  <2>4. OnceLogged(log') /\ EventsKnown(log') /\ CauseAnswered(log')
    BY <2>1, <2>2, <2>3, EventLogged, InputShape, LineAfter
  <2> QED
    BY <1>13, <2>1, <2>4
<1>16. CASE Return
  <2>1. Len(frames) > 1 /\ frames' = Front(frames) /\ UNCHANGED <<cause, block, handled, log_input>>
    BY <1>16 DEF Return
  <2>2. /\ frames # <<>> /\ (Asked' => Asked) /\ (Top = "asked" => Asked)
        /\ Top # "asked" /\ Asked => Asked'
    BY <2>1, FramePopped
  <2>3. CASE Top = "asked"
    <3>1. log' = log \o Written("tool")
      BY <1>16, <2>3 DEF Return
    <3>2. OnceLogged(log') /\ EventsKnown(log') /\ CauseAnswered(log')
      BY <1>0, <3>1, LineAfter DEF EventInv, CallLines, Results
    <3>3. log_input \notin Events
      BY <2>2, <2>3 DEF EventInv
    <3> QED
      BY <1>13, <2>1, <2>2, <3>2, <3>3
  <2>4. CASE Top # "asked"
    <3>1. log' \in {log, log \o Written("policy")}
      BY <1>0, <1>16, <2>4, NoRun DEF Return
    <3> QED
      BY <1>7, <2>1, <2>2, <2>4, <3>1 DEF CallLines, Calls, EventInv
  <2> QED
    BY <2>3, <2>4
<1>17. CASE Fail
  <2>1. /\ frames # <<>> /\ frames' = <<"ending">> /\ ~Ending
        /\ UNCHANGED <<cause, block, handled, log_input>>
        /\ log' = AfterFail \o (IF cause \in Threads THEN Aside("exception") ELSE <<>>)
    BY <1>17, RunningHasFrames DEF Fail, AfterFail, AfterExceptions
  <2>2. ~Asked'
    BY <2>1, OneFrame DEF Asked
  \* What has asked is above the bottom, so that its exception is logged.
  <2>3. cause \in Events /\ Asked => Passed >= 1
    <3> SUFFICES ASSUME cause \in Events, Asked PROVE Passed >= 1
      OBVIOUS
    <3>1. cause \notin Threads
      BY TraceAssumption
    <3>2. PICK k \in DOMAIN frames : frames[k] = "asked"
      BY DEF Asked
    <3>3. k # 1 /\ k \in 1..Len(frames) /\ Len(frames) \in Nat
      BY <2>1, <3>2, LenProperties DEF FrameInv, TypeOK
    <3> QED
      BY <3>1, <3>3 DEF Passed
  <2>4. /\ Item("exception") \in LogItems /\ Item("exception").line = "exception"
        /\ Item("exception").block = block /\ "exception" \notin Events /\ "exception" \notin Calls
        /\ Item("----") \in LogItems /\ Item("----").line = "----"
        /\ "----" \notin Events /\ "----" \notin Calls
    BY WrittenShape, TraceAssumption DEF Lines, CallLines, Calls
  <2>5. /\ OnceLogged(AfterExceptions) /\ EventsKnown(AfterExceptions)
        /\ \A input : Unlogged(log, input) => Unlogged(AfterExceptions, input)
        /\ CauseAnswered(AfterExceptions)
    <3>1. /\ OnceLogged(AfterExceptions) /\ EventsKnown(AfterExceptions)
          /\ \A input : Unlogged(log, input) => Unlogged(AfterExceptions, input)
          /\ CauseAnswered(log) => CauseAnswered(AfterExceptions)
          /\ Passed >= 1 => CauseAnswered(AfterExceptions)
      BY <1>0, <2>4, FailShape, LineKeepsEvents DEF EventInv, Results
    <3>2. cause \notin Events => CauseAnswered(AfterExceptions)
      BY DEF CauseAnswered
    <3> QED
      BY <2>3, <3>1, <3>2 DEF EventInv
  <2>6. /\ OnceLogged(AfterFail) /\ EventsKnown(AfterFail) /\ CauseAnswered(AfterFail)
        /\ \A input : Unlogged(log, input) => Unlogged(AfterFail, input)
    BY <2>4, <2>5, FailShape, LineKeepsEvents
  <2>7. /\ OnceLogged(log') /\ EventsKnown(log') /\ CauseAnswered(log')
        /\ \A input : Unlogged(log, input) => Unlogged(log', input)
    <3>1. CASE cause \in Threads
      BY <2>1, <2>6, <3>1, FailShape, AsideAfter
    <3>2. CASE cause \notin Threads
      BY <2>1, <2>6, <3>2, FailShape, NoRun
    <3> QED
      BY <3>1, <3>2
  <2> QED
    BY <1>1, <2>1, <2>2, <2>7 DEF EventInv
<1>18. CASE UNCHANGED vars
  BY <1>18 DEF vars, EventInv, OnceLogged, EventsKnown, CauseAnswered, Answered, Unlogged, Asked
<1> QED
  BY <1>3, <1>4, <1>5, <1>6, <1>8, <1>9, <1>10, <1>11, <1>12, <1>14, <1>15, <1>16, <1>17, <1>18
     DEF Next

\* An event for which the policy calls a tool stands in the log once, before
\* the calls it led to and in their block, and no other event does, whatever
\* threads, queries and failures come between.
THEOREM TraceEventsOnce == Spec => []EventsLoggedOnce
<1>1. Init => FrameInv /\ BlockInv /\ EventInv
  <2>1. Init => FrameInv /\ BlockInv
    BY DEF Init, FrameInv, TypeOK, BlockInv, BlocksIn, InBlocks, Separated, Closed, Open
  <2>2. Init => EventInv
    BY TraceAssumption DEF Init, EventInv, OnceLogged, EventsKnown, CauseAnswered
  <2> QED
    BY <2>1, <2>2
<1>2. FrameInv /\ BlockInv /\ EventInv /\ [Next]_vars => (FrameInv /\ BlockInv /\ EventInv)'
  BY FrameInvKept, BlockInvKept, EventInvKept
<1>3. FrameInv /\ BlockInv /\ EventInv => EventsLoggedOnce
  <2> SUFFICES ASSUME FrameInv, BlockInv, EventInv, NEW e \in Events,
                      NEW i \in DOMAIN log, NEW j \in DOMAIN log, log[i].line = e, log[j].line = e
               PROVE  /\ i = j
                      /\ log[i].block # 0
                      /\ \A k \in DOMAIN log :
                            log[k].block = log[i].block /\ log[k].line \in {"tool", "place"} => i < k
                      /\ cause # e => \E k \in DOMAIN log :
                            log[k].block = log[i].block /\ log[k].line \in {"tool", "place", "exception"}
    BY DEF EventsLoggedOnce
  <2>1. i = j /\ \A k \in DOMAIN log :
                    log[k].block = log[i].block /\ log[k].line \in {"tool", "place"} => i < k
    BY DEF EventInv, OnceLogged, Calls
  <2>2. log[i].block # 0
    BY DEF BlockInv, BlocksIn, InBlocks, OfBlock
  <2>3. cause # e => \E k \in DOMAIN log :
           log[k].block = log[i].block /\ log[k].line \in {"tool", "place", "exception"}
    BY DEF EventInv, EventsKnown, Answered, Results
  <2> QED
    BY <2>1, <2>2, <2>3
<1> QED
  BY <1>1, <1>2, <1>3, PTL DEF Spec
=============================================================================
