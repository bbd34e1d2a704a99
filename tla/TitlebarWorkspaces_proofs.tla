---------------------- MODULE TitlebarWorkspaces_proofs ----------------------
(***************************************************************************)
(* The invariants of the titlebar shell's workspaces, for any number of    *)
(* windows, applications and workspaces.                                   *)
(*                                                                         *)
(* TitlebarInv is inductive.  It is Inv of the window manager, the ranks   *)
(* of its trees (a key takes a whole tree to another workspace), and       *)
(* PolicyInv.  An operation is a chain of scenes: the lemmas follow one    *)
(* scene to the next, along a list of windows by a fold, and               *)
(* StartOfScene and EndOfScene lead from a state to its scene and back.    *)
(***************************************************************************)
EXTENDS TitlebarWorkspaces, BasicWindowManager_proofs

\* FoldLeft() over a list of length m: f[s] is what the positions in s come to,
\* the greatest of them last.
Folds(f, S, step, c, list, m) ==
    /\ f \in [SUBSET (1..m) -> S]
    /\ \A s \in SUBSET (1..m) :
            f[s] = IF s = {} THEN c ELSE step[<<f[s \ {Max(s)}], list[Max(s)]>>]

\* There is such a function if the step is one from S to S.
LEMMA FoldsExist ==
    ASSUME NEW S, NEW E, NEW step \in [S \X E -> S], NEW c \in S,
           NEW list \in Seq(E)
    PROVE  \E f : Folds(f, S, step, c, list, Len(list))
<1> DEFINE K == {k \in Nat : \E f : Folds(f, S, step, c, list, k)}
           n == Len(list)
<1>1. n \in Nat
  OBVIOUS
<1>2. 0 \in K
  <2> DEFINE f == [s \in SUBSET (1..0) |-> c]
  <2>1. SUBSET (1..0) = {{}}
    OBVIOUS
  <2>2. f \in [SUBSET (1..0) -> S] /\ \A s \in SUBSET (1..0) : s = {} /\ f[s] = c
    BY <2>1
  <2>3. Folds(f, S, step, c, list, 0)
    <3> HIDE DEF f
    <3> QED BY <2>2 DEF Folds
  <2> QED BY <2>3
<1>3. ASSUME NEW k \in 0..n, k < n, k \in K PROVE k + 1 \in K
  <2>1. PICK f : Folds(f, S, step, c, list, k)
    BY <1>3
  <2>2. k \in Nat /\ k + 1 \in Nat /\ k + 1 \in 1..n /\ list[k + 1] \in E
    BY <1>1, <1>3
  <2> DEFINE m == k + 1
  <2> DEFINE g == [s \in SUBSET (1..m) |->
                    IF m \in s THEN step[<<f[s \ {m}], list[m]>>] ELSE f[s]]
  <2>3. ASSUME NEW s \in SUBSET (1..m)
        PROVE  /\ s \ {m} \in SUBSET (1..k)
               /\ m \notin s => s \in SUBSET (1..k)
               /\ m \in s => s # {} /\ Max(s) = m
    <3>1. \A x \in 1..m : x # m => x \in 1..k
      BY <2>2
    <3>2. ASSUME m \in s PROVE Max(s) = m
      <4>1. Max(s) \in s /\ \A y \in s : y <= Max(s)
        <5> HIDE DEF m
        <5> QED BY <2>2, <3>2, MaxProperties DEF m
      <4>2. Max(s) \in 1..m /\ m <= Max(s)
        BY <4>1, <3>2
      <4> QED BY <4>2, <2>2
    <3> QED BY <3>1, <3>2
  <2>4. f \in [SUBSET (1..k) -> S]
    BY <2>1 DEF Folds
  <2>5. g \in [SUBSET (1..m) -> S]
    <3>1. ASSUME NEW s \in SUBSET (1..m)
          PROVE  (IF m \in s THEN step[<<f[s \ {m}], list[m]>>] ELSE f[s]) \in S
      BY <2>2, <2>3, <2>4, <3>1
    <3> QED BY <3>1
  <2>6. ASSUME NEW s \in SUBSET (1..m)
        PROVE  g[s] = IF s = {} THEN c ELSE step[<<g[s \ {Max(s)}], list[Max(s)]>>]
    <3>1. g[s \ {m}] = f[s \ {m}]
      BY <2>3
    <3>2. CASE m \in s
      BY <2>3, <3>1, <3>2
    <3>3. CASE m \notin s
      <4>1. s \in SUBSET (1..k) /\ g[s] = f[s] /\ g[s \ {Max(s)}] = f[s \ {Max(s)}]
        <5>1. s \in SUBSET (1..k) /\ s \ {Max(s)} \in SUBSET (1..m) /\ m \notin s \ {Max(s)}
          BY <2>3, <3>3
        <5> HIDE DEF m
        <5> QED BY <3>3, <5>1
      <4>2. f[s] = IF s = {} THEN c ELSE step[<<f[s \ {Max(s)}], list[Max(s)]>>]
        BY <2>1, <4>1 DEF Folds
      <4> QED BY <4>1, <4>2
    <3> QED BY <3>2, <3>3
  <2>7. Folds(g, S, step, c, list, m)
    <3> HIDE DEF g, m
    <3> QED BY <2>5, <2>6 DEF Folds
  <2> HIDE DEF g
  <2> QED BY <2>2, <2>7
<1>4. 0..n \subseteq K
  <2> HIDE DEF K, n
  <2> QED BY <1>1, <1>2, <1>3, UpTo
<1> HIDE DEF K
<1>5. n \in K
  BY <1>1, <1>4
<1> QED BY <1>5 DEF K

-----------------------------------------------------------------------------
(* Scenes.                                                                 *)

PolicyDatas == [in_hidden_workspace : BOOLEAN, old_state : WindowStates]

\* The applications that have a session: a scene changes none of them.
open == Range(sessions)

\* The scenes with the windows of "base", which differ from it in the states
\* only.  Of the windows in "late" it may not yet have been recorded that they
\* are fullscreen.
Shapes(base, late) ==
    {s \in [focus      : Foci,
            info       : [DOMAIN base -> WindowInfos],
            data       : [DOMAIN base -> PolicyDatas],
            fullscreen : SUBSET DOMAIN base] :
        /\ \A x \in DOMAIN base : /\ s.info[x].app = base[x].app
                                  /\ s.info[x].type = base[x].type
                                  /\ s.info[x].parent = base[x].parent
                                  /\ s.info[x].children = base[x].children
        /\ FocusOK(s.focus, s.info, posted, VisibleSurfaces(s.info), open)
        /\ \A x \in s.fullscreen : s.info[x].state = "fullscreen"
        /\ \A x \in DOMAIN base \ late : s.info[x].state = "fullscreen" => x \in s.fullscreen}

Marked(data) == {x \in DOMAIN data : data[x].in_hidden_workspace}

\* What is marked hidden is hidden, and the state its client wants is that
\* which is remembered; the state of any other is the one that is wanted.
Faithful(s, want) ==
    /\ \A x \in Marked(s.data) : s.info[x].state = "hidden" /\ want[x] = s.data[x].old_state
    /\ \A x \in DOMAIN s.data \ Marked(s.data) : want[x] = s.info[x].state

\* What every step of an operation leaves.
Scenes(base, want, late) == {s \in Shapes(base, late) : Faithful(s, want)}

TablesOK(base) == InfoOK(base, open) /\ ChildrenOK(base) /\ open \subseteq Apps

\* States apart, a scene's windows are those of its base.
LEMMA ScenesTables ==
    ASSUME NEW base, NEW late, NEW s \in Shapes(base, late), TablesOK(base)
    PROVE  InfoOK(s.info, open) /\ ChildrenOK(s.info)
<1>1. /\ s.info \in [DOMAIN base -> WindowInfos]
      /\ \A x \in DOMAIN base : /\ s.info[x].app = base[x].app
                                /\ s.info[x].parent = base[x].parent
                                /\ s.info[x].children = base[x].children
  BY DEF Shapes
<1>2. DOMAIN s.info = DOMAIN base
  BY <1>1
<1>3. InfoOK(s.info, open)
  BY <1>1, <1>2 DEF InfoOK, TablesOK
<1>4. ChildrenOK(s.info)
  BY <1>1, <1>2 DEF ChildrenOK, TablesOK
<1> QED BY <1>3, <1>4

\* set_state() on a scene.
LEMMA StatedShape ==
    ASSUME NEW base, NEW late, NEW s \in Shapes(base, late), TablesOK(base),
           NEW rows, NEW w \in DOMAIN base, NEW value \in WindowStates
    PROVE  LET new == Stated(rows, s, w, value) IN
           /\ new \in Shapes(base, late)
           /\ new.data = s.data
           /\ new.info[w].state = value
           /\ \A x \in DOMAIN base \ {w} : new.info[x].state = s.info[x].state
<1> DEFINE new   == Stated(rows, s, w, value)
           after == [s.info EXCEPT ![w].state = value]
           foc   == FocusAfterState(s.focus, s.info, rows, w, value)
           full  == IF value = "fullscreen" THEN s.fullscreen \cup {w} ELSE s.fullscreen \ {w}
<1>1. /\ s \in [focus : Foci, info : [DOMAIN base -> WindowInfos],
                data : [DOMAIN base -> PolicyDatas], fullscreen : SUBSET DOMAIN base]
      /\ \A x \in DOMAIN base : /\ s.info[x].app = base[x].app
                                /\ s.info[x].type = base[x].type
                                /\ s.info[x].parent = base[x].parent
                                /\ s.info[x].children = base[x].children
      /\ FocusOK(s.focus, s.info, posted, VisibleSurfaces(s.info), open)
      /\ \A x \in s.fullscreen : s.info[x].state = "fullscreen"
      /\ \A x \in DOMAIN base \ late : s.info[x].state = "fullscreen" => x \in s.fullscreen
  BY DEF Shapes
<1>2. /\ s.info \in [DOMAIN base -> WindowInfos] /\ s.data \in [DOMAIN base -> PolicyDatas]
      /\ s.fullscreen \subseteq DOMAIN base
      /\ DOMAIN s = {"focus", "info", "data", "fullscreen"}
  BY <1>1
<1>3. new = [focus |-> foc, info |-> after, data |-> s.data, fullscreen |-> full]
  <2>1. new = [s EXCEPT !.focus = foc, !.info[w].state = value, !.fullscreen = full]
    BY DEF Stated
  <2> HIDE DEF foc, full, new
  <2>2. new = [s EXCEPT !.focus = foc, !.info = after, !.fullscreen = full]
    BY <1>2, <2>1
  <2> HIDE DEF after
  <2> QED BY <1>1, <2>2
<1>4. /\ after \in [DOMAIN base -> WindowInfos]
      /\ \A x \in DOMAIN base : /\ after[x].app = s.info[x].app
                                /\ after[x].type = s.info[x].type
                                /\ after[x].parent = s.info[x].parent
                                /\ after[x].children = s.info[x].children
                                /\ after[x].state = IF x = w THEN value ELSE s.info[x].state
  BY <1>2 DEF WindowInfos
<1>5. FocusOK(foc, after, posted, VisibleSurfaces(after), open)
  <2>1. InfoOK(s.info, open)
    BY ScenesTables
  <2>2. w \in DOMAIN s.info /\ open \subseteq Apps
    BY <1>2 DEF TablesOK
  <2> QED BY <1>1, <2>1, <2>2, AfterStatePreserves
<1>6. foc \in Foci
  BY <1>5 DEF FocusOK
<1> HIDE DEF after, foc
<1>7. /\ full \subseteq DOMAIN base
      /\ \A x \in full : after[x].state = "fullscreen"
      /\ \A x \in DOMAIN base \ late : after[x].state = "fullscreen" => x \in full
  BY <1>1, <1>2, <1>4
<1> HIDE DEF full
<1> DEFINE made == [focus |-> foc, info |-> after, data |-> s.data, fullscreen |-> full]
<1>8. made \in Shapes(base, late)
  <2>1. made \in [focus : Foci, info : [DOMAIN base -> WindowInfos],
                  data : [DOMAIN base -> PolicyDatas], fullscreen : SUBSET DOMAIN base]
    BY <1>2, <1>4, <1>6, <1>7
  <2>2. made.focus = foc /\ made.info = after /\ made.data = s.data /\ made.fullscreen = full
    OBVIOUS
  <2> HIDE DEF made
  <2>3. \A x \in DOMAIN base : /\ after[x].app = base[x].app
                               /\ after[x].type = base[x].type
                               /\ after[x].parent = base[x].parent
                               /\ after[x].children = base[x].children
    BY <1>1, <1>4
  <2> QED BY <2>1, <2>2, <2>3, <1>5, <1>7 DEF Shapes
<1>9. made.data = s.data /\ made.info = after
  OBVIOUS
<1> HIDE DEF made, new
<1>10. new = made
  BY <1>3 DEF made
<1>11. /\ new \in Shapes(base, late) /\ new.data = s.data /\ new.info[w].state = value
       /\ \A x \in DOMAIN base \ {w} : new.info[x].state = s.info[x].state
  BY <1>4, <1>8, <1>9, <1>10
<1> QED BY <1>11 DEF new

\* PolicyData changes by itself.
LEMMA RemarkedShape ==
    ASSUME NEW base, NEW late, NEW s \in Shapes(base, late),
           NEW w \in DOMAIN base, NEW d \in PolicyDatas
    PROVE  LET new == [s EXCEPT !.data[w] = d] IN
           /\ new \in Shapes(base, late)
           /\ new.data = [s.data EXCEPT ![w] = d]
           /\ new.info = s.info
<1> DEFINE new  == [s EXCEPT !.data[w] = d]
           data == [s.data EXCEPT ![w] = d]
<1>1. /\ s \in [focus : Foci, info : [DOMAIN base -> WindowInfos],
                data : [DOMAIN base -> PolicyDatas], fullscreen : SUBSET DOMAIN base]
      /\ \A x \in DOMAIN base : /\ s.info[x].app = base[x].app
                                /\ s.info[x].type = base[x].type
                                /\ s.info[x].parent = base[x].parent
                                /\ s.info[x].children = base[x].children
      /\ FocusOK(s.focus, s.info, posted, VisibleSurfaces(s.info), open)
      /\ \A x \in s.fullscreen : s.info[x].state = "fullscreen"
      /\ \A x \in DOMAIN base \ late : s.info[x].state = "fullscreen" => x \in s.fullscreen
  BY DEF Shapes
<1>2. s.data \in [DOMAIN base -> PolicyDatas] /\ data \in [DOMAIN base -> PolicyDatas]
  BY <1>1
<1>3. new = [s EXCEPT !.data = data]
  BY <1>1
<1> HIDE DEF data, new
<1>4. /\ new \in [focus : Foci, info : [DOMAIN base -> WindowInfos],
                  data : [DOMAIN base -> PolicyDatas], fullscreen : SUBSET DOMAIN base]
      /\ new.focus = s.focus /\ new.info = s.info /\ new.fullscreen = s.fullscreen
      /\ new.data = data
  BY <1>1, <1>2, <1>3
<1>5. new \in Shapes(base, late)
  BY <1>1, <1>4 DEF Shapes
<1> QED BY <1>4, <1>5 DEF new, data

\* apply_workspace_hidden_to() and apply_workspace_visible_to().
LEMMA Hides ==
    ASSUME NEW base, NEW late, NEW want, NEW s \in Scenes(base, want, late), TablesOK(base),
           NEW rows, NEW w \in DOMAIN base
    PROVE  LET new == apply_workspace_hidden_to(rows, s, w) IN
           /\ new \in Scenes(base, want, late)
           /\ Marked(new.data) = Marked(s.data) \cup {w}
<1> DEFINE new == apply_workspace_hidden_to(rows, s, w)
<1>1. /\ s \in Shapes(base, late) /\ Faithful(s, want)
      /\ s.info \in [DOMAIN base -> WindowInfos] /\ s.data \in [DOMAIN base -> PolicyDatas]
  BY DEF Scenes, Shapes
<1>2. CASE s.data[w].in_hidden_workspace
  <2>1. new = s
    BY <1>2 DEF apply_workspace_hidden_to
  <2>2. w \in Marked(s.data)
    BY <1>1, <1>2 DEF Marked
  <2> HIDE DEF new
  <2>3. new \in Scenes(base, want, late) /\ Marked(new.data) = Marked(s.data) \cup {w}
    BY <2>1, <2>2
  <2> QED BY <2>3 DEF new
<1>3. CASE ~s.data[w].in_hidden_workspace
  <2> DEFINE d   == [in_hidden_workspace |-> TRUE, old_state |-> s.info[w].state]
             mid == [s EXCEPT !.data[w] = d]
  <2>1. d \in PolicyDatas /\ "hidden" \in WindowStates
    BY <1>1 DEF PolicyDatas, WindowInfos, WindowStates
  <2>2. d.in_hidden_workspace /\ d.old_state = s.info[w].state
    OBVIOUS
  <2>3. new = Stated(rows, mid, w, "hidden")
    BY <1>3 DEF apply_workspace_hidden_to
  <2> HIDE DEF d, new
  <2>4. mid \in Shapes(base, late) /\ mid.data = [s.data EXCEPT ![w] = d] /\ mid.info = s.info
    BY <1>1, <2>1, RemarkedShape
  <2> HIDE DEF mid
  <2>5. /\ new \in Shapes(base, late) /\ new.data = mid.data
        /\ new.info[w].state = "hidden"
        /\ \A x \in DOMAIN base \ {w} : new.info[x].state = mid.info[x].state
    BY <2>1, <2>3, <2>4, StatedShape
  <2>6. Marked(new.data) = Marked(s.data) \cup {w}
    BY <1>1, <2>2, <2>4, <2>5 DEF Marked
  <2>7. Faithful(new, want)
    <3>1. ASSUME NEW x \in Marked(new.data)
          PROVE  new.info[x].state = "hidden" /\ want[x] = new.data[x].old_state
      <4>1. CASE x = w
        <5>1. want[w] = s.info[w].state
          BY <1>1, <1>3 DEF Faithful, Marked
        <5> QED BY <1>1, <2>2, <2>4, <2>5, <4>1, <5>1
      <4>2. CASE x # w
        <5>1. x \in Marked(s.data) /\ x \in DOMAIN base
          BY <1>1, <2>6, <3>1, <4>2 DEF Marked
        <5>2. new.data[x] = s.data[x] /\ new.info[x].state = s.info[x].state
          BY <1>1, <2>4, <2>5, <4>2, <5>1
        <5> QED BY <1>1, <5>1, <5>2 DEF Faithful
      <4> QED BY <4>1, <4>2
    <3>2. ASSUME NEW x \in DOMAIN new.data \ Marked(new.data) PROVE want[x] = new.info[x].state
      <4>1. x \in DOMAIN s.data \ Marked(s.data) /\ x \in DOMAIN base \ {w}
        BY <1>1, <2>4, <2>5, <2>6, <3>2
      <4> QED BY <1>1, <2>4, <2>5, <4>1 DEF Faithful
    <3> QED BY <3>1, <3>2 DEF Faithful
  <2>8. new \in Scenes(base, want, late)
    BY <2>5, <2>7 DEF Scenes
  <2> QED BY <2>6, <2>8 DEF new
<1> QED BY <1>2, <1>3

LEMMA Shows ==
    ASSUME NEW base, NEW late, NEW want, NEW s \in Scenes(base, want, late), TablesOK(base),
           NEW rows, NEW w \in DOMAIN base
    PROVE  LET new == apply_workspace_visible_to(rows, s, w) IN
           /\ new \in Scenes(base, want, late)
           /\ Marked(new.data) = Marked(s.data) \ {w}
<1> DEFINE new == apply_workspace_visible_to(rows, s, w)
<1>1. /\ s \in Shapes(base, late) /\ Faithful(s, want)
      /\ s.info \in [DOMAIN base -> WindowInfos] /\ s.data \in [DOMAIN base -> PolicyDatas]
  BY DEF Scenes, Shapes
<1>2. CASE ~s.data[w].in_hidden_workspace
  <2>1. new = s
    BY <1>2 DEF apply_workspace_visible_to
  <2>2. w \notin Marked(s.data)
    BY <1>1, <1>2 DEF Marked
  <2> HIDE DEF new
  <2>3. new \in Scenes(base, want, late) /\ Marked(new.data) = Marked(s.data) \ {w}
    BY <2>1, <2>2
  <2> QED BY <2>3 DEF new
<1>3. CASE s.data[w].in_hidden_workspace
  <2> DEFINE old == s.data[w].old_state
             d   == [s.data[w] EXCEPT !.in_hidden_workspace = FALSE]
             mid == [s EXCEPT !.data[w] = d]
  <2>1. s.data[w] \in PolicyDatas
    BY <1>1
  <2>2. d \in PolicyDatas /\ ~d.in_hidden_workspace /\ old \in WindowStates
    BY <2>1 DEF PolicyDatas
  <2>3. new = Stated(rows, [s EXCEPT !.data[w].in_hidden_workspace = FALSE], w, old)
    BY <1>3 DEF apply_workspace_visible_to
  <2>4. [s EXCEPT !.data[w].in_hidden_workspace = FALSE] = mid
    BY <1>1
  <2> HIDE DEF d, new, old
  <2>5. mid \in Shapes(base, late) /\ mid.data = [s.data EXCEPT ![w] = d] /\ mid.info = s.info
    BY <1>1, <2>2, RemarkedShape
  <2>6. new = Stated(rows, mid, w, old)
    BY <2>3, <2>4
  <2> HIDE DEF mid
  <2>7. /\ new \in Shapes(base, late) /\ new.data = mid.data
        /\ new.info[w].state = old
        /\ \A x \in DOMAIN base \ {w} : new.info[x].state = mid.info[x].state
    BY <2>2, <2>5, <2>6, StatedShape
  <2>8. Marked(new.data) = Marked(s.data) \ {w}
    BY <1>1, <2>2, <2>5, <2>7 DEF Marked
  <2>9. Faithful(new, want)
    <3>1. ASSUME NEW x \in Marked(new.data)
          PROVE  new.info[x].state = "hidden" /\ want[x] = new.data[x].old_state
      <4>1. x \in Marked(s.data) /\ x \in DOMAIN base \ {w}
        BY <1>1, <2>8, <3>1 DEF Marked
      <4>2. new.data[x] = s.data[x] /\ new.info[x].state = s.info[x].state
        BY <1>1, <2>5, <2>7, <4>1
      <4> QED BY <1>1, <4>1, <4>2 DEF Faithful
    <3>2. ASSUME NEW x \in DOMAIN new.data \ Marked(new.data) PROVE want[x] = new.info[x].state
      <4>1. CASE x = w
        <5>1. want[w] = old
          BY <1>1, <1>3 DEF Faithful, Marked, old
        <5> QED BY <2>7, <4>1, <5>1
      <4>2. CASE x # w
        <5>1. x \in DOMAIN s.data \ Marked(s.data) /\ x \in DOMAIN base \ {w}
          BY <1>1, <2>5, <2>7, <2>8, <3>2, <4>2
        <5> QED BY <1>1, <2>5, <2>7, <5>1 DEF Faithful
      <4> QED BY <4>1, <4>2
    <3> QED BY <3>1, <3>2 DEF Faithful
  <2>10. new \in Scenes(base, want, late)
    BY <2>7, <2>9 DEF Scenes
  <2> QED BY <2>8, <2>10 DEF new
<1> QED BY <1>2, <1>3

\* Each such step leads from a scene of S to one of S.
HidingKeeps(rows, S, E) == \A c \in S, w \in E : apply_workspace_hidden_to(rows, c, w) \in S

ShowingKeeps(rows, S, E) == \A c \in S, w \in E : apply_workspace_visible_to(rows, c, w) \in S

\* ... and along a list of windows, in whatever order it has them.
LEMMA HidesAlong ==
    ASSUME NEW base, NEW late, NEW want, TablesOK(base), NEW rows, NEW list \in Seq(DOMAIN base),
           NEW S \in SUBSET Scenes(base, want, late), NEW s \in S,
           HidingKeeps(rows, S, Range(list))
    PROVE  LET new == HideAll(rows, s, list) IN
           /\ new \in S
           /\ \A x : x \in Marked(new.data) <=> x \in Marked(s.data) \/ x \in Range(list)
<1> DEFINE E    == Range(list)
           n    == Len(list)
           step == [p \in S \X E |-> apply_workspace_hidden_to(rows, p[1], p[2])]
           Next1(f, t) == apply_workspace_hidden_to(rows, f[t \ {Max(t)}], list[Max(t)])
           Eq(f) == f = [t \in SUBSET DOMAIN list |-> IF t = {} THEN s ELSE Next1(f, t)]
<1>1. n \in Nat /\ DOMAIN list = 1..n /\ \A i \in 1..n : list[i] \in E
  BY DEF Range
<1>2. \A c \in S, w \in E :
        /\ apply_workspace_hidden_to(rows, c, w) \in S
        /\ Marked(apply_workspace_hidden_to(rows, c, w).data) = Marked(c.data) \cup {w}
  <2> SUFFICES ASSUME NEW c \in S, NEW w \in E
               PROVE  /\ apply_workspace_hidden_to(rows, c, w) \in S
                      /\ Marked(apply_workspace_hidden_to(rows, c, w).data) = Marked(c.data) \cup {w}
    OBVIOUS
  <2>1. w \in DOMAIN base /\ c \in Scenes(base, want, late)
    BY DEF Range
  <2>2. apply_workspace_hidden_to(rows, c, w) \in S
    BY DEF HidingKeeps
  <2> QED BY <2>1, <2>2, Hides
<1> HIDE DEF E
<1>3. step \in [S \X E -> S]
  BY <1>2
<1>4. PICK g : Folds(g, S, step, s, list, n)
  <2> HIDE DEF step
  <2>1. list \in [1..n -> E]
    BY <1>1
  <2>2. list \in Seq(E)
    BY <1>1, <2>1, SeqDef
  <2> QED BY <1>3, <2>2, FoldsExist
<1>5. Eq(g)
  <2>1. ASSUME NEW t \in SUBSET DOMAIN list
        PROVE  g[t] = IF t = {} THEN s ELSE Next1(g, t)
    <3>1. CASE t = {}
      BY <1>1, <1>4, <3>1 DEF Folds
    <3>2. CASE t # {}
      <4>1. Max(t) \in 1..n
        BY <1>1, <2>1, <3>2, MaxProperties
      <4>2. g[t \ {Max(t)}] \in S /\ list[Max(t)] \in E
        BY <1>1, <1>4, <2>1, <4>1 DEF Folds
      <4>3. g[t] = step[<<g[t \ {Max(t)}], list[Max(t)]>>]
        <5> HIDE DEF step
        <5> QED BY <1>1, <1>4, <2>1, <3>2 DEF Folds
      <4> QED BY <3>2, <4>2, <4>3
    <3> QED BY <3>1, <3>2
  <2>2. g = [t \in SUBSET DOMAIN list |-> g[t]]
    BY <1>1, <1>4 DEF Folds
  <2> HIDE DEF Next1
  <2> QED BY <2>1, <2>2
<1> DEFINE f == CHOOSE h : Eq(h)
<1>6. Eq(f)
  BY <1>5
<1>7. HideAll(rows, s, list) = f[DOMAIN list]
  BY DEF HideAll, FoldLeft, MapThenFoldSet
<1> HIDE DEF f
<1>8. /\ f[{}] = s
      /\ \A t \in SUBSET (1..n) : t # {} => f[t] = Next1(f, t)
  <2> HIDE DEF Next1
  <2> QED BY <1>1, <1>6
<1> DEFINE K == {k \in 0..n : /\ f[1..k] \in S
                              /\ Marked(f[1..k].data) = Marked(s.data) \cup {list[i] : i \in 1..k}}
<1>9. 0 \in K
  <2>1. 1..0 = {} /\ 0 \in 0..n
    BY <1>1
  <2> QED BY <1>8, <2>1
<1>10. ASSUME NEW k \in 0..n, k < n, k \in K PROVE k + 1 \in K
  <2> DEFINE t == 1..(k + 1)
  <2>1. k + 1 \in 1..n /\ k \in Nat
    BY <1>1, <1>10
  <2>2. t \subseteq 1..n /\ t # {} /\ k + 1 \in t
    <3>1. n \in Nat /\ k + 1 \in 1..n /\ k \in Nat
      BY <1>1, <2>1
    <3>2. k + 1 \in t /\ \A i \in t : i \in Nat /\ 1 <= i /\ i <= k + 1
      BY <3>1
    <3> HIDE DEF n, K, t
    <3>3. \A i \in t : i \in 1..n
      BY <3>1, <3>2
    <3> QED BY <3>2, <3>3
  <2>3. Max(t) = k + 1
    <3>1. Max(t) \in t /\ \A y \in t : y <= Max(t)
      BY <1>1, <2>2, MaxProperties
    <3>2. k + 1 <= Max(t)
      BY <3>1, <2>2
    <3> QED BY <2>1, <3>1, <3>2
  <2>4. t \ {k + 1} = 1..k
    BY <2>1
  <2> HIDE DEF t
  <2>5. f[t] = apply_workspace_hidden_to(rows, f[1..k], list[k + 1])
    BY <1>8, <2>2, <2>3, <2>4
  <2>6. f[1..k] \in S /\ list[k + 1] \in E
    BY <1>1, <1>10, <2>1
  <2> HIDE DEF f
  <2>7. f[t] \in S /\ Marked(f[t].data) = Marked(f[1..k].data) \cup {list[k + 1]}
    <3>1. apply_workspace_hidden_to(rows, f[1..k], list[k + 1]) \in S
      BY <1>2, <2>6
    <3>2. Marked(apply_workspace_hidden_to(rows, f[1..k], list[k + 1]).data)
          = Marked(f[1..k].data) \cup {list[k + 1]}
      BY <1>2, <2>6
    <3> QED BY <2>5, <3>1, <3>2
  <2>8. {list[i] : i \in t} = {list[i] : i \in 1..k} \cup {list[k + 1]}
    BY <2>2, <2>4
  <2>9. k + 1 \in 0..n /\ f[1..(k + 1)] = f[t] /\ {list[i] : i \in 1..(k + 1)} = {list[i] : i \in t}
    BY <2>1 DEF t
  <2> QED BY <1>10, <2>7, <2>8, <2>9
<1>11. n \in K
  <2>1. 0..n \subseteq K
    <3> HIDE DEF K, n
    <3> QED BY <1>1, <1>9, <1>10, UpTo
  <2>2. n \in 0..n
    BY <1>1
  <2> HIDE DEF K, n
  <2> QED BY <2>1, <2>2
<1>12. Range(list) = {list[i] : i \in 1..n}
  BY <1>1 DEF Range
<1> DEFINE new == HideAll(rows, s, list)
<1>13. new = f[1..n]
  BY <1>1, <1>7
<1> HIDE DEF new
<1>14. new \in S /\ Marked(new.data) = Marked(s.data) \cup Range(list)
  BY <1>11, <1>12, <1>13
<1> QED BY <1>14 DEF new

LEMMA HidesAll ==
    ASSUME NEW base, NEW late, NEW want, NEW s \in Scenes(base, want, late), TablesOK(base),
           NEW rows, NEW list \in Seq(DOMAIN base)
    PROVE  LET new == HideAll(rows, s, list) IN
           /\ new \in Scenes(base, want, late)
           /\ Marked(new.data) = Marked(s.data) \cup Range(list)
<1> DEFINE S == Scenes(base, want, late)
<1>1. HidingKeeps(rows, S, Range(list))
  <2> SUFFICES ASSUME NEW c \in S, NEW w \in Range(list)
               PROVE  apply_workspace_hidden_to(rows, c, w) \in S
    BY DEF HidingKeeps
  <2>1. w \in DOMAIN base
    BY DEF Range
  <2> QED BY <2>1, Hides
<1> HIDE DEF S
<1>2. S \in SUBSET Scenes(base, want, late) /\ s \in S
  BY DEF S
<1> DEFINE new == HideAll(rows, s, list)
<1>3. new = HideAll(rows, s, list)
  OBVIOUS
<1> HIDE DEF new
<1>4. new \in S /\ Marked(new.data) = Marked(s.data) \cup Range(list)
  BY <1>1, <1>2, <1>3, HidesAlong
<1> QED BY <1>4 DEF new, S

LEMMA ShowsAlong ==
    ASSUME NEW base, NEW late, NEW want, TablesOK(base), NEW rows, NEW list \in Seq(DOMAIN base),
           NEW S \in SUBSET Scenes(base, want, late), NEW s \in S,
           ShowingKeeps(rows, S, Range(list))
    PROVE  LET new == ShowAll(rows, s, list) IN
           /\ new \in S
           /\ \A x : x \in Marked(new.data) <=> x \in Marked(s.data) /\ x \notin Range(list)
<1> DEFINE E    == Range(list)
           n    == Len(list)
           step == [p \in S \X E |-> apply_workspace_visible_to(rows, p[1], p[2])]
           Next1(f, t) == apply_workspace_visible_to(rows, f[t \ {Max(t)}], list[Max(t)])
           Eq(f) == f = [t \in SUBSET DOMAIN list |-> IF t = {} THEN s ELSE Next1(f, t)]
<1>1. n \in Nat /\ DOMAIN list = 1..n /\ \A i \in 1..n : list[i] \in E
  BY DEF Range
<1>2. \A c \in S, w \in E :
        /\ apply_workspace_visible_to(rows, c, w) \in S
        /\ Marked(apply_workspace_visible_to(rows, c, w).data) = Marked(c.data) \ {w}
  <2> SUFFICES ASSUME NEW c \in S, NEW w \in E
               PROVE  /\ apply_workspace_visible_to(rows, c, w) \in S
                      /\ Marked(apply_workspace_visible_to(rows, c, w).data) = Marked(c.data) \ {w}
    OBVIOUS
  <2>1. w \in DOMAIN base /\ c \in Scenes(base, want, late)
    BY DEF Range
  <2>2. apply_workspace_visible_to(rows, c, w) \in S
    BY DEF ShowingKeeps
  <2> QED BY <2>1, <2>2, Shows
<1> HIDE DEF E
<1>3. step \in [S \X E -> S]
  BY <1>2
<1>4. PICK g : Folds(g, S, step, s, list, n)
  <2> HIDE DEF step
  <2>1. list \in [1..n -> E]
    BY <1>1
  <2>2. list \in Seq(E)
    BY <1>1, <2>1, SeqDef
  <2> QED BY <1>3, <2>2, FoldsExist
<1>5. Eq(g)
  <2>1. ASSUME NEW t \in SUBSET DOMAIN list
        PROVE  g[t] = IF t = {} THEN s ELSE Next1(g, t)
    <3>1. CASE t = {}
      BY <1>1, <1>4, <3>1 DEF Folds
    <3>2. CASE t # {}
      <4>1. Max(t) \in 1..n
        BY <1>1, <2>1, <3>2, MaxProperties
      <4>2. g[t \ {Max(t)}] \in S /\ list[Max(t)] \in E
        BY <1>1, <1>4, <2>1, <4>1 DEF Folds
      <4>3. g[t] = step[<<g[t \ {Max(t)}], list[Max(t)]>>]
        <5> HIDE DEF step
        <5> QED BY <1>1, <1>4, <2>1, <3>2 DEF Folds
      <4> QED BY <3>2, <4>2, <4>3
    <3> QED BY <3>1, <3>2
  <2>2. g = [t \in SUBSET DOMAIN list |-> g[t]]
    BY <1>1, <1>4 DEF Folds
  <2> HIDE DEF Next1
  <2> QED BY <2>1, <2>2
<1> DEFINE f == CHOOSE h : Eq(h)
<1>6. Eq(f)
  BY <1>5
<1>7. ShowAll(rows, s, list) = f[DOMAIN list]
  BY DEF ShowAll, FoldLeft, MapThenFoldSet
<1> HIDE DEF f
<1>8. /\ f[{}] = s
      /\ \A t \in SUBSET (1..n) : t # {} => f[t] = Next1(f, t)
  <2> HIDE DEF Next1
  <2> QED BY <1>1, <1>6
<1> DEFINE K == {k \in 0..n : /\ f[1..k] \in S
                              /\ Marked(f[1..k].data) = Marked(s.data) \ {list[i] : i \in 1..k}}
<1>9. 0 \in K
  <2>1. 1..0 = {} /\ 0 \in 0..n
    BY <1>1
  <2> QED BY <1>8, <2>1
<1>10. ASSUME NEW k \in 0..n, k < n, k \in K PROVE k + 1 \in K
  <2> DEFINE t == 1..(k + 1)
  <2>1. k + 1 \in 1..n /\ k \in Nat
    BY <1>1, <1>10
  <2>2. t \subseteq 1..n /\ t # {} /\ k + 1 \in t
    <3>1. n \in Nat /\ k + 1 \in 1..n /\ k \in Nat
      BY <1>1, <2>1
    <3>2. k + 1 \in t /\ \A i \in t : i \in Nat /\ 1 <= i /\ i <= k + 1
      BY <3>1
    <3> HIDE DEF n, K, t
    <3>3. \A i \in t : i \in 1..n
      BY <3>1, <3>2
    <3> QED BY <3>2, <3>3
  <2>3. Max(t) = k + 1
    <3>1. Max(t) \in t /\ \A y \in t : y <= Max(t)
      BY <1>1, <2>2, MaxProperties
    <3>2. k + 1 <= Max(t)
      BY <3>1, <2>2
    <3> QED BY <2>1, <3>1, <3>2
  <2>4. t \ {k + 1} = 1..k
    BY <2>1
  <2> HIDE DEF t
  <2>5. f[t] = apply_workspace_visible_to(rows, f[1..k], list[k + 1])
    BY <1>8, <2>2, <2>3, <2>4
  <2>6. f[1..k] \in S /\ list[k + 1] \in E
    BY <1>1, <1>10, <2>1
  <2> HIDE DEF f
  <2>7. f[t] \in S /\ Marked(f[t].data) = Marked(f[1..k].data) \ {list[k + 1]}
    <3>1. apply_workspace_visible_to(rows, f[1..k], list[k + 1]) \in S
      BY <1>2, <2>6
    <3>2. Marked(apply_workspace_visible_to(rows, f[1..k], list[k + 1]).data)
          = Marked(f[1..k].data) \ {list[k + 1]}
      BY <1>2, <2>6
    <3> QED BY <2>5, <3>1, <3>2
  <2>8. {list[i] : i \in t} = {list[i] : i \in 1..k} \cup {list[k + 1]}
    BY <2>2, <2>4
  <2>9. k + 1 \in 0..n /\ f[1..(k + 1)] = f[t] /\ {list[i] : i \in 1..(k + 1)} = {list[i] : i \in t}
    BY <2>1 DEF t
  <2> QED BY <1>10, <2>7, <2>8, <2>9
<1>11. n \in K
  <2>1. 0..n \subseteq K
    <3> HIDE DEF K, n
    <3> QED BY <1>1, <1>9, <1>10, UpTo
  <2>2. n \in 0..n
    BY <1>1
  <2> HIDE DEF K, n
  <2> QED BY <2>1, <2>2
<1>12. Range(list) = {list[i] : i \in 1..n}
  BY <1>1 DEF Range
<1> DEFINE new == ShowAll(rows, s, list)
<1>13. new = f[1..n]
  BY <1>1, <1>7
<1> HIDE DEF new
<1>14. new \in S /\ Marked(new.data) = Marked(s.data) \ Range(list)
  BY <1>11, <1>12, <1>13
<1> QED BY <1>14 DEF new

LEMMA ShowsAll ==
    ASSUME NEW base, NEW late, NEW want, NEW s \in Scenes(base, want, late), TablesOK(base),
           NEW rows, NEW list \in Seq(DOMAIN base)
    PROVE  LET new == ShowAll(rows, s, list) IN
           /\ new \in Scenes(base, want, late)
           /\ Marked(new.data) = Marked(s.data) \ Range(list)
<1> DEFINE S == Scenes(base, want, late)
<1>1. ShowingKeeps(rows, S, Range(list))
  <2> SUFFICES ASSUME NEW c \in S, NEW w \in Range(list)
               PROVE  apply_workspace_visible_to(rows, c, w) \in S
    BY DEF ShowingKeeps
  <2>1. w \in DOMAIN base
    BY DEF Range
  <2> QED BY <2>1, Shows
<1> HIDE DEF S
<1>2. S \in SUBSET Scenes(base, want, late) /\ s \in S
  BY DEF S
<1> DEFINE new == ShowAll(rows, s, list)
<1>3. new = ShowAll(rows, s, list)
  OBVIOUS
<1> HIDE DEF new
<1>4. new \in S /\ Marked(new.data) = Marked(s.data) \ Range(list)
  BY <1>1, <1>2, <1>3, ShowsAlong
<1> QED BY <1>4 DEF new, S

-----------------------------------------------------------------------------
(* The invariant.                                                          *)

\* Each window has one workspace, its parent's if it has one.
OneHome(rows, info) ==
    /\ \A w \in DOMAIN info : \E home \in Workspaces :
            \A ws \in Workspaces : <<ws, w>> \in rows <=> ws = home
    /\ \A w \in DOMAIN info : info[w].parent \in DOMAIN info =>
            \A ws \in Workspaces : <<ws, w>> \in rows <=> <<ws, info[w].parent>> \in rows

\* The state as a scene.
Now == Scene(focus, window_info, policy_data)

\* The windows that are remembered as active have been so.
RemembersActive ==
    /\ workspace_to_active \in [Workspaces -> Live \cup {NoWindow}]
    /\ \A ws \in Workspaces : workspace_to_active[ws] # NoWindow
                                => can_be_active(window_info[workspace_to_active[ws]].type)

\* The policy's part of the invariant.  Its workspaces are never released.
PolicyInv ==
    /\ active_workspace \in Workspaces
    /\ dead_workspaces = {} /\ workspace = [ws \in Workspaces |-> "owned"]
    /\ OneHome(workspaces_to_windows, window_info)
    /\ policy_data \in [Live -> PolicyDatas] /\ DOMAIN wanted = Live
    /\ Faithful(Now, wanted)
    /\ Marked(policy_data) = {w \in Live : ~InActiveWorkspace(w)}
    /\ RemembersActive

TitlebarInv == Inv /\ Acyclic(window_info) /\ PolicyInv

\* What an operation starts from.
LEMMA StartOfScene ==
    ASSUME TitlebarInv
    PROVE  /\ Rows = workspaces_to_windows
           /\ Rows \subseteq Workspaces \X Live
           /\ TablesOK(window_info)
           /\ Now \in Scenes(window_info, wanted, {})
           /\ Now.data = policy_data /\ Now.info = window_info /\ Now.focus = focus
           /\ Now.fullscreen = fullscreen_surfaces
<1>1. Rows = workspaces_to_windows /\ Rows \subseteq Workspaces \X Live
  BY StartOfOperation DEF TitlebarInv, PolicyInv, Rows
<1>2. TablesOK(window_info)
  BY StartOfOperation DEF TitlebarInv, Inv, WindowsInv, TablesOK, open
<1>3. /\ Now.data = policy_data /\ Now.info = window_info /\ Now.focus = focus
      /\ Now.fullscreen = fullscreen_surfaces
  BY DEF Now, Scene
<1>4. Now \in Shapes(window_info, {})
  <2>1. FocusOK(focus, window_info, posted, VisibleSurfaces(window_info), open) /\ focus \in Foci
    BY StartOfOperation DEF TitlebarInv, FocusOK, open
  <2>2. fullscreen_surfaces = {w \in DOMAIN window_info : window_info[w].state = "fullscreen"}
    BY DEF TitlebarInv, Inv, FullscreenExact, Live
  <2>3. /\ window_info \in [DOMAIN window_info -> WindowInfos]
        /\ policy_data \in [DOMAIN window_info -> PolicyDatas]
    BY <1>2 DEF TablesOK, InfoOK, TitlebarInv, PolicyInv, Live
  <2>4. Now \in [focus      : Foci,
                 info       : [DOMAIN window_info -> WindowInfos],
                 data       : [DOMAIN window_info -> PolicyDatas],
                 fullscreen : SUBSET DOMAIN window_info]
    BY <2>1, <2>2, <2>3 DEF Now, Scene
  <2> QED BY <1>3, <2>1, <2>2, <2>4 DEF Shapes
<1>5. Now \in Scenes(window_info, wanted, {})
  BY <1>4 DEF Scenes, TitlebarInv, PolicyInv
<1> QED BY <1>1, <1>2, <1>3, <1>5

\* The lists of the applications' windows, with a table of windows.
AppsFit(apps, info) ==
    /\ apps \in [Apps -> Seq(Windows)]
    /\ \A a \in Apps : IsInjective(apps[a])
    /\ \A a \in Apps : \A w \in Range(apps[a]) : w \in DOMAIN info /\ info[w].app = a
    /\ \A w \in DOMAIN info : w \in Range(apps[info[w].app])

\* No window is lost, none changes its type.
KeepsWindows(base) == \A w \in Live : w \in DOMAIN base /\ base[w].type = window_info[w].type

\* A workspace is left with its active window remembered, or none is left.
Remembers ==
    \/ workspace_to_active' = workspace_to_active
    \/ \E ws \in Workspaces : workspace_to_active' = [workspace_to_active EXCEPT ![ws] = active]

\* What it must answer for if it ends with a scene.
LEMMA EndOfScene ==
    ASSUME TitlebarInv, NEW base, NEW want, NEW scene \in Scenes(base, want, {}),
           TablesOK(base), Acyclic(base), Leaves(scene), Locker,
           UNCHANGED <<sessions, workspace, posted, ready>>,
           posted \subseteq DOMAIN base, AppsFit(app_info', base),
           workspaces_to_windows' \subseteq Workspaces \X DOMAIN base,
           OneHome(workspaces_to_windows', base),
           active_workspace' \in Workspaces, wanted' = want, DOMAIN want = DOMAIN base,
           Marked(scene.data) =
                {w \in DOMAIN base : <<active_workspace', w>> \notin workspaces_to_windows'},
           KeepsWindows(base), Remembers
    PROVE  TitlebarInv'
<1>1. /\ focus' = scene.focus /\ window_info' = scene.info
      /\ policy_data' = scene.data /\ fullscreen_surfaces' = scene.fullscreen
      /\ dead_workspaces' = {}
  BY DEF Leaves, Locker
<1>2. scene \in Shapes(base, {}) /\ Faithful(scene, want)
  BY DEF Scenes
<1>3. /\ scene.info \in [DOMAIN base -> WindowInfos] /\ scene.data \in [DOMAIN base -> PolicyDatas]
      /\ scene.fullscreen \subseteq DOMAIN base
      /\ \A x \in DOMAIN base : /\ scene.info[x].app = base[x].app
                                /\ scene.info[x].type = base[x].type
                                /\ scene.info[x].parent = base[x].parent
      /\ FocusOK(scene.focus, scene.info, posted, VisibleSurfaces(scene.info), open)
      /\ \A x \in scene.fullscreen : scene.info[x].state = "fullscreen"
      /\ \A x \in DOMAIN base : scene.info[x].state = "fullscreen" => x \in scene.fullscreen
  BY <1>2 DEF Shapes
<1>4. Live' = DOMAIN base /\ DOMAIN window_info' = DOMAIN base
  BY <1>1, <1>3 DEF Live
<1>5. InfoOK(scene.info, open) /\ ChildrenOK(scene.info)
  BY <1>2, ScenesTables
<1>6. SessionsInv' /\ SurfacesInv'
  BY <1>4 DEF TitlebarInv, Inv, SessionsInv, SurfacesInv
<1>7. WindowsInv'
  BY <1>1, <1>5 DEF WindowsInv, InfoOK, ChildrenOK, open
<1>8. AppsInv'
  BY <1>1, <1>3, <1>4 DEF AppsInv, AppsFit
<1>9. FullscreenExact'
  BY <1>1, <1>3, <1>4 DEF FullscreenExact
<1>10. WorkspacesInv'
  BY <1>1, <1>4 DEF TitlebarInv, Inv, WorkspacesInv
<1>11. FocusInv'
  BY <1>1, <1>3 DEF FocusInv, FocusOK, VisibleSurfaces, open
<1>12. Acyclic(window_info')
  <2>1. /\ DOMAIN window_info' = DOMAIN base
        /\ \A x \in DOMAIN base : window_info'[x].parent = base[x].parent
    BY <1>1, <1>3
  <2>2. NoWindow \notin DOMAIN base
    BY ConstantsAssumption DEF TablesOK, InfoOK
  <2> QED BY <2>1, <2>2, FewerEdges
<1>13. PolicyInv'
  <2>1. OneHome(workspaces_to_windows, window_info)'
    BY <1>1, <1>3, <1>4 DEF OneHome
  <2>2. Faithful(scene, want)
    BY <1>2
  <2>3. Faithful(Now, wanted)'
    BY <1>1, <2>2 DEF Faithful, Marked, Now, Scene
  <2>4. Marked(policy_data)' = {w \in Live : ~InActiveWorkspace(w)}'
    BY <1>1, <1>4 DEF Marked, InActiveWorkspace
  <2>5. workspace' = [ws \in Workspaces |-> "owned"]
    BY DEF TitlebarInv, PolicyInv
  <2>6. RemembersActive'
    <3>1. RemembersActive
      BY DEF TitlebarInv, PolicyInv
    <3>2. active \in Live \cup {NoWindow} /\ (active # NoWindow => can_be_active(window_info[active].type))
      <4>1. /\ FocusOK(focus, window_info, posted, VisibleSurfaces(window_info), Range(sessions))
            /\ DOMAIN window_info \subseteq Windows
        BY StartOfOperation DEF TitlebarInv, Live
      <4>2. active \in Range(focus.mru) \cup {NoWindow}
        BY <4>1, TopOfFocus, Zenon DEF active
      <4> QED BY <4>1, <4>2 DEF FocusOK, Live
    <3>3. \A ws \in Workspaces : workspace_to_active'[ws] \in {workspace_to_active[ws], active}
      BY <3>1 DEF RemembersActive, Remembers
    <3>4. DOMAIN workspace_to_active' = Workspaces
          /\ workspace_to_active' = [ws \in Workspaces |-> workspace_to_active'[ws]]
      BY <3>1 DEF RemembersActive, Remembers
    <3>5. \A x \in Live : x \in Live' /\ window_info'[x].type = window_info[x].type
      BY <1>1, <1>3, <1>4 DEF KeepsWindows
    <3>6. \A ws \in Workspaces : LET w == workspace_to_active'[ws] IN
              w \in Live \cup {NoWindow} /\ (w # NoWindow => can_be_active(window_info[w].type))
      BY <3>1, <3>2, <3>3 DEF RemembersActive
    <3>7. \A ws \in Workspaces : LET w == workspace_to_active'[ws] IN
              w \in Live' \cup {NoWindow} /\ (w # NoWindow => can_be_active(window_info'[w].type))
      BY <3>5, <3>6
    <3> QED BY <3>4, <3>7 DEF RemembersActive
  <2> QED BY <1>1, <1>3, <1>4, <2>1, <2>3, <2>4, <2>5, <2>6 DEF PolicyInv
<1> QED BY <1>6, <1>7, <1>8, <1>9, <1>10, <1>11, <1>12, <1>13 DEF TitlebarInv, Inv

\* What an operation that adds and removes no window ends with.
LEMMA WindowsStay ==
    ASSUME TitlebarInv
    PROVE  /\ posted \subseteq Live
           /\ AppsFit(app_info, window_info)
           /\ Acyclic(window_info)
           /\ OneHome(Rows, window_info)
           /\ Marked(policy_data) = {w \in Live : <<active_workspace, w>> \notin Rows}
<1>1. Rows = workspaces_to_windows
  BY StartOfScene
<1> QED BY <1>1 DEF TitlebarInv, Inv, SurfacesInv, AppsInv, AppsFit, PolicyInv, InActiveWorkspace, Live

\* A step of the window manager that leaves the windows' states alone.
LEMMA WindowManagerStep ==
    ASSUME TitlebarInv, Inv', dead_workspaces' = {},
           UNCHANGED <<window_info, workspace, workspaces_to_windows,
                       active_workspace, workspace_to_active, policy_data, wanted>>
    PROVE  TitlebarInv'
<1>1. Acyclic(window_info')
  BY DEF TitlebarInv
<1>2. Faithful(Now, wanted)
  BY DEF TitlebarInv, PolicyInv
<1>3. Faithful(Now, wanted)'
  BY <1>2 DEF Faithful, Marked, Now, Scene
<1>4. PolicyInv'
  BY <1>3 DEF TitlebarInv, PolicyInv, OneHome, Marked, InActiveWorkspace, RemembersActive, Live
<1> QED BY <1>1, <1>4 DEF TitlebarInv

-----------------------------------------------------------------------------
(* The steps that leave the policy alone.                                  *)

LEMMA ArrivesPreserves == TitlebarInv /\ Arrives => TitlebarInv'
<1> SUFFICES ASSUME TitlebarInv, Arrives PROVE TitlebarInv'
  OBVIOUS
<1>1. Rows = workspaces_to_windows /\ dead_workspaces = {}
  BY StartOfScene DEF TitlebarInv, PolicyInv
<1>2. UNCHANGED <<active_workspace, workspace_to_active, policy_data, wanted>>
  BY DEF Arrives, policy_vars
<1>3. ASSUME NEW w \in Live, frame_posted(w) PROVE TitlebarInv'
  <2>1. Inv'
    BY <1>3, FramePostedPreserves DEF TitlebarInv
  <2> QED BY <1>1, <1>2, <1>3, <2>1, WindowManagerStep DEF frame_posted
<1>4. ASSUME NEW w \in ready, handle_window_ready(w) PROVE TitlebarInv'
  <2>1. Inv'
    BY <1>4, HandleWindowReadyPreserves DEF TitlebarInv
  <2> QED BY <1>1, <1>2, <1>4, <2>1, WindowManagerStep DEF handle_window_ready, Locker
<1> QED BY <1>3, <1>4 DEF Arrives

LEMMA RefocusedPreserves == TitlebarInv /\ Refocused => TitlebarInv'
<1> SUFFICES ASSUME TitlebarInv, Refocused PROVE TitlebarInv'
  OBVIOUS
<1>1. Rows = workspaces_to_windows
  BY StartOfScene
<1>2. UNCHANGED <<active_workspace, workspace_to_active, policy_data, wanted>>
  BY DEF Refocused
<1>3. ASSUME NEW hint, select_window(hint) PROVE TitlebarInv'
  <2>1. Inv'
    BY <1>3, SelectWindowPreserves DEF TitlebarInv
  <2> QED BY <1>1, <1>2, <1>3, <2>1, WindowManagerStep DEF select_window, Locker
<1>4. ASSUME NEW first \in FirstSessions, next_application(first) PROVE TitlebarInv'
  <2>1. Inv'
    BY <1>4, NextApplicationActionPreserves DEF TitlebarInv
  <2> QED BY <1>1, <1>2, <1>4, <2>1, WindowManagerStep DEF next_application, Locker
<1>5. ASSUME focus_next_within_application \/ focus_prev_within_application
      PROVE  TitlebarInv'
  <2>1. Inv'
    BY <1>5, WithinApplicationActionsPreserve DEF TitlebarInv
  <2>2. /\ dead_workspaces' = {} /\ workspaces_to_windows' = Rows
        /\ UNCHANGED <<window_info, workspace>>
    BY <1>5 DEF focus_next_within_application, focus_prev_within_application,
                within_application, Locker
  <2> QED BY <1>1, <1>2, <2>1, <2>2, WindowManagerStep
<1> QED BY <1>3, <1>4, <1>5 DEF Refocused

-----------------------------------------------------------------------------
(* Changes of state.                                                       *)

\* A client's wish is met at once by a window that is not marked.
LEMMA StatedFaithful ==
    ASSUME NEW base, NEW late, NEW want, NEW s \in Scenes(base, want, late), TablesOK(base),
           NEW rows, NEW w \in DOMAIN base, w \notin Marked(s.data), NEW value \in WindowStates,
           NEW then, \A x \in DOMAIN base : then[x] = IF x = w THEN value ELSE want[x]
    PROVE  /\ Stated(rows, s, w, value) \in Scenes(base, then, late)
           /\ Stated(rows, s, w, value).data = s.data
<1> DEFINE new  == Stated(rows, s, w, value)
<1>1. /\ s \in Shapes(base, late) /\ Faithful(s, want)
      /\ s.info \in [DOMAIN base -> WindowInfos] /\ s.data \in [DOMAIN base -> PolicyDatas]
  BY DEF Scenes, Shapes
<1>2. /\ new \in Shapes(base, late) /\ new.data = s.data
      /\ new.info[w].state = value
      /\ \A x \in DOMAIN base \ {w} : new.info[x].state = s.info[x].state
  BY <1>1, StatedShape
<1> HIDE DEF new
<1>4. Marked(s.data) \subseteq DOMAIN base \ {w} /\ DOMAIN s.data = DOMAIN base
  BY <1>1 DEF Marked
<1>5. Faithful(new, then)
  BY <1>1, <1>2, <1>4 DEF Faithful
<1>6. new \in Scenes(base, then, late)
  BY <1>2, <1>5 DEF Scenes
<1> QED BY <1>2, <1>6 DEF new

LEMMA StateRequestPreserves ==
    \A w \in Live, state \in States : TitlebarInv /\ StateRequest(w, state) => TitlebarInv'
<1> SUFFICES ASSUME NEW w \in Live, NEW state \in States, TitlebarInv, StateRequest(w, state)
             PROVE  TitlebarInv'
  OBVIOUS
<1> DEFINE then == [wanted EXCEPT ![w] = state]
<1>1. /\ Now \in Scenes(window_info, wanted, {}) /\ TablesOK(window_info)
      /\ Now.data = policy_data /\ Now.info = window_info
      /\ Rows \subseteq Workspaces \X DOMAIN window_info
  BY StartOfScene DEF Live
<1>2. /\ Locker /\ UNCHANGED <<sessions, app_info, workspace, posted, ready,
                     active_workspace, workspace_to_active>>
      /\ workspaces_to_windows' = Rows /\ wanted' = then /\ handle_modify_window(w, state)
  BY DEF StateRequest
<1>3. /\ state \in WindowStates /\ DOMAIN wanted = DOMAIN window_info /\ w \in DOMAIN window_info
      /\ policy_data \in [DOMAIN window_info -> PolicyDatas] /\ active_workspace \in Workspaces
  BY ConstantsAssumption DEF TitlebarInv, PolicyInv, Live
<1>4. /\ \A x \in DOMAIN window_info : then[x] = IF x = w THEN state ELSE wanted[x]
      /\ DOMAIN then = DOMAIN wanted
  BY <1>3
<1>5. SUFFICES \E scene \in Scenes(window_info, then, {}) :
                  Leaves(scene) /\ Marked(scene.data) = Marked(policy_data)
  <2>1. PICK scene \in Scenes(window_info, then, {}) :
                Leaves(scene) /\ Marked(scene.data) = Marked(policy_data)
    BY <1>5
  <2> HIDE DEF then
  <2>2. Marked(scene.data) =
            {x \in DOMAIN window_info : <<active_workspace', x>> \notin workspaces_to_windows'}
    BY <1>2, <2>1, WindowsStay DEF Live
  <2>3. /\ posted \subseteq DOMAIN window_info /\ AppsFit(app_info', window_info)
        /\ Acyclic(window_info) /\ OneHome(workspaces_to_windows', window_info)
    BY <1>2, WindowsStay DEF Live, AppsFit
  <2>4. KeepsWindows(window_info) /\ Remembers
    BY <1>2 DEF KeepsWindows, Remembers, Live
  <2> QED BY <1>1, <1>2, <1>3, <1>4, <2>1, <2>2, <2>3, <2>4, EndOfScene
<1> HIDE DEF then
<1>6. CASE policy_data[w].in_hidden_workspace
  <2> DEFINE d   == [policy_data[w] EXCEPT !.old_state = state]
             new == [Now EXCEPT !.data[w] = d]
  <2>1. policy_data[w] \in PolicyDatas
    BY <1>3
  <2>2. d \in PolicyDatas /\ d.in_hidden_workspace /\ d.old_state = state
    BY <1>3, <1>6, <2>1 DEF PolicyDatas
  <2>3. Leaves(Scene(focus, window_info, [policy_data EXCEPT ![w].old_state = state]))
    BY <1>2, <1>6 DEF handle_modify_window
  <2>4. [policy_data EXCEPT ![w].old_state = state] = [policy_data EXCEPT ![w] = d]
    BY <1>3
  <2>5. Scene(focus, window_info, [policy_data EXCEPT ![w] = d]) = new
    BY DEF Now, Scene
  <2> HIDE DEF d
  <2>6. new \in Shapes(window_info, {}) /\ new.data = [policy_data EXCEPT ![w] = d]
        /\ new.info = window_info
    <3>1. Now \in Shapes(window_info, {})
      BY <1>1 DEF Scenes
    <3>2. LET n == [Now EXCEPT !.data[w] = d] IN
          n \in Shapes(window_info, {}) /\ n.data = [Now.data EXCEPT ![w] = d] /\ n.info = Now.info
      BY <1>3, <2>2, <3>1, RemarkedShape
    <3> QED BY <1>1, <3>2
  <2>7. Leaves(new)
    BY <2>3, <2>4, <2>5
  <2> HIDE DEF new
  <2>8. Marked(new.data) = Marked(policy_data) /\ w \in Marked(policy_data)
    BY <1>3, <1>6, <2>2, <2>6 DEF Marked
  <2>9. Faithful(new, then)
    <3>1. Faithful(Now, wanted)
      BY <1>1 DEF Scenes
    <3>2. DOMAIN new.data = DOMAIN policy_data /\ DOMAIN policy_data = DOMAIN window_info
      BY <1>3, <2>6
    <3>3. ASSUME NEW x \in Marked(new.data)
          PROVE  new.info[x].state = "hidden" /\ then[x] = new.data[x].old_state
      <4>1. x \in Marked(policy_data) /\ x \in DOMAIN window_info
        BY <2>8, <3>3, <3>2 DEF Marked
      <4>2. window_info[x].state = "hidden" /\ wanted[x] = policy_data[x].old_state
        BY <1>1, <3>1, <4>1 DEF Faithful
      <4>3. new.data[x] = IF x = w THEN d ELSE policy_data[x]
        BY <1>3, <2>6, <4>1
      <4> QED BY <1>3, <1>4, <2>2, <2>6, <4>1, <4>2, <4>3
    <3>4. ASSUME NEW x \in DOMAIN new.data \ Marked(new.data) PROVE then[x] = new.info[x].state
      <4>1. x # w /\ x \in DOMAIN window_info /\ x \in DOMAIN policy_data \ Marked(policy_data)
        BY <2>8, <3>2, <3>4
      <4>2. wanted[x] = window_info[x].state
        BY <1>1, <3>1, <4>1 DEF Faithful
      <4> QED BY <1>3, <1>4, <2>6, <4>1, <4>2
    <3> QED BY <3>3, <3>4 DEF Faithful
  <2>10. new \in Scenes(window_info, then, {})
    BY <2>6, <2>9 DEF Scenes
  <2> QED BY <2>7, <2>8, <2>10
<1>7. CASE ~policy_data[w].in_hidden_workspace
  <2> DEFINE new == Stated(Rows, Now, w, state)
  <2>1. Leaves(new)
    BY <1>2, <1>7 DEF handle_modify_window, Now
  <2>2. w \in DOMAIN window_info /\ w \notin Marked(Now.data)
    BY <1>1, <1>3, <1>7 DEF Marked
  <2>3. new \in Scenes(window_info, then, {}) /\ new.data = Now.data
    BY <1>1, <1>3, <1>4, <2>2, StatedFaithful
  <2> HIDE DEF new
  <2> QED BY <1>1, <2>1, <2>3
<1> QED BY <1>6, <1>7

\* The active window is on the screen, so it is not marked hidden.
LEMMA ActiveIsShown ==
    ASSUME TitlebarInv
    PROVE  /\ active \in Live \cup {NoWindow}
           /\ active # NoWindow => active \notin Marked(policy_data) /\ <<active_workspace, active>> \in Rows
           /\ focus.told \subseteq {active}
           /\ active \notin Live => active = NoWindow
<1>1. /\ FocusOK(focus, window_info, posted, VisibleSurfaces(window_info), Range(sessions))
      /\ DOMAIN window_info \subseteq Windows
  BY StartOfOperation DEF TitlebarInv, Live
<1>2. active \in VisibleSurfaces(window_info) \cup {NoWindow} /\ focus.told \subseteq {active}
  BY <1>1, TopOfFocus, Zenon DEF active
<1>3. Now.data = policy_data /\ Now.info = window_info /\ Faithful(Now, wanted)
  BY StartOfScene DEF TitlebarInv, PolicyInv
<1>4. active # NoWindow => active \in Live /\ window_info[active].state \notin HiddenStates
  BY <1>2 DEF VisibleSurfaces, Live
<1>5. active # NoWindow => active \notin Marked(policy_data)
  BY <1>3, <1>4 DEF Faithful, HiddenStates
<1> QED BY <1>2, <1>4, <1>5, WindowsStay

LEMMA TogglePreserves ==
    \A state \in Toggles : TitlebarInv /\ toggle(state) => TitlebarInv'
<1> SUFFICES ASSUME NEW state \in Toggles, TitlebarInv, toggle(state)
             PROVE  TitlebarInv'
  OBVIOUS
<1> DEFINE w     == active
           value == IF window_info[active].state = state THEN "restored" ELSE state
           then  == [wanted EXCEPT ![w] = value]
           new   == Stated(Rows, Now, w, value)
<1>1. /\ Now \in Scenes(window_info, wanted, {}) /\ TablesOK(window_info)
      /\ Now.data = policy_data /\ Now.info = window_info
      /\ Rows \subseteq Workspaces \X DOMAIN window_info
  BY StartOfScene DEF Live
<1>2. /\ Locker /\ UNCHANGED <<sessions, app_info, workspace, posted, ready,
                     active_workspace, workspace_to_active>>
      /\ workspaces_to_windows' = Rows /\ wanted' = then /\ Leaves(new) /\ active # NoWindow
  BY DEF toggle, Now
<1>3. value \in WindowStates
  BY TitlebarAssumption DEF WindowStates
<1>4. /\ DOMAIN wanted = DOMAIN window_info /\ active_workspace \in Workspaces
      /\ DOMAIN then = DOMAIN wanted
  BY DEF TitlebarInv, PolicyInv, Live
<1>5. w \in DOMAIN window_info /\ w \notin Marked(Now.data)
  BY <1>1, <1>2, ActiveIsShown DEF Live
<1> HIDE DEF w, value
<1>6. \A x \in DOMAIN window_info : then[x] = IF x = w THEN value ELSE wanted[x]
  BY <1>4
<1> HIDE DEF then
<1>7. new \in Scenes(window_info, then, {}) /\ new.data = Now.data
  BY <1>1, <1>3, <1>5, <1>6, StatedFaithful
<1> HIDE DEF new
<1>8. Marked(new.data) =
          {x \in DOMAIN window_info : <<active_workspace', x>> \notin workspaces_to_windows'}
  BY <1>1, <1>2, <1>7, WindowsStay DEF Live
<1>9. /\ posted \subseteq DOMAIN window_info /\ AppsFit(app_info', window_info)
      /\ Acyclic(window_info) /\ OneHome(workspaces_to_windows', window_info)
  BY <1>2, WindowsStay DEF Live, AppsFit
<1>10. KeepsWindows(window_info) /\ Remembers
  BY <1>2 DEF KeepsWindows, Remembers, Live
<1> QED BY <1>1, <1>2, <1>4, <1>7, <1>8, <1>9, <1>10, EndOfScene

-----------------------------------------------------------------------------
(* A window is closed.                                                     *)

LEMMA RemovalPreserves ==
    \A w \in Live, first \in FirstSessions : TitlebarInv /\ Removal(w, first) => TitlebarInv'
<1> SUFFICES ASSUME NEW w \in Live, NEW first \in FirstSessions, TitlebarInv, Removal(w, first)
             PROVE  TitlebarInv'
  OBVIOUS
<1>1. remove_window(w, first) /\ UNCHANGED ready
  BY DEF Removal, remove_surface
<1>2. Inv'
  BY <1>1, RemoveWindowPreserves DEF TitlebarInv
<1>3. Acyclic(window_info')
  BY <1>1, RemoveWindowKeepsTrees DEF TitlebarInv
<1>4. Rows = workspaces_to_windows
  BY StartOfScene
<1>5. /\ dead_workspaces' = {} /\ workspace' = workspace /\ active_workspace' = active_workspace
      /\ workspaces_to_windows' = {row \in workspaces_to_windows : row[2] # w}
      /\ policy_data' = WithoutWindow(policy_data, w) /\ wanted' = WithoutWindow(wanted, w)
      /\ workspace_to_active' = [ws \in Workspaces |->
             IF workspace_to_active[ws] = w THEN NoWindow ELSE workspace_to_active[ws]]
      /\ window_info' = erase(window_info, w)
  BY <1>1, <1>4 DEF remove_window, Removal, Locker
<1>6. /\ Live' = Live \ {w} /\ DOMAIN window_info' = Live'
      /\ \A x \in Live \ {w} : /\ window_info'[x].state = window_info[x].state
                               /\ window_info'[x].type = window_info[x].type
                               /\ window_info'[x].parent \in {window_info[x].parent, NoWindow}
  <2>1. \A x \in Live : window_info[x] \in WindowInfos
    BY WindowTables DEF TitlebarInv, InfoOK, Live
  <2> QED BY <1>5, <2>1 DEF erase, WindowInfos, Live
<1>7. \A x \in Live \ {w} : \A ws :
        <<ws, x>> \in workspaces_to_windows' <=> <<ws, x>> \in workspaces_to_windows
  BY <1>5
<1>8. NoWindow \notin Live
  BY WindowTables DEF TitlebarInv
<1>9. OneHome(workspaces_to_windows, window_info)
  BY DEF TitlebarInv, PolicyInv
<1>10. OneHome(workspaces_to_windows', window_info')
  <2>1. ASSUME NEW x \in DOMAIN window_info'
        PROVE  \E home \in Workspaces : \A ws \in Workspaces :
                    <<ws, x>> \in workspaces_to_windows' <=> ws = home
    <3>1. x \in Live \ {w} /\ x \in DOMAIN window_info
      BY <1>6, <2>1 DEF Live
    <3>2. PICK home \in Workspaces : \A ws \in Workspaces :
                    <<ws, x>> \in workspaces_to_windows <=> ws = home
      BY <1>9, <3>1 DEF OneHome
    <3> QED BY <1>7, <3>1, <3>2
  <2>2. ASSUME NEW x \in DOMAIN window_info', window_info'[x].parent \in DOMAIN window_info'
        PROVE  \A ws \in Workspaces : <<ws, x>> \in workspaces_to_windows'
                                      <=> <<ws, window_info'[x].parent>> \in workspaces_to_windows'
    <3> DEFINE p == window_info'[x].parent
    <3>1. /\ x \in Live \ {w} /\ x \in DOMAIN window_info /\ p \in Live \ {w}
          /\ p = window_info[x].parent /\ p \in DOMAIN window_info
      BY <1>6, <1>8, <2>2 DEF Live
    <3>2. \A ws \in Workspaces : <<ws, x>> \in workspaces_to_windows
                                 <=> <<ws, window_info[x].parent>> \in workspaces_to_windows
      BY <1>9, <3>1 DEF OneHome
    <3> HIDE DEF p
    <3>3. \A ws \in Workspaces : <<ws, x>> \in workspaces_to_windows' <=> <<ws, p>> \in workspaces_to_windows'
      BY <1>7, <3>1, <3>2
    <3> QED BY <3>3 DEF p
  <2> QED BY <2>1, <2>2 DEF OneHome
<1>11. /\ policy_data \in [Live -> PolicyDatas] /\ DOMAIN wanted = Live /\ Faithful(Now, wanted)
       /\ Marked(policy_data) = {x \in Live : ~InActiveWorkspace(x)}
  BY DEF TitlebarInv, PolicyInv
<1>12. /\ policy_data' \in [Live' -> PolicyDatas] /\ DOMAIN wanted' = Live'
       /\ \A x \in Live' : policy_data'[x] = policy_data[x] /\ wanted'[x] = wanted[x]
  BY <1>5, <1>6, <1>11 DEF WithoutWindow
<1>13. Marked(policy_data') = Marked(policy_data) \ {w}
  BY <1>6, <1>11, <1>12 DEF Marked
<1>14. Faithful(Now, wanted)'
  <2>1. /\ \A x \in Marked(policy_data) :
              window_info[x].state = "hidden" /\ wanted[x] = policy_data[x].old_state
        /\ \A x \in DOMAIN policy_data \ Marked(policy_data) : wanted[x] = window_info[x].state
    BY <1>11 DEF Faithful, Now, Scene
  <2>2. Marked(policy_data) \subseteq Live /\ DOMAIN policy_data = Live /\ DOMAIN policy_data' = Live'
    BY <1>11, <1>12 DEF Marked
  <2>3. \A x \in Marked(policy_data') :
            window_info'[x].state = "hidden" /\ wanted'[x] = policy_data'[x].old_state
    BY <1>6, <1>12, <1>13, <2>1, <2>2
  <2>4. \A x \in DOMAIN policy_data' \ Marked(policy_data') : wanted'[x] = window_info'[x].state
    BY <1>6, <1>12, <1>13, <2>1, <2>2
  <2>5. Now.data' = policy_data' /\ Now.info' = window_info'
    BY DEF Now, Scene
  <2>6. Marked(Now.data)' = Marked(policy_data')
    BY <2>5 DEF Marked
  <2> QED BY <2>3, <2>4, <2>5, <2>6 DEF Faithful
<1>15. Marked(policy_data)' = {x \in Live : ~InActiveWorkspace(x)}'
  BY <1>5, <1>6, <1>7, <1>11, <1>13 DEF InActiveWorkspace, Marked
<1>16. RemembersActive'
  <2>1. RemembersActive
    BY DEF TitlebarInv, PolicyInv
  <2> QED BY <1>5, <1>6, <2>1 DEF RemembersActive
<1>17. PolicyInv'
  BY <1>5, <1>10, <1>12, <1>14, <1>15, <1>16 DEF TitlebarInv, PolicyInv, OneHome
<1> QED BY <1>2, <1>3, <1>17 DEF TitlebarInv

-----------------------------------------------------------------------------
(* The workspace is switched.                                              *)

\* A list of all the members of a finite set.
LEMMA OrdersProperties ==
    ASSUME NEW S, IsFiniteSet(S), NEW order \in Orders(S)
    PROVE  order \in Seq(S) /\ Range(order) = S
<1> DEFINE n == Cardinality(S)
<1>1. n \in Nat
  BY FS_CardinalityType
<1>2. order \in [1..n -> S] /\ \A i, j \in 1..n : i # j => order[i] # order[j]
  BY DEF Orders, SetToSeqs
<1>3. order \in Seq(S)
  BY <1>1, <1>2, SeqDef
<1>4. order \in Injection(1..n, S)
  BY <1>2 DEF Injection, IsInjective
<1>5. Cardinality(1..n) = n
  <2> HIDE DEF n
  <2> QED BY <1>1, FS_Interval
<1>6. order \in Surjection(1..n, S)
  BY <1>4, <1>5, FS_Injection
<1>7. Range(order) = S
  BY <1>2, <1>6 DEF Surjection, Range
<1> QED BY <1>3, <1>7

LEMMA SetToSeqProperties ==
    ASSUME NEW S, IsFiniteSet(S)
    PROVE  SetToSeq(S) \in Seq(S) /\ Range(SetToSeq(S)) = S
<1> DEFINE n == Cardinality(S)
           Lists(f) == f \in [1..n -> S] /\ IsInjective(f)
<1>1. n \in Nat /\ ExistsBijection(1..n, S)
  BY FS_CardinalityType
<1>2. \E f : Lists(f)
  BY <1>1 DEF ExistsBijection, Bijection, Injection
<1>3. Lists(SetToSeq(S))
  BY <1>2, Zenon DEF SetToSeq
<1> DEFINE order == SetToSeq(S)
<1> HIDE DEF order
<1>4. order \in [1..n -> S] /\ \A i, j \in 1..n : i # j => order[i] # order[j]
  BY <1>3 DEF IsInjective, order
<1>5. order \in Orders(S)
  BY <1>4 DEF Orders, SetToSeqs
<1> QED BY <1>5, OrdersProperties DEF order

\* The tree that is taken along is all in the workspace that is left.
LEMMA TreeTaken ==
    ASSUME TitlebarInv, NEW window \in {active, NoWindow}, window # NoWindow
    PROVE  LET tree == Tree(window_info, window) IN
           /\ tree \subseteq Live
           /\ \A x \in tree : <<active_workspace, x>> \in Rows
           /\ \A x \in Live : window_info[x].parent \in Live
                  => (x \in tree <=> window_info[x].parent \in tree)
<1> DEFINE X == {x \in Live : <<active_workspace, x>> \in Rows}
<1>1. window \in Live /\ window \in X
  BY ActiveIsShown
<1>2. /\ IsFiniteSet(Live) /\ NoWindow \notin Live /\ ChildrenOK(window_info)
      /\ \A w \in Live : /\ window_info[w].parent \in Live \cup {NoWindow}
                         /\ Range(window_info[w].children) \subseteq Live
      /\ Acyclic(window_info)
  BY WindowTables DEF TitlebarInv
<1>3. \A x \in Live : window_info[x].parent \in Live => (x \in X <=> window_info[x].parent \in X)
  <2>1. OneHome(Rows, window_info) /\ active_workspace \in Workspaces
    BY WindowsStay DEF TitlebarInv, PolicyInv
  <2> QED BY <2>1 DEF OneHome, Live
<1> HIDE DEF X
<1>4. /\ Tree(window_info, window) \subseteq Live
      /\ \A x \in Live : window_info[x].parent \in Live
             => (x \in Tree(window_info, window) <=> window_info[x].parent \in Tree(window_info, window))
      /\ Tree(window_info, window) \subseteq X
  BY <1>1, <1>2, <1>3, TreeProperties DEF Live
<1> QED BY <1>4 DEF X

\* The rows after that still give each window one workspace.
LEMMA TakenRows ==
    ASSUME TitlebarInv, NEW window \in {active, NoWindow}, NEW ws \in Workspaces,
           ws # active_workspace
    PROVE  LET rows == Taken(window, active_workspace, ws) IN
           /\ rows \subseteq Workspaces \X Live
           /\ OneHome(rows, window_info)
           /\ InWorkspace(Rows, ws) \subseteq InWorkspace(rows, ws)
           /\ \A x \in Live : <<ws, x>> \notin rows /\ <<active_workspace, x>> \notin rows
                              => x \in Marked(policy_data)
<1> DEFINE old  == active_workspace
           tree == IF window = NoWindow THEN {} ELSE Tree(window_info, window)
           rows == Taken(window, old, ws)
<1>1. /\ tree \subseteq Live
      /\ \A x \in tree : <<old, x>> \in Rows
      /\ \A x \in Live : window_info[x].parent \in Live
             => (x \in tree <=> window_info[x].parent \in tree)
  <2>1. CASE window = NoWindow
    BY <2>1
  <2>2. CASE window # NoWindow
    BY <2>2, TreeTaken
  <2> QED BY <2>1, <2>2
<1>2. /\ Rows \subseteq Workspaces \X Live /\ OneHome(Rows, window_info)
      /\ Marked(policy_data) = {x \in Live : <<old, x>> \notin Rows} /\ old \in Workspaces
      /\ Live \subseteq Windows
  BY StartOfScene, WindowsStay, StartOfOperation DEF TitlebarInv, PolicyInv
<1>3. rows = (Rows \ ({old} \X tree)) \cup ({ws} \X tree)
  BY DEF Taken
<1> HIDE DEF rows, tree, old
<1>4. ASSUME NEW x \in tree, NEW v \in Workspaces PROVE <<v, x>> \in Rows <=> v = old
  <2>1. x \in DOMAIN window_info
    BY <1>1 DEF Live
  <2>2. PICK home \in Workspaces : \A u \in Workspaces : <<u, x>> \in Rows <=> u = home
    BY <1>2, <2>1 DEF OneHome
  <2>3. old = home
    BY <1>1, <1>2, <2>2
  <2> QED BY <2>2, <2>3
<1>5. ASSUME NEW x, NEW v \in Workspaces
      PROVE  <<v, x>> \in rows <=> IF x \in tree THEN v = ws ELSE <<v, x>> \in Rows
  <2>1. CASE x \in tree
    <3>1. <<v, x>> \in Rows <=> v = old
      BY <1>4, <2>1
    <3> QED BY <1>3, <2>1, <3>1
  <2>2. CASE x \notin tree
    BY <1>3, <2>2
  <2> QED BY <2>1, <2>2
<1>6. rows \subseteq Workspaces \X Live
  BY <1>1, <1>2, <1>3
<1>7. OneHome(rows, window_info)
  <2>1. ASSUME NEW x \in DOMAIN window_info
        PROVE  \E home \in Workspaces : \A v \in Workspaces : <<v, x>> \in rows <=> v = home
    <3>1. CASE x \in tree
      BY <1>5, <3>1
    <3>2. CASE x \notin tree
      <4>1. PICK home \in Workspaces : \A v \in Workspaces : <<v, x>> \in Rows <=> v = home
        BY <1>2 DEF OneHome
      <4>2. \A v \in Workspaces : <<v, x>> \in rows <=> <<v, x>> \in Rows
        BY <1>5, <3>2
      <4> QED BY <4>1, <4>2
    <3> QED BY <3>1, <3>2
  <2>2. ASSUME NEW x \in DOMAIN window_info, NEW p \in DOMAIN window_info,
               p = window_info[x].parent, NEW v \in Workspaces
        PROVE  <<v, x>> \in rows <=> <<v, p>> \in rows
    <3>1. x \in Live /\ p \in Live
      BY DEF Live
    <3>2. x \in tree <=> p \in tree
      BY <1>1, <2>2, <3>1
    <3>3. <<v, x>> \in Rows <=> <<v, p>> \in Rows
      BY <1>2, <2>2 DEF OneHome
    <3>4. /\ <<v, x>> \in rows <=> IF x \in tree THEN v = ws ELSE <<v, x>> \in Rows
          /\ <<v, p>> \in rows <=> IF p \in tree THEN v = ws ELSE <<v, p>> \in Rows
      BY <1>5
    <3>5. CASE x \in tree
      BY <3>2, <3>4, <3>5
    <3>6. CASE x \notin tree
      BY <3>2, <3>3, <3>4, <3>6
    <3> QED BY <3>5, <3>6
  <2> QED BY <2>1, <2>2 DEF OneHome
<1>8. InWorkspace(Rows, ws) \subseteq InWorkspace(rows, ws)
  <2>1. \A x : <<ws, x>> \in Rows => <<ws, x>> \in rows
    BY <1>5
  <2> QED BY <2>1 DEF InWorkspace
<1>9. ASSUME NEW x \in Live, <<ws, x>> \notin rows, <<old, x>> \notin rows
      PROVE  x \in Marked(policy_data)
  <2>1. x \notin tree
    BY <1>5, <1>9
  <2>2. <<old, x>> \notin Rows
    BY <1>2, <1>5, <1>9, <2>1
  <2> QED BY <1>2, <2>2
<1> QED BY <1>6, <1>7, <1>8, <1>9 DEF rows, old

\* The rows after the key, the windows of the workspace that is shown and of the
\* one that is left, and the scene before they are shown and hidden.
RowsAfter(ws, taking) == Taken(IF taking THEN active ELSE NoWindow, active_workspace, ws)

Shown(ws, taking) == InWorkspace(RowsAfter(ws, taking), ws)

Left(ws, taking) == InWorkspace(RowsAfter(ws, taking), active_workspace)

Begun(ws) == ShowRemembered(Rows, Now, ws)

LEMMA SwitchRows ==
    ASSUME TitlebarInv, NEW ws \in Workspaces, NEW taking \in BOOLEAN, SwitchKey(ws, taking)
    PROVE  /\ ws # active_workspace /\ active_workspace' = ws /\ Locker
           /\ workspaces_to_windows' = RowsAfter(ws, taking)
           /\ UNCHANGED <<sessions, app_info, workspace, posted, ready, wanted>>
           /\ Remembers
           /\ RowsAfter(ws, taking) \subseteq Workspaces \X Live
           /\ OneHome(RowsAfter(ws, taking), window_info)
           /\ Shown(ws, taking) \subseteq Live /\ Left(ws, taking) \subseteq Live
           /\ \A x \in Live : /\ x \in Shown(ws, taking) <=> <<ws, x>> \in RowsAfter(ws, taking)
                              /\ x \in Left(ws, taking) <=>
                                    <<active_workspace, x>> \in RowsAfter(ws, taking)
                              /\ x \in Shown(ws, taking) => x \notin Left(ws, taking)
                              /\ x \notin Shown(ws, taking) /\ x \notin Left(ws, taking)
                                    => x \in Marked(policy_data)
                              /\ <<ws, x>> \in Rows => x \in Shown(ws, taking)
<1> DEFINE window == IF taking THEN active ELSE NoWindow
           old    == active_workspace
           rows   == RowsAfter(ws, taking)
           A      == Shown(ws, taking)
           O      == Left(ws, taking)
<1>1. switch_workspace_to(ws, window)
  BY DEF SwitchKey
<1>2. rows = Taken(window, old, ws)
  BY DEF RowsAfter
<1>3. window \in {active, NoWindow} /\ old \in Workspaces
  BY DEF TitlebarInv, PolicyInv
<1> HIDE DEF window, rows
<1>4. /\ ws # old /\ Locker /\ active_workspace' = ws /\ workspaces_to_windows' = rows
      /\ UNCHANGED <<sessions, app_info, workspace, posted, ready, wanted>>
  BY <1>1, <1>2 DEF switch_workspace_to
<1>5. Remembers
  BY <1>1, <1>3 DEF switch_workspace_to, Remembers
<1>6. /\ rows \subseteq Workspaces \X Live /\ OneHome(rows, window_info)
      /\ InWorkspace(Rows, ws) \subseteq InWorkspace(rows, ws)
      /\ \A x \in Live : <<ws, x>> \notin rows /\ <<old, x>> \notin rows => x \in Marked(policy_data)
  BY <1>2, <1>3, <1>4, TakenRows
<1>7. Live \subseteq Windows
  BY WindowTables DEF TitlebarInv
<1>8. A = InWorkspace(rows, ws) /\ O = InWorkspace(rows, old)
  BY DEF Shown, Left, rows
<1> HIDE DEF A, O
<1>9. /\ A \subseteq Live /\ O \subseteq Live
      /\ \A x \in Live : /\ x \in A <=> <<ws, x>> \in rows
                         /\ x \in O <=> <<old, x>> \in rows
                         /\ <<ws, x>> \in Rows => x \in A
  BY <1>6, <1>7, <1>8 DEF InWorkspace
<1>10. ASSUME NEW x \in Live, x \in A PROVE x \notin O
  <2>1. x \in DOMAIN window_info /\ <<ws, x>> \in rows
    BY <1>9, <1>10 DEF Live
  <2>2. PICK home \in Workspaces : \A v \in Workspaces : <<v, x>> \in rows <=> v = home
    BY <1>6, <2>1 DEF OneHome
  <2> QED BY <1>3, <1>4, <1>9, <2>1, <2>2
<1> QED BY <1>4, <1>5, <1>6, <1>9, <1>10 DEF rows, A, O

\* Everything in the new workspace is shown first, then everything in the old
\* one is hidden, the active window last; all but that can be followed in any
\* set of scenes that the showing and the hiding do not leave.
LEMMA SwitchChain ==
    ASSUME TitlebarInv, NEW ws \in Workspaces, NEW taking \in BOOLEAN, SwitchKey(ws, taking),
           NEW S \in SUBSET Scenes(window_info, wanted, {}), Begun(ws) \in S,
           ShowingKeeps(RowsAfter(ws, taking), S, Shown(ws, taking)),
           HidingKeeps(RowsAfter(ws, taking), S, Left(ws, taking) \ {active})
    PROVE  \E hidden \in S :
              /\ \A x : x \in Marked(hidden.data) <=>
                          \/ x \in Marked(Begun(ws).data) /\ x \notin Shown(ws, taking)
                          \/ x \in Left(ws, taking) /\ x # active
              /\ Leaves(IF active \in Left(ws, taking)
                        THEN apply_workspace_hidden_to(RowsAfter(ws, taking), hidden, active)
                        ELSE hidden)
<1> DEFINE window == IF taking THEN active ELSE NoWindow
           old    == active_workspace
           rows   == RowsAfter(ws, taking)
           begun  == Begun(ws)
           A      == Shown(ws, taking)
           O      == Left(ws, taking)
           added  == InWorkspace(rows, ws) \ InWorkspace(Rows, ws)
<1>1. switch_workspace_to(ws, window) /\ rows = Taken(window, old, ws)
  BY DEF SwitchKey, RowsAfter
<1>2. begun = ShowRemembered(Rows, Scene(focus, window_info, policy_data), ws)
  BY DEF Begun, Now
<1> HIDE DEF window, rows, begun, old
<1>3. PICK showing \in Orders(InWorkspace(rows, ws)),
           hiding \in Orders(InWorkspace(rows, old) \ {active}) :
                Leaves(HideOld(rows, ShowAll(rows, begun, SetToSeq(added) \o showing), old, hiding))
  BY <1>1, <1>2 DEF switch_workspace_to, old
<1>4. A = InWorkspace(rows, ws) /\ O = InWorkspace(rows, old)
  BY DEF Shown, Left, rows, old
<1>5. /\ A \subseteq Live /\ O \subseteq Live
      /\ \A x \in Live : x \in O <=> <<old, x>> \in rows
  <2>1. /\ Shown(ws, taking) \subseteq Live /\ Left(ws, taking) \subseteq Live
        /\ \A x \in Live : x \in Left(ws, taking) <=>
                              <<active_workspace, x>> \in RowsAfter(ws, taking)
    BY SwitchRows
  <2> QED BY <2>1 DEF rows, old
<1>6. IsFiniteSet(Live) /\ TablesOK(window_info) /\ active \in Live \cup {NoWindow} /\ NoWindow \notin Live
  BY WindowTables, StartOfScene, ActiveIsShown DEF TitlebarInv
<1>7. /\ begun \in S
      /\ ShowingKeeps(rows, S, A) /\ HidingKeeps(rows, S, O \ {active})
  BY DEF rows, begun
<1> HIDE DEF A, O
<1> DEFINE list   == SetToSeq(added) \o showing
           showed == ShowAll(rows, begun, list)
           hidden == HideAll(rows, showed, hiding)
<1>8. list \in Seq(DOMAIN window_info) /\ Range(list) = A
  <2>1. added \subseteq A /\ IsFiniteSet(added) /\ IsFiniteSet(A)
    BY <1>4, <1>5, <1>6, FS_Subset
  <2> HIDE DEF added
  <2>2. /\ SetToSeq(added) \in Seq(added) /\ Range(SetToSeq(added)) = added
    BY <2>1, SetToSeqProperties
  <2>3. showing \in Seq(A) /\ Range(showing) = A
    BY <1>3, <1>4, <2>1, OrdersProperties
  <2> DEFINE first == SetToSeq(added)
  <2>4. first \in Seq(Live) /\ showing \in Seq(Live)
    BY <1>5, <2>1, <2>2, <2>3
  <2> HIDE DEF first
  <2>5. first \o showing \in Seq(Live) /\ Range(first \o showing) = Range(first) \cup Range(showing)
    BY <2>4, RangeConcatenation
  <2> QED BY <2>1, <2>2, <2>3, <2>5 DEF first, Live
<1> HIDE DEF list, added
<1>9. showed \in S /\ \A x : x \in Marked(showed.data) <=> x \in Marked(begun.data) /\ x \notin A
  <2>1. ShowingKeeps(rows, S, Range(list))
    BY <1>7, <1>8
  <2>2. LET new == ShowAll(rows, begun, list) IN
        /\ new \in S
        /\ \A x : x \in Marked(new.data) <=> x \in Marked(begun.data) /\ x \notin Range(list)
    BY <1>6, <1>7, <1>8, <2>1, ShowsAlong
  <2> QED BY <1>8, <2>2
<1> HIDE DEF showed
<1>10. hidden \in S /\ Marked(hidden.data) = Marked(showed.data) \cup (O \ {active})
  <2>1. IsFiniteSet(O \ {active}) /\ O \ {active} \subseteq DOMAIN window_info
    BY <1>5, <1>6, FS_Subset DEF Live
  <2>2. hiding \in Seq(O \ {active}) /\ Range(hiding) = O \ {active}
    BY <1>3, <1>4, <2>1, OrdersProperties
  <2>3. hiding \in Seq(DOMAIN window_info) /\ HidingKeeps(rows, S, Range(hiding))
    BY <1>7, <2>1, <2>2
  <2>4. TablesOK(window_info) /\ showed \in S /\ hidden = HideAll(rows, showed, hiding)
    BY <1>6, <1>9
  <2> HIDE DEF hidden
  <2>5. /\ hidden \in S
        /\ \A x : x \in Marked(hidden.data) <=> x \in Marked(showed.data) \/ x \in Range(hiding)
    BY <2>3, <2>4, HidesAlong
  <2> QED BY <2>2, <2>5
<1>11. Leaves(IF active \in O THEN apply_workspace_hidden_to(rows, hidden, active) ELSE hidden)
  <2>1. Leaves(HideOld(rows, showed, old, hiding))
    BY <1>3 DEF showed, list
  <2>2. active # NoWindow /\ <<old, active>> \in rows <=> active \in O
    BY <1>5, <1>6
  <2>3. HideOld(rows, showed, old, hiding) =
            IF active \in O THEN apply_workspace_hidden_to(rows, hidden, active) ELSE hidden
    BY <2>2 DEF HideOld
  <2> QED BY <2>1, <2>3
<1> HIDE DEF hidden
<1>12. \A x : x \in Marked(hidden.data) <=>
                 (x \in Marked(begun.data) /\ x \notin A) \/ (x \in O /\ x # active)
  BY <1>9, <1>10
<1> QED BY <1>10, <1>11, <1>12 DEF rows, begun, A, O

\* The window that is remembered, if one is shown first, is one of those shown.
LEMMA BegunScene ==
    ASSUME TitlebarInv, NEW ws \in Workspaces, NEW taking \in BOOLEAN, SwitchKey(ws, taking)
    PROVE  LET ww == workspace_to_active[ws] IN
           \/ Begun(ws) = Now
           \/ /\ active = NoWindow /\ ww \in Shown(ws, taking)
              /\ RowsAfter(ws, taking) = Rows
              /\ Begun(ws) = apply_workspace_visible_to(RowsAfter(ws, taking), Now, ww)
<1> DEFINE ww   == workspace_to_active[ws]
           rows == RowsAfter(ws, taking)
           A    == Shown(ws, taking)
           begun == Begun(ws)
<1>1. CASE active = NoWindow /\ ww # NoWindow /\ <<ws, ww>> \in Rows
  <2>1. begun = apply_workspace_visible_to(Rows, Now, ww)
    BY <1>1 DEF Begun, ShowRemembered
  <2>2. rows = Rows
    BY <1>1 DEF RowsAfter, Taken
  <2>3. ww \in Live
    BY <1>1, StartOfScene
  <2>4. <<ws, ww>> \in Rows => ww \in Shown(ws, taking)
    BY <2>3, SwitchRows
  <2> HIDE DEF begun, rows, ww, A
  <2> QED BY <1>1, <2>1, <2>2, <2>4 DEF begun, rows, ww
<1>2. CASE ~(active = NoWindow /\ ww # NoWindow /\ <<ws, ww>> \in Rows)
  <2>1. Begun(ws) = Now
    BY <1>2 DEF Begun, ShowRemembered
  <2> QED BY <2>1
<1> QED BY <1>1, <1>2

LEMMA SwitchPreserves ==
    \A ws \in Workspaces, taking \in BOOLEAN : TitlebarInv /\ SwitchKey(ws, taking) => TitlebarInv'
<1> SUFFICES ASSUME NEW ws \in Workspaces, NEW taking \in BOOLEAN, TitlebarInv,
                    SwitchKey(ws, taking)
             PROVE  TitlebarInv'
  OBVIOUS
<1> DEFINE rows == RowsAfter(ws, taking)
           A    == Shown(ws, taking)
           O    == Left(ws, taking)
           M    == Marked(policy_data)
           S    == Scenes(window_info, wanted, {})
           ww   == workspace_to_active[ws]
<1>1. /\ ws # active_workspace /\ active_workspace' = ws /\ Locker
      /\ workspaces_to_windows' = rows
      /\ UNCHANGED <<sessions, app_info, workspace, posted, ready, wanted>>
      /\ Remembers
      /\ rows \subseteq Workspaces \X Live /\ OneHome(rows, window_info)
      /\ A \subseteq Live /\ O \subseteq Live
      /\ \A x \in Live : /\ x \in A <=> <<ws, x>> \in rows
                         /\ x \in A => x \notin O
                         /\ x \notin A /\ x \notin O => x \in M
  BY SwitchRows
<1>2. /\ Now \in S /\ Now.data = policy_data /\ TablesOK(window_info)
      /\ active \in Live \cup {NoWindow} /\ M \subseteq Live
  BY StartOfScene, ActiveIsShown DEF TitlebarInv, PolicyInv, Marked
<1>3. ShowingKeeps(rows, S, A) /\ HidingKeeps(rows, S, O \ {active})
  <2> HIDE DEF rows, A, O
  <2>1. A \subseteq DOMAIN window_info /\ O \subseteq DOMAIN window_info
    BY <1>1 DEF Live
  <2>2. ASSUME NEW c \in S, NEW w \in A PROVE apply_workspace_visible_to(rows, c, w) \in S
    BY <1>2, <2>1, <2>2, Shows
  <2>3. ASSUME NEW c \in S, NEW w \in O \ {active} PROVE apply_workspace_hidden_to(rows, c, w) \in S
    BY <1>2, <2>1, <2>3, Hides
  <2> QED BY <2>2, <2>3 DEF ShowingKeeps, HidingKeeps
<1>4. Begun(ws) \in S /\ \E B \in SUBSET A : \A x : x \in Marked(Begun(ws).data) <=> x \in M \ B
  <2>1. CASE Begun(ws) = Now
    <3>1. \A x : x \in Marked(Begun(ws).data) <=> x \in M \ {}
      BY <1>2, <2>1
    <3> QED BY <1>2, <2>1, <3>1
  <2>2. CASE ww \in A /\ Begun(ws) = apply_workspace_visible_to(rows, Now, ww)
    <3>1. ww \in DOMAIN window_info
      BY <1>1, <2>2 DEF Live
    <3> HIDE DEF ww, rows, S, A, M
    <3>2. LET new == apply_workspace_visible_to(rows, Now, ww) IN
          new \in Scenes(window_info, wanted, {}) /\ Marked(new.data) = Marked(Now.data) \ {ww}
      BY <1>2, <3>1, Shows DEF S
    <3>3. Begun(ws) \in S /\ \A x : x \in Marked(Begun(ws).data) <=> x \in M \ {ww}
      BY <1>2, <2>2, <3>2 DEF S, M
    <3> QED BY <2>2, <3>3
  <2> QED BY <2>1, <2>2, BegunScene
<1>5. PICK B \in SUBSET A : \A x : x \in Marked(Begun(ws).data) <=> x \in M \ B
  BY <1>4
<1>6. PICK hidden \in S :
              /\ \A x : x \in Marked(hidden.data) <=>
                          (x \in Marked(Begun(ws).data) /\ x \notin A) \/ (x \in O /\ x # active)
              /\ Leaves(IF active \in O
                        THEN apply_workspace_hidden_to(rows, hidden, active) ELSE hidden)
  <2>1. S \in SUBSET Scenes(window_info, wanted, {})
    OBVIOUS
  <2> HIDE DEF S
  <2> QED BY <1>3, <1>4, <2>1, SwitchChain
<1> DEFINE end == IF active \in O THEN apply_workspace_hidden_to(rows, hidden, active) ELSE hidden
<1> HIDE DEF rows, A, O, M
<1>7. end \in S /\ \A x : x \in Marked(end.data) <=> (x \in M /\ x \notin A) \/ x \in O
  <2>1. CASE active \in O
    <3>1. end = apply_workspace_hidden_to(rows, hidden, active) /\ active \in DOMAIN window_info
      BY <1>1, <2>1 DEF Live
    <3> HIDE DEF end
    <3>2. end \in S /\ Marked(end.data) = Marked(hidden.data) \cup {active}
      BY <1>2, <3>1, Hides
    <3> HIDE DEF S
    <3> QED BY <1>5, <1>6, <2>1, <3>2
  <2>2. CASE active \notin O
    <3>1. end = hidden
      BY <2>2
    <3> HIDE DEF end, S
    <3> QED BY <1>5, <1>6, <2>2, <3>1
  <2> QED BY <2>1, <2>2
<1>8. Leaves(end)
  BY <1>6
<1> HIDE DEF end, S
<1>9. Marked(end.data) = {x \in Live : <<ws, x>> \notin rows}
  BY <1>1, <1>2, <1>7
<1>10. /\ posted \subseteq DOMAIN window_info /\ AppsFit(app_info', window_info)
       /\ Acyclic(window_info) /\ KeepsWindows(window_info)
       /\ DOMAIN wanted = DOMAIN window_info
  BY <1>1, WindowsStay DEF Live, AppsFit, KeepsWindows, TitlebarInv, PolicyInv
<1> QED BY <1>1, <1>2, <1>7, <1>8, <1>9, <1>10, EndOfScene DEF S, Live

-----------------------------------------------------------------------------
(* A new window.                                                           *)

\* The new window is the last of its application's.
LEMMA AppendedApps ==
    ASSUME NEW apps, NEW info, NEW base, NEW a \in Apps, NEW w \in Windows, w \notin DOMAIN info,
           AppsFit(apps, info), DOMAIN base = DOMAIN info \cup {w}, base[w].app = a,
           \A x \in DOMAIN info : base[x].app = info[x].app /\ info[x].app \in Apps
    PROVE  AppsFit([apps EXCEPT ![a] = Append(@, w)], base)
<1> DEFINE new == [apps EXCEPT ![a] = Append(apps[a], w)]
<1>1. apps[a] \in Seq(Windows) /\ IsInjective(apps[a]) /\ w \notin Range(apps[a])
  BY DEF AppsFit
<1>2. /\ Append(apps[a], w) \in Seq(Windows) /\ IsInjective(Append(apps[a], w))
      /\ Range(Append(apps[a], w)) = Range(apps[a]) \cup {w}
  BY <1>1, AppendNewProperties
<1>3. /\ new \in [Apps -> Seq(Windows)]
      /\ \A b \in Apps : new[b] = IF b = a THEN Append(apps[a], w) ELSE apps[b]
  BY <1>2 DEF AppsFit
<1> HIDE DEF new
<1>4. \A b \in Apps : /\ IsInjective(new[b])
                      /\ Range(new[b]) = IF b = a THEN Range(apps[a]) \cup {w} ELSE Range(apps[b])
  BY <1>2, <1>3 DEF AppsFit
<1>5. ASSUME NEW b \in Apps, NEW x \in Range(new[b]) PROVE x \in DOMAIN base /\ base[x].app = b
  <2>1. CASE x \in Range(apps[b])
    BY <2>1 DEF AppsFit
  <2>2. CASE b = a /\ x = w
    BY <2>2
  <2> QED BY <1>4, <2>1, <2>2
<1>6. ASSUME NEW x \in DOMAIN base PROVE x \in Range(new[base[x].app])
  <2>1. CASE x = w
    BY <1>4, <2>1
  <2>2. CASE x # w
    BY <1>4, <2>2 DEF AppsFit
  <2> QED BY <2>1, <2>2
<1>7. AppsFit(new, base)
  BY <1>3, <1>4, <1>5, <1>6 DEF AppsFit
<1> QED BY <1>7 DEF new

\* add_surface() counts a window that is fullscreen.
LEMMA Inserted ==
    ASSUME NEW base, NEW want, NEW w \in DOMAIN base, NEW s \in Scenes(base, want, {w}),
           NEW state, state = s.info[w].state
    PROVE  LET new == [s EXCEPT !.fullscreen = IF state = "fullscreen" THEN @ \cup {w} ELSE @] IN
           new \in Scenes(base, want, {}) /\ new.data = s.data
<1> DEFINE full == IF state = "fullscreen" THEN s.fullscreen \cup {w} ELSE s.fullscreen
           new  == [s EXCEPT !.fullscreen = full]
<1>1. /\ s \in [focus : Foci, info : [DOMAIN base -> WindowInfos],
                data : [DOMAIN base -> PolicyDatas], fullscreen : SUBSET DOMAIN base]
      /\ \A x \in DOMAIN base : /\ s.info[x].app = base[x].app
                                /\ s.info[x].type = base[x].type
                                /\ s.info[x].parent = base[x].parent
                                /\ s.info[x].children = base[x].children
      /\ FocusOK(s.focus, s.info, posted, VisibleSurfaces(s.info), open)
      /\ \A x \in s.fullscreen : s.info[x].state = "fullscreen"
      /\ \A x \in DOMAIN base \ {w} : s.info[x].state = "fullscreen" => x \in s.fullscreen
      /\ Faithful(s, want)
  BY DEF Scenes, Shapes
<1>2. /\ full \subseteq DOMAIN base
      /\ \A x \in full : s.info[x].state = "fullscreen"
      /\ \A x \in DOMAIN base : s.info[x].state = "fullscreen" => x \in full
  BY <1>1
<1> HIDE DEF full
<1>3. /\ new \in [focus : Foci, info : [DOMAIN base -> WindowInfos],
                  data : [DOMAIN base -> PolicyDatas], fullscreen : SUBSET DOMAIN base]
      /\ new.focus = s.focus /\ new.info = s.info /\ new.fullscreen = full
      /\ new.data = s.data
  BY <1>1, <1>2
<1> HIDE DEF new
<1>4. new \in Shapes(base, {})
  BY <1>1, <1>2, <1>3 DEF Shapes
<1>5. Faithful(new, want)
  BY <1>1, <1>3 DEF Faithful
<1>6. new \in Scenes(base, want, {}) /\ new.data = s.data
  BY <1>3, <1>4, <1>5 DEF Scenes
<1> QED BY <1>6 DEF new, full

\* What the tables are when a window has been added.
NewTablesOK(a, w, state, parent, info, want, fresh) ==
    /\ TablesOK(info) /\ Acyclic(info)
    /\ DOMAIN info = Live \cup {w} /\ DOMAIN want = Live \cup {w}
    /\ posted \subseteq DOMAIN info
    /\ AppsFit([app_info EXCEPT ![a] = Append(@, w)], info)
    /\ info[w].parent = parent /\ info[w].state = state
    /\ \A x \in Live : /\ info[x].parent = window_info[x].parent
                       /\ info[x].type = window_info[x].type
    /\ fresh \in Scenes(info, want, {w}) /\ fresh.info = info
    /\ Marked(fresh.data) = Marked(policy_data)

LEMMA NewTables ==
    ASSUME TitlebarInv, NEW a \in Range(sessions), NEW w \in Windows \ Live,
           NEW type \in WindowTypes, NEW state \in WindowStates, NEW parent \in Live \cup {NoWindow}
    PROVE  LET info == WithWindow(window_info, w,
                           [app |-> a, type |-> type, state |-> state,
                            parent |-> parent, children |-> <<>>])
           IN  NewTablesOK(a, w, state, parent, info, WithValue(wanted, w, state),
                           Scene(focus, info, WithValue(policy_data, w, NewData)))
<1> DEFINE added == [app |-> a, type |-> type, state |-> state,
                     parent |-> parent, children |-> <<>>]
           info  == WithWindow(window_info, w, added)
           want  == WithValue(wanted, w, state)
           fresh == Scene(focus, info, WithValue(policy_data, w, NewData))
<1> SUFFICES NewTablesOK(a, w, state, parent, info, want, fresh)
  OBVIOUS
<1>0. /\ added = [app |-> a, type |-> type, state |-> state,
                  parent |-> parent, children |-> <<>>]
      /\ info = WithWindow(window_info, w, added)
      /\ want = WithValue(wanted, w, state)
      /\ fresh = Scene(focus, info, WithValue(policy_data, w, NewData))
  OBVIOUS
<1> HIDE DEF added, info, want, fresh
<1>1. /\ added \in WindowInfos
      /\ added.app = a /\ added.children = <<>> /\ added.parent = parent
      /\ added.state = state /\ added.type = type
  <2>1. a \in Apps /\ parent \in Windows \cup {NoWindow}
    BY StartOfOperation DEF TitlebarInv
  <2> QED BY <1>0, <2>1, EmptySeq DEF WindowInfos
<1>2. /\ TablesOK(window_info) /\ Live \subseteq Windows /\ NoWindow \notin Live
      /\ InfoOK(window_info, open) /\ ChildrenOK(window_info) /\ open \subseteq Apps
      /\ \A x \in Live : window_info[x] \in WindowInfos
  BY StartOfScene, WindowTables DEF TitlebarInv, TablesOK, InfoOK, Live
<1>3. /\ DOMAIN info = Live \cup {w} /\ info[w] = added
      /\ \A x \in Live : /\ info[x].app = window_info[x].app
                         /\ info[x].type = window_info[x].type
                         /\ info[x].state = window_info[x].state
                         /\ info[x].parent = window_info[x].parent
  BY <1>0, <1>2 DEF WithWindow, WindowInfos, Live
<1>4. InfoOK(info, open) /\ ChildrenOK(info)
  <2>1. /\ added.app \in open /\ added.parent \in DOMAIN window_info \cup {NoWindow}
        /\ added.children = <<>> /\ w \in Windows \ DOMAIN window_info
    BY <1>1 DEF open, Live
  <2> QED BY <1>0, <1>1, <1>2, <2>1, WithWindowKeepsTree
<1>5. TablesOK(info)
  BY <1>2, <1>4 DEF TablesOK
<1>6. Acyclic(info)
  <2>1. added.parent # w /\ w \notin DOMAIN window_info
        /\ \A x \in DOMAIN window_info : window_info[x].parent # w
    BY <1>1, <1>2, WindowTables, ConstantsAssumption DEF TitlebarInv, Live
  <2>2. /\ DOMAIN info = DOMAIN window_info \cup {w} /\ info[w].parent = added.parent
        /\ \A x \in DOMAIN window_info : info[x].parent = window_info[x].parent
    BY <1>3 DEF Live
  <2> QED BY <2>1, <2>2, NewWindowIsLeaf DEF TitlebarInv
<1>7. posted \subseteq Live /\ w \notin posted
  BY WindowsStay
<1>8. AppsFit([app_info EXCEPT ![a] = Append(@, w)], info)
  <2>1. /\ AppsFit(app_info, window_info) /\ a \in Apps /\ w \notin DOMAIN window_info
        /\ DOMAIN info = DOMAIN window_info \cup {w} /\ info[w].app = a
        /\ \A x \in DOMAIN window_info : info[x].app = window_info[x].app /\ window_info[x].app \in Apps
    BY <1>1, <1>2, <1>3, WindowsStay DEF Live, open, WindowInfos
  <2> QED BY <2>1, AppendedApps
<1>9. /\ Now \in Scenes(window_info, wanted, {}) /\ Faithful(Now, wanted)
      /\ policy_data \in [Live -> PolicyDatas] /\ DOMAIN wanted = Live
      /\ fullscreen_surfaces = {x \in Live : window_info[x].state = "fullscreen"}
      /\ FocusOK(focus, window_info, posted, VisibleSurfaces(window_info), open) /\ focus \in Foci
  BY StartOfScene, StartOfOperation DEF TitlebarInv, PolicyInv, Inv, FullscreenExact, FocusOK, open
<1> DEFINE data == WithValue(policy_data, w, NewData)
<1>10. /\ DOMAIN data = Live \cup {w} /\ data[w] = NewData
       /\ \A x \in Live : data[x] = policy_data[x]
  BY <1>2, <1>9 DEF WithValue
<1>11. /\ DOMAIN want = Live \cup {w} /\ want[w] = state
       /\ \A x \in Live : want[x] = wanted[x]
  BY <1>0, <1>2, <1>9 DEF WithValue
<1>12. data \in [DOMAIN info -> PolicyDatas]
  <2>1. NewData \in PolicyDatas
    BY DEF NewData, PolicyDatas, WindowStates
  <2>2. \A x \in DOMAIN info : data[x] \in PolicyDatas
    BY <1>3, <1>9, <1>10, <2>1
  <2>3. data = [x \in DOMAIN info |-> data[x]]
    BY <1>3, <1>10 DEF WithValue
  <2> HIDE DEF data
  <2> QED BY <2>2, <2>3
<1> HIDE DEF data
<1>13. /\ fresh = [focus |-> focus, info |-> info, data |-> data, fullscreen |-> fullscreen_surfaces]
       /\ fresh.focus = focus /\ fresh.info = info /\ fresh.data = data
       /\ fresh.fullscreen = fullscreen_surfaces
  BY <1>0 DEF Scene, data
<1>14. Marked(data) = Marked(policy_data)
  BY <1>9, <1>10 DEF Marked, NewData
<1>15. FocusOK(focus, info, posted, VisibleSurfaces(info), open)
  <2>1. VisibleSurfaces(info) = VisibleSurfaces(window_info)
    BY <1>3, <1>7 DEF VisibleSurfaces, Live
  <2> QED BY <1>3, <1>9, <2>1 DEF FocusOK, Live
<1>16. fresh \in Shapes(info, {w})
  <2>1. info \in [DOMAIN info -> WindowInfos]
    BY <1>4 DEF InfoOK
  <2>2. fresh \in [focus : Foci, info : [DOMAIN info -> WindowInfos],
                   data : [DOMAIN info -> PolicyDatas], fullscreen : SUBSET DOMAIN info]
    BY <1>3, <1>9, <1>12, <1>13, <2>1
  <2> QED BY <1>3, <1>9, <1>13, <1>15, <2>2 DEF Shapes
<1>17. Faithful(fresh, want)
  <2>1. /\ \A x \in Marked(policy_data) :
              window_info[x].state = "hidden" /\ wanted[x] = policy_data[x].old_state
        /\ \A x \in DOMAIN policy_data \ Marked(policy_data) : wanted[x] = window_info[x].state
    BY <1>9 DEF Faithful, Now, Scene
  <2>2. Marked(policy_data) \subseteq Live /\ DOMAIN policy_data = Live
    BY <1>9 DEF Marked
  <2>3. \A x \in Marked(data) : info[x].state = "hidden" /\ want[x] = data[x].old_state
    BY <1>3, <1>10, <1>11, <1>14, <2>1, <2>2
  <2>4. \A x \in DOMAIN data \ Marked(data) : want[x] = info[x].state
    BY <1>1, <1>3, <1>10, <1>11, <1>14, <2>1, <2>2
  <2> QED BY <1>13, <2>3, <2>4 DEF Faithful
<1>18. fresh \in Scenes(info, want, {w})
  BY <1>16, <1>17 DEF Scenes
<1> QED BY <1>1, <1>3, <1>5, <1>6, <1>7, <1>8, <1>11, <1>13, <1>14, <1>18 DEF NewTablesOK

\* A top-level window joins the active workspace and is shown.
LEMMA TopLevelPreserves ==
    ASSUME TitlebarInv, NEW a \in Range(sessions), NEW w \in Windows \ Live,
           NEW type \in WindowTypes, NEW state \in WindowStates,
           NewTopLevel(a, w, type, state), Locker,
           app_info' = [app_info EXCEPT ![a] = Append(@, w)],
           wanted' = WithValue(wanted, w, state),
           UNCHANGED <<sessions, workspace, posted, ready,
                       active_workspace, workspace_to_active>>
    PROVE  TitlebarInv'
<1> DEFINE added == [app |-> a, type |-> type, state |-> state,
                     parent |-> NoWindow, children |-> <<>>]
           info  == WithWindow(window_info, w, added)
           want  == WithValue(wanted, w, state)
           rows  == Rows \cup {<<active_workspace, w>>}
           start == Scene(focus, info, WithValue(policy_data, w, NewData))
           fresh == [start EXCEPT !.fullscreen = IF state = "fullscreen" THEN @ \cup {w} ELSE @]
           end   == ShowAll(rows, fresh, <<w>>)
<1>0. NewTablesOK(a, w, state, NoWindow, info, want, start)
  <2>1. NoWindow \in Live \cup {NoWindow}
    OBVIOUS
  <2> QED BY <2>1, NewTables
<1>11. wanted' = want
  OBVIOUS
<1>2. Leaves(end) /\ workspaces_to_windows' = rows
  BY DEF NewTopLevel, advise_adding_to_workspace
<1> HIDE DEF added, info, want, start
<1>1. /\ TablesOK(info) /\ Acyclic(info)
      /\ DOMAIN info = Live \cup {w} /\ DOMAIN want = Live \cup {w}
      /\ posted \subseteq DOMAIN info
      /\ AppsFit(app_info', info)
      /\ info[w].parent = NoWindow /\ info[w].state = state
      /\ \A x \in Live : /\ info[x].parent = window_info[x].parent
                         /\ info[x].type = window_info[x].type
      /\ start \in Scenes(info, want, {w}) /\ start.info = info
      /\ Marked(start.data) = Marked(policy_data)
  BY <1>0 DEF NewTablesOK
<1>3. /\ Rows \subseteq Workspaces \X Live /\ active_workspace \in Workspaces
      /\ OneHome(Rows, window_info) /\ NoWindow \notin Live /\ w # NoWindow
      /\ Marked(policy_data) = {x \in Live : <<active_workspace, x>> \notin Rows}
      /\ \A x \in Live : window_info[x].parent \in Live \cup {NoWindow}
  BY StartOfScene, WindowsStay, WindowTables, ConstantsAssumption DEF TitlebarInv, PolicyInv
<1>4. fresh \in Scenes(info, want, {}) /\ fresh.data = start.data
  <2>1. w \in DOMAIN info /\ state = start.info[w].state
    BY <1>1
  <2>2. LET new == [start EXCEPT !.fullscreen = IF state = "fullscreen" THEN @ \cup {w} ELSE @] IN
        new \in Scenes(info, want, {}) /\ new.data = start.data
    BY <1>1, <2>1, Inserted
  <2> QED BY <2>2
<1> HIDE DEF fresh
<1>5. end \in Scenes(info, want, {}) /\ Marked(end.data) = Marked(fresh.data) \ {w}
  <2> DEFINE list == <<w>>
  <2>1. list \in Seq(DOMAIN info) /\ Range(list) = {w}
    BY <1>1 DEF Range
  <2> HIDE DEF list, rows
  <2>2. TablesOK(info) /\ fresh \in Scenes(info, want, {})
    BY <1>1, <1>4
  <2>3. LET new == ShowAll(rows, fresh, list) IN
        new \in Scenes(info, want, {}) /\ Marked(new.data) = Marked(fresh.data) \ Range(list)
    BY <2>1, <2>2, ShowsAll
  <2> QED BY <2>1, <2>3 DEF list
<1>6. rows \subseteq Workspaces \X DOMAIN info
  BY <1>1, <1>3
<1>7. \A ws \in Workspaces : /\ <<ws, w>> \in rows <=> ws = active_workspace
                             /\ \A x \in Live : <<ws, x>> \in rows <=> <<ws, x>> \in Rows
  BY <1>3
<1> HIDE DEF rows, end
<1>8. OneHome(rows, info)
  <2>1. ASSUME NEW x \in DOMAIN info
        PROVE  \E home \in Workspaces : \A ws \in Workspaces : <<ws, x>> \in rows <=> ws = home
    <3>1. CASE x = w
      BY <1>3, <1>7, <3>1
    <3>2. CASE x \in Live
      <4>1. PICK home \in Workspaces : \A ws \in Workspaces : <<ws, x>> \in Rows <=> ws = home
        BY <1>3, <3>2 DEF OneHome, Live
      <4> QED BY <1>7, <3>2, <4>1
    <3> QED BY <1>1, <2>1, <3>1, <3>2
  <2>2. ASSUME NEW x \in DOMAIN info, info[x].parent \in DOMAIN info
        PROVE  \A ws \in Workspaces : <<ws, x>> \in rows <=> <<ws, info[x].parent>> \in rows
    <3>1. x \in Live /\ info[x].parent = window_info[x].parent /\ window_info[x].parent \in Live
      BY <1>1, <1>3, <2>2
    <3>2. \A ws \in Workspaces : <<ws, x>> \in Rows <=> <<ws, window_info[x].parent>> \in Rows
      BY <1>3, <3>1 DEF OneHome, Live
    <3> QED BY <1>7, <3>1, <3>2
  <2> QED BY <2>1, <2>2 DEF OneHome
<1>9. Marked(end.data) = {x \in DOMAIN info : <<active_workspace, x>> \notin rows}
  BY <1>1, <1>3, <1>4, <1>5, <1>7
<1>10. wanted' = want /\ DOMAIN want = DOMAIN info
  BY <1>1, <1>11
<1>12. KeepsWindows(info) /\ Remembers
  BY <1>1 DEF KeepsWindows, Remembers
<1> QED BY <1>1, <1>2, <1>3, <1>5, <1>6, <1>8, <1>9, <1>10, <1>12, EndOfScene

\* A window that joins one workspace.
LEMMA EntersOne ==
    ASSUME NEW rows, NEW c, NEW home, NEW list, NEW order \in Orders({home})
    PROVE  FoldLeft(LAMBDA scene, ws : advise_adding_to_workspace(rows, scene, ws, list), c, order)
           = advise_adding_to_workspace(rows, c, home, list)
<1> DEFINE Next1(f, t) ==
                advise_adding_to_workspace(rows, f[t \ {Max(t)}], order[Max(t)], list)
           Eq(f) == f = [t \in SUBSET DOMAIN order |-> IF t = {} THEN c ELSE Next1(f, t)]
           one == advise_adding_to_workspace(rows, c, home, list)
           g == [t \in SUBSET DOMAIN order |-> IF t = {} THEN c ELSE one]
<1>1. DOMAIN order = {1} /\ order[1] = home
  <2>1. order \in Seq({home}) /\ Cardinality({home}) = 1 /\ IsFiniteSet({home})
    BY FS_Singleton, OrdersProperties
  <2>2. order \in [1..1 -> {home}]
    BY <2>1 DEF Orders, SetToSeqs
  <2> QED BY <2>2
<1>2. SUBSET DOMAIN order = {{}, {1}}
  BY <1>1
<1>3. Max({1}) = 1
  <2>1. Max({1}) \in {1}
    BY MaxProperties
  <2> QED BY <2>1
<1> HIDE DEF one
<1>4. Eq(g)
  <2>1. g[{}] = c /\ g[{1}] = one
    BY <1>2
  <2>2. Next1(g, {1}) = one
    <3>1. {1} \ {1} = {}
      OBVIOUS
    <3> HIDE DEF g
    <3> QED BY <1>1, <1>3, <2>1, <3>1 DEF one
  <2>3. \A t \in SUBSET DOMAIN order : g[t] = IF t = {} THEN c ELSE Next1(g, t)
    <3> HIDE DEF g, Next1
    <3> QED BY <1>2, <2>1, <2>2
  <2>4. g = [t \in SUBSET DOMAIN order |-> g[t]]
    OBVIOUS
  <2> HIDE DEF Next1, g
  <2> QED BY <2>3, <2>4
<1> DEFINE f == CHOOSE h : Eq(h)
<1>5. Eq(f)
  <2> HIDE DEF g
  <2> QED BY <1>4
<1>6. FoldLeft(LAMBDA scene, ws : advise_adding_to_workspace(rows, scene, ws, list), c, order)
      = f[DOMAIN order]
  BY DEF FoldLeft, MapThenFoldSet
<1> HIDE DEF f
<1>7. f[{}] = c /\ f[{1}] = Next1(f, {1})
  <2> HIDE DEF Next1
  <2> QED BY <1>2, <1>5
<1>8. f[{1}] = one
  <2>1. {1} \ {1} = {}
    OBVIOUS
  <2> QED BY <1>1, <1>3, <1>7, <2>1 DEF one
<1> QED BY <1>1, <1>6, <1>8 DEF one

\* A child joins its parent's workspace, and is hidden if that is.
LEMMA ChildPreserves ==
    ASSUME TitlebarInv, NEW a \in Range(sessions), NEW w \in Windows \ Live,
           NEW type \in WindowTypes, NEW state \in WindowStates, NEW parent \in Live,
           NewChild(a, w, type, state, parent), Locker,
           app_info' = [app_info EXCEPT ![a] = Append(@, w)],
           wanted' = WithValue(wanted, w, state),
           UNCHANGED <<sessions, workspace, posted, ready,
                       active_workspace, workspace_to_active>>
    PROVE  TitlebarInv'
<1> DEFINE added == [app |-> a, type |-> type, state |-> state,
                     parent |-> parent, children |-> <<>>]
           info  == WithWindow(window_info, w, added)
           want  == WithValue(wanted, w, state)
           start == Scene(focus, info, WithValue(policy_data, w, NewData))
           joined == workspaces_containing(Rows, parent)
           rows  == Rows \cup (joined \X {w})
           Joined(order) ==
                FoldLeft(LAMBDA scene, ws : advise_adding_to_workspace(rows, scene, ws, <<w>>),
                         start, order)
           Placed(scene) ==
                [scene EXCEPT !.fullscreen =
                        IF scene.info[w].state = "fullscreen" THEN @ \cup {w} ELSE @]
           Ended(scene) ==
                IF policy_data[parent].in_hidden_workspace
                THEN apply_workspace_hidden_to(rows, scene, w) ELSE scene
<1>0. NewTablesOK(a, w, state, parent, info, want, start)
  <2>1. parent \in Live \cup {NoWindow}
    OBVIOUS
  <2> QED BY <2>1, NewTables
<1>1. wanted' = want /\ workspaces_to_windows' = rows
  BY DEF NewChild
<1>2. PICK order \in Orders(joined) : Leaves(Ended(Placed(Joined(order))))
  BY DEF NewChild
<1> HIDE DEF added, info, want, start
<1>3. /\ TablesOK(info) /\ Acyclic(info)
      /\ DOMAIN info = Live \cup {w} /\ DOMAIN want = Live \cup {w}
      /\ posted \subseteq DOMAIN info
      /\ AppsFit(app_info', info)
      /\ info[w].parent = parent
      /\ \A x \in Live : /\ info[x].parent = window_info[x].parent
                         /\ info[x].type = window_info[x].type
      /\ start \in Scenes(info, want, {w})
      /\ Marked(start.data) = Marked(policy_data)
  BY <1>0 DEF NewTablesOK
<1>4. /\ Rows \subseteq Workspaces \X Live /\ active_workspace \in Workspaces
      /\ OneHome(Rows, window_info) /\ NoWindow \notin Live /\ w # NoWindow
      /\ Marked(policy_data) = {x \in Live : <<active_workspace, x>> \notin Rows}
      /\ \A x \in Live : window_info[x].parent \in Live \cup {NoWindow}
      /\ workspace = [ws \in Workspaces |-> "owned"] /\ policy_data \in [Live -> PolicyDatas]
  BY StartOfScene, WindowsStay, WindowTables, ConstantsAssumption DEF TitlebarInv, PolicyInv
<1>5. PICK home \in Workspaces : \A ws \in Workspaces : <<ws, parent>> \in Rows <=> ws = home
  BY <1>4 DEF OneHome, Live
<1>6. joined = {home}
  BY <1>4, <1>5 DEF workspaces_containing
<1>7. policy_data[parent].in_hidden_workspace <=> home # active_workspace
  <2>1. parent \in Marked(policy_data) <=> home # active_workspace
    BY <1>4, <1>5
  <2> QED BY <1>4, <2>1 DEF Marked
<1> DEFINE entered == advise_adding_to_workspace(rows, start, home, <<w>>)
           H == IF home = active_workspace THEN {} ELSE {w}
<1>8. Leaves(Ended(Placed(entered)))
  <2>1. Joined(order) = entered
    <3> HIDE DEF rows, entered, joined
    <3>1. order \in Orders({home})
      BY <1>2, <1>6
    <3> DEFINE list == <<w>>
    <3>2. entered = advise_adding_to_workspace(rows, start, home, list)
      BY DEF entered
    <3>3. Joined(order) =
            FoldLeft(LAMBDA scene, ws : advise_adding_to_workspace(rows, scene, ws, list), start, order)
      OBVIOUS
    <3> HIDE DEF list, Joined
    <3> QED BY <3>1, <3>2, <3>3, EntersOne
  <2> HIDE DEF Joined, Placed, Ended, entered
  <2> QED BY <1>2, <2>1
<1>9. /\ rows \subseteq Workspaces \X DOMAIN info
      /\ \A ws \in Workspaces : /\ <<ws, w>> \in rows <=> ws = home
                                /\ \A x \in Live : <<ws, x>> \in rows <=> <<ws, x>> \in Rows
  BY <1>3, <1>4, <1>6
<1> HIDE DEF rows, joined
<1>10. entered \in Scenes(info, want, {w}) /\ Marked(entered.data) = Marked(policy_data) \cup H
  <2> DEFINE list == <<w>>
  <2>1. list \in Seq(DOMAIN info) /\ Range(list) = {w} /\ w \notin Marked(policy_data)
    BY <1>3, <1>4 DEF Range
  <2>2. entered = advise_adding_to_workspace(rows, start, home, list)
    OBVIOUS
  <2> HIDE DEF list, entered
  <2>3. CASE home = active_workspace
    <3>1. entered = ShowAll(rows, start, list)
      BY <2>2, <2>3 DEF advise_adding_to_workspace
    <3>2. LET new == ShowAll(rows, start, list) IN
          new \in Scenes(info, want, {w}) /\ Marked(new.data) = Marked(start.data) \ Range(list)
      BY <1>3, <2>1, ShowsAll
    <3> QED BY <1>3, <2>1, <2>3, <3>1, <3>2
  <2>4. CASE home # active_workspace
    <3>1. entered = HideAll(rows, start, list)
      BY <2>2, <2>4 DEF advise_adding_to_workspace
    <3>2. LET new == HideAll(rows, start, list) IN
          new \in Scenes(info, want, {w}) /\ Marked(new.data) = Marked(start.data) \cup Range(list)
      BY <1>3, <2>1, HidesAll, SMTT(60)
    <3> QED BY <1>3, <2>1, <2>4, <3>1, <3>2
  <2> QED BY <2>3, <2>4
<1> HIDE DEF entered
<1> DEFINE inserted == Placed(entered)
           end == Ended(inserted)
<1>11. inserted \in Scenes(info, want, {}) /\ inserted.data = entered.data
  <2> DEFINE now == entered.info[w].state
  <2>1. w \in DOMAIN info /\ now = entered.info[w].state
    BY <1>3
  <2>2. inserted = [entered EXCEPT !.fullscreen = IF now = "fullscreen" THEN @ \cup {w} ELSE @]
    OBVIOUS
  <2> HIDE DEF now, inserted
  <2>3. LET new == [entered EXCEPT !.fullscreen = IF now = "fullscreen" THEN @ \cup {w} ELSE @] IN
        new \in Scenes(info, want, {}) /\ new.data = entered.data
    BY <1>10, <2>1, Inserted
  <2> QED BY <2>2, <2>3
<1> HIDE DEF inserted, Placed
<1>12. end \in Scenes(info, want, {}) /\ Marked(end.data) = Marked(policy_data) \cup H
  <2>1. CASE home = active_workspace
    <3>1. end = inserted
      BY <1>7, <2>1
    <3> HIDE DEF end
    <3> QED BY <1>10, <1>11, <3>1
  <2>2. CASE home # active_workspace
    <3>1. end = apply_workspace_hidden_to(rows, inserted, w)
      BY <1>7, <2>2
    <3> HIDE DEF end
    <3>2. end \in Scenes(info, want, {}) /\ Marked(end.data) = Marked(inserted.data) \cup {w}
      <4>1. w \in DOMAIN info /\ TablesOK(info) /\ inserted \in Scenes(info, want, {})
        BY <1>3, <1>11
      <4>2. LET new == apply_workspace_hidden_to(rows, inserted, w) IN
            new \in Scenes(info, want, {}) /\ Marked(new.data) = Marked(inserted.data) \cup {w}
        BY <4>1, Hides, Z3T(60)
      <4> QED BY <3>1, <4>2
    <3> QED BY <1>10, <1>11, <2>2, <3>2
  <2> QED BY <2>1, <2>2
<1>13. Leaves(end)
  BY <1>8 DEF inserted
<1> HIDE DEF end
<1>14. OneHome(rows, info)
  <2>1. ASSUME NEW x \in DOMAIN info
        PROVE  \E h \in Workspaces : \A ws \in Workspaces : <<ws, x>> \in rows <=> ws = h
    <3>1. CASE x = w
      BY <1>9, <3>1
    <3>2. CASE x \in Live
      <4>1. PICK h \in Workspaces : \A ws \in Workspaces : <<ws, x>> \in Rows <=> ws = h
        BY <1>4, <3>2 DEF OneHome, Live
      <4> QED BY <1>9, <3>2, <4>1
    <3> QED BY <1>3, <2>1, <3>1, <3>2
  <2>2. ASSUME NEW x \in DOMAIN info, info[x].parent \in DOMAIN info
        PROVE  \A ws \in Workspaces : <<ws, x>> \in rows <=> <<ws, info[x].parent>> \in rows
    <3>1. CASE x = w
      BY <1>3, <1>5, <1>9, <3>1
    <3>2. CASE x # w
      <4>1. x \in Live /\ info[x].parent = window_info[x].parent /\ window_info[x].parent \in Live
        BY <1>3, <1>4, <2>2, <3>2
      <4>2. \A ws \in Workspaces : <<ws, x>> \in Rows <=> <<ws, window_info[x].parent>> \in Rows
        BY <1>4, <4>1 DEF OneHome, Live
      <4> QED BY <1>9, <4>1, <4>2
    <3> QED BY <3>1, <3>2
  <2> QED BY <2>1, <2>2 DEF OneHome
<1>15. Marked(end.data) = {x \in DOMAIN info : <<active_workspace, x>> \notin rows}
  BY <1>3, <1>4, <1>9, <1>12
<1>16. /\ DOMAIN want = DOMAIN info
       /\ KeepsWindows(info) /\ Remembers
  BY <1>3 DEF KeepsWindows, Remembers
<1> QED BY <1>1, <1>3, <1>4, <1>9, <1>12, <1>13, <1>14, <1>15, <1>16, EndOfScene

LEMMA NewWindowPreserves ==
    \A a \in Apps, w \in Windows, type \in Types, state \in FirstStates,
       parent \in Live \cup {NoWindow} :
            TitlebarInv /\ NewWindow(a, w, type, state, parent) => TitlebarInv'
<1> SUFFICES ASSUME NEW a \in Apps, NEW w \in Windows, NEW type \in Types,
                    NEW state \in FirstStates, NEW parent \in Live \cup {NoWindow},
                    TitlebarInv, NewWindow(a, w, type, state, parent)
             PROVE  TitlebarInv'
  OBVIOUS
<1>1. /\ a \in Range(sessions) /\ w \in Windows \ Live
      /\ type \in WindowTypes /\ state \in WindowStates
  BY ConstantsAssumption, TitlebarAssumption DEF NewWindow
<1>2. /\ Locker /\ app_info' = [app_info EXCEPT ![a] = Append(@, w)]
      /\ wanted' = WithValue(wanted, w, state)
      /\ UNCHANGED <<sessions, workspace, posted, ready, active_workspace, workspace_to_active>>
  BY DEF NewWindow
<1>3. CASE parent = NoWindow
  <2>1. NewTopLevel(a, w, type, state)
    BY <1>3 DEF NewWindow
  <2> QED BY <1>1, <1>2, <2>1, TopLevelPreserves
<1>4. CASE parent # NoWindow
  <2>1. parent \in Live /\ NewChild(a, w, type, state, parent)
    BY <1>4 DEF NewWindow
  <2> QED BY <1>1, <1>2, <2>1, ChildPreserves
<1> QED BY <1>3, <1>4

-----------------------------------------------------------------------------
(* The invariant and what follows from it.                                 *)

LEMMA EmptyTable == \A S : <<>> \in [{} -> S] /\ DOMAIN <<>> = {}
<1> TAKE S
<1>1. <<>> \in Seq(S) /\ Len(<<>>) = 0
  BY EmptySeq
<1>2. DOMAIN <<>> = 1..0
  BY <1>1
<1> QED BY <1>1, <1>2

LEMMA TitlebarInitInv == TitlebarInit => TitlebarInv
<1> SUFFICES ASSUME TitlebarInit PROVE TitlebarInv
  OBVIOUS
<1>1. Live = {} /\ \A a \in Apps : Range(app_info[a]) = {}
  BY EmptySeq, EmptyTable DEF TitlebarInit, Live, Range
<1>2. /\ sessions \in Seq(Apps) /\ IsInjective(sessions)
      /\ Range(sessions) \subseteq Apps
  <2>1. sessions \in Seq(Apps) /\ Range(sessions) = Apps
    BY OrdersProperties, TitlebarAssumption DEF TitlebarInit
  <2>2. IsInjective(sessions)
    BY DEF TitlebarInit, Orders, SetToSeqs, IsInjective
  <2> QED BY <2>1, <2>2
<1>3. SessionsInv
  BY <1>2 DEF SessionsInv
<1>4. WindowsInv
  BY <1>1, EmptyTable DEF TitlebarInit, WindowsInv, InfoOK, ChildrenOK, Live
<1>5. AppsInv
  BY <1>1, EmptySeq DEF TitlebarInit, AppsInv, IsInjective
<1>6. FullscreenExact /\ WorkspacesInv /\ SurfacesInv
  BY <1>1 DEF TitlebarInit, FullscreenExact, WorkspacesInv, SurfacesInv, WorkspaceStates
<1>7. FocusInv
  <2>1. focus \in Foci /\ IsInjective(focus.mru) /\ Range(focus.mru) = {}
    BY EmptySeq DEF TitlebarInit, Foci, IsInjective, Range
  <2> QED BY <2>1 DEF TitlebarInit, FocusInv, FocusOK
<1>8. Acyclic(window_info)
  <2>1. Ranks(window_info, [w \in {} |-> 0])
    BY <1>1 DEF Ranks, Live
  <2> QED BY <2>1 DEF Acyclic
<1>9. PolicyInv
  <2>1. OneHome(workspaces_to_windows, window_info)
    BY <1>1 DEF OneHome, Live
  <2>2. policy_data \in [Live -> PolicyDatas] /\ DOMAIN wanted = Live /\ DOMAIN policy_data = {}
    BY <1>1, EmptyTable DEF TitlebarInit
  <2>3. Marked(policy_data) = {}
    BY <2>2 DEF Marked
  <2>4. Now.data = policy_data
    BY DEF Now, Scene
  <2>5. Faithful(Now, wanted)
    BY <2>2, <2>3, <2>4 DEF Faithful
  <2>6. RemembersActive
    BY DEF TitlebarInit, RemembersActive
  <2> QED BY <1>1, <2>1, <2>2, <2>3, <2>5, <2>6, TitlebarAssumption DEF TitlebarInit, PolicyInv
<1> QED BY <1>3, <1>4, <1>5, <1>6, <1>7, <1>8, <1>9 DEF TitlebarInv, Inv

LEMMA TitlebarNextPreserves == TitlebarInv /\ [TitlebarNext]_shell_vars => TitlebarInv'
<1> SUFFICES ASSUME TitlebarInv, [TitlebarNext]_shell_vars PROVE TitlebarInv'
  OBVIOUS
<1>1. ASSUME NEW a \in Apps, NEW w \in Windows, NEW type \in Types, NEW state \in FirstStates,
             NEW parent \in Live \cup {NoWindow}, NewWindow(a, w, type, state, parent)
      PROVE  TitlebarInv'
  BY <1>1, NewWindowPreserves
<1>2. CASE Arrives
  BY <1>2, ArrivesPreserves
<1>3. ASSUME NEW w \in Live, NEW state \in States, StateRequest(w, state) PROVE TitlebarInv'
  BY <1>3, StateRequestPreserves
<1>4. ASSUME NEW state \in Toggles, toggle(state) PROVE TitlebarInv'
  BY <1>4, TogglePreserves
<1>5. ASSUME NEW w \in Live, NEW first \in FirstSessions, Removal(w, first) PROVE TitlebarInv'
  BY <1>5, RemovalPreserves
<1>6. ASSUME NEW ws \in Workspaces, NEW taking \in BOOLEAN, SwitchKey(ws, taking)
      PROVE  TitlebarInv'
  BY <1>6, SwitchPreserves
<1>7. CASE Refocused
  BY <1>7, RefocusedPreserves
<1>8. CASE UNCHANGED shell_vars
  <2>1. UNCHANGED <<vars, policy_vars>>
    BY <1>8 DEF shell_vars
  <2>2. Inv'
    BY <2>1, NextPreservesInv DEF TitlebarInv
  <2>3. dead_workspaces' = {} /\ UNCHANGED <<window_info, workspace, workspaces_to_windows,
                                active_workspace, workspace_to_active, policy_data, wanted>>
    BY <2>1 DEF vars, policy_vars, TitlebarInv, PolicyInv
  <2> QED BY <2>2, <2>3, WindowManagerStep
<1> QED BY <1>1, <1>2, <1>3, <1>4, <1>5, <1>6, <1>7, <1>8 DEF TitlebarNext

LEMMA TitlebarInvariance == TitlebarSpec => []TitlebarInv
<1>1. TitlebarInit => TitlebarInv
  BY TitlebarInitInv
<1>2. TitlebarInv /\ [TitlebarNext]_shell_vars => TitlebarInv'
  BY TitlebarNextPreserves
<1> QED BY <1>1, <1>2, PTL DEF TitlebarSpec

\* In every behaviour of the shell each window is in exactly one workspace,
\* marked hidden just when that is not the active one, and not shown while it
\* is marked: for any number of windows, applications and workspaces and any
\* order in which the windows of a workspace are hidden and shown.
THEOREM TitlebarHidesExactly == TitlebarSpec => []HiddenExactly
<1>1. TitlebarInv => HiddenExactly
  <2> SUFFICES ASSUME TitlebarInv, NEW w \in Live
               PROVE  /\ Cardinality({ws \in Workspaces : <<ws, w>> \in workspaces_to_windows}) = 1
                      /\ policy_data[w].in_hidden_workspace <=> ~InActiveWorkspace(w)
                      /\ policy_data[w].in_hidden_workspace => window_info[w].state = "hidden"
    BY DEF HiddenExactly
  <2> DEFINE homes == {ws \in Workspaces : <<ws, w>> \in workspaces_to_windows}
  <2>1. PICK home \in Workspaces :
            \A ws \in Workspaces : <<ws, w>> \in workspaces_to_windows <=> ws = home
    BY DEF TitlebarInv, PolicyInv, OneHome, Live
  <2>2. homes = {home}
    BY <2>1
  <2>3. Cardinality(homes) = 1
    <3> HIDE DEF homes
    <3> QED BY <2>2, FS_Singleton
  <2>4. w \in Marked(policy_data) <=> policy_data[w].in_hidden_workspace
    BY DEF TitlebarInv, PolicyInv, Marked
  <2>5. w \in Marked(policy_data) <=> ~InActiveWorkspace(w)
    BY DEF TitlebarInv, PolicyInv
  <2>6. w \in Marked(policy_data) => window_info[w].state = "hidden"
    BY StartOfScene DEF TitlebarInv, PolicyInv, Faithful
  <2> QED BY <2>3, <2>4, <2>5, <2>6
<1> QED BY <1>1, TitlebarInvariance, PTL

\* Nothing the shell does to a window's state loses the state its client last
\* asked for: a window of the active workspace has it, any other's is kept in
\* its PolicyData, through every sequence of switches, requests and keys.
THEOREM TitlebarKeepsStates == TitlebarSpec => []StatesKept
<1>1. TitlebarInv => StatesKept
  <2> SUFFICES ASSUME TitlebarInv, NEW w \in Live
               PROVE  wanted[w] = IF policy_data[w].in_hidden_workspace
                                  THEN policy_data[w].old_state ELSE window_info[w].state
    BY DEF StatesKept
  <2>1. w \in Marked(policy_data) <=> policy_data[w].in_hidden_workspace
    BY DEF TitlebarInv, PolicyInv, Marked
  <2>2. /\ w \in Marked(policy_data) => wanted[w] = policy_data[w].old_state
        /\ w \notin Marked(policy_data) => wanted[w] = window_info[w].state
    BY StartOfScene DEF TitlebarInv, PolicyInv, Faithful
  <2> QED BY <2>1, <2>2
<1> QED BY <1>1, TitlebarInvariance, PTL

\* Neither the active window nor the one the policy was told has the focus is
\* ever in a workspace that is not shown, whichever window was hidden first.
THEOREM TitlebarFocusShown == TitlebarSpec => []FocusShown
<1>1. TitlebarInv => FocusShown
  <2> SUFFICES ASSUME TitlebarInv PROVE FocusShown
    OBVIOUS
  <2>1. active # NoWindow => InActiveWorkspace(active)
    BY ActiveIsShown, StartOfScene DEF InActiveWorkspace
  <2>2. \A w \in focus.told : w = active /\ w \in Live
    BY ActiveIsShown DEF TitlebarInv, Inv, FocusInv, FocusOK, VisibleSurfaces, Live
  <2>3. NoWindow \notin Live
    BY WindowTables DEF TitlebarInv
  <2> QED BY <2>1, <2>2, <2>3 DEF FocusShown
<1> QED BY <1>1, TitlebarInvariance, PTL
-----------------------------------------------------------------------------
(* Where the focus goes when a window's state changes.                     *)

\* The newest window of a list among others: the same after the loss of some
\* other window, the same or the new one after the gain of one.
LEMMA NewestAgain ==
    ASSUME NEW S, NEW list \in Seq(S), NoWindow \notin S, NEW old, NEW now, NEW w
    PROVE  /\ now \subseteq old /\ old \ {w} \subseteq now /\ Newest(list, old) # w
              => Newest(list, now) = Newest(list, old)
           /\ old \subseteq now /\ now \subseteq old \cup {w}
              => Newest(list, now) \in {w, Newest(list, old)}
<1> DEFINE n == Len(list)
           H(v) == {i \in DOMAIN list : list[i] \in v}
<1>1. n \in Nat /\ DOMAIN list = 1..n /\ \A i \in 1..n : list[i] \in S
  BY LenProperties
<1>2. ASSUME NEW v
      PROVE  /\ H(v) = {} => Newest(list, v) = NoWindow
             /\ H(v) # {} => /\ Max(H(v)) \in H(v) /\ \A i \in H(v) : i <= Max(H(v))
                             /\ Newest(list, v) = list[Max(H(v))]
  <2>1. H(v) \subseteq 1..n
    BY <1>1
  <2>2. H(v) # {} => Max(H(v)) \in H(v) /\ \A i \in H(v) : i <= Max(H(v))
    <3> HIDE DEF H, n
    <3> QED BY <1>1, <2>1, MaxProperties
  <2>3. Newest(list, v) = IF H(v) = {} THEN NoWindow ELSE list[Max(H(v))]
    BY DEF Newest
  <2> HIDE DEF H, n
  <2> QED BY <2>2, <2>3
<1>3. \A v : H(v) \subseteq 1..n
  BY <1>1
<1>4. \A v : \A i \in 1..n : i \in H(v) <=> list[i] \in v
  BY <1>1
<1> HIDE DEF H
<1>5. ASSUME NEW u, NEW v, H(u) \subseteq H(v), H(v) # {}, Max(H(v)) \in H(u)
      PROVE  Newest(list, u) = Newest(list, v)
  <2>1. H(u) # {} /\ Max(H(u)) \in H(u) /\ Max(H(u)) \in H(v)
    BY <1>2, <1>5
  <2>2. Max(H(u)) <= Max(H(v)) /\ Max(H(v)) <= Max(H(u))
    BY <1>2, <1>5, <2>1
  <2>3. Max(H(u)) = Max(H(v))
    BY <1>1, <1>3, <1>5, <2>1, <2>2
  <2> QED BY <1>2, <1>5, <2>1, <2>3
<1>6. ASSUME now \subseteq old, old \ {w} \subseteq now, Newest(list, old) # w
      PROVE  Newest(list, now) = Newest(list, old)
  <2>1. H(now) \subseteq H(old)
    BY <1>3, <1>4, <1>6
  <2>2. CASE H(old) = {}
    BY <1>2, <2>1, <2>2
  <2>3. CASE H(old) # {}
    <3>1. Max(H(old)) \in 1..n /\ list[Max(H(old))] \in old \ {w}
      BY <1>2, <1>3, <1>4, <1>6, <2>3
    <3>2. Max(H(old)) \in H(now)
      BY <1>4, <1>6, <3>1
    <3> QED BY <1>5, <2>1, <2>3, <3>2
  <2> QED BY <2>2, <2>3
<1>7. ASSUME old \subseteq now, now \subseteq old \cup {w}
      PROVE  Newest(list, now) \in {w, Newest(list, old)}
  <2>1. H(old) \subseteq H(now)
    BY <1>3, <1>4, <1>7
  <2>2. CASE H(now) = {}
    BY <1>2, <2>1, <2>2
  <2>3. CASE H(now) # {}
    <3>1. Max(H(now)) \in 1..n /\ list[Max(H(now))] \in now /\ Newest(list, now) = list[Max(H(now))]
      BY <1>2, <1>3, <1>4, <2>3
    <3>2. CASE list[Max(H(now))] = w
      BY <3>1, <3>2
    <3>3. CASE list[Max(H(now))] # w
      <4>1. Max(H(now)) \in H(old)
        BY <1>4, <1>7, <3>1, <3>3
      <4> QED BY <1>5, <2>1, <2>3, <4>1
    <3> QED BY <3>2, <3>3
  <2> QED BY <2>2, <2>3
<1> QED BY <1>6, <1>7

\* A table with another state for w.
LEMMA OtherState ==
    ASSUME NEW info, NEW w \in DOMAIN info, NEW value \in WindowStates,
           InfoOK(info, open), ChildrenOK(info), Acyclic(info)
    PROVE  LET after == [info EXCEPT ![w].state = value] IN
           /\ DOMAIN after = DOMAIN info
           /\ \A x \in DOMAIN info : /\ after[x].app = info[x].app
                                     /\ after[x].type = info[x].type
                                     /\ after[x].parent = info[x].parent
                                     /\ after[x].children = info[x].children
                                     /\ after[x].state = IF x = w THEN value ELSE info[x].state
           /\ IsFiniteSet(DOMAIN after) /\ InfoOK(after, open) /\ ChildrenOK(after)
           /\ Acyclic(after)
<1> DEFINE after == [info EXCEPT ![w].state = value]
<1>1. /\ DOMAIN after = DOMAIN info
      /\ \A x \in DOMAIN info : /\ after[x].app = info[x].app
                                /\ after[x].type = info[x].type
                                /\ after[x].parent = info[x].parent
                                /\ after[x].children = info[x].children
                                /\ after[x].state = IF x = w THEN value ELSE info[x].state
  BY DEF InfoOK, WindowInfos
<1>2. InfoOK(after, open) /\ ChildrenOK(after)
  BY StateChangeKeepsTree
<1> HIDE DEF after
<1>3. IsFiniteSet(DOMAIN after)
  BY <1>1, FiniteWindows, FS_Subset DEF InfoOK
<1>4. NoWindow \notin DOMAIN info
  BY ConstantsAssumption DEF InfoOK
<1>5. Acyclic(after)
  BY <1>1, <1>4, FewerEdges
<1> QED BY <1>1, <1>2, <1>3, <1>5 DEF after

\* Hiding or minimizing a window leaves the focus alone unless the window is
\* active; then another one gets it, if a window that had it is shown.
LEMMA HidingMoves ==
    ASSUME NEW foc, NEW info, NEW rows, NEW w \in DOMAIN info, NEW value \in HiddenStates,
           open \subseteq Apps, InfoOK(info, open), ChildrenOK(info), Acyclic(info),
           FocusOK(foc, info, posted, VisibleSurfaces(info), open)
    PROVE  LET old == VisibleSurfaces(info)
               now == VisibleSurfaces([info EXCEPT ![w].state = value])
               new == FocusAfterState(foc, info, rows, w, value)
           IN  /\ now = old \ {w}
               /\ Top(foc.mru, old) # w => new = foc
               /\ Top(foc.mru, old) = w
                    => \/ \E y \in now : Goes(foc, new, y, info[y].app)
                       \/ Dropped(foc, new) /\ Range(foc.mru) \cap now = {}
<1> DEFINE old   == VisibleSurfaces(info)
           after == [info EXCEPT ![w].state = value]
           now   == VisibleSurfaces(after)
           new   == FocusAfterState(foc, info, rows, w, value)
<1>0. value \in WindowStates
  BY DEF HiddenStates, WindowStates
<1>1. /\ DOMAIN after = DOMAIN info
      /\ \A x \in DOMAIN info : /\ after[x].app = info[x].app
                                /\ after[x].type = info[x].type
                                /\ after[x].state = IF x = w THEN value ELSE info[x].state
      /\ IsFiniteSet(DOMAIN after) /\ InfoOK(after, open) /\ ChildrenOK(after)
      /\ Acyclic(after)
  BY <1>0, OtherState
<1>2. new = IF info[w].state # value /\ Top(foc.mru, old) = w
            THEN FocusAwayFrom(foc, after, old, rows, w) ELSE foc
  BY DEF FocusAfterState
<1> HIDE DEF after, new
<1>3. now = old \ {w}
  BY <1>1 DEF VisibleSurfaces
<1>4. /\ old \subseteq posted /\ old \subseteq Windows /\ NoWindow \notin Windows
      /\ foc.mru \in Seq(Windows) /\ \A x \in old : info[x].state \notin HiddenStates
  BY ConstantsAssumption DEF InfoOK, VisibleSurfaces, FocusOK, Foci
<1> HIDE DEF old, now
<1>5. ASSUME Top(foc.mru, old) = w
      PROVE  \/ \E y \in now : Goes(foc, new, y, info[y].app)
             \/ Dropped(foc, new) /\ Range(foc.mru) \cap now = {}
  <2>1. w \in old
    <3>1. Newest(foc.mru, old) \in (Range(foc.mru) \cap old) \cup {NoWindow}
      BY <1>4, NewestProperties
    <3>2. w # NoWindow
      BY <1>4 DEF InfoOK
    <3> QED BY <1>5, <3>1, <3>2 DEF Top
  <2>2. new = FocusAwayFrom(foc, after, old, rows, w)
    BY <1>2, <1>4, <1>5, <2>1
  <2>3. FocusOK(foc, after, posted, old, open)
    BY <1>1 DEF FocusOK, old
  <2>4. after[w].state \in HiddenStates /\ w \in DOMAIN after
    BY <1>1
  <2>5. LET n == FocusAwayFrom(foc, after, old, rows, w)
        IN  \/ \E y \in old \ {w} : Goes(foc, n, y, after[y].app)
            \/ Dropped(foc, n) /\ Hopeless(foc, after, old, Windows \ {w})
    BY <1>1, <1>4, <1>5, <2>3, <2>4, AwayMoves
  <2>6. CASE \E y \in old \ {w} : Goes(foc, new, y, after[y].app)
    <3>1. PICK y \in old \ {w} : Goes(foc, new, y, after[y].app)
      BY <2>6
    <3>2. y \in DOMAIN info
      BY <3>1 DEF old, VisibleSurfaces
    <3>3. after[y].app = info[y].app /\ y \in now
      BY <1>1, <1>3, <3>1, <3>2
    <3>4. Goes(foc, new, y, info[y].app)
      BY <3>1, <3>3
    <3> QED BY <3>3, <3>4
  <2>7. CASE Dropped(foc, new) /\ Hopeless(foc, after, old, Windows \ {w})
    <3>1. \A v \in now \cap DOMAIN after : after[v].state \notin HiddenStates
      BY <1>1, <1>3, <1>4
    <3>2. now \subseteq old \cap (Windows \ {w})
      BY <1>3, <1>4
    <3>3. Range(foc.mru) \cap now = {}
      BY <1>1, <2>3, <2>7, <3>1, <3>2, NoHopeless
    <3> QED BY <2>7, <3>3
  <2> QED BY <2>2, <2>5, <2>6, <2>7
<1>6. Top(foc.mru, old) # w => new = foc
  BY <1>2
<1> QED BY <1>3, <1>5, <1>6 DEF new, now, old, after

\* Showing one leaves it alone unless none is active; then the window that a
\* selection of this one ends at gets it, if there is one.
LEMMA ShowingMoves ==
    ASSUME NEW foc, NEW info, NEW rows, NEW w \in DOMAIN info, info[w].state \in HiddenStates,
           NEW value \in WindowStates \ HiddenStates,
           open \subseteq Apps, InfoOK(info, open), ChildrenOK(info), Acyclic(info),
           FocusOK(foc, info, posted, VisibleSurfaces(info), open)
    PROVE  LET old   == VisibleSurfaces(info)
               after == [info EXCEPT ![w].state = value]
               now   == VisibleSurfaces(after)
               x     == Selected(after, now, w)
               new   == FocusAfterState(foc, info, rows, w, value)
           IN  /\ w \notin old /\ now = old \cup ({w} \cap posted)
               /\ Top(foc.mru, old) # NoWindow => new = foc
               /\ Top(foc.mru, old) = NoWindow /\ x = NoWindow
                    => new = foc /\ Range(foc.mru) \cap now = {}
               /\ Top(foc.mru, old) = NoWindow /\ x # NoWindow
                    => x \in now /\ Goes(foc, new, x, info[x].app)
<1> DEFINE old   == VisibleSurfaces(info)
           after == [info EXCEPT ![w].state = value]
           now   == VisibleSurfaces(after)
           x     == Selected(after, now, w)
           new   == FocusAfterState(foc, info, rows, w, value)
<1>1. /\ DOMAIN after = DOMAIN info
      /\ \A y \in DOMAIN info : /\ after[y].app = info[y].app
                                /\ after[y].type = info[y].type
                                /\ after[y].state = IF y = w THEN value ELSE info[y].state
      /\ IsFiniteSet(DOMAIN after) /\ InfoOK(after, open) /\ ChildrenOK(after)
      /\ Acyclic(after)
  BY OtherState
<1>2. new = IF Top(foc.mru, old) = NoWindow
            THEN select_active_window(foc, after, now, w) ELSE foc
  BY DEF FocusAfterState
<1>3. /\ now = old \cup ({w} \cap posted) /\ w \notin old
      /\ \A y \in now : y \in DOMAIN after /\ after[y].state \notin HiddenStates
  BY <1>1 DEF VisibleSurfaces
<1>4. /\ old \subseteq posted /\ now \subseteq posted
      /\ foc.mru \in Seq(Windows) /\ NoWindow \notin Windows /\ DOMAIN info \subseteq Windows
  BY ConstantsAssumption DEF InfoOK, VisibleSurfaces, FocusOK, Foci
<1> HIDE DEF after, new
<1>5. FocusOK(foc, after, posted, now, open)
  <2> HIDE DEF now, old
  <2> QED BY <1>1, <1>3 DEF FocusOK, old
<1> HIDE DEF old, now, x
<1>6. w # NoWindow
  BY <1>4
<1>7. /\ x # NoWindow => x \in now /\ Goes(foc, select_active_window(foc, after, now, w), x, after[x].app)
      /\ x = NoWindow => select_active_window(foc, after, now, w) = foc
  <2>1. InfoOK(after, open) /\ now \subseteq posted
    BY <1>1, <1>4
  <2>2. LET n == select_active_window(foc, after, now, w)
            y == Selected(after, now, w)
        IN  /\ w # NoWindow /\ y # NoWindow => y \in now /\ Goes(foc, n, y, after[y].app)
            /\ w # NoWindow /\ y = NoWindow => n = foc
            /\ w = NoWindow => Dropped(foc, n)
    BY <1>5, <2>1, SelectMoves
  <2> QED BY <1>6, <2>2 DEF x
<1>8. ASSUME Top(foc.mru, old) = NoWindow, x = NoWindow
      PROVE  new = foc /\ Range(foc.mru) \cap now = {}
  <2>1. Range(foc.mru) \cap old = {}
    BY <1>4, <1>8, NewestProperties DEF Top
  <2>2. ASSUME w \in Range(foc.mru), w \in now PROVE FALSE
    <3>1. can_be_active(after[w].type)
      BY <1>5, <2>2 DEF FocusOK
    <3>2. w \in Activatable(after, now)
      BY <1>3, <2>2, <3>1 DEF Activatable, is_visible
    <3>3. Selected(after, now, w) # NoWindow
      BY <1>1, <3>2, ActivatableIsSelected
    <3> QED BY <1>8, <3>3 DEF x
  <2> QED BY <1>2, <1>3, <1>7, <1>8, <2>1, <2>2
<1>9. ASSUME Top(foc.mru, old) = NoWindow, x # NoWindow
      PROVE  x \in now /\ Goes(foc, new, x, info[x].app)
  <2>1. x \in now /\ x \in DOMAIN info
    BY <1>1, <1>3, <1>7, <1>9
  <2>2. new = select_active_window(foc, after, now, w) /\ after[x].app = info[x].app
    BY <1>1, <1>2, <1>9, <2>1
  <2> QED BY <1>7, <1>9, <2>1, <2>2
<1>10. Top(foc.mru, old) # NoWindow => new = foc
  BY <1>2
<1> QED BY <1>3, <1>8, <1>9, <1>10 DEF new, x, now, old, after

\* The surfaces that are visible in a scene, and its active window.
Seen(s) == VisibleSurfaces(s.info)

ActiveIn(s) == Top(s.focus.mru, Seen(s))

LEMMA StatedParts ==
    ASSUME NEW base, NEW late, NEW s \in Shapes(base, late), NEW rows, NEW w \in DOMAIN base,
           NEW value
    PROVE  /\ Stated(rows, s, w, value).focus = FocusAfterState(s.focus, s.info, rows, w, value)
           /\ Stated(rows, s, w, value).info = [s.info EXCEPT ![w].state = value]
<1> DEFINE foc  == FocusAfterState(s.focus, s.info, rows, w, value)
           full == IF value = "fullscreen" THEN s.fullscreen \cup {w} ELSE s.fullscreen \ {w}
           new  == Stated(rows, s, w, value)
<1>1. /\ s \in [focus : Foci, info : [DOMAIN base -> WindowInfos],
                data : [DOMAIN base -> PolicyDatas], fullscreen : SUBSET DOMAIN base]
      /\ DOMAIN s = {"focus", "info", "data", "fullscreen"}
  BY DEF Shapes
<1>2. new = [s EXCEPT !.focus = foc, !.info[w].state = value, !.fullscreen = full]
  BY DEF Stated
<1> HIDE DEF foc, full, new
<1> DEFINE after == [s.info EXCEPT ![w].state = value]
<1>3. new = [s EXCEPT !.focus = foc, !.info = after, !.fullscreen = full]
  BY <1>1, <1>2
<1> HIDE DEF after
<1>4. new.focus = foc /\ new.info = after
  BY <1>1, <1>3
<1> QED BY <1>4 DEF new, foc, after

\* What holds in every scene.
LEMMA SceneFacts ==
    ASSUME NEW base, NEW late, NEW s \in Shapes(base, late), TablesOK(base), Acyclic(base)
    PROVE  /\ DOMAIN s.info = DOMAIN base /\ DOMAIN s.data = DOMAIN base
           /\ InfoOK(s.info, open) /\ ChildrenOK(s.info) /\ Acyclic(s.info)
           /\ IsFiniteSet(DOMAIN base) /\ NoWindow \notin DOMAIN base
           /\ DOMAIN base \subseteq Windows /\ open \subseteq Apps
           /\ FocusOK(s.focus, s.info, posted, Seen(s), open)
           /\ s.focus.mru \in Seq(Windows) /\ IsInjective(s.focus.mru)
           /\ ActiveIn(s) \in (Range(s.focus.mru) \cap Seen(s)) \cup {NoWindow}
           /\ ActiveIn(s) = NoWindow <=> Range(s.focus.mru) \cap Seen(s) = {}
           /\ Seen(s) \subseteq DOMAIN base /\ Seen(s) \subseteq posted
           /\ \A x \in Seen(s) : s.info[x].state \notin HiddenStates
           /\ \A x \in DOMAIN base : /\ s.info[x].app = base[x].app
                                     /\ s.info[x].type = base[x].type
                                     /\ s.info[x].parent = base[x].parent
                                     /\ s.info[x].children = base[x].children
<1>1. /\ s.info \in [DOMAIN base -> WindowInfos] /\ s.data \in [DOMAIN base -> PolicyDatas]
      /\ \A x \in DOMAIN base : /\ s.info[x].app = base[x].app
                                /\ s.info[x].type = base[x].type
                                /\ s.info[x].parent = base[x].parent
                                /\ s.info[x].children = base[x].children
      /\ FocusOK(s.focus, s.info, posted, Seen(s), open)
  BY DEF Shapes, Seen
<1>2. DOMAIN s.info = DOMAIN base /\ DOMAIN s.data = DOMAIN base
  BY <1>1
<1>3. InfoOK(s.info, open) /\ ChildrenOK(s.info)
  BY ScenesTables
<1>4. /\ DOMAIN base \subseteq Windows /\ open \subseteq Apps /\ NoWindow \notin Windows
  BY ConstantsAssumption DEF TablesOK, InfoOK
<1>5. IsFiniteSet(DOMAIN base)
  BY <1>4, FiniteWindows, FS_Subset
<1>6. Acyclic(s.info)
  <2>1. \A x \in DOMAIN s.info : s.info[x].parent = base[x].parent
    BY <1>1, <1>2
  <2> QED BY <1>2, <1>4, <2>1, FewerEdges
<1>7. s.focus.mru \in Seq(Windows) /\ IsInjective(s.focus.mru)
  BY <1>1 DEF FocusOK, Foci
<1>8. /\ ActiveIn(s) \in (Range(s.focus.mru) \cap Seen(s)) \cup {NoWindow}
      /\ ActiveIn(s) = NoWindow <=> Range(s.focus.mru) \cap Seen(s) = {}
  BY <1>4, <1>7, NewestProperties DEF ActiveIn, Top
<1>9. /\ Seen(s) \subseteq DOMAIN base /\ Seen(s) \subseteq posted
      /\ \A x \in Seen(s) : s.info[x].state \notin HiddenStates
  BY <1>2 DEF Seen, VisibleSurfaces
<1> QED BY <1>1, <1>2, <1>3, <1>4, <1>5, <1>6, <1>7, <1>8, <1>9

\* Hiding a workspace's window hides just that one.  The focus moves only if it
\* was active, to one that stays visible if there is one.
LEMMA HideStep ==
    ASSUME NEW base, NEW late, NEW want, NEW s \in Scenes(base, want, late), TablesOK(base),
           Acyclic(base), NEW rows, NEW w \in DOMAIN base
    PROVE  LET new == apply_workspace_hidden_to(rows, s, w) IN
           /\ \A x : x \in Seen(new) <=> x \in Seen(s) /\ x # w
           /\ ActiveIn(s) # w => new.focus = s.focus
           /\ ActiveIn(s) = w
                => \/ \E y \in Seen(new) : Goes(s.focus, new.focus, y, s.info[y].app)
                   \/ Dropped(s.focus, new.focus) /\ Range(s.focus.mru) \cap Seen(new) = {}
<1> DEFINE new == apply_workspace_hidden_to(rows, s, w)
<1>1. s \in Shapes(base, late) /\ Faithful(s, want) /\ s.data \in [DOMAIN base -> PolicyDatas]
      /\ s.info \in [DOMAIN base -> WindowInfos]
  BY DEF Scenes, Shapes
<1>2. /\ DOMAIN s.info = DOMAIN base /\ NoWindow \notin DOMAIN base
      /\ InfoOK(s.info, open) /\ ChildrenOK(s.info) /\ Acyclic(s.info) /\ open \subseteq Apps
      /\ FocusOK(s.focus, s.info, posted, Seen(s), open)
      /\ ActiveIn(s) \in Seen(s) \cup {NoWindow}
      /\ \A x \in Seen(s) : s.info[x].state \notin HiddenStates
  BY <1>1, SceneFacts
<1>3. CASE s.data[w].in_hidden_workspace
  <2>1. new = s
    BY <1>3 DEF apply_workspace_hidden_to
  <2>2. w \in Marked(s.data)
    BY <1>1, <1>3 DEF Marked
  <2>3. w \notin Seen(s)
    BY <1>1, <1>2, <2>2 DEF Faithful, HiddenStates
  <2> HIDE DEF new
  <2>4. /\ \A x : x \in Seen(new) <=> x \in Seen(s) /\ x # w
        /\ ActiveIn(s) # w /\ new.focus = s.focus
    BY <1>2, <2>1, <2>3
  <2> QED BY <2>4 DEF new
<1>4. CASE ~s.data[w].in_hidden_workspace
  <2> DEFINE d   == [in_hidden_workspace |-> TRUE, old_state |-> s.info[w].state]
             mid == [s EXCEPT !.data[w] = d]
  <2>1. d \in PolicyDatas /\ "hidden" \in HiddenStates
    BY <1>1 DEF PolicyDatas, WindowInfos, HiddenStates
  <2>2. new = Stated(rows, mid, w, "hidden")
    BY <1>4 DEF apply_workspace_hidden_to
  <2>3. mid.focus = s.focus /\ mid.info = s.info
    BY <1>1 DEF Shapes
  <2> HIDE DEF d, new
  <2>4. mid \in Shapes(base, late)
    BY <1>1, <2>1, RemarkedShape
  <2> HIDE DEF mid
  <2>5. /\ new.focus = FocusAfterState(s.focus, s.info, rows, w, "hidden")
        /\ new.info = [s.info EXCEPT ![w].state = "hidden"]
    BY <2>2, <2>3, <2>4, StatedParts
  <2>6. w \in DOMAIN s.info
    BY <1>2
  <2>7. LET old == VisibleSurfaces(s.info)
            now == VisibleSurfaces([s.info EXCEPT ![w].state = "hidden"])
            foc == FocusAfterState(s.focus, s.info, rows, w, "hidden")
        IN  /\ now = old \ {w}
            /\ Top(s.focus.mru, old) # w => foc = s.focus
            /\ Top(s.focus.mru, old) = w
                 => \/ \E y \in now : Goes(s.focus, foc, y, s.info[y].app)
                    \/ Dropped(s.focus, foc) /\ Range(s.focus.mru) \cap now = {}
    BY <1>2, <2>1, <2>6, HidingMoves DEF Seen
  <2>8. /\ Seen(new) = Seen(s) \ {w}
        /\ ActiveIn(s) # w => new.focus = s.focus
        /\ ActiveIn(s) = w
             => \/ \E y \in Seen(new) : Goes(s.focus, new.focus, y, s.info[y].app)
                \/ Dropped(s.focus, new.focus) /\ Range(s.focus.mru) \cap Seen(new) = {}
    BY <2>5, <2>7 DEF Seen, ActiveIn
  <2>9. \A x : x \in Seen(new) <=> x \in Seen(s) /\ x # w
    BY <2>8
  <2> QED BY <2>8, <2>9 DEF new
<1> QED BY <1>3, <1>4

\* Showing one again shows just that one, unless its client wants it hidden.
\* The focus moves only if no window was active: to where a selection of the
\* one that is shown ends.
LEMMA ShowStep ==
    ASSUME NEW base, NEW late, NEW want, NEW s \in Scenes(base, want, late), TablesOK(base),
           Acyclic(base), NEW rows, NEW w \in DOMAIN base
    PROVE  LET new == apply_workspace_visible_to(rows, s, w)
               x   == Selected(new.info, Seen(new), w)
           IN  /\ \A y : y \in Seen(s) => y \in Seen(new)
               /\ \A y : y \in Seen(new) => y \in Seen(s) \/ y = w
               /\ ActiveIn(s) # NoWindow => new.focus = s.focus
               /\ ActiveIn(s) = NoWindow
                    => \/ new.focus = s.focus /\ Range(s.focus.mru) \cap Seen(new) = {}
                       \/ x \in Seen(new) /\ Goes(s.focus, new.focus, x, s.info[x].app)
               /\ w \in Marked(s.data) /\ s.data[w].old_state \notin HiddenStates
                    => /\ new.info = [s.info EXCEPT ![w].state = s.data[w].old_state]
                       /\ ActiveIn(s) = NoWindow /\ x # NoWindow
                            => Goes(s.focus, new.focus, x, s.info[x].app)
<1> DEFINE new == apply_workspace_visible_to(rows, s, w)
           x   == Selected(new.info, Seen(new), w)
<1>1. s \in Shapes(base, late) /\ Faithful(s, want) /\ s.data \in [DOMAIN base -> PolicyDatas]
  BY DEF Scenes, Shapes
<1>2. /\ DOMAIN s.info = DOMAIN base /\ NoWindow \notin DOMAIN base
      /\ InfoOK(s.info, open) /\ ChildrenOK(s.info) /\ Acyclic(s.info) /\ open \subseteq Apps
      /\ FocusOK(s.focus, s.info, posted, Seen(s), open)
      /\ ActiveIn(s) \in Seen(s) \cup {NoWindow}
      /\ ActiveIn(s) = NoWindow => Range(s.focus.mru) \cap Seen(s) = {}
      /\ \A y \in Seen(s) : s.info[y].state \notin HiddenStates
  BY <1>1, SceneFacts
<1>3. CASE ~s.data[w].in_hidden_workspace
  <2>1. new = s
    BY <1>3 DEF apply_workspace_visible_to
  <2>2. w \notin Marked(s.data)
    BY <1>3 DEF Marked
  <2> HIDE DEF new, x
  <2>3. /\ \A y : y \in Seen(s) <=> y \in Seen(new)
        /\ new.focus = s.focus
        /\ ActiveIn(s) = NoWindow => Range(s.focus.mru) \cap Seen(new) = {}
    BY <1>2, <2>1
  <2> QED BY <2>2, <2>3 DEF new, x
<1>4. CASE s.data[w].in_hidden_workspace
  <2> DEFINE value == s.data[w].old_state
             d   == [s.data[w] EXCEPT !.in_hidden_workspace = FALSE]
             mid == [s EXCEPT !.data[w] = d]
  <2>1. s.data[w] \in PolicyDatas /\ w \in Marked(s.data) /\ w \in DOMAIN s.info
    BY <1>1, <1>2, <1>4 DEF Marked
  <2>2. d \in PolicyDatas /\ value \in WindowStates
    BY <2>1 DEF PolicyDatas
  <2>3. new = Stated(rows, [s EXCEPT !.data[w].in_hidden_workspace = FALSE], w, value)
    BY <1>4 DEF apply_workspace_visible_to
  <2>4. [s EXCEPT !.data[w].in_hidden_workspace = FALSE] = mid
    BY <1>1 DEF Shapes
  <2>5. mid.focus = s.focus /\ mid.info = s.info
    BY <1>1 DEF Shapes
  <2> HIDE DEF d, new, value
  <2>6. mid \in Shapes(base, late)
    BY <1>1, <2>2, RemarkedShape
  <2>7. new = Stated(rows, mid, w, value)
    BY <2>3, <2>4
  <2> HIDE DEF mid
  <2>8. /\ new.focus = FocusAfterState(s.focus, s.info, rows, w, value)
        /\ new.info = [s.info EXCEPT ![w].state = value]
    BY <2>5, <2>6, <2>7, StatedParts
  <2>9. s.info[w].state \in HiddenStates /\ w \notin Seen(s)
    BY <1>1, <1>2, <2>1 DEF Faithful, HiddenStates
  <2>10. CASE value \in HiddenStates
    <3>1. LET old == VisibleSurfaces(s.info)
              now == VisibleSurfaces([s.info EXCEPT ![w].state = value])
              foc == FocusAfterState(s.focus, s.info, rows, w, value)
          IN  /\ now = old \ {w}
              /\ Top(s.focus.mru, old) # w => foc = s.focus
              /\ Top(s.focus.mru, old) = w
                   => \/ \E y \in now : Goes(s.focus, foc, y, s.info[y].app)
                      \/ Dropped(s.focus, foc) /\ Range(s.focus.mru) \cap now = {}
      BY <1>2, <2>1, <2>10, HidingMoves DEF Seen
    <3>2. Seen(new) = Seen(s) \ {w} /\ (ActiveIn(s) # w => new.focus = s.focus)
      BY <2>8, <3>1 DEF Seen, ActiveIn
    <3>3. /\ Seen(new) = Seen(s) /\ new.focus = s.focus
          /\ ActiveIn(s) = NoWindow => Range(s.focus.mru) \cap Seen(new) = {}
      BY <1>2, <2>9, <3>2
    <3> HIDE DEF x
    <3> QED BY <2>10, <3>3 DEF new, x, value
  <2>11. CASE value \notin HiddenStates
    <3>1. LET old   == VisibleSurfaces(s.info)
              after == [s.info EXCEPT ![w].state = value]
              now   == VisibleSurfaces(after)
              y     == Selected(after, now, w)
              foc   == FocusAfterState(s.focus, s.info, rows, w, value)
          IN  /\ w \notin old /\ now = old \cup ({w} \cap posted)
              /\ Top(s.focus.mru, old) # NoWindow => foc = s.focus
              /\ Top(s.focus.mru, old) = NoWindow /\ y = NoWindow
                   => foc = s.focus /\ Range(s.focus.mru) \cap now = {}
              /\ Top(s.focus.mru, old) = NoWindow /\ y # NoWindow
                   => y \in now /\ Goes(s.focus, foc, y, s.info[y].app)
      BY <1>2, <2>1, <2>2, <2>9, <2>11, ShowingMoves DEF Seen
    <3>2. /\ Seen(new) = Seen(s) \cup ({w} \cap posted)
          /\ ActiveIn(s) # NoWindow => new.focus = s.focus
          /\ ActiveIn(s) = NoWindow /\ x = NoWindow
               => new.focus = s.focus /\ Range(s.focus.mru) \cap Seen(new) = {}
          /\ ActiveIn(s) = NoWindow /\ x # NoWindow
               => x \in Seen(new) /\ Goes(s.focus, new.focus, x, s.info[x].app)
      BY <2>8, <3>1 DEF Seen, ActiveIn
    <3> HIDE DEF x
    <3>3. /\ \A y : y \in Seen(s) => y \in Seen(new)
          /\ \A y : y \in Seen(new) => y \in Seen(s) \/ y = w
          /\ new.info = [s.info EXCEPT ![w].state = s.data[w].old_state]
      BY <2>8, <3>2 DEF value
    <3> QED BY <3>2, <3>3 DEF new, x
  <2> QED BY <2>10, <2>11
<1> QED BY <1>3, <1>4

-----------------------------------------------------------------------------
(* A switch.                                                               *)

\* The window that the focus goes to is the newest.
LEMMA GoneTo ==
    ASSUME NEW foc, NEW new, NEW x \in Windows, NEW app,
           foc.mru \in Seq(Windows), IsInjective(foc.mru), Goes(foc, new, x, app)
    PROVE  /\ new.mru # <<>> /\ new.mru[Len(new.mru)] = x
           /\ \A visible : x \in visible => Top(new.mru, visible) = x
<1>1. new.mru = Push(foc.mru, x)
  BY DEF Goes, Pushes
<1> DEFINE list == Push(foc.mru, x)
<1>2. list \in Seq(Windows) /\ list # <<>> /\ list[Len(list)] = x
  BY PushProperties
<1> HIDE DEF list
<1>3. ASSUME NEW visible, x \in visible PROVE Newest(list, visible) = x
  BY <1>2, <1>3, NewestProperties, ConstantsAssumption
<1> QED BY <1>1, <1>2, <1>3 DEF Top, list

\* Only the keys that switch change the active workspace.
LEMMA OnlyKeysSwitch ==
    ASSUME [TitlebarNext]_shell_vars, active_workspace' # active_workspace
    PROVE  \E taking \in BOOLEAN :
              active_workspace' \in Workspaces /\ SwitchKey(active_workspace', taking)
<1>1. ASSUME NEW ws \in Workspaces, NEW taking \in BOOLEAN, SwitchKey(ws, taking)
      PROVE  active_workspace' = ws
  BY <1>1 DEF SwitchKey, switch_workspace_to
<1>2. ASSUME NEW a \in Apps, NEW w \in Windows, NEW type \in Types, NEW state \in FirstStates,
             NEW parent \in Live \cup {NoWindow}, NewWindow(a, w, type, state, parent)
      PROVE  FALSE
  BY <1>2 DEF NewWindow
<1>3. ASSUME NEW w \in Live, NEW state \in States, StateRequest(w, state) PROVE FALSE
  BY <1>3 DEF StateRequest
<1>4. ASSUME NEW state \in Toggles, toggle(state) PROVE FALSE
  BY <1>4 DEF toggle
<1>5. ASSUME NEW w \in Live, NEW first \in FirstSessions, Removal(w, first) PROVE FALSE
  BY <1>5 DEF Removal
<1>6. ~Arrives /\ ~Refocused /\ ~UNCHANGED shell_vars
  BY DEF Arrives, Refocused, policy_vars, shell_vars
<1> QED BY <1>1, <1>2, <1>3, <1>4, <1>5, <1>6 DEF TitlebarNext

\* The remembered window is shown first, and takes the focus as no window that
\* would take it instead, a dialog of its own, is shown yet.
LEMMA RememberedIsFirst ==
    ASSUME TitlebarInv, NEW ws \in Workspaces, ws # active_workspace, active = NoWindow,
           NEW w \in Live, w = workspace_to_active[ws], <<ws, w>> \in Rows, w \in posted,
           policy_data[w].old_state \notin HiddenStates
    PROVE  /\ Begun(ws) = apply_workspace_visible_to(Rows, Now, w)
           /\ Begun(ws) \in Scenes(window_info, wanted, {})
           /\ w \in Seen(Begun(ws))
           /\ LET list == Begun(ws).focus.mru IN list # <<>> /\ list[Len(list)] = w
<1> DEFINE new  == apply_workspace_visible_to(Rows, Now, w)
           Some == Scenes(window_info, wanted, {})
<1>1. /\ Now \in Some /\ TablesOK(window_info)
      /\ Now.data = policy_data /\ Now.info = window_info /\ Now.focus = focus
  BY StartOfScene
<1>2. /\ Acyclic(window_info) /\ OneHome(Rows, window_info) /\ active_workspace \in Workspaces
      /\ Marked(policy_data) = {x \in Live : <<active_workspace, x>> \notin Rows}
      /\ policy_data \in [Live -> PolicyDatas]
  BY WindowsStay DEF TitlebarInv, PolicyInv
<1>3. NoWindow \notin Live /\ w \in DOMAIN window_info
  BY WindowTables DEF TitlebarInv, Live
<1>4. Begun(ws) = new
  BY <1>3 DEF Begun, ShowRemembered
<1> HIDE DEF new
<1>5. new \in Some
  BY <1>1, <1>3, Shows DEF new
<1> HIDE DEF Some
<1>6. \A x \in Live : <<ws, x>> \in Rows => x \in Marked(policy_data)
  <2>1. ASSUME NEW x \in Live, <<ws, x>> \in Rows PROVE <<active_workspace, x>> \notin Rows
    <3>1. x \in DOMAIN window_info
      BY DEF Live
    <3>2. PICK home \in Workspaces : \A v \in Workspaces : <<v, x>> \in Rows <=> v = home
      BY <1>2, <3>1 DEF OneHome
    <3> QED BY <1>2, <2>1, <3>2
  <2> QED BY <1>2, <2>1
<1>7. ActiveIn(Now) = NoWindow
  BY <1>1 DEF ActiveIn, Seen, active
<1> DEFINE x == Selected(new.info, Seen(new), w)
<1>8. /\ \A y : y \in Seen(new) => y \in Seen(Now) \/ y = w
      /\ new.info = [window_info EXCEPT ![w].state = policy_data[w].old_state]
      /\ x # NoWindow => Goes(focus, new.focus, x, window_info[x].app)
  <2>1. w \in Marked(Now.data) /\ Now.data[w].old_state \notin HiddenStates
    BY <1>1, <1>6
  <2>2. LET n == apply_workspace_visible_to(Rows, Now, w)
            y == Selected(n.info, Seen(n), w)
        IN  /\ \A z : z \in Seen(Now) => z \in Seen(n)
            /\ \A z : z \in Seen(n) => z \in Seen(Now) \/ z = w
            /\ ActiveIn(Now) # NoWindow => n.focus = Now.focus
            /\ ActiveIn(Now) = NoWindow
                 => \/ n.focus = Now.focus /\ Range(Now.focus.mru) \cap Seen(n) = {}
                    \/ y \in Seen(n) /\ Goes(Now.focus, n.focus, y, Now.info[y].app)
            /\ w \in Marked(Now.data) /\ Now.data[w].old_state \notin HiddenStates
                 => /\ n.info = [Now.info EXCEPT ![w].state = Now.data[w].old_state]
                    /\ ActiveIn(Now) = NoWindow /\ y # NoWindow
                         => Goes(Now.focus, n.focus, y, Now.info[y].app)
    BY <1>1, <1>2, <1>3, ShowStep DEF Some
  <2> QED BY <1>1, <1>7, <2>1, <2>2 DEF new
<1>9. new \in Shapes(window_info, {}) /\ Now \in Shapes(window_info, {})
  BY <1>1, <1>5 DEF Scenes, Some
<1>10. /\ InfoOK(new.info, open) /\ IsFiniteSet(DOMAIN new.info) /\ DOMAIN new.info = DOMAIN window_info
       /\ ChildrenOK(new.info)
       /\ \A y \in Live : /\ new.info[y].type = window_info[y].type
                          /\ new.info[y].parent = window_info[y].parent
  BY <1>1, <1>2, <1>9, SceneFacts DEF Live
<1>11. new.info[w].state = policy_data[w].old_state /\ w \in Seen(new)
  <2>1. new.info[w].state = policy_data[w].old_state
    BY <1>1, <1>3, <1>8 DEF TablesOK, InfoOK, WindowInfos
  <2> QED BY <1>3, <1>10, <2>1 DEF Seen, VisibleSurfaces
<1>12. can_be_active(new.info[w].type)
  BY <1>3, <1>10 DEF TitlebarInv, PolicyInv, RemembersActive
<1>13. VisibleDialogs(new.info, Seen(new), w) = {}
  <2> SUFFICES ASSUME NEW i \in DOMAIN new.info[w].children,
                      is_visible(new.info, Seen(new), new.info[w].children[i])
               PROVE  FALSE
    BY DEF VisibleDialogs
  <2> DEFINE c == new.info[w].children[i]
  <2>1. c \in Range(new.info[w].children) /\ c \in Seen(new)
    BY DEF Range, is_visible
  <2> HIDE DEF c
  <2>2. c \in Live /\ new.info[c].parent = w
    <3>1. w \in DOMAIN new.info
      BY <1>3, <1>10
    <3>2. c \in DOMAIN new.info
      BY <1>10, <2>1, <3>1 DEF InfoOK
    <3> QED BY <1>10, <2>1, <3>1, <3>2 DEF ChildrenOK, Live
  <2>3. window_info[c].parent = w
    BY <1>10, <2>2
  <2>4. <<ws, c>> \in Rows /\ c \in Marked(policy_data)
    <3>1. c \in DOMAIN window_info /\ window_info[c].parent \in DOMAIN window_info
      BY <1>3, <2>2, <2>3 DEF Live
    <3>2. <<ws, c>> \in Rows <=> <<ws, window_info[c].parent>> \in Rows
      BY <1>2, <3>1 DEF OneHome
    <3> QED BY <1>6, <2>2, <2>3, <3>2
  <2>5. c # w
    <3>1. PICK rank : Ranks(window_info, rank)
      BY <1>2 DEF Acyclic
    <3> QED BY <1>3, <2>2, <2>3, <3>1 DEF Ranks, Live
  <2>6. c \in Seen(Now)
    BY <1>8, <2>1, <2>5
  <2>7. window_info[c].state = "hidden"
    <3>1. Faithful(Now, wanted)
      BY DEF TitlebarInv, PolicyInv
    <3> QED BY <1>1, <2>4, <3>1 DEF Faithful
  <2> QED BY <1>1, <2>6, <2>7 DEF Seen, VisibleSurfaces, HiddenStates
<1>14. x = w
  <2>1. Settles(new.info, Seen(new), w)
    BY <1>11, <1>12, <1>13 DEF Settles, is_visible
  <2>2. w \in DOMAIN new.info
    BY <1>3, <1>10
  <2> QED BY <1>10, <2>1, <2>2, SettledIsSelected
<1>15. new.focus.mru # <<>> /\ new.focus.mru[Len(new.focus.mru)] = w
  <2>1. /\ focus.mru \in Seq(Windows) /\ IsInjective(focus.mru) /\ w \in Windows
    BY <1>1, <1>2, <1>3, <1>9, SceneFacts
  <2>2. Goes(focus, new.focus, w, window_info[w].app)
    BY <1>3, <1>8, <1>14
  <2> HIDE DEF x
  <2> DEFINE before == focus
             after == new.focus
             app == window_info[w].app
  <2>3. /\ before.mru \in Seq(Windows) /\ IsInjective(before.mru) /\ w \in Windows
        /\ Goes(before, after, w, app)
    BY <2>1, <2>2
  <2> HIDE DEF before, after, app
  <2>4. after.mru # <<>> /\ after.mru[Len(after.mru)] = w
    BY <2>3, GoneTo
  <2> QED BY <2>4 DEF after
<1> QED BY <1>4, <1>5, <1>11, <1>15 DEF new, Some

\* It keeps it while the others are shown and hidden.
LEMMA SwitchRemembers ==
    ASSUME TitlebarInv, NEW ws \in Workspaces, NEW taking \in BOOLEAN, SwitchKey(ws, taking),
           active = NoWindow, NEW w \in Live, w = workspace_to_active[ws],
           <<ws, w>> \in Rows, w \in posted, policy_data[w].old_state \notin HiddenStates
    PROVE  active' = w
<1> DEFINE foc  == Begun(ws).focus
           S    == {s \in Scenes(window_info, wanted, {}) : s.focus = foc /\ w \in Seen(s)}
           rows == RowsAfter(ws, taking)
           A    == Shown(ws, taking)
           O    == Left(ws, taking)
<1>1. /\ ws # active_workspace /\ A \subseteq DOMAIN window_info /\ O \subseteq DOMAIN window_info
      /\ w \notin O
  BY SwitchRows DEF Live
<1>2. /\ Begun(ws) \in S
      /\ foc.mru # <<>> /\ foc.mru[Len(foc.mru)] = w
  BY <1>1, RememberedIsFirst
<1>3. TablesOK(window_info) /\ Acyclic(window_info) /\ NoWindow \notin Live
  BY StartOfScene, WindowTables DEF TitlebarInv
<1> HIDE DEF rows, A, O, foc
<1>4. ASSUME NEW c \in S
      PROVE  /\ c \in Scenes(window_info, wanted, {}) /\ ActiveIn(c) = w
             /\ w \in Seen(c) /\ c.focus = foc
  <2>1. c \in Shapes(window_info, {}) /\ c.focus = foc /\ w \in Seen(c)
    BY DEF Scenes
  <2>2. c.focus.mru \in Seq(Windows)
    BY <1>3, <2>1, SceneFacts
  <2>3. Newest(c.focus.mru, Seen(c)) = w
    <3> DEFINE list == c.focus.mru
    <3>1. list \in Seq(Windows) /\ list # <<>> /\ list[Len(list)] \in Seen(c) /\ list[Len(list)] = w
      BY <1>2, <2>1, <2>2
    <3> HIDE DEF list
    <3>2. Newest(list, Seen(c)) = w
      BY <3>1, NewestProperties, ConstantsAssumption
    <3> QED BY <3>2 DEF list
  <2> QED BY <2>1, <2>3 DEF ActiveIn, Top
<1>5. ShowingKeeps(rows, S, A)
  <2> SUFFICES ASSUME NEW c \in S, NEW x \in A PROVE apply_workspace_visible_to(rows, c, x) \in S
    BY DEF ShowingKeeps
  <2> DEFINE new == apply_workspace_visible_to(rows, c, x)
  <2>1. x \in DOMAIN window_info /\ c \in Scenes(window_info, wanted, {})
    BY <1>1, <1>4
  <2>2. new \in Scenes(window_info, wanted, {})
    BY <1>3, <2>1, Shows
  <2>3. LET n == apply_workspace_visible_to(rows, c, x)
            z == Selected(n.info, Seen(n), x)
        IN  /\ \A y : y \in Seen(c) => y \in Seen(n)
            /\ \A y : y \in Seen(n) => y \in Seen(c) \/ y = x
            /\ ActiveIn(c) # NoWindow => n.focus = c.focus
            /\ ActiveIn(c) = NoWindow
                 => \/ n.focus = c.focus /\ Range(c.focus.mru) \cap Seen(n) = {}
                    \/ z \in Seen(n) /\ Goes(c.focus, n.focus, z, c.info[z].app)
            /\ x \in Marked(c.data) /\ c.data[x].old_state \notin HiddenStates
                 => /\ n.info = [c.info EXCEPT ![x].state = c.data[x].old_state]
                    /\ ActiveIn(c) = NoWindow /\ z # NoWindow
                         => Goes(c.focus, n.focus, z, c.info[z].app)
    BY <1>3, <2>1, ShowStep
  <2>4. w \in Seen(new) /\ new.focus = foc
    BY <1>3, <1>4, <2>3
  <2> HIDE DEF new
  <2>5. new \in S
    BY <2>2, <2>4
  <2> QED BY <2>5 DEF new
<1>6. HidingKeeps(rows, S, O \ {active})
  <2> SUFFICES ASSUME NEW c \in S, NEW x \in O PROVE apply_workspace_hidden_to(rows, c, x) \in S
    BY DEF HidingKeeps
  <2> DEFINE new == apply_workspace_hidden_to(rows, c, x)
  <2>1. x \in DOMAIN window_info /\ x # w /\ c \in Scenes(window_info, wanted, {})
    BY <1>1, <1>4
  <2>2. new \in Scenes(window_info, wanted, {})
    BY <1>3, <2>1, Hides
  <2>3. /\ \A y : y \in Seen(new) <=> y \in Seen(c) /\ y # x
        /\ ActiveIn(c) # x => new.focus = c.focus
    BY <1>3, <2>1, HideStep
  <2> HIDE DEF new
  <2>4. new \in S
    BY <1>4, <2>1, <2>2, <2>3
  <2> QED BY <2>4 DEF new
<1>7. S \in SUBSET Scenes(window_info, wanted, {})
  OBVIOUS
<1> HIDE DEF S
<1>8. \E hidden \in S :
              Leaves(IF active \in O THEN apply_workspace_hidden_to(rows, hidden, active) ELSE hidden)
  BY <1>2, <1>5, <1>6, <1>7, SwitchChain DEF rows, A, O
<1>9. active \notin O
  BY <1>1, <1>3 DEF Live
<1>10. PICK hidden \in S : Leaves(hidden)
  BY <1>8, <1>9
<1>11. focus' = hidden.focus /\ window_info' = hidden.info /\ posted' = posted
  BY <1>10, SwitchRows DEF Leaves
<1>12. ActiveIn(hidden) = w
  BY <1>4, <1>10
<1> QED BY <1>11, <1>12 DEF ActiveIn, Seen, active, VisibleSurfaces

\* Coming back to a workspace while no window is active always gives the focus
\* to the window that had it when the workspace was left, if that is still
\* there, still in the workspace and wanted visible by its client.
THEOREM TitlebarRemembersFocus == TitlebarSpec => RememberedFocus
<1> DEFINE ww == workspace_to_active[active_workspace']
           Kept == LET restorable == /\ ww \in Live
                                     /\ <<active_workspace', ww>> \in workspaces_to_windows
                                     /\ ww \in posted
                                     /\ policy_data[ww].old_state \notin HiddenStates
                   IN  active_workspace' # active_workspace /\ active = NoWindow /\ restorable
                       => active' = ww
<1>1. TitlebarInv /\ [TitlebarNext]_shell_vars => Kept
  <2> SUFFICES ASSUME TitlebarInv, [TitlebarNext]_shell_vars,
                      active_workspace' # active_workspace, active = NoWindow, ww \in Live,
                      <<active_workspace', ww>> \in workspaces_to_windows, ww \in posted,
                      policy_data[ww].old_state \notin HiddenStates
               PROVE  active' = ww
    OBVIOUS
  <2>1. PICK taking \in BOOLEAN :
            active_workspace' \in Workspaces /\ SwitchKey(active_workspace', taking)
    BY OnlyKeysSwitch
  <2>2. Rows = workspaces_to_windows
    BY StartOfScene
  <2> DEFINE ws == active_workspace'
             w  == ww
  <2>3. /\ ws \in Workspaces /\ SwitchKey(ws, taking) /\ w \in Live /\ w = workspace_to_active[ws]
        /\ <<ws, w>> \in Rows /\ w \in posted /\ policy_data[w].old_state \notin HiddenStates
    BY <2>1, <2>2
  <2> HIDE DEF ws, ww
  <2>4. active' = w
    BY <2>3, SwitchRemembers
  <2> QED BY <2>4
<1> QED BY <1>1, TitlebarInvariance, PTL DEF TitlebarSpec, RememberedFocus

\* Activating another window changes the places of none of the rest.
LEMMA PushKeepsOrder ==
    ASSUME NEW S, NEW list \in Seq(S), NEW w, NEW x, NEW y, x # w, y # w
    PROVE  NotAfter(Push(list, w), x, y) <=> NotAfter(list, x, y)
<1> DEFINE n     == Len(list)
           short == Erase(list, w)
           long  == Push(list, w)
<1>1. n \in Nat /\ DOMAIN list = 1..n /\ list \in Seq(S \cup {w})
  BY LenProperties
<1>2. CASE w \notin Range(list)
  <2>1. short = list /\ long = Append(list, w)
    BY <1>2 DEF Erase, Push
  <2>2. DOMAIN long = 1..(n + 1) /\ long[n + 1] = w /\ \A i \in 1..n : long[i] = list[i]
    BY <1>1, <2>1, AppendProperties, LenProperties
  <2> HIDE DEF long, short, n
  <2>3. \A i \in 1..(n + 1) : long[i] # w => i \in 1..n
    BY <1>1, <2>2
  <2>4. ASSUME NotAfter(long, x, y) PROVE NotAfter(list, x, y)
    <3>1. PICK i, j \in DOMAIN long : i <= j /\ long[i] = x /\ long[j] = y
      BY <2>4 DEF NotAfter
    <3>2. i \in 1..n /\ j \in 1..n
      BY <2>2, <2>3, <3>1
    <3>3. list[i] = x /\ list[j] = y
      BY <2>2, <3>1, <3>2
    <3> QED BY <1>1, <3>1, <3>2, <3>3 DEF NotAfter
  <2>5. ASSUME NotAfter(list, x, y) PROVE NotAfter(long, x, y)
    <3>1. PICK i, j \in DOMAIN list : i <= j /\ list[i] = x /\ list[j] = y
      BY <2>5 DEF NotAfter
    <3>2. i \in 1..(n + 1) /\ j \in 1..(n + 1) /\ long[i] = x /\ long[j] = y
      BY <1>1, <2>2, <3>1
    <3> QED BY <2>2, <3>1, <3>2 DEF NotAfter
  <2> QED BY <2>4, <2>5 DEF long
<1>3. CASE w \in Range(list)
  <2> DEFINE gone == CHOOSE i \in DOMAIN list : list[i] = w
             cut  == [i \in 1..(n - 1) |-> IF i < gone THEN list[i] ELSE list[i + 1]]
  <2>1. gone \in 1..n /\ list[gone] = w
    BY <1>1, <1>3 DEF Range
  <2>2. short = cut
    BY <1>3 DEF Erase
  <2>3. long = Append(short, w)
    BY DEF Push
  <2> HIDE DEF gone, short, long, n
  <2>4. n - 1 \in Nat /\ \A i \in 1..(n - 1) : i \in 1..n /\ i + 1 \in 1..n
    BY <1>1, <2>1
  <2>5. cut \in Seq(S \cup {w}) /\ Len(cut) = n - 1
    <3>1. \A i \in 1..n : list[i] \in S \cup {w}
      BY <1>1
    <3>2. \A i \in 1..(n - 1) : (IF i < gone THEN list[i] ELSE list[i + 1]) \in S \cup {w}
      BY <2>4, <3>1
    <3>3. cut \in [1..(n - 1) -> S \cup {w}]
      BY <3>2
    <3> HIDE DEF cut
    <3> QED BY <2>4, <3>3, SeqDef, LenProperties
  <2>6. /\ DOMAIN long = 1..n /\ long[n] = w
        /\ \A i \in 1..(n - 1) : long[i] = cut[i]
    <3>1. /\ DOMAIN long = 1..(n - 1 + 1) /\ long[n - 1 + 1] = w
          /\ \A i \in 1..(n - 1) : long[i] = cut[i]
      <4> HIDE DEF cut
      <4>1. /\ Append(cut, w) \in Seq(S \cup {w}) /\ Len(Append(cut, w)) = n - 1 + 1
            /\ Append(cut, w)[n - 1 + 1] = w
            /\ \A i \in 1..(n - 1) : Append(cut, w)[i] = cut[i]
        BY <2>5, AppendProperties
      <4> QED BY <2>2, <2>3, <4>1, LenProperties
    <3>2. n - 1 + 1 = n
      BY <1>1
    <3> QED BY <3>1, <3>2
  <2>7. \A i \in 1..(n - 1) : long[i] = IF i < gone THEN list[i] ELSE list[i + 1]
    BY <2>6
  <2> HIDE DEF cut
  <2>8. \A i \in 1..n : long[i] # w => i \in 1..(n - 1)
    BY <1>1, <2>6
  <2>9. ASSUME NotAfter(long, x, y) PROVE NotAfter(list, x, y)
    <3>1. PICK i, j \in 1..n : i <= j /\ long[i] = x /\ long[j] = y
      BY <2>6, <2>9 DEF NotAfter
    <3>2. i \in 1..(n - 1) /\ j \in 1..(n - 1)
      BY <2>8, <3>1
    <3> DEFINE k == IF i < gone THEN i ELSE i + 1
               l == IF j < gone THEN j ELSE j + 1
    <3>3. k \in 1..n /\ l \in 1..n /\ k <= l
      BY <1>1, <2>1, <3>1, <3>2
    <3>4. list[k] = x /\ list[l] = y
      BY <2>7, <3>1, <3>2
    <3> HIDE DEF k, l
    <3> QED BY <1>1, <3>3, <3>4 DEF NotAfter
  <2>10. ASSUME NotAfter(list, x, y) PROVE NotAfter(long, x, y)
    <3>1. PICK i, j \in 1..n : i <= j /\ list[i] = x /\ list[j] = y
      BY <1>1, <2>10 DEF NotAfter
    <3>2. i # gone /\ j # gone
      BY <2>1, <3>1
    <3> DEFINE k == IF i < gone THEN i ELSE i - 1
               l == IF j < gone THEN j ELSE j - 1
    <3>3. /\ k \in 1..(n - 1) /\ l \in 1..(n - 1) /\ k <= l
          /\ i = IF k < gone THEN k ELSE k + 1
          /\ j = IF l < gone THEN l ELSE l + 1
      BY <1>1, <2>1, <3>1, <3>2
    <3> HIDE DEF k, l
    <3>4. long[k] = list[i] /\ long[l] = list[j]
      BY <2>7, <3>3
    <3>5. k \in 1..n /\ l \in 1..n
      BY <1>1, <3>3
    <3> QED BY <2>6, <3>1, <3>3, <3>4, <3>5 DEF NotAfter
  <2> QED BY <2>9, <2>10 DEF long
<1> QED BY <1>2, <1>3

\* One list has the windows of a set in the same order as another.
SameOrder(X, list, other) ==
    \A x, y \in X : NotAfter(list, x, y) <=> NotAfter(other, x, y)

\* What is true of every scene until the active window is hidden, if it is: the
\* others that are left have not been active, and are where they were.
InOrder(O) ==
    {s \in Scenes(window_info, wanted, {}) :
        ActiveIn(s) \notin O \ {active} /\ SameOrder(O, s.focus.mru, focus.mru)}

\* Nothing of that changes when a window that is not one of them is pushed.
LEMMA PushedAside ==
    ASSUME NEW foc, NEW new, NEW O, NEW x, NEW app, foc.mru \in Seq(Windows), x \notin O,
           Goes(foc, new, x, app), SameOrder(O, foc.mru, focus.mru)
    PROVE  SameOrder(O, new.mru, focus.mru)
<1>1. new.mru = Push(foc.mru, x)
  BY DEF Goes, Pushes
<1> SUFFICES ASSUME NEW y \in O, NEW z \in O
             PROVE  NotAfter(new.mru, y, z) <=> NotAfter(focus.mru, y, z)
  BY DEF SameOrder
<1>2. y # x /\ z # x
  OBVIOUS
<1>3. NotAfter(Push(foc.mru, x), y, z) <=> NotAfter(foc.mru, y, z)
  BY <1>2, PushKeepsOrder
<1> QED BY <1>1, <1>3 DEF SameOrder

\* Showing a window of another workspace.
LEMMA ShowingKeepsOrder ==
    ASSUME NEW O, NEW A, NoWindow \notin O, TablesOK(window_info), Acyclic(window_info),
           A \cap O = {}, ClosedUnderTrees(window_info, A),
           NEW c \in InOrder(O), NEW w \in A, w \in DOMAIN window_info, NEW rows
    PROVE  apply_workspace_visible_to(rows, c, w) \in InOrder(O)
<1> DEFINE new == apply_workspace_visible_to(rows, c, w)
           x   == Selected(new.info, Seen(new), w)
<1>1. /\ c \in Scenes(window_info, wanted, {}) /\ c \in Shapes(window_info, {})
      /\ ActiveIn(c) \notin O \ {active} /\ SameOrder(O, c.focus.mru, focus.mru)
  BY DEF InOrder, Scenes
<1>2. new \in Scenes(window_info, wanted, {})
  BY <1>1, Shows
<1>3. LET n == apply_workspace_visible_to(rows, c, w)
          z == Selected(n.info, Seen(n), w)
      IN  /\ \A y : y \in Seen(c) => y \in Seen(n)
          /\ \A y : y \in Seen(n) => y \in Seen(c) \/ y = w
          /\ ActiveIn(c) # NoWindow => n.focus = c.focus
          /\ ActiveIn(c) = NoWindow
               => \/ n.focus = c.focus /\ Range(c.focus.mru) \cap Seen(n) = {}
                  \/ z \in Seen(n) /\ Goes(c.focus, n.focus, z, c.info[z].app)
          /\ w \in Marked(c.data) /\ c.data[w].old_state \notin HiddenStates
               => /\ n.info = [c.info EXCEPT ![w].state = c.data[w].old_state]
                  /\ ActiveIn(c) = NoWindow /\ z # NoWindow
                       => Goes(c.focus, n.focus, z, c.info[z].app)
  BY <1>1, ShowStep
<1>4. /\ \A y : y \in Seen(c) => y \in Seen(new)
      /\ \A y : y \in Seen(new) => y \in Seen(c) \/ y = w
      /\ ActiveIn(c) # NoWindow => new.focus = c.focus
      /\ ActiveIn(c) = NoWindow
           => \/ new.focus = c.focus /\ Range(c.focus.mru) \cap Seen(new) = {}
              \/ x \in Seen(new) /\ Goes(c.focus, new.focus, x, c.info[x].app)
  BY <1>3
<1> HIDE DEF new
<1>5. new \in Shapes(window_info, {})
  BY <1>2 DEF Scenes
<1>6. /\ c.focus.mru \in Seq(Windows) /\ IsInjective(c.focus.mru) /\ NoWindow \notin Windows
      /\ DOMAIN window_info \subseteq Windows
  BY <1>1, SceneFacts, ConstantsAssumption
<1>7. /\ ActiveIn(new) = NoWindow <=> Range(new.focus.mru) \cap Seen(new) = {}
      /\ Seen(new) \subseteq DOMAIN window_info
  BY <1>5, SceneFacts
<1>8. CASE ActiveIn(c) # NoWindow
  <2>1. new.focus = c.focus /\ Seen(c) \subseteq Seen(new) /\ Seen(new) \subseteq Seen(c) \cup {w}
    BY <1>4, <1>8
  <2> DEFINE list == c.focus.mru
             old  == Seen(c)
             now  == Seen(new)
  <2>2. list \in Seq(Windows) /\ old \subseteq now /\ now \subseteq old \cup {w}
    BY <1>6, <2>1
  <2> HIDE DEF list, old, now
  <2>3. Newest(list, now) \in {w, Newest(list, old)}
    BY <1>6, <2>2, NewestAgain
  <2>4. ActiveIn(new) \in {w, ActiveIn(c)}
    BY <2>1, <2>3 DEF ActiveIn, Top, list, old, now
  <2>5. ActiveIn(new) \notin O \ {active}
    BY <1>1, <2>4
  <2> QED BY <1>1, <1>2, <2>1, <2>5 DEF InOrder, new
<1>9. CASE ActiveIn(c) = NoWindow /\ new.focus = c.focus /\ Range(c.focus.mru) \cap Seen(new) = {}
  <2>1. ActiveIn(new) = NoWindow
    BY <1>7, <1>9
  <2> QED BY <1>1, <1>2, <1>9, <2>1 DEF InOrder, new
<1>10. CASE ActiveIn(c) = NoWindow /\ x \in Seen(new) /\ Goes(c.focus, new.focus, x, c.info[x].app)
  <2>1. /\ DOMAIN new.info = DOMAIN window_info /\ IsFiniteSet(DOMAIN window_info)
        /\ InfoOK(new.info, open) /\ ChildrenOK(new.info) /\ NoWindow \notin DOMAIN window_info
        /\ \A y \in DOMAIN window_info : new.info[y].parent = window_info[y].parent
    BY <1>5, SceneFacts
  <2>2. ClosedUnderTrees(new.info, A)
    BY <2>1 DEF ClosedUnderTrees
  <2> DEFINE info    == new.info
             visible == Seen(new)
  <2>3. /\ w \in DOMAIN info /\ IsFiniteSet(DOMAIN info) /\ InfoOK(info, open) /\ ChildrenOK(info)
        /\ ClosedUnderTrees(info, A)
    BY <2>1, <2>2
  <2> HIDE DEF info, visible
  <2>4. Selected(info, visible, w) \in A \cup {NoWindow}
    BY <2>3, SelectedWithin
  <2>5. x \in A \cup {NoWindow}
    BY <2>4 DEF info, visible
  <2>6. x \in DOMAIN window_info
    BY <1>7, <1>10
  <2> HIDE DEF x
  <2>7. x \in A /\ x \notin O /\ x \in Windows /\ x \in Seen(new)
    BY <1>6, <1>10, <2>1, <2>5, <2>6
  <2>8. Goes(c.focus, new.focus, x, c.info[x].app)
    BY <1>10
  <2>9. SameOrder(O, new.focus.mru, focus.mru)
    BY <1>1, <1>6, <2>7, <2>8, PushedAside
  <2>10. ActiveIn(new) = x
    <3> DEFINE foc  == c.focus
               gone == new.focus
               app  == c.info[x].app
               seen == Seen(new)
    <3>1. /\ foc.mru \in Seq(Windows) /\ IsInjective(foc.mru) /\ x \in Windows /\ x \in seen
          /\ Goes(foc, gone, x, app)
      BY <1>6, <2>7, <2>8
    <3> HIDE DEF foc, gone, app, seen
    <3>2. Top(gone.mru, seen) = x
      BY <3>1, GoneTo
    <3> QED BY <3>2 DEF ActiveIn, gone, seen
  <2> QED BY <1>2, <2>7, <2>9, <2>10 DEF InOrder, new
<1> QED BY <1>4, <1>8, <1>9, <1>10

\* Hiding one that is left, but for the active one.
LEMMA HidingKeepsOrder ==
    ASSUME NEW O, TablesOK(window_info), Acyclic(window_info), O \subseteq DOMAIN window_info,
           NEW c \in InOrder(O), NEW w \in O \ {active}, NEW rows
    PROVE  apply_workspace_hidden_to(rows, c, w) \in InOrder(O)
<1> DEFINE new == apply_workspace_hidden_to(rows, c, w)
<1>1. /\ c \in Scenes(window_info, wanted, {}) /\ c \in Shapes(window_info, {})
      /\ ActiveIn(c) \notin O \ {active} /\ SameOrder(O, c.focus.mru, focus.mru)
      /\ w \in DOMAIN window_info
  BY DEF InOrder, Scenes
<1>2. new \in Scenes(window_info, wanted, {})
  BY <1>1, Hides
<1>3. /\ \A x : x \in Seen(new) <=> x \in Seen(c) /\ x # w
      /\ ActiveIn(c) # w => new.focus = c.focus
  BY <1>1, HideStep
<1> HIDE DEF new
<1>4. new.focus = c.focus /\ ActiveIn(c) # w
  BY <1>1, <1>3
<1> DEFINE list == c.focus.mru
           old  == Seen(c)
           now  == Seen(new)
<1>5. list \in Seq(Windows) /\ NoWindow \notin Windows
  BY <1>1, SceneFacts, ConstantsAssumption
<1>6. now \subseteq old /\ old \ {w} \subseteq now /\ Newest(list, old) # w
  BY <1>3, <1>4 DEF ActiveIn, Top
<1> HIDE DEF list, old, now
<1>7. Newest(list, now) = Newest(list, old)
  BY <1>5, <1>6, NewestAgain
<1>8. ActiveIn(new) = ActiveIn(c)
  BY <1>4, <1>7 DEF ActiveIn, Top, list, old, now
<1> QED BY <1>1, <1>2, <1>4, <1>8 DEF InOrder, new

\* Hiding that one moves the focus to a window that is still shown.
LEMMA HidingLastKeepsOrder ==
    ASSUME NEW O, TablesOK(window_info), Acyclic(window_info), O \subseteq DOMAIN window_info,
           NEW c \in InOrder(O), active \in O, O \ {active} \subseteq Marked(c.data), NEW rows
    PROVE  SameOrder(O, apply_workspace_hidden_to(rows, c, active).focus.mru, focus.mru)
<1> DEFINE new == apply_workspace_hidden_to(rows, c, active)
<1>1. /\ c \in Scenes(window_info, wanted, {}) /\ c \in Shapes(window_info, {})
      /\ SameOrder(O, c.focus.mru, focus.mru) /\ active \in DOMAIN window_info
      /\ Faithful(c, wanted)
  BY DEF InOrder, Scenes
<1>2. LET n == apply_workspace_hidden_to(rows, c, active) IN
      /\ \A x : x \in Seen(n) <=> x \in Seen(c) /\ x # active
      /\ ActiveIn(c) # active => n.focus = c.focus
      /\ ActiveIn(c) = active
           => \/ \E y \in Seen(n) : Goes(c.focus, n.focus, y, c.info[y].app)
              \/ Dropped(c.focus, n.focus) /\ Range(c.focus.mru) \cap Seen(n) = {}
  BY <1>1, HideStep
<1>3. /\ \A x : x \in Seen(new) <=> x \in Seen(c) /\ x # active
      /\ \/ new.focus = c.focus
         \/ \E y \in Seen(new) : Goes(c.focus, new.focus, y, c.info[y].app)
         \/ Dropped(c.focus, new.focus)
  BY <1>2
<1> HIDE DEF new
<1>4. /\ c.focus.mru \in Seq(Windows) /\ Seen(c) \subseteq DOMAIN window_info
      /\ \A x \in Seen(c) : c.info[x].state \notin HiddenStates
  BY <1>1, SceneFacts
<1>5. CASE new.focus = c.focus \/ Dropped(c.focus, new.focus)
  <2>1. new.focus.mru = c.focus.mru
    BY <1>5 DEF Dropped
  <2> QED BY <1>1, <2>1 DEF new
<1>6. CASE \E y \in Seen(new) : Goes(c.focus, new.focus, y, c.info[y].app)
  <2>1. PICK y \in Seen(new) : Goes(c.focus, new.focus, y, c.info[y].app)
    BY <1>6
  <2>2. y \notin Marked(c.data)
    <3>1. y \in Seen(c)
      BY <1>3, <2>1
    <3>2. c.info[y].state \notin HiddenStates
      BY <1>4, <3>1
    <3> QED BY <1>1, <3>2 DEF Faithful, HiddenStates
  <2>3. y \notin O
    BY <1>3, <2>1, <2>2
  <2>4. SameOrder(O, new.focus.mru, focus.mru)
    BY <1>1, <1>4, <2>1, <2>3, PushedAside
  <2> QED BY <2>4 DEF new
<1> QED BY <1>3, <1>5, <1>6

\* The switch as a whole.
LEMMA SwitchOrders ==
    ASSUME TitlebarInv, NEW ws \in Workspaces, NEW taking \in BOOLEAN, SwitchKey(ws, taking)
    PROVE  SameOrder(Left(ws, taking), focus'.mru, focus.mru)
<1> DEFINE rows == RowsAfter(ws, taking)
           A    == Shown(ws, taking)
           O    == Left(ws, taking)
           S    == InOrder(O)
           ww   == workspace_to_active[ws]
<1>1. /\ A \subseteq Live /\ O \subseteq Live /\ OneHome(rows, window_info)
      /\ \A x \in Live : /\ x \in A <=> <<ws, x>> \in rows
                         /\ x \in A => x \notin O
  BY SwitchRows
<1>2. /\ TablesOK(window_info) /\ Acyclic(window_info) /\ NoWindow \notin Live
      /\ Now \in Scenes(window_info, wanted, {}) /\ Now.focus = focus /\ Now.info = window_info
      /\ active \in Live \cup {NoWindow}
  BY StartOfScene, WindowTables, ActiveIsShown DEF TitlebarInv
<1>3. \/ Begun(ws) = Now
      \/ ww \in A /\ Begun(ws) = apply_workspace_visible_to(rows, Now, ww)
  BY BegunScene
<1> HIDE DEF rows, A, O, ww
<1>4. /\ A \subseteq DOMAIN window_info /\ O \subseteq DOMAIN window_info
      /\ A \cap O = {} /\ NoWindow \notin O
  BY <1>1, <1>2 DEF Live
<1>5. ClosedUnderTrees(window_info, A)
  BY <1>1, <1>2 DEF ClosedUnderTrees, OneHome, Live
<1>6. ShowingKeeps(rows, S, A)
  BY <1>2, <1>4, <1>5, ShowingKeepsOrder DEF ShowingKeeps
<1>7. HidingKeeps(rows, S, O \ {active})
  BY <1>2, <1>4, HidingKeepsOrder DEF HidingKeeps
<1>8. Now \in S
  <2>1. ActiveIn(Now) = active
    BY <1>2 DEF ActiveIn, Seen, active, VisibleSurfaces
  <2>2. SameOrder(O, Now.focus.mru, focus.mru)
    BY <1>2 DEF SameOrder
  <2> QED BY <1>2, <2>1, <2>2 DEF InOrder
<1>9. Begun(ws) \in S
  <2>1. \A w \in A : apply_workspace_visible_to(rows, Now, w) \in S
    BY <1>6, <1>8 DEF ShowingKeeps
  <2> QED BY <1>3, <1>8, <2>1
<1>10. S \in SUBSET Scenes(window_info, wanted, {})
  BY DEF InOrder
<1>11. \E hidden \in S :
              /\ \A x : x \in Marked(hidden.data) <=>
                          (x \in Marked(Begun(ws).data) /\ x \notin A) \/ (x \in O /\ x # active)
              /\ Leaves(IF active \in O
                        THEN apply_workspace_hidden_to(rows, hidden, active) ELSE hidden)
  <2> HIDE DEF S
  <2> QED BY <1>6, <1>7, <1>9, <1>10, SwitchChain DEF rows, A, O
<1>12. PICK hidden \in S :
              /\ \A x : x \in Marked(hidden.data) <=>
                          (x \in Marked(Begun(ws).data) /\ x \notin A) \/ (x \in O /\ x # active)
              /\ Leaves(IF active \in O
                        THEN apply_workspace_hidden_to(rows, hidden, active) ELSE hidden)
  BY <1>11
<1> DEFINE end == IF active \in O THEN apply_workspace_hidden_to(rows, hidden, active) ELSE hidden
<1>13. focus' = end.focus
  BY <1>12 DEF Leaves
<1>14. CASE active \in O
  <2>1. O \ {active} \subseteq Marked(hidden.data)
    BY <1>12
  <2>2. SameOrder(O, apply_workspace_hidden_to(rows, hidden, active).focus.mru, focus.mru)
    <3> HIDE DEF S
    <3>1. hidden \in InOrder(O)
      BY <1>12 DEF S
    <3> QED BY <1>2, <1>4, <1>14, <2>1, <3>1, HidingLastKeepsOrder
  <2> QED BY <1>13, <1>14, <2>2 DEF O
<1>15. CASE active \notin O
  BY <1>12, <1>13, <1>15 DEF InOrder, O
<1> QED BY <1>14, <1>15

\* A switch changes the order of none of the windows of the workspace that is
\* left on the MRU list: the focus cannot pass through those that are still
\* shown while the others are hidden, as the active window goes last.
THEOREM TitlebarKeepsOrder == TitlebarSpec => SwitchKeepsOrder
<1> DEFINE left == {w \in Windows : <<active_workspace, w>> \in workspaces_to_windows'}
           Kept == active_workspace' # active_workspace
                   => \A x, y \in left : NotAfter(focus'.mru, x, y) <=> NotAfter(focus.mru, x, y)
<1>1. TitlebarInv /\ [TitlebarNext]_shell_vars => Kept
  <2> SUFFICES ASSUME TitlebarInv, [TitlebarNext]_shell_vars, active_workspace' # active_workspace
               PROVE  SameOrder(left, focus'.mru, focus.mru)
    BY DEF SameOrder
  <2>1. PICK taking \in BOOLEAN :
            active_workspace' \in Workspaces /\ SwitchKey(active_workspace', taking)
    BY OnlyKeysSwitch
  <2> DEFINE ws == active_workspace'
  <2>2. ws \in Workspaces /\ SwitchKey(ws, taking)
    BY <2>1
  <2> HIDE DEF ws
  <2>3. SameOrder(Left(ws, taking), focus'.mru, focus.mru)
    BY <2>2, SwitchOrders
  <2>4. workspaces_to_windows' = RowsAfter(ws, taking)
    BY <2>2, SwitchRows
  <2>5. left = Left(ws, taking)
    BY <2>4 DEF Left, InWorkspace
  <2> QED BY <2>3, <2>5
<1> QED BY <1>1, TitlebarInvariance, PTL DEF TitlebarSpec, SwitchKeepsOrder

-----------------------------------------------------------------------------
(* The focus of the window manager, of Mir and of the policy.              *)

\* If any window of the MRU list is visible the newest is, and if Mir has the
\* focus in that one the policy knows.
Poised(foc, visible) ==
    \/ Range(foc.mru) \cap visible = {}
    \/ /\ foc.mru # <<>> /\ foc.mru[Len(foc.mru)] \in visible
       /\ foc.surface = foc.mru[Len(foc.mru)] => foc.told = {foc.mru[Len(foc.mru)]}

\* ... and it has.
Holds(foc, visible) ==
    \/ Range(foc.mru) \cap visible = {}
    \/ /\ foc.mru # <<>> /\ foc.mru[Len(foc.mru)] \in visible
       /\ foc.surface = foc.mru[Len(foc.mru)] /\ foc.told = {foc.mru[Len(foc.mru)]}

\* Both are so when the focus has just moved to a window,
LEMMA GonePoised ==
    ASSUME NEW foc, NEW new, NEW visible, NEW x \in Windows, x \in visible, NEW app,
           foc.mru \in Seq(Windows), IsInjective(foc.mru), Goes(foc, new, x, app)
    PROVE  Poised(new, visible) /\ Holds(new, visible) /\ Range(foc.mru) \subseteq Range(new.mru)
<1>1. new.mru = Push(foc.mru, x) /\ new.told = {x} /\ new.surface = x
  BY DEF Goes, Pushes
<1>2. /\ Push(foc.mru, x) # <<>> /\ Push(foc.mru, x)[Len(Push(foc.mru, x))] = x
      /\ Range(Push(foc.mru, x)) = Range(foc.mru) \cup {x}
  BY PushProperties
<1> DEFINE list == Push(foc.mru, x)
<1>3. list # <<>> /\ list[Len(list)] = x /\ Range(foc.mru) \subseteq Range(list)
  BY <1>2
<1>4. new.mru = list
  BY <1>1
<1> HIDE DEF list
<1> QED BY <1>1, <1>3, <1>4 DEF Poised, Holds

\* and stay so while the active window stays visible, if there is one.
LEMMA StillPoised ==
    ASSUME NEW foc, NEW old, NEW now, foc.mru \in Seq(Windows),
           \/ Range(foc.mru) \cap now = {}
           \/ Top(foc.mru, old) # NoWindow /\ Top(foc.mru, old) \in now
    PROVE  /\ Poised(foc, old) => Poised(foc, now)
           /\ Holds(foc, old) => Holds(foc, now)
<1>1. CASE Range(foc.mru) \cap now = {}
  BY <1>1 DEF Poised, Holds
<1>2. CASE Top(foc.mru, old) # NoWindow /\ Top(foc.mru, old) \in now
  <2>1. Range(foc.mru) \cap old # {}
    BY <1>2, NewestProperties, ConstantsAssumption DEF Top
  <2>2. foc.mru # <<>> /\ foc.mru[Len(foc.mru)] \in old => Top(foc.mru, old) = foc.mru[Len(foc.mru)]
    BY NewestProperties, ConstantsAssumption DEF Top
  <2> QED BY <1>2, <2>1, <2>2 DEF Poised, Holds
<1> QED BY <1>1, <1>2

\* The operations that only move the focus.
LEMMA SelectPoised ==
    ASSUME NEW foc, NEW info, NEW seen, NEW visible, NEW open_, NEW hint,
           FocusOK(foc, info, seen, visible, open_), InfoOK(info, open_),
           visible \subseteq seen, visible \subseteq Windows, open_ \subseteq Apps,
           Poised(foc, visible)
    PROVE  Poised(select_active_window(foc, info, visible, hint), visible)
<1> DEFINE new  == select_active_window(foc, info, visible, hint)
           x    == Selected(info, visible, hint)
           prev == Top(foc.mru, visible)
<1>1. foc \in Foci /\ foc.mru \in Seq(Windows) /\ IsInjective(foc.mru) /\ NoWindow \notin Windows
  BY ConstantsAssumption DEF FocusOK, Foci
<1>2. /\ hint # NoWindow /\ x # NoWindow => x \in visible /\ Goes(foc, new, x, info[x].app)
      /\ hint # NoWindow /\ x = NoWindow => new = foc
  BY SelectMoves
<1>3. hint = NoWindow => new = IF prev # NoWindow THEN Deactivate(foc, prev) ELSE foc
  BY DEF select_active_window
<1> HIDE DEF new, x
<1>4. CASE hint # NoWindow /\ x # NoWindow
  BY <1>1, <1>2, <1>4, GonePoised DEF new
<1>5. CASE new = foc
  BY <1>5 DEF new
<1>6. CASE hint = NoWindow /\ prev # NoWindow
  <2>1. Deactivate(foc, prev).mru = foc.mru /\ Deactivate(foc, prev).surface = NoWindow
    BY <1>1 DEF Deactivate, FocusLost, Foci
  <2>2. new.mru = foc.mru /\ new.surface = NoWindow
    BY <1>3, <1>6, <2>1
  <2>3. NoWindow \notin visible
    BY <1>1
  <2>4. Poised(new, visible)
    BY <2>2, <2>3 DEF Poised
  <2> QED BY <2>4 DEF new
<1> QED BY <1>2, <1>3, <1>4, <1>5, <1>6

LEMMA NextApplicationPoised ==
    ASSUME NEW foc, NEW info, NEW seen, NEW visible, NEW rows, NEW apps, NEW first,
           sessions \in Seq(Apps), FocusOK(foc, info, seen, visible, Range(sessions)),
           foc.session = NoApp /\ sessions # <<>> => first \in Range(sessions),
           InfoOK(info, Range(sessions)), ChildrenOK(info), Acyclic(info),
           IsFiniteSet(DOMAIN info), AppsOK(apps, info),
           visible \subseteq seen, visible \subseteq Windows, Poised(foc, visible),
           \A x \in visible : info[x].state \notin HiddenStates
    PROVE  Poised(focus_next_application(foc, apps, info, visible, rows, first), visible)
<1> DEFINE new   == focus_next_application(foc, apps, info, visible, rows, first)
           open_ == Range(sessions)
<1>1. SelectsFrom(foc, new, info, seen, visible, open_)
  BY NextApplicationSelects
<1>2. /\ open_ \subseteq Apps /\ NoWindow \notin Windows
      /\ InfoOK(info, open_) /\ visible \subseteq seen /\ visible \subseteq Windows
  BY ConstantsAssumption DEF Range
<1> HIDE DEF new
<1>3. PICK base, hint :
          /\ FocusOK(base, info, seen, visible, open_)
          /\ SameWindows(foc, base)
          /\ new = select_active_window(base, info, visible, hint)
          /\ \/ hint = base.surface
             \/ hint # NoWindow /\ \E among : hint = Candidate(foc, info, visible, among)
  BY <1>1 DEF SelectsFrom
<1>4. base \in Foci /\ base.mru \in Seq(Windows) /\ IsInjective(base.mru)
  BY <1>3 DEF FocusOK, Foci
<1> DEFINE x    == Selected(info, visible, hint)
           last == base.mru[Len(base.mru)]
<1>5. /\ hint # NoWindow /\ x # NoWindow => x \in visible /\ Goes(base, new, x, info[x].app)
      /\ hint # NoWindow /\ x = NoWindow => new = base
  <2> HIDE DEF open_
  <2> QED BY <1>2, <1>3, SelectMoves
<1> HIDE DEF x
<1>6. CASE hint # NoWindow /\ x # NoWindow
  BY <1>4, <1>5, <1>6, GonePoised DEF new
\* Mir has the focus in a window that cannot be active, or in none.
<1>7. CASE base.mru = <<>> \/ last \notin visible \/ base.surface # last
  <2>1. Poised(base, visible)
    BY <1>3, <1>7 DEF Poised, SameWindows
  <2>2. Poised(new, visible)
    <3> HIDE DEF open_
    <3> QED BY <1>2, <1>3, <2>1, SelectPoised
  <2> QED BY <2>2 DEF new
<1>8. CASE base.mru # <<>> /\ last \in visible /\ base.surface = last /\ (hint = NoWindow \/ x = NoWindow)
  <2>1. hint # NoWindow
    BY <1>2, <1>3, <1>8
  <2>2. ASSUME NEW among, hint = Candidate(foc, info, visible, among) PROVE FALSE
    <3> HIDE DEF open_
    <3>1. Selected(info, visible, hint) # NoWindow
      BY <2>1, <2>2, CandidateProperties DEF open_
    <3> QED BY <1>8, <2>1, <3>1 DEF x
  <2>3. hint = last
    BY <1>3, <1>8, <2>2
  <2>4. last \in Range(base.mru)
    BY <1>4, <1>8, EmptySeq, LenProperties DEF Range
  <2>5. last \in DOMAIN info /\ can_be_active(info[last].type)
    BY <1>3, <2>4 DEF FocusOK
  <2>6. last \in Activatable(info, visible)
    BY <1>8, <2>5 DEF Activatable, is_visible
  <2> HIDE DEF last, open_
  <2>7. Selected(info, visible, last) # NoWindow
    BY <2>6, ActivatableIsSelected DEF open_
  <2> QED BY <1>8, <2>1, <2>3, <2>7 DEF x
<1> QED BY <1>6, <1>7, <1>8

LEMMA WithinApplicationPoised ==
    ASSUME NEW foc, NEW info, NEW seen, NEW visible, NEW rows, NEW siblings, NEW open_,
           FocusOK(foc, info, seen, visible, open_), InfoOK(info, open_), open_ \subseteq Apps,
           visible \subseteq seen, visible \subseteq Windows, Poised(foc, visible),
           Top(foc.mru, visible) # NoWindow
    PROVE  Poised(focus_within_application(foc, info, visible, rows, siblings,
                                           Top(foc.mru, visible)), visible)
<1> DEFINE prev  == Top(foc.mru, visible)
           again == Activate(foc, prev, info[prev].app, prev)
           new   == focus_within_application(foc, info, visible, rows, siblings, prev)
<1>1. /\ DOMAIN info \subseteq Windows /\ foc.mru \in Seq(Windows) /\ IsInjective(foc.mru)
      /\ NoWindow \notin Windows
  BY ConstantsAssumption DEF InfoOK, FocusOK, Foci
<1>2. prev \in Range(foc.mru) /\ prev \in visible
  BY <1>1, NewestProperties DEF Top
<1>3. prev \in DOMAIN info /\ can_be_active(info[prev].type) /\ info[prev].app \in open_
  BY <1>2 DEF FocusOK, InfoOK
<1>4. FocusOK(again, info, seen, visible, open_) /\ Goes(foc, again, prev, info[prev].app)
  <2> HIDE DEF prev
  <2>1. /\ FocusOK(Activate(foc, Top(foc.mru, visible), info[prev].app, prev), info, seen, visible, open_)
        /\ Goes(foc, Activate(foc, Top(foc.mru, visible), info[prev].app, prev),
                prev, info[prev].app)
    BY <1>1, <1>2, <1>3, ActivatePreserves, ActivateGoes
  <2> QED BY <2>1 DEF prev
<1>5. \E base \in {foc, again} :
         \/ new = base
         \/ \E hint : new = select_active_window(base, info, visible, hint)
  <2> HIDE DEF prev
  <2> QED BY Zenon DEF focus_within_application
<1> HIDE DEF again, new, prev
<1>6. Poised(again, visible)
  BY <1>1, <1>2, <1>4, GonePoised
<1>7. Poised(new, visible)
  BY <1>4, <1>5, <1>6, SelectPoised
<1> QED BY <1>7 DEF new, prev

\* A change of the focus that loses neither, and no window of the MRU list.
StaysPoised(foc, new, old, now) ==
    /\ Poised(foc, old) => Poised(new, now)
    /\ Holds(foc, old) => Holds(new, now)
    /\ Range(foc.mru) \subseteq Range(new.mru)

LEMMA MoveSettles ==
    ASSUME NEW foc, NEW new, NEW old, NEW now, foc.mru \in Seq(Windows), IsInjective(foc.mru),
           now \subseteq Windows,
           \/ new = foc /\ Range(foc.mru) \cap now = {}
           \/ new = foc /\ Top(foc.mru, old) # NoWindow /\ Top(foc.mru, old) \in now
           \/ Dropped(foc, new) /\ Range(foc.mru) \cap now = {}
           \/ \E x \in now : \E app : Goes(foc, new, x, app)
    PROVE  StaysPoised(foc, new, old, now)
<1>1. CASE new = foc /\ Range(foc.mru) \cap now = {}
  BY <1>1 DEF StaysPoised, Poised, Holds
<1>2. CASE Dropped(foc, new) /\ Range(foc.mru) \cap now = {}
  BY <1>2 DEF StaysPoised, Poised, Holds, Dropped
<1>3. CASE \E x \in now : \E app : Goes(foc, new, x, app)
  <2>1. PICK x \in now : \E app : Goes(foc, new, x, app)
    BY <1>3
  <2>2. PICK app : Goes(foc, new, x, app)
    BY <2>1
  <2> QED BY <2>2, GonePoised DEF StaysPoised
<1>4. CASE new = foc /\ Top(foc.mru, old) # NoWindow /\ Top(foc.mru, old) \in now
  BY <1>4, StillPoised DEF StaysPoised
<1> QED BY <1>1, <1>2, <1>3, <1>4

\* Hiding and showing are such changes.
LEMMA HideSettles ==
    ASSUME NEW base, NEW late, NEW want, NEW s \in Scenes(base, want, late), TablesOK(base),
           Acyclic(base), NEW rows, NEW w \in DOMAIN base
    PROVE  LET new == apply_workspace_hidden_to(rows, s, w)
           IN  StaysPoised(s.focus, new.focus, Seen(s), Seen(new))
<1> DEFINE new == apply_workspace_hidden_to(rows, s, w)
           foc == s.focus
           fon == new.focus
           old == Seen(s)
           now == Seen(new)
<1>1. /\ \A x : x \in now <=> x \in old /\ x # w
      /\ ActiveIn(s) # w => fon = foc
      /\ ActiveIn(s) = w
           => \/ \E y \in now : Goes(foc, fon, y, s.info[y].app)
              \/ Dropped(foc, fon) /\ Range(foc.mru) \cap now = {}
  BY HideStep
<1>2. s \in Shapes(base, late)
  BY DEF Scenes
<1>3. /\ foc.mru \in Seq(Windows) /\ IsInjective(foc.mru) /\ old \subseteq Windows
      /\ ActiveIn(s) \in (Range(foc.mru) \cap old) \cup {NoWindow}
      /\ ActiveIn(s) = NoWindow <=> Range(foc.mru) \cap old = {}
      /\ ActiveIn(s) = Top(foc.mru, old)
  BY <1>2, SceneFacts DEF ActiveIn
<1> HIDE DEF foc, fon, old, now
<1>4. now \subseteq Windows
  BY <1>1, <1>3
<1>5. \/ fon = foc /\ Range(foc.mru) \cap now = {}
      \/ fon = foc /\ Top(foc.mru, old) # NoWindow /\ Top(foc.mru, old) \in now
      \/ Dropped(foc, fon) /\ Range(foc.mru) \cap now = {}
      \/ \E x \in now : \E app : Goes(foc, fon, x, app)
  <2>1. CASE ActiveIn(s) = w
    BY <1>1, <2>1
  <2>2. CASE ActiveIn(s) # w /\ ActiveIn(s) = NoWindow
    BY <1>1, <1>3, <2>2
  <2>3. CASE ActiveIn(s) # w /\ ActiveIn(s) # NoWindow
    BY <1>1, <1>3, <2>3
  <2> QED BY <2>1, <2>2, <2>3
<1>6. StaysPoised(foc, fon, old, now)
  BY <1>3, <1>4, <1>5, MoveSettles
<1> QED BY <1>6 DEF foc, fon, old, now

LEMMA ShowSettles ==
    ASSUME NEW base, NEW late, NEW want, NEW s \in Scenes(base, want, late), TablesOK(base),
           Acyclic(base), NEW rows, NEW w \in DOMAIN base
    PROVE  LET new == apply_workspace_visible_to(rows, s, w)
           IN  StaysPoised(s.focus, new.focus, Seen(s), Seen(new))
<1> DEFINE new == apply_workspace_visible_to(rows, s, w)
           foc == s.focus
           fon == new.focus
           old == Seen(s)
           now == Seen(new)
           x   == Selected(new.info, Seen(new), w)
<1>1. LET n == apply_workspace_visible_to(rows, s, w)
          z == Selected(n.info, Seen(n), w)
      IN  /\ \A y : y \in Seen(s) => y \in Seen(n)
          /\ \A y : y \in Seen(n) => y \in Seen(s) \/ y = w
          /\ ActiveIn(s) # NoWindow => n.focus = s.focus
          /\ ActiveIn(s) = NoWindow
               => \/ n.focus = s.focus /\ Range(s.focus.mru) \cap Seen(n) = {}
                  \/ z \in Seen(n) /\ Goes(s.focus, n.focus, z, s.info[z].app)
          /\ w \in Marked(s.data) /\ s.data[w].old_state \notin HiddenStates
               => /\ n.info = [s.info EXCEPT ![w].state = s.data[w].old_state]
                  /\ ActiveIn(s) = NoWindow /\ z # NoWindow
                       => Goes(s.focus, n.focus, z, s.info[z].app)
  BY ShowStep
<1>2. /\ \A y : y \in old => y \in now
      /\ \A y : y \in now => y \in old \/ y = w
      /\ ActiveIn(s) # NoWindow => fon = foc
      /\ ActiveIn(s) = NoWindow
           => \/ fon = foc /\ Range(foc.mru) \cap now = {}
              \/ x \in now /\ Goes(foc, fon, x, s.info[x].app)
  BY <1>1
<1>3. s \in Shapes(base, late)
  BY DEF Scenes
<1>4. /\ foc.mru \in Seq(Windows) /\ IsInjective(foc.mru) /\ old \subseteq Windows
      /\ ActiveIn(s) \in (Range(foc.mru) \cap old) \cup {NoWindow}
      /\ ActiveIn(s) = Top(foc.mru, old) /\ w \in Windows
  BY <1>3, SceneFacts DEF ActiveIn
<1> HIDE DEF foc, fon, old, now, x
<1>5. now \subseteq Windows
  BY <1>2, <1>4
<1>6. \/ fon = foc /\ Range(foc.mru) \cap now = {}
      \/ fon = foc /\ Top(foc.mru, old) # NoWindow /\ Top(foc.mru, old) \in now
      \/ Dropped(foc, fon) /\ Range(foc.mru) \cap now = {}
      \/ \E y \in now : \E app : Goes(foc, fon, y, app)
  <2>1. CASE ActiveIn(s) = NoWindow
    BY <1>2, <2>1
  <2>2. CASE ActiveIn(s) # NoWindow
    BY <1>2, <1>4, <2>2
  <2> QED BY <2>1, <2>2
<1>7. StaysPoised(foc, fon, old, now)
  BY <1>4, <1>5, <1>6, MoveSettles
<1> QED BY <1>7 DEF foc, fon, old, now

\* In every state the newest window that could be active is, if it has been so,
\* unless a click on the background took the focus from it.
FocusPoised == Poised(focus, VisibleSurfaces(window_info))

SettledInv == TitlebarInv /\ FocusPoised

LEMMA FramePoised ==
    ASSUME TitlebarInv, FocusPoised, NEW w \in Live, frame_posted(w)
    PROVE  FocusPoised'
<1>1. /\ shown \subseteq posted /\ focus.mru \in Seq(Windows) /\ NoWindow \notin Windows
      /\ Range(focus.mru) \subseteq posted
  BY StartOfStep DEF TitlebarInv
<1>2. /\ focus' = focus /\ window_info' = window_info /\ posted' = posted \cup {w} /\ w \notin posted
  BY DEF frame_posted
<1>3. shown \subseteq shown' /\ shown' \subseteq shown \cup {w}
  BY <1>2 DEF shown, VisibleSurfaces
<1>4. Top(focus.mru, shown) \in (Range(focus.mru) \cap shown) \cup {NoWindow}
      /\ (Top(focus.mru, shown) = NoWindow => Range(focus.mru) \cap shown = {})
  BY <1>1, NewestProperties DEF Top
<1>5. \/ Range(focus.mru) \cap shown' = {}
      \/ Top(focus.mru, shown) # NoWindow /\ Top(focus.mru, shown) \in shown'
  BY <1>1, <1>2, <1>3, <1>4
<1>6. Poised(focus, shown)
  BY DEF FocusPoised, shown
<1>7. Poised(focus, shown')
  BY <1>1, <1>5, <1>6, StillPoised
<1> QED BY <1>2, <1>7 DEF FocusPoised, shown

\* What the operations that only move the focus start from.
LEMMA StartPoised ==
    ASSUME TitlebarInv, FocusPoised
    PROVE  /\ FocusOK(focus, window_info, posted, shown, Range(sessions))
           /\ InfoOK(window_info, Range(sessions)) /\ ChildrenOK(window_info)
           /\ Acyclic(window_info) /\ IsFiniteSet(DOMAIN window_info)
           /\ AppsOK(app_info, window_info)
           /\ shown \subseteq posted /\ shown \subseteq Windows /\ Range(sessions) \subseteq Apps
           /\ sessions \in Seq(Apps) /\ Poised(focus, shown)
           /\ active = Top(focus.mru, shown) /\ shown = VisibleSurfaces(window_info)
           /\ \A x \in shown : window_info[x].state \notin HiddenStates
<1>1. Inv /\ Acyclic(window_info)
  BY DEF TitlebarInv
<1>2. IsFiniteSet(DOMAIN window_info)
  BY <1>1, FiniteWindows, FS_Subset, StartOfStep DEF Live
<1>3. Poised(focus, shown) /\ active = Top(focus.mru, shown) /\ shown = VisibleSurfaces(window_info)
      /\ \A x \in shown : window_info[x].state \notin HiddenStates
  BY DEF FocusPoised, shown, active, VisibleSurfaces
<1> QED BY <1>1, <1>2, <1>3, StartOfStep

LEMMA ArrivesPoised == TitlebarInv /\ FocusPoised /\ Arrives => FocusPoised'
<1> SUFFICES ASSUME TitlebarInv, FocusPoised, Arrives PROVE FocusPoised'
  OBVIOUS
<1>1. ASSUME NEW w \in Live, frame_posted(w) PROVE FocusPoised'
  BY <1>1, FramePoised
<1>2. ASSUME NEW w \in ready, handle_window_ready(w) PROVE FocusPoised'
  <2>1. /\ window_info' = window_info /\ posted' = posted
        /\ focus' \in {focus, select_active_window(focus, window_info, shown, w)}
    BY <1>2 DEF handle_window_ready, shown
  <2>2. shown' = shown /\ Poised(focus, shown)
    BY <2>1, StartPoised DEF shown, VisibleSurfaces
  <2>3. Poised(select_active_window(focus, window_info, shown, w), shown)
    BY StartPoised, SelectPoised
  <2>4. Poised(focus', shown')
    BY <2>1, <2>2, <2>3
  <2> QED BY <2>4 DEF FocusPoised, shown
<1> QED BY <1>1, <1>2 DEF Arrives

LEMMA RefocusedPoised == TitlebarInv /\ FocusPoised /\ Refocused => FocusPoised'
<1> SUFFICES ASSUME TitlebarInv, FocusPoised, Refocused PROVE FocusPoised'
  OBVIOUS
<1>1. ASSUME window_info' = window_info, posted' = posted, Poised(focus', shown)
      PROVE  FocusPoised'
  BY <1>1 DEF FocusPoised, shown, VisibleSurfaces
<1>2. ASSUME NEW hint, select_window(hint) PROVE FocusPoised'
  <2>1. /\ window_info' = window_info /\ posted' = posted
        /\ focus' = select_active_window(focus, window_info, shown, hint)
    BY <1>2 DEF select_window, shown
  <2>2. Poised(select_active_window(focus, window_info, shown, hint), shown)
    BY StartPoised, SelectPoised
  <2> QED BY <1>1, <2>1, <2>2
<1>3. ASSUME NEW first \in FirstSessions, next_application(first) PROVE FocusPoised'
  <2>1. /\ window_info' = window_info /\ posted' = posted
        /\ focus' = focus_next_application(focus, app_info, window_info, shown, Rows, first)
    BY <1>3 DEF next_application, shown
  <2>2. focus.session = NoApp /\ sessions # <<>> => first \in Range(sessions)
    BY StartOfOperation DEF TitlebarInv
  <2>3. Poised(focus_next_application(focus, app_info, window_info, shown, Rows, first), shown)
    BY <2>2, StartPoised, NextApplicationPoised
  <2> QED BY <1>1, <2>1, <2>3
<1>4. ASSUME NEW siblings, within_application(siblings) PROVE FocusPoised'
  <2>1. /\ window_info' = window_info /\ posted' = posted
        /\ focus' = focus_within_application(focus, window_info, shown, Rows, siblings, active)
        /\ active # NoWindow
    BY <1>4 DEF within_application, shown
  <2>2. active = Top(focus.mru, shown)
    BY StartPoised
  <2>3. Poised(focus_within_application(focus, window_info, shown, Rows, siblings,
                                        Top(focus.mru, shown)), shown)
    BY <2>1, <2>2, StartPoised, WithinApplicationPoised
  <2> QED BY <1>1, <2>1, <2>2, <2>3
<1> QED BY <1>2, <1>3, <1>4 DEF Refocused, focus_next_within_application, focus_prev_within_application

\* set_state() is such a change too.
LEMMA StateSettles ==
    ASSUME NEW foc, NEW info, NEW rows, NEW w \in DOMAIN info, NEW value \in WindowStates,
           open \subseteq Apps, InfoOK(info, open), ChildrenOK(info), Acyclic(info),
           FocusOK(foc, info, posted, VisibleSurfaces(info), open)
    PROVE  StaysPoised(foc, FocusAfterState(foc, info, rows, w, value),
                   VisibleSurfaces(info), VisibleSurfaces([info EXCEPT ![w].state = value]))
<1> DEFINE old   == VisibleSurfaces(info)
           after == [info EXCEPT ![w].state = value]
           now   == VisibleSurfaces(after)
           new   == FocusAfterState(foc, info, rows, w, value)
<1>1. /\ foc.mru \in Seq(Windows) /\ IsInjective(foc.mru) /\ old \subseteq Windows
      /\ DOMAIN info \subseteq Windows /\ NoWindow \notin Windows
  BY ConstantsAssumption DEF FocusOK, Foci, InfoOK, VisibleSurfaces
<1>2. /\ DOMAIN after = DOMAIN info
      /\ \A x \in DOMAIN info : after[x].state = IF x = w THEN value ELSE info[x].state
  BY OtherState
<1>3. now \subseteq Windows
  BY <1>1, <1>2 DEF VisibleSurfaces
<1>4. /\ Top(foc.mru, old) \in (Range(foc.mru) \cap old) \cup {NoWindow}
      /\ Top(foc.mru, old) = NoWindow => Range(foc.mru) \cap old = {}
  <2> HIDE DEF old
  <2> QED BY <1>1, NewestProperties DEF Top
<1>5. \/ new = foc /\ Range(foc.mru) \cap now = {}
      \/ new = foc /\ Top(foc.mru, old) # NoWindow /\ Top(foc.mru, old) \in now
      \/ Dropped(foc, new) /\ Range(foc.mru) \cap now = {}
      \/ \E x \in now : \E app : Goes(foc, new, x, app)
  <2>1. CASE value \in HiddenStates
    <3>1. /\ now = old \ {w}
          /\ Top(foc.mru, old) # w => new = foc
          /\ Top(foc.mru, old) = w
               => \/ \E y \in now : Goes(foc, new, y, info[y].app)
                  \/ Dropped(foc, new) /\ Range(foc.mru) \cap now = {}
      BY <2>1, HidingMoves
    <3> HIDE DEF old, now, new
    <3>2. CASE Top(foc.mru, old) = w
      BY <3>1, <3>2
    <3>3. CASE Top(foc.mru, old) # w
      BY <1>4, <3>1, <3>3
    <3> QED BY <3>2, <3>3
  <2>2. CASE value \notin HiddenStates /\ info[w].state \in HiddenStates
    <3> DEFINE x == Selected(after, now, w)
    <3>0. LET was == VisibleSurfaces(info)
              next == [info EXCEPT ![w].state = value]
              is == VisibleSurfaces(next)
              y == Selected(next, is, w)
              n == FocusAfterState(foc, info, rows, w, value)
          IN  /\ w \notin was /\ is = was \cup ({w} \cap posted)
              /\ Top(foc.mru, was) # NoWindow => n = foc
              /\ Top(foc.mru, was) = NoWindow /\ y = NoWindow
                   => n = foc /\ Range(foc.mru) \cap is = {}
              /\ Top(foc.mru, was) = NoWindow /\ y # NoWindow
                   => y \in is /\ Goes(foc, n, y, info[y].app)
      BY <2>2, ShowingMoves
    <3>1. /\ now = old \cup ({w} \cap posted)
          /\ Top(foc.mru, old) # NoWindow => new = foc
          /\ Top(foc.mru, old) = NoWindow /\ x = NoWindow
               => new = foc /\ Range(foc.mru) \cap now = {}
          /\ Top(foc.mru, old) = NoWindow /\ x # NoWindow
               => x \in now /\ Goes(foc, new, x, info[x].app)
      BY <3>0
    <3> HIDE DEF old, now, new, x
    <3>2. CASE Top(foc.mru, old) = NoWindow
      BY <3>1, <3>2
    <3>3. CASE Top(foc.mru, old) # NoWindow
      BY <1>4, <3>1, <3>3
    <3> QED BY <3>2, <3>3
  <2>3. CASE value \notin HiddenStates /\ info[w].state \notin HiddenStates
    <3>1. new = foc
      BY <2>3 DEF FocusAfterState
    <3>2. now = old
      BY <1>2, <2>3 DEF VisibleSurfaces
    <3> HIDE DEF old, now, new
    <3> QED BY <1>4, <3>1, <3>2
  <2> QED BY <2>1, <2>2, <2>3
<1> HIDE DEF old, now, new
<1>6. StaysPoised(foc, new, old, now)
  BY <1>1, <1>3, <1>5, MoveSettles
<1> QED BY <1>6 DEF old, now, new

LEMMA StatedPoised ==
    ASSUME TitlebarInv, FocusPoised, NEW w \in Live, NEW value \in WindowStates,
           Leaves(Stated(Rows, Now, w, value)), posted' = posted
    PROVE  FocusPoised'
<1> DEFINE foc == FocusAfterState(focus, window_info, Rows, w, value)
<1>1. /\ Now \in Shapes(window_info, {}) /\ TablesOK(window_info) /\ w \in DOMAIN window_info
      /\ Now.focus = focus /\ Now.info = window_info
  BY StartOfScene DEF Scenes, Live
<1>2. focus' = foc /\ window_info' = [window_info EXCEPT ![w].state = value]
  BY <1>1, StatedParts DEF Leaves
<1>3. /\ FocusOK(focus, window_info, posted, VisibleSurfaces(window_info), open)
      /\ InfoOK(window_info, open) /\ ChildrenOK(window_info) /\ Acyclic(window_info)
      /\ open \subseteq Apps
  BY <1>1, StartOfOperation DEF TitlebarInv, TablesOK, open
<1>4. StaysPoised(focus, foc, VisibleSurfaces(window_info),
              VisibleSurfaces([window_info EXCEPT ![w].state = value]))
  BY <1>1, <1>3, StateSettles
<1>5. Poised(focus', VisibleSurfaces(window_info'))
  BY <1>2, <1>4 DEF StaysPoised, FocusPoised
<1> QED BY <1>5 DEF FocusPoised, VisibleSurfaces

LEMMA StateRequestPoised ==
    \A w \in Live, state \in States :
        TitlebarInv /\ FocusPoised /\ StateRequest(w, state) => FocusPoised'
<1> SUFFICES ASSUME NEW w \in Live, NEW state \in States, TitlebarInv, FocusPoised,
                    StateRequest(w, state)
             PROVE  FocusPoised'
  OBVIOUS
<1>1. posted' = posted /\ state \in WindowStates
  BY ConstantsAssumption DEF StateRequest
<1>2. CASE policy_data[w].in_hidden_workspace
  <2>1. focus' = focus /\ window_info' = window_info
    BY <1>2 DEF StateRequest, handle_modify_window, Leaves, Scene
  <2> QED BY <1>1, <2>1 DEF FocusPoised, VisibleSurfaces
<1>3. CASE ~policy_data[w].in_hidden_workspace
  <2>1. Leaves(Stated(Rows, Now, w, state))
    BY <1>3 DEF StateRequest, handle_modify_window, Now
  <2> QED BY <1>1, <2>1, StatedPoised
<1> QED BY <1>2, <1>3

LEMMA TogglePoised ==
    \A state \in Toggles : TitlebarInv /\ FocusPoised /\ toggle(state) => FocusPoised'
<1> SUFFICES ASSUME NEW state \in Toggles, TitlebarInv, FocusPoised, toggle(state)
             PROVE  FocusPoised'
  OBVIOUS
<1> DEFINE value == IF window_info[active].state = state THEN "restored" ELSE state
<1>1. posted' = posted /\ active \in Live /\ Leaves(Stated(Rows, Now, active, value))
  BY ActiveIsShown DEF toggle, Now
<1>2. value \in WindowStates
  BY TitlebarAssumption DEF WindowStates
<1> HIDE DEF value
<1> QED BY <1>1, <1>2, StatedPoised

LEMMA RemovalPoised ==
    \A w \in Live, first \in FirstSessions :
        TitlebarInv /\ FocusPoised /\ Removal(w, first) => FocusPoised'
<1> SUFFICES ASSUME NEW w \in Live, NEW first \in FirstSessions, TitlebarInv, FocusPoised,
                    Removal(w, first)
             PROVE  FocusPoised'
  OBVIOUS
<1> DEFINE info    == erase(window_info, w)
           wss     == workspaces_containing(Rows, w)
           rows    == {row \in Rows : row[2] # w}
           visible == VisibleSurfaces(info)
           removed == Removed(w)
           new     == refocus(removed, app_info', info, visible, rows, window_info[w].app,
                              window_info[w].parent, wss, first)
<1>0. remove_window(w, first) /\ Inv
  BY DEF Removal, remove_surface, TitlebarInv
<1>1. TitlebarInv'
  BY RemovalPreserves
<1>2. /\ window_info' = info /\ posted' = posted \ {w} /\ sessions' = sessions
      /\ focus' = IF active = w THEN new ELSE removed
  BY <1>0, Zenon DEF remove_window, Removed
<1>3. /\ DOMAIN info = Live \ {w}
      /\ \A x \in Live \ {w} : info[x].state = window_info[x].state
  <2> DEFINE all == Range(sessions)
  <2>1. InfoOK(window_info, all) /\ ChildrenOK(window_info) /\ w \in DOMAIN window_info
    BY <1>0, StartOfStep DEF Live
  <2> HIDE DEF all
  <2>2. /\ DOMAIN info = Live \ {w}
        /\ \A x \in Live \ {w} : /\ info[x].app = window_info[x].app
                                 /\ info[x].type = window_info[x].type
                                 /\ info[x].state = window_info[x].state
    BY <2>1, EraseKeepsTree DEF Live
  <2> QED BY <2>2
<1>4. /\ FocusOK(removed, info, posted \ {w}, visible, Range(sessions))
      /\ removed.mru = Erase(focus.mru, w) /\ removed.told = focus.told \ {w}
      /\ removed.session = focus.session
  BY <1>0, WindowRemoved
<1>5. removed.surface = IF focus.surface = w THEN NoWindow ELSE focus.surface
  BY <1>0, StartOfStep DEF Removed, Foci
<1>6. /\ IsFiniteSet(DOMAIN info) /\ InfoOK(info, Range(sessions)) /\ ChildrenOK(info)
      /\ Acyclic(info) /\ AppsOK(app_info', info)
  BY <1>1, <1>2, EndOfOperation DEF TitlebarInv
<1> HIDE DEF info, removed
<1>7. visible = shown \ {w} /\ shown' = visible /\ visible \subseteq posted \ {w}
  BY <1>2, <1>3 DEF shown, VisibleSurfaces, Live
<1>8. \A v \in visible : info[v].state \notin HiddenStates
  BY DEF VisibleSurfaces
<1> HIDE DEF visible, new
<1>9. /\ active = Top(focus.mru, shown) /\ Poised(focus, shown)
      /\ shown \subseteq Windows /\ NoWindow \notin Windows /\ sessions \in Seq(Apps)
      /\ focus.mru \in Seq(Windows) /\ IsInjective(focus.mru)
  BY <1>0, StartPoised, StartOfStep
<1>10. removed.mru \in Seq(Windows) /\ IsInjective(removed.mru)
       /\ Range(removed.mru) = Range(focus.mru) \ {w}
  BY <1>4, <1>9, EraseProperties
<1>11. CASE active = w
  <2>1. removed.session = NoApp /\ sessions # <<>> => first \in Range(sessions)
    BY <1>0, <1>4, StartOfOperation
  <2>2. \/ \E x \in visible : Goes(removed, new, x, info[x].app)
        \/ Moves(removed, visible, new) /\ Hopeless(removed, info, visible, Windows)
    BY <1>4, <1>6, <1>7, <1>9, <2>1, RefocusMoves DEF new
  <2>3. Poised(new, visible)
    <3>1. CASE \E x \in visible : Goes(removed, new, x, info[x].app)
      <4>1. PICK x \in visible : Goes(removed, new, x, info[x].app)
        BY <3>1
      <4> QED BY <1>7, <1>9, <1>10, <4>1, GonePoised
    <3>2. CASE Moves(removed, visible, new) /\ Hopeless(removed, info, visible, Windows)
      <4>1. Range(removed.mru) \cap visible = {}
        BY <1>4, <1>6, <1>7, <1>8, <1>9, <3>2, NoHopeless
      <4>2. CASE new.mru = removed.mru
        BY <4>1, <4>2 DEF Poised
      <4>3. CASE \E x \in visible : Pushes(removed, new, x)
        <5>1. PICK x \in visible : new.mru = Push(removed.mru, x) /\ new.told = {x}
          BY <4>3 DEF Pushes
        <5> DEFINE before == removed.mru
                   list == Push(before, x)
        <5>2. list # <<>> /\ list[Len(list)] = x
          <6>1. before \in Seq(Windows) /\ IsInjective(before) /\ x \in Windows
            BY <1>7, <1>9, <1>10
          <6> HIDE DEF before
          <6> QED BY <6>1, PushProperties
        <5> HIDE DEF list
        <5>3. new.mru = list
          BY <5>1 DEF list
        <5> QED BY <5>1, <5>2, <5>3 DEF Poised
      <4> QED BY <3>2, <4>2, <4>3 DEF Moves, SameWindows, Dropped
    <3> QED BY <2>2, <3>1, <3>2
  <2> QED BY <1>2, <1>7, <1>11, <2>3 DEF FocusPoised, shown
<1>12. CASE active # w
  <2>1. Poised(removed, visible)
    <3>1. CASE Range(focus.mru) \cap shown = {}
      BY <1>7, <1>10, <3>1 DEF Poised
    <3>2. CASE Range(focus.mru) \cap shown # {}
      <4> DEFINE last == focus.mru[Len(focus.mru)]
                 list == Erase(focus.mru, w)
      <4>1. focus.mru # <<>> /\ last \in shown /\ (focus.surface = last => focus.told = {last})
        BY <1>9, <3>2 DEF Poised
      <4>2. last = active
        BY <1>9, <4>1, NewestProperties DEF Top
      <4>3. last # NoWindow
        BY <1>9, <4>1
      <4>4. list # <<>> /\ list[Len(list)] = last
        BY <1>9, <1>12, <4>1, <4>2, EraseProperties
      <4>5. removed.mru = list
        BY <1>4
      <4> HIDE DEF last, list
      <4> QED BY <1>4, <1>5, <1>7, <1>12, <4>1, <4>2, <4>3, <4>4, <4>5 DEF Poised
    <3> QED BY <3>1, <3>2
  <2> QED BY <1>2, <1>7, <1>12, <2>1 DEF FocusPoised, shown
<1> QED BY <1>11, <1>12

\* Showing and hiding one after another settles as well.
LEMMA ShowsPoised ==
    ASSUME NEW base, NEW late, NEW want, TablesOK(base), Acyclic(base), NEW rows,
           NEW list \in Seq(DOMAIN base), NEW s \in Scenes(base, want, late),
           Poised(s.focus, Seen(s))
    PROVE  LET new == ShowAll(rows, s, list)
           IN  new \in Scenes(base, want, late) /\ Poised(new.focus, Seen(new))
<1> DEFINE S == {c \in Scenes(base, want, late) : Poised(c.focus, Seen(c))}
<1>1. ShowingKeeps(rows, S, Range(list))
  <2> SUFFICES ASSUME NEW c \in S, NEW w \in Range(list)
               PROVE  apply_workspace_visible_to(rows, c, w) \in S
    BY DEF ShowingKeeps
  <2> DEFINE new == apply_workspace_visible_to(rows, c, w)
  <2>1. w \in DOMAIN base /\ c \in Scenes(base, want, late) /\ Poised(c.focus, Seen(c))
    BY DEF Range
  <2>2. LET n == apply_workspace_visible_to(rows, c, w) IN
        n \in Scenes(base, want, late) /\ Marked(n.data) = Marked(c.data) \ {w}
    BY <2>1, Shows
  <2>3. StaysPoised(c.focus, new.focus, Seen(c), Seen(new))
    BY <2>1, ShowSettles
  <2> HIDE DEF new
  <2>4. Poised(new.focus, Seen(new))
    BY <2>1, <2>3 DEF StaysPoised
  <2>5. new \in S
    BY <2>2, <2>4 DEF new
  <2> QED BY <2>5 DEF new
<1>2. S \in SUBSET Scenes(base, want, late) /\ s \in S
  OBVIOUS
<1> HIDE DEF S
<1> DEFINE new == ShowAll(rows, s, list)
<1>3. LET n == ShowAll(rows, s, list) IN
      n \in S /\ \A x : x \in Marked(n.data) <=> x \in Marked(s.data) /\ x \notin Range(list)
  BY <1>1, <1>2, ShowsAlong
<1>4. new \in S
  BY <1>3
<1> HIDE DEF new
<1> QED BY <1>4 DEF new, S

LEMMA HidesPoised ==
    ASSUME NEW base, NEW late, NEW want, TablesOK(base), Acyclic(base), NEW rows,
           NEW list \in Seq(DOMAIN base), NEW s \in Scenes(base, want, late),
           Poised(s.focus, Seen(s))
    PROVE  LET new == HideAll(rows, s, list)
           IN  new \in Scenes(base, want, late) /\ Poised(new.focus, Seen(new))
<1> DEFINE S == {c \in Scenes(base, want, late) : Poised(c.focus, Seen(c))}
<1>1. HidingKeeps(rows, S, Range(list))
  <2> SUFFICES ASSUME NEW c \in S, NEW w \in Range(list)
               PROVE  apply_workspace_hidden_to(rows, c, w) \in S
    BY DEF HidingKeeps
  <2> DEFINE new == apply_workspace_hidden_to(rows, c, w)
  <2>1. w \in DOMAIN base /\ c \in Scenes(base, want, late) /\ Poised(c.focus, Seen(c))
    BY DEF Range
  <2>2. new \in Scenes(base, want, late)
    BY <2>1, Hides
  <2>3. StaysPoised(c.focus, new.focus, Seen(c), Seen(new))
    BY <2>1, HideSettles
  <2> HIDE DEF new
  <2>4. Poised(new.focus, Seen(new))
    BY <2>1, <2>3 DEF StaysPoised
  <2>5. new \in S
    BY <2>2, <2>4 DEF new
  <2> QED BY <2>5 DEF new
<1>2. S \in SUBSET Scenes(base, want, late) /\ s \in S
  OBVIOUS
<1> HIDE DEF S
<1> DEFINE new == HideAll(rows, s, list)
<1>3. LET n == HideAll(rows, s, list) IN
      n \in S /\ \A x : x \in Marked(n.data) <=> x \in Marked(s.data) \/ x \in Range(list)
  BY <1>1, <1>2, HidesAlong
<1>4. new \in S
  BY <1>3
<1> HIDE DEF new
<1> QED BY <1>4 DEF new, S

\* An operation that ends with such a scene.
LEMMA LeavesPoised ==
    ASSUME NEW scene, Leaves(scene), posted' = posted, Poised(scene.focus, Seen(scene))
    PROVE  FocusPoised'
<1>1. focus' = scene.focus /\ window_info' = scene.info
  BY DEF Leaves
<1> QED BY <1>1 DEF FocusPoised, Seen, VisibleSurfaces

\* The window that has just been added is not shown yet.
LEMMA FreshPoised ==
    ASSUME TitlebarInv, FocusPoised, NEW w \in Windows \ Live, NEW added
    PROVE  Poised(focus, VisibleSurfaces(WithWindow(window_info, w, added)))
<1> DEFINE info == WithWindow(window_info, w, added)
<1>1. \A x \in Live : window_info[x] \in WindowInfos
  BY WindowTables DEF TitlebarInv, InfoOK, Live
<1>2. DOMAIN info = Live \cup {w} /\ \A x \in Live : info[x].state = window_info[x].state
  BY <1>1 DEF WithWindow, WindowInfos, Live
<1> HIDE DEF info
<1>3. posted \subseteq Live /\ w \notin posted
  BY WindowsStay
<1>4. VisibleSurfaces(info) = VisibleSurfaces(window_info)
  BY <1>2, <1>3 DEF VisibleSurfaces, Live
<1> QED BY <1>4 DEF FocusPoised, info

\* That it is fullscreen makes no difference.
LEMMA InsertedPoised ==
    ASSUME NEW base, NEW want, NEW w \in DOMAIN base, NEW s \in Scenes(base, want, {w}),
           NEW state, state = s.info[w].state, Poised(s.focus, Seen(s))
    PROVE  LET new == [s EXCEPT !.fullscreen = IF state = "fullscreen" THEN @ \cup {w} ELSE @] IN
           new \in Scenes(base, want, {}) /\ Poised(new.focus, Seen(new))
<1> DEFINE full == IF state = "fullscreen" THEN s.fullscreen \cup {w} ELSE s.fullscreen
           new  == [s EXCEPT !.fullscreen = full]
<1>1. LET n == [s EXCEPT !.fullscreen = IF state = "fullscreen" THEN @ \cup {w} ELSE @] IN
      n \in Scenes(base, want, {}) /\ n.data = s.data
  BY Inserted
<1>2. s \in [focus : Foci, info : [DOMAIN base -> WindowInfos],
             data : [DOMAIN base -> PolicyDatas], fullscreen : SUBSET DOMAIN base]
  BY DEF Scenes, Shapes
<1>3. new \in Scenes(base, want, {})
  BY <1>1
<1> HIDE DEF full
<1>4. new.focus = s.focus /\ new.info = s.info
  BY <1>2
<1> HIDE DEF new
<1>5. Poised(new.focus, Seen(new))
  BY <1>4 DEF Seen
<1> QED BY <1>3, <1>5 DEF new, full

LEMMA TopLevelPoised ==
    ASSUME TitlebarInv, FocusPoised, NEW a \in Range(sessions), NEW w \in Windows \ Live,
           NEW type \in WindowTypes, NEW state \in WindowStates,
           NewTopLevel(a, w, type, state), posted' = posted
    PROVE  FocusPoised'
<1> DEFINE added == [app |-> a, type |-> type, state |-> state,
                     parent |-> NoWindow, children |-> <<>>]
           info  == WithWindow(window_info, w, added)
           want  == WithValue(wanted, w, state)
           rows  == Rows \cup {<<active_workspace, w>>}
           start == Scene(focus, info, WithValue(policy_data, w, NewData))
           fresh == [start EXCEPT !.fullscreen = IF state = "fullscreen" THEN @ \cup {w} ELSE @]
           list  == <<w>>
           end   == ShowAll(rows, fresh, list)
<1>1. NewTablesOK(a, w, state, NoWindow, info, want, start)
  <2>1. NoWindow \in Live \cup {NoWindow}
    OBVIOUS
  <2> QED BY <2>1, NewTables
<1>2. Leaves(end)
  BY DEF NewTopLevel, advise_adding_to_workspace
<1>3. Poised(focus, VisibleSurfaces(info)) /\ start.focus = focus /\ start.info = info
  BY FreshPoised DEF Scene
<1> HIDE DEF added, info, want, start
<1>4. /\ TablesOK(info) /\ Acyclic(info) /\ w \in DOMAIN info
      /\ info[w].state = state /\ start \in Scenes(info, want, {w})
  BY <1>1 DEF NewTablesOK
<1>5. Poised(start.focus, Seen(start)) /\ state = start.info[w].state
  BY <1>3, <1>4 DEF Seen
<1>6. LET n == [start EXCEPT !.fullscreen = IF state = "fullscreen" THEN @ \cup {w} ELSE @] IN
      n \in Scenes(info, want, {}) /\ Poised(n.focus, Seen(n))
  BY <1>4, <1>5, InsertedPoised
<1>7. fresh \in Scenes(info, want, {}) /\ Poised(fresh.focus, Seen(fresh))
  BY <1>6
<1>8. list \in Seq(DOMAIN info)
  BY <1>4
<1> HIDE DEF fresh, list, rows
<1>9. Poised(end.focus, Seen(end))
  <2>1. LET n == ShowAll(rows, fresh, list) IN
        n \in Scenes(info, want, {}) /\ Poised(n.focus, Seen(n))
    BY <1>4, <1>7, <1>8, ShowsPoised
  <2> QED BY <2>1
<1> HIDE DEF end
<1> QED BY <1>2, <1>9, LeavesPoised

LEMMA ChildPoised ==
    ASSUME TitlebarInv, FocusPoised, NEW a \in Range(sessions), NEW w \in Windows \ Live,
           NEW type \in WindowTypes, NEW state \in WindowStates, NEW parent \in Live,
           NewChild(a, w, type, state, parent), posted' = posted
    PROVE  FocusPoised'
<1> DEFINE added == [app |-> a, type |-> type, state |-> state,
                     parent |-> parent, children |-> <<>>]
           info  == WithWindow(window_info, w, added)
           want  == WithValue(wanted, w, state)
           start == Scene(focus, info, WithValue(policy_data, w, NewData))
           joined == workspaces_containing(Rows, parent)
           rows  == Rows \cup (joined \X {w})
           Joined(order) ==
                FoldLeft(LAMBDA scene, ws : advise_adding_to_workspace(rows, scene, ws, <<w>>),
                         start, order)
           Placed(scene) ==
                [scene EXCEPT !.fullscreen =
                        IF scene.info[w].state = "fullscreen" THEN @ \cup {w} ELSE @]
           Ended(scene) ==
                IF policy_data[parent].in_hidden_workspace
                THEN apply_workspace_hidden_to(rows, scene, w) ELSE scene
<1>1. NewTablesOK(a, w, state, parent, info, want, start)
  <2>1. parent \in Live \cup {NoWindow}
    OBVIOUS
  <2> QED BY <2>1, NewTables
<1>2. PICK order \in Orders(joined) : Leaves(Ended(Placed(Joined(order))))
  BY DEF NewChild
<1>3. Poised(focus, VisibleSurfaces(info)) /\ start.focus = focus /\ start.info = info
  BY FreshPoised DEF Scene
<1> HIDE DEF added, info, want, start
<1>4. /\ TablesOK(info) /\ Acyclic(info) /\ w \in DOMAIN info
      /\ start \in Scenes(info, want, {w})
  BY <1>1 DEF NewTablesOK
<1>5. Poised(start.focus, Seen(start))
  BY <1>3 DEF Seen
<1>6. OneHome(Rows, window_info) /\ workspace = [ws \in Workspaces |-> "owned"]
      /\ Rows \subseteq Workspaces \X Live
  BY StartOfScene, WindowsStay DEF TitlebarInv, PolicyInv
<1>7. PICK home \in Workspaces : \A ws \in Workspaces : <<ws, parent>> \in Rows <=> ws = home
  BY <1>6 DEF OneHome, Live
<1>8. joined = {home}
  BY <1>6, <1>7 DEF workspaces_containing
<1> DEFINE entered == advise_adding_to_workspace(rows, start, home, <<w>>)
<1>10. Leaves(Ended(Placed(entered)))
  <2>1. Joined(order) = entered
    <3> HIDE DEF rows, entered, joined
    <3>1. order \in Orders({home})
      BY <1>2, <1>8
    <3> DEFINE list == <<w>>
    <3>2. entered = advise_adding_to_workspace(rows, start, home, list)
      BY DEF entered
    <3>3. Joined(order) =
            FoldLeft(LAMBDA scene, ws : advise_adding_to_workspace(rows, scene, ws, list), start, order)
      OBVIOUS
    <3> HIDE DEF list, Joined
    <3> QED BY <3>1, <3>2, <3>3, EntersOne
  <2> HIDE DEF Joined, Placed, Ended, entered
  <2> QED BY <1>2, <2>1
<1> HIDE DEF rows, joined
<1>11. entered \in Scenes(info, want, {w}) /\ Poised(entered.focus, Seen(entered))
  <2> DEFINE list == <<w>>
  <2>0. list \in Seq(DOMAIN info) /\ entered = advise_adding_to_workspace(rows, start, home, list)
    BY <1>4
  <2> HIDE DEF list, entered
  <2>1. CASE home = active_workspace
    <3>1. entered = ShowAll(rows, start, list)
      BY <2>0, <2>1 DEF advise_adding_to_workspace
    <3>2. LET n == ShowAll(rows, start, list) IN
          n \in Scenes(info, want, {w}) /\ Poised(n.focus, Seen(n))
      BY <1>4, <1>5, <2>0, ShowsPoised
    <3> QED BY <3>1, <3>2
  <2>2. CASE home # active_workspace
    <3>1. entered = HideAll(rows, start, list)
      BY <2>0, <2>2 DEF advise_adding_to_workspace
    <3>2. LET n == HideAll(rows, start, list) IN
          n \in Scenes(info, want, {w}) /\ Poised(n.focus, Seen(n))
      BY <1>4, <1>5, <2>0, HidesPoised
    <3> QED BY <3>1, <3>2
  <2> QED BY <2>1, <2>2
<1> HIDE DEF entered
<1> DEFINE inserted == Placed(entered)
           end == Ended(inserted)
<1>12. inserted \in Scenes(info, want, {}) /\ Poised(inserted.focus, Seen(inserted))
  <2> DEFINE now == entered.info[w].state
  <2>1. now = entered.info[w].state
    OBVIOUS
  <2>2. inserted = [entered EXCEPT !.fullscreen = IF now = "fullscreen" THEN @ \cup {w} ELSE @]
    OBVIOUS
  <2> HIDE DEF now, inserted
  <2>3. LET n == [entered EXCEPT !.fullscreen = IF now = "fullscreen" THEN @ \cup {w} ELSE @] IN
        n \in Scenes(info, want, {}) /\ Poised(n.focus, Seen(n))
    BY <1>4, <1>11, <2>1, InsertedPoised
  <2> QED BY <2>2, <2>3
<1>13. Leaves(end)
  BY <1>10
<1> HIDE DEF inserted, Placed
<1>14. Poised(end.focus, Seen(end))
  <2>1. CASE policy_data[parent].in_hidden_workspace
    <3> DEFINE last == apply_workspace_hidden_to(rows, inserted, w)
    <3>1. end = last
      BY <2>1
    <3>2. StaysPoised(inserted.focus, last.focus, Seen(inserted), Seen(last))
      BY <1>4, <1>12, HideSettles
    <3> HIDE DEF last, end
    <3> QED BY <1>12, <3>1, <3>2 DEF StaysPoised
  <2>2. CASE ~policy_data[parent].in_hidden_workspace
    <3>1. end = inserted
      BY <2>2
    <3> HIDE DEF end
    <3> QED BY <1>12, <3>1
  <2> QED BY <2>1, <2>2
<1> HIDE DEF end
<1> QED BY <1>13, <1>14, LeavesPoised

\* A switch, however long, settles.
LEMMA SwitchSettles ==
    ASSUME TitlebarInv, NEW ws \in Workspaces, NEW taking \in BOOLEAN, SwitchKey(ws, taking)
    PROVE  StaysPoised(focus, focus', VisibleSurfaces(window_info), VisibleSurfaces(window_info'))
<1> DEFINE All  == Scenes(window_info, wanted, {})
           S    == {s \in All : StaysPoised(focus, s.focus, Seen(Now), Seen(s))}
           rows == RowsAfter(ws, taking)
           A    == Shown(ws, taking)
           O    == Left(ws, taking)
           ww   == workspace_to_active[ws]
<1>1. /\ A \subseteq DOMAIN window_info /\ O \subseteq DOMAIN window_info
      /\ TablesOK(window_info) /\ Acyclic(window_info) /\ posted' = posted
      /\ Now \in All /\ Now.focus = focus /\ Now.info = window_info
  BY SwitchRows, StartOfScene DEF TitlebarInv, Live
<1>2. \/ Begun(ws) = Now
      \/ ww \in A /\ Begun(ws) = apply_workspace_visible_to(rows, Now, ww)
  BY BegunScene
<1> HIDE DEF rows, A, O, ww
<1>3. Now \in S
  BY <1>1 DEF StaysPoised
<1>4. ASSUME NEW c \in S, NEW x \in A PROVE apply_workspace_visible_to(rows, c, x) \in S
  <2> DEFINE new == apply_workspace_visible_to(rows, c, x)
  <2>1. x \in DOMAIN window_info /\ c \in Scenes(window_info, wanted, {})
    BY <1>1, <1>4
  <2>2. new \in Scenes(window_info, wanted, {})
    BY <1>1, <2>1, Shows
  <2>3. StaysPoised(c.focus, new.focus, Seen(c), Seen(new))
    BY <1>1, <2>1, ShowSettles
  <2>4. StaysPoised(focus, c.focus, Seen(Now), Seen(c))
    OBVIOUS
  <2> HIDE DEF new
  <2>5. StaysPoised(focus, new.focus, Seen(Now), Seen(new))
    BY <2>3, <2>4 DEF StaysPoised
  <2>6. new \in S
    BY <2>2, <2>5
  <2> QED BY <2>6 DEF new
<1>5. ASSUME NEW c \in S, NEW x \in O PROVE apply_workspace_hidden_to(rows, c, x) \in S
  <2> DEFINE new == apply_workspace_hidden_to(rows, c, x)
  <2>1. x \in DOMAIN window_info /\ c \in Scenes(window_info, wanted, {})
    BY <1>1, <1>5
  <2>2. new \in Scenes(window_info, wanted, {})
    BY <1>1, <2>1, Hides
  <2>3. StaysPoised(c.focus, new.focus, Seen(c), Seen(new))
    BY <1>1, <2>1, HideSettles
  <2>4. StaysPoised(focus, c.focus, Seen(Now), Seen(c))
    OBVIOUS
  <2> HIDE DEF new
  <2>5. StaysPoised(focus, new.focus, Seen(Now), Seen(new))
    BY <2>3, <2>4 DEF StaysPoised
  <2>6. new \in S
    BY <2>2, <2>5
  <2> QED BY <2>6 DEF new
<1>6. S \in SUBSET Scenes(window_info, wanted, {})
  OBVIOUS
<1> HIDE DEF S
<1>7. Begun(ws) \in S
  BY <1>2, <1>3, <1>4
<1>8. ShowingKeeps(rows, S, A) /\ HidingKeeps(rows, S, O \ {active})
  BY <1>4, <1>5 DEF ShowingKeeps, HidingKeeps
<1>9. \E hidden \in S :
          Leaves(IF active \in O THEN apply_workspace_hidden_to(rows, hidden, active) ELSE hidden)
  BY <1>6, <1>7, <1>8, SwitchChain DEF rows, A, O
<1>10. PICK hidden \in S :
          Leaves(IF active \in O THEN apply_workspace_hidden_to(rows, hidden, active) ELSE hidden)
  BY <1>9
<1> DEFINE end == IF active \in O THEN apply_workspace_hidden_to(rows, hidden, active) ELSE hidden
<1>11. end \in S
  BY <1>5
<1>12. Leaves(end)
  BY <1>10
<1> HIDE DEF end
<1>13. StaysPoised(focus, end.focus, Seen(Now), Seen(end))
  BY <1>11 DEF S
<1>14. focus' = end.focus /\ window_info' = end.info
  BY <1>12 DEF Leaves
<1> QED BY <1>1, <1>13, <1>14 DEF Seen

LEMMA SwitchPoised ==
    \A ws \in Workspaces, taking \in BOOLEAN :
        TitlebarInv /\ FocusPoised /\ SwitchKey(ws, taking) => FocusPoised'
<1> SUFFICES ASSUME NEW ws \in Workspaces, NEW taking \in BOOLEAN, TitlebarInv, FocusPoised,
                    SwitchKey(ws, taking)
             PROVE  FocusPoised'
  OBVIOUS
<1>1. posted' = posted
  BY SwitchRows
<1>2. StaysPoised(focus, focus', VisibleSurfaces(window_info), VisibleSurfaces(window_info'))
  BY SwitchSettles
<1>3. Poised(focus', VisibleSurfaces(window_info'))
  BY <1>2 DEF StaysPoised, FocusPoised
<1> QED BY <1>1, <1>3 DEF FocusPoised, VisibleSurfaces

LEMMA NewWindowPoised ==
    \A a \in Apps, w \in Windows, type \in Types, state \in FirstStates,
       parent \in Live \cup {NoWindow} :
            TitlebarInv /\ FocusPoised /\ NewWindow(a, w, type, state, parent) => FocusPoised'
<1> SUFFICES ASSUME NEW a \in Apps, NEW w \in Windows, NEW type \in Types,
                    NEW state \in FirstStates, NEW parent \in Live \cup {NoWindow},
                    TitlebarInv, FocusPoised, NewWindow(a, w, type, state, parent)
             PROVE  FocusPoised'
  OBVIOUS
<1>1. /\ a \in Range(sessions) /\ w \in Windows \ Live /\ posted' = posted
      /\ type \in WindowTypes /\ state \in WindowStates
  BY ConstantsAssumption, TitlebarAssumption DEF NewWindow
<1>2. CASE parent = NoWindow
  <2>1. NewTopLevel(a, w, type, state)
    BY <1>2 DEF NewWindow
  <2> QED BY <1>1, <2>1, TopLevelPoised
<1>3. CASE parent # NoWindow
  <2>1. parent \in Live /\ NewChild(a, w, type, state, parent)
    BY <1>3 DEF NewWindow
  <2> QED BY <1>1, <2>1, ChildPoised
<1> QED BY <1>2, <1>3

LEMMA SettledInvariance == TitlebarSpec => []SettledInv
<1>1. TitlebarInit => SettledInv
  <2> SUFFICES ASSUME TitlebarInit PROVE SettledInv
    OBVIOUS
  <2>1. focus.mru = <<>>
    BY DEF TitlebarInit
  <2>2. Range(focus.mru) = {}
    BY <2>1, EmptySeq DEF Range
  <2> QED BY <2>2, TitlebarInitInv DEF SettledInv, FocusPoised, Poised
<1>2. SettledInv /\ [TitlebarNext]_shell_vars => SettledInv'
  <2> SUFFICES ASSUME TitlebarInv, FocusPoised, [TitlebarNext]_shell_vars PROVE SettledInv'
    BY DEF SettledInv
  <2>1. TitlebarInv'
    BY TitlebarNextPreserves
  <2>2. CASE UNCHANGED shell_vars
    BY <2>1, <2>2 DEF shell_vars, vars, SettledInv, FocusPoised, VisibleSurfaces
  <2> SUFFICES ASSUME TitlebarNext PROVE FocusPoised'
    BY <2>1, <2>2 DEF SettledInv
  <2>3. ASSUME NEW a \in Apps, NEW w \in Windows, NEW type \in Types, NEW state \in FirstStates,
               NEW parent \in Live \cup {NoWindow}, NewWindow(a, w, type, state, parent)
        PROVE  FocusPoised'
    BY <2>3, NewWindowPoised
  <2>4. ASSUME NEW w \in Live, NEW state \in States, StateRequest(w, state) PROVE FocusPoised'
    BY <2>4, StateRequestPoised
  <2>5. ASSUME NEW state \in Toggles, toggle(state) PROVE FocusPoised'
    BY <2>5, TogglePoised
  <2>6. ASSUME NEW w \in Live, NEW first \in FirstSessions, Removal(w, first) PROVE FocusPoised'
    BY <2>6, RemovalPoised
  <2>7. ASSUME NEW ws \in Workspaces, NEW taking \in BOOLEAN, SwitchKey(ws, taking)
        PROVE  FocusPoised'
    BY <2>7, SwitchPoised
  <2>8. CASE Arrives
    BY <2>8, ArrivesPoised
  <2>9. CASE Refocused
    BY <2>9, RefocusedPoised
  <2> QED BY <2>3, <2>4, <2>5, <2>6, <2>7, <2>8, <2>9 DEF TitlebarNext
<1> QED BY <1>1, <1>2, PTL DEF TitlebarSpec

\* A switch to a workspace with a window that has been active and is shown
\* leaves one of them active, with Mir's focus, and the policy told of it, as
\* long as Mir's focus was in the active window before.
THEOREM TitlebarFocusesOnSwitch == TitlebarSpec => SwitchFocuses
<1> DEFINE focusable == {w \in Live : /\ <<active_workspace', w>> \in workspaces_to_windows'
                                      /\ w \in Range(focus.mru)
                                      /\ window_info'[w].state \notin HiddenStates}
           Focused == active_workspace' # active_workspace /\ focusable # {} /\ focus.surface = active
                      => active' # NoWindow /\ focus'.surface = active' /\ focus'.told = {active'}
<1>1. SettledInv /\ [TitlebarNext]_shell_vars => Focused
  <2> SUFFICES ASSUME TitlebarInv, FocusPoised, [TitlebarNext]_shell_vars,
                      active_workspace' # active_workspace,
                      NEW w \in focusable, focus.surface = active
               PROVE  active' # NoWindow /\ focus'.surface = active' /\ focus'.told = {active'}
    BY DEF SettledInv
  <2>1. PICK taking \in BOOLEAN :
            active_workspace' \in Workspaces /\ SwitchKey(active_workspace', taking)
    BY OnlyKeysSwitch
  <2> DEFINE ws == active_workspace'
  <2>2. ws \in Workspaces /\ SwitchKey(ws, taking)
    BY <2>1
  <2> HIDE DEF ws
  <2>3. /\ StaysPoised(focus, focus', VisibleSurfaces(window_info), VisibleSurfaces(window_info'))
        /\ posted' = posted
    BY <2>2, SwitchRows, SwitchSettles
  <2> DEFINE now == VisibleSurfaces(window_info)'
  <2>4. VisibleSurfaces(window_info') = now /\ VisibleSurfaces(window_info) = shown
    BY <2>3 DEF VisibleSurfaces, shown
  <2>5. /\ Range(focus.mru) \subseteq posted /\ active = Top(focus.mru, shown)
        /\ Poised(focus, shown) /\ focus.mru \in Seq(Windows) /\ NoWindow \notin Windows
        /\ shown \subseteq Windows
    BY StartPoised, StartOfStep DEF TitlebarInv
  <2>6. Holds(focus, shown)
    <3>1. focus.mru # <<>> /\ focus.mru[Len(focus.mru)] \in shown
             => active = focus.mru[Len(focus.mru)]
      BY <2>5, NewestProperties DEF Top
    <3> QED BY <2>5, <3>1 DEF Poised, Holds
  <2>7. Holds(focus', now) /\ Range(focus.mru) \subseteq Range(focus'.mru)
    BY <2>3, <2>4, <2>6 DEF StaysPoised
  <2>8. TitlebarInv'
    BY TitlebarNextPreserves
  <2>9. w \in now
    <3>1. w \in DOMAIN window_info'
      <4>1. w \in Range(focus.mru)
        OBVIOUS
      <4>2. Range(focus'.mru) \subseteq Live'
        BY <2>8 DEF TitlebarInv, Inv, FocusInv, FocusOK, Live
      <4> QED BY <2>7, <4>1, <4>2 DEF Live
    <3> QED BY <2>3, <2>5, <3>1 DEF VisibleSurfaces
  <2> DEFINE list == focus'.mru
             last == list[Len(list)]
  <2>10. list # <<>> /\ last \in now /\ focus'.surface = last /\ focus'.told = {last}
    BY <2>7, <2>9 DEF Holds
  <2>11. list \in Seq(Windows) /\ now \subseteq Windows
    BY <2>8 DEF TitlebarInv, Inv, FocusInv, FocusOK, Foci, WindowsInv, InfoOK, VisibleSurfaces
  <2>12. active' = Top(list, now)
    BY DEF active
  <2> HIDE DEF list, now
  <2>13. Top(list, now) = last /\ last # NoWindow
    BY <2>5, <2>10, <2>11, NewestProperties DEF Top
  <2> QED BY <2>10, <2>12, <2>13
<1> QED BY <1>1, SettledInvariance, PTL DEF TitlebarSpec, SwitchFocuses
=============================================================================
