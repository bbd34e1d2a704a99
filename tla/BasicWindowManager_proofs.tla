---------------------- MODULE BasicWindowManager_proofs ----------------------
(***************************************************************************)
(* The invariants of BasicWindowManager, for any number of windows,        *)
(* applications and workspaces and every liberty of clients and policies.  *)
(*                                                                         *)
(* The first lemmas are about the list operators of MRUWindowList, for     *)
(* every list; those that follow say what the operators on the focus and   *)
(* on the tables preserve, whatever they are given.  Inv is inductive; its *)
(* parts follow the tables of the class, and with the lemmas each step     *)
(* only relates an action's primed variables to them.                      *)
(*                                                                         *)
(* The second part is about the trees of windows, and the third shows that *)
(* BasicWindowManager implements InputFocus.                               *)
(***************************************************************************)
EXTENDS FocusRefinement, TLAPS, SequenceTheorems, FiniteSetTheorems, WellFoundedInduction

\* A set of list positions has a greatest and a least one, and Max and Min
\* choose them.
LEMMA MaxProperties ==
    ASSUME NEW n \in Nat, NEW S, S \subseteq 1..n, S # {}
    PROVE  /\ Max(S) \in S
           /\ \A y \in S : y <= Max(S)
<1> DEFINE R == {ss \in Nat \X Nat : ss[1] < ss[2]}
           T == {n - x : x \in S}
<1>1. T \subseteq Nat /\ T # {}
  <2>1. ASSUME NEW x \in S PROVE n - x \in Nat
    OBVIOUS
  <2>2. PICK x \in S : TRUE
    OBVIOUS
  <2> QED BY <2>1, <2>2
<1>2. IsWellFoundedOn(R, Nat)
  BY NatLessThanWellFounded DEF OpToRel
<1>3. PICK t \in T : \A u \in T : <<u, t>> \notin R
  <2> HIDE DEF T, R
  <2> QED BY <1>1, <1>2, WFMin
<1>4. PICK x \in S : t = n - x
  BY <1>3
<1>5. ASSUME NEW y \in S PROVE y <= x
  <2>1. n - y \in T /\ <<n - y, t>> \notin R
    BY <1>3
  <2> QED BY <2>1, <1>1, <1>4
<1>6. \E z \in S : \A y \in S : z >= y
  BY <1>5
<1>7. Max(S) \in S /\ \A y \in S : Max(S) >= y
  BY <1>6, Zenon DEF Max
<1> QED BY <1>7

LEMMA MinProperties ==
    ASSUME NEW n \in Nat, NEW S, S \subseteq 1..n, S # {}
    PROVE  /\ Min(S) \in S
           /\ \A y \in S : Min(S) <= y
<1> DEFINE R == {ss \in Nat \X Nat : ss[1] < ss[2]}
<1>1. S \subseteq Nat
  OBVIOUS
<1>2. IsWellFoundedOn(R, Nat)
  BY NatLessThanWellFounded DEF OpToRel
<1>3. PICK x \in S : \A y \in S : <<y, x>> \notin R
  <2> HIDE DEF R
  <2> QED BY <1>1, <1>2, WFMin
<1>4. ASSUME NEW y \in S PROVE x <= y
  <2>1. <<y, x>> \notin R /\ y \in Nat /\ x \in Nat
    BY <1>3, <1>1
  <2> QED BY <2>1
<1>5. \E z \in S : \A y \in S : z =< y
  BY <1>4
<1>6. Min(S) \in S /\ \A y \in S : Min(S) =< y
  BY <1>5, Zenon DEF Min
<1> QED BY <1>6

-----------------------------------------------------------------------------
\* Erasing from a list without duplicates removes the window and nothing
\* else, keeps the list free of duplicates, and keeps its last element if
\* that is another window.
LEMMA EraseProperties ==
    ASSUME NEW S, NEW list \in Seq(S), NEW w, IsInjective(list)
    PROVE  /\ Erase(list, w) \in Seq(S)
           /\ IsInjective(Erase(list, w))
           /\ Range(Erase(list, w)) = Range(list) \ {w}
           /\ list # <<>> /\ list[Len(list)] # w
              => /\ Erase(list, w) # <<>>
                 /\ Erase(list, w)[Len(Erase(list, w))] = list[Len(list)]
<1>1. Len(list) \in Nat /\ DOMAIN list = 1..Len(list) /\ \A i \in 1..Len(list) : list[i] \in S
  BY LenProperties
<1>2. CASE w \notin Range(list)
  BY <1>2 DEF Erase
<1>3. CASE w \in Range(list)
  <2> DEFINE gone == CHOOSE i \in DOMAIN list : list[i] = w
             short == [i \in 1..(Len(list) - 1) |-> IF i < gone THEN list[i] ELSE list[i + 1]]
  <2>1. gone \in 1..Len(list) /\ list[gone] = w
    BY <1>3, <1>1 DEF Range
  <2>2. Erase(list, w) = short
    BY <1>3 DEF Erase
  <2> HIDE DEF gone
  <2>3. Len(list) - 1 \in Nat
    BY <2>1, <1>1
  <2>4. short \in Seq(S) /\ Len(short) = Len(list) - 1 /\ DOMAIN short = 1..(Len(list) - 1)
    <3>1. \A i \in 1..(Len(list) - 1) : short[i] \in S
      BY <1>1, <2>1
    <3>2. short \in [1..(Len(list) - 1) -> S]
      BY <3>1
    <3> QED BY <3>2, <2>3, SeqDef, LenProperties
  <2>5. IsInjective(short)
    <3> SUFFICES ASSUME NEW a \in DOMAIN short, NEW b \in DOMAIN short, short[a] = short[b]
                 PROVE  a = b
      BY DEF IsInjective
    <3> DEFINE at(i) == IF i < gone THEN i ELSE i + 1
    <3>1. \A i \in DOMAIN short : at(i) \in DOMAIN list /\ short[i] = list[at(i)]
      BY <1>1, <2>1, <2>4
    <3>2. at(a) = at(b)
      BY <3>1 DEF IsInjective
    <3> QED BY <3>2, <2>4, <2>1
  <2>6. Range(short) = Range(list) \ {w}
    <3>1. ASSUME NEW i \in DOMAIN short PROVE short[i] \in Range(list) \ {w}
      <4> DEFINE j == IF i < gone THEN i ELSE i + 1
      <4>1. j \in DOMAIN list /\ short[i] = list[j] /\ j # gone
        BY <2>4, <2>1, <1>1
      <4> HIDE DEF j
      <4> QED BY <4>1, <2>1, <1>1 DEF Range, IsInjective
    <3>2. ASSUME NEW i \in DOMAIN list, list[i] # w PROVE list[i] \in Range(short)
      <4> DEFINE j == IF i < gone THEN i ELSE i - 1
      <4>1. i # gone
        BY <3>2, <2>1
      <4>2. j \in DOMAIN short /\ short[j] = list[i]
        BY <4>1, <2>4, <2>1, <1>1
      <4> QED BY <4>2 DEF Range
    <3> HIDE DEF short
    <3>3. /\ \A v : v \in Range(short) <=> \E i \in DOMAIN short : short[i] = v
          /\ \A v : v \in Range(list) <=> \E i \in DOMAIN list : list[i] = v
      BY Zenon DEF Range
    <3>4. \A v \in Range(short) : v \in Range(list) \ {w}
      BY <3>1, <3>3
    <3>5. \A v \in Range(list) \ {w} : v \in Range(short)
      BY <3>2, <3>3
    <3> QED BY <3>4, <3>5
  <2>7. ASSUME list # <<>>, list[Len(list)] # w
        PROVE  short # <<>> /\ short[Len(short)] = list[Len(list)]
    <3>0. Len(list) >= 1
      BY <2>7, <1>1, EmptySeq
    <3>1. \A i \in 1..(Len(list) - 1) : short[i] = IF i < gone THEN list[i] ELSE list[i + 1]
      OBVIOUS
    <3> HIDE DEF short
    <3>2. gone # Len(list)
      BY <2>7, <2>1
    <3>3. gone <= Len(list) - 1 /\ Len(list) - 1 \in 1..(Len(list) - 1)
      <4>1. ASSUME NEW n \in Nat, NEW g \in 1..n, g # n
            PROVE  g <= n - 1 /\ n - 1 \in 1..(n - 1)
        BY <4>1
      <4> QED BY <4>1, <3>2, <2>1, <1>1
    <3>4. short[Len(list) - 1] = list[Len(list) - 1 + 1]
      BY <3>1, <3>3, <2>1, <1>1
    <3>5. short[Len(list) - 1] = list[Len(list)]
      BY <3>4, <1>1
    <3>6. short # <<>>
      BY <3>3, <2>4
    <3> QED BY <3>5, <3>6, <2>4
  <2> QED BY <2>2, <2>4, <2>5, <2>6, <2>7
<1> QED BY <1>2, <1>3

\* Appending a new window keeps a list free of duplicates.
LEMMA AppendNewProperties ==
    ASSUME NEW S, NEW list \in Seq(S), NEW w \in S, IsInjective(list), w \notin Range(list)
    PROVE  /\ Append(list, w) \in Seq(S)
           /\ IsInjective(Append(list, w))
           /\ Range(Append(list, w)) = Range(list) \cup {w}
<1> DEFINE long == Append(list, w)
<1>1. /\ Len(list) \in Nat /\ DOMAIN list = 1..Len(list)
      /\ long \in Seq(S) /\ Len(long) = Len(list) + 1 /\ DOMAIN long = 1..(Len(list) + 1)
      /\ \A i \in 1..Len(list) : long[i] = list[i]
      /\ long[Len(list) + 1] = w
  BY LenProperties, AppendProperties
<1> HIDE DEF long
<1>2. IsInjective(long)
  BY <1>1 DEF IsInjective, Range
<1>3. Range(long) = Range(list) \cup {w}
  BY <1>1 DEF Range
<1> QED BY <1>1, <1>2, <1>3 DEF long

\* After push() the window is the newest of the list, once.
LEMMA PushProperties ==
    ASSUME NEW S, NEW list \in Seq(S), NEW w \in S, IsInjective(list)
    PROVE  /\ Push(list, w) \in Seq(S)
           /\ IsInjective(Push(list, w))
           /\ Range(Push(list, w)) = Range(list) \cup {w}
           /\ Push(list, w) # <<>>
           /\ Push(list, w)[Len(Push(list, w))] = w
<1>1. /\ Erase(list, w) \in Seq(S) /\ IsInjective(Erase(list, w))
      /\ Range(Erase(list, w)) = Range(list) \ {w}
  BY EraseProperties
<1>2. /\ Push(list, w) \in Seq(S)
      /\ IsInjective(Push(list, w))
      /\ Range(Push(list, w)) = Range(list) \cup {w}
  BY <1>1, AppendNewProperties DEF Push
<1>3. Push(list, w) # <<>> /\ Push(list, w)[Len(Push(list, w))] = w
  BY <1>1, AppendProperties, LenProperties DEF Push
<1> QED BY <1>2, <1>3

-----------------------------------------------------------------------------
\* Newest returns a window of the list that is in the set, if there is one;
\* the last of the list, if that is in the set.
LEMMA NewestProperties ==
    ASSUME NEW S, NEW list \in Seq(S), NEW ws, NoWindow \notin S
    PROVE  /\ Newest(list, ws) \in (Range(list) \cap ws) \cup {NoWindow}
           /\ Newest(list, ws) = NoWindow <=> Range(list) \cap ws = {}
           /\ list # <<>> /\ list[Len(list)] \in ws => Newest(list, ws) = list[Len(list)]
<1> DEFINE hits == {i \in DOMAIN list : list[i] \in ws}
<1>1. Len(list) \in Nat /\ DOMAIN list = 1..Len(list) /\ \A i \in 1..Len(list) : list[i] \in S
  BY LenProperties
<1>2. CASE hits = {}
  <2>1. Newest(list, ws) = NoWindow
    BY <1>2 DEF Newest
  <2>2. Range(list) \cap ws = {}
    BY <1>2 DEF Range
  <2>3. list # <<>> => list[Len(list)] \notin ws
    BY <1>1, <1>2
  <2> QED BY <2>1, <2>2, <2>3
<1>3. CASE hits # {}
  <2>1. Newest(list, ws) = list[Max(hits)]
    BY <1>3 DEF Newest
  <2>2. Max(hits) \in hits /\ \A i \in hits : i <= Max(hits)
    <3> hits \subseteq 1..Len(list)
      BY <1>1
    <3> HIDE DEF hits
    <3> QED BY <1>1, <1>3, MaxProperties
  <2>3. list[Max(hits)] \in Range(list) \cap ws /\ list[Max(hits)] \in S
    BY <2>2, <1>1 DEF Range
  <2>4. ASSUME list # <<>>, list[Len(list)] \in ws PROVE Max(hits) = Len(list)
    <3>1. Len(list) \in hits
      BY <2>4, <1>1, EmptySeq
    <3>2. Len(list) <= Max(hits)
      BY <3>1, <2>2
    <3>3. Max(hits) \in 1..Len(list)
      BY <2>2, <1>1
    <3> HIDE DEF hits
    <3> QED BY <3>2, <3>3, <1>1
  <2> QED BY <2>1, <2>3, <2>4
<1> QED BY <1>2, <1>3

-----------------------------------------------------------------------------
(* Windows and the focus.                                                  *)

\* A table of windows whose applications have a session in "open" and whose
\* parents and children are in the table themselves.
InfoOK(info, open) ==
    /\ DOMAIN info \subseteq Windows
    /\ info \in [DOMAIN info -> WindowInfos]
    /\ \A w \in DOMAIN info : info[w].app \in open
    /\ \A w \in DOMAIN info : info[w].parent \in DOMAIN info \cup {NoWindow}
    /\ \A w \in DOMAIN info : Range(info[w].children) \subseteq DOMAIN info

\* The lists of the applications' windows go with that table.
AppsOK(apps, info) ==
    /\ apps \in [Apps -> Seq(Windows)]
    /\ \A a \in Apps : Range(apps[a]) \subseteq DOMAIN info

\* Everything the invariants say of the focus: the windows of the MRU list
\* exist, have been seen and can be active, and a window whose focus the
\* policy knows of is the newest of them and is among the visible ones.
FocusOK(foc, info, seen, visible, open) ==
    /\ foc \in Foci
    /\ IsInjective(foc.mru)
    /\ \A w \in Range(foc.mru) :
            w \in DOMAIN info /\ w \in seen /\ can_be_active(info[w].type)
    /\ foc.surface \in DOMAIN info \cup {NoWindow}
    /\ foc.session \in open \cup {NoApp}
    /\ \A w \in foc.told : /\ foc.mru # <<>> /\ w = foc.mru[Len(foc.mru)]
                           /\ w \in visible

-----------------------------------------------------------------------------
\* The selection ends at a window that can have the focus, or at none.
LEMMA SelectedSettles ==
    ASSUME NEW info, NEW visible, NEW hint
    PROVE  \/ Selected(info, visible, hint) = NoWindow
           \/ /\ Selected(info, visible, hint) \in DOMAIN info
              /\ Selected(info, visible, hint) \in visible
              /\ can_be_active(info[Selected(info, visible, hint)].type)
BY Zenon DEF Selected, Settles, is_visible

\* active_window() is NoWindow or a visible window of the MRU list, and the
\* window the policy has been told of is active.
LEMMA TopOfFocus ==
    ASSUME NEW foc, NEW info, NEW seen, NEW visible, NEW open,
           FocusOK(foc, info, seen, visible, open), DOMAIN info \subseteq Windows
    PROVE  /\ Top(foc.mru, visible) \in (Range(foc.mru) \cap visible) \cup {NoWindow}
           /\ foc.told \subseteq {Top(foc.mru, visible)}
<1>1. foc.mru \in Seq(Windows) /\ NoWindow \notin Windows
  BY ConstantsAssumption DEF FocusOK, Foci
<1>2. /\ Top(foc.mru, visible) \in (Range(foc.mru) \cap visible) \cup {NoWindow}
      /\ foc.mru # <<>> /\ foc.mru[Len(foc.mru)] \in visible
         => Top(foc.mru, visible) = foc.mru[Len(foc.mru)]
  BY <1>1, NewestProperties DEF Top
<1> QED BY <1>2 DEF FocusOK

\* Focusing a window the policy can see.
LEMMA ActivatePreserves ==
    ASSUME NEW foc, NEW info, NEW seen, NEW visible, NEW open, NEW w, NEW app,
           FocusOK(foc, info, seen, visible, open), DOMAIN info \subseteq Windows,
           visible \subseteq seen, w \in DOMAIN info, w \in visible,
           can_be_active(info[w].type), app \in open, open \subseteq Apps
    PROVE  /\ FocusOK(Activate(foc, Top(foc.mru, visible), app, w), info, seen, visible, open)
           /\ Activate(foc, Top(foc.mru, visible), app, w).told = {w}
<1> DEFINE prev == Top(foc.mru, visible)
           new  == Activate(foc, prev, app, w)
<1>1. prev \in Range(foc.mru) \cup {NoWindow} /\ foc.told \subseteq {prev}
  BY TopOfFocus
<1>2. foc \in Foci /\ IsInjective(foc.mru) /\ w \in Windows /\ app \in Apps
  BY DEF FocusOK
<1>3. prev \in Windows \cup {NoWindow} /\ NoWindow \notin Windows
  BY <1>1, <1>2, ConstantsAssumption DEF FocusOK
<1>4. foc.mru \in Seq(Windows) /\ foc.told \subseteq Windows
  BY <1>2 DEF Foci
<1>5. /\ Push(foc.mru, w) \in Seq(Windows)
      /\ IsInjective(Push(foc.mru, w))
      /\ Range(Push(foc.mru, w)) = Range(foc.mru) \cup {w}
      /\ Push(foc.mru, w) # <<>>
      /\ Push(foc.mru, w)[Len(Push(foc.mru, w))] = w
  BY <1>2, <1>4, PushProperties
<1> HIDE DEF prev
<1>6. /\ new \in Foci /\ new.mru = Push(foc.mru, w) /\ new.told = {w}
      /\ new.session = app /\ new.surface = w
  <2> DEFINE moved == [foc EXCEPT !.mru = Push(foc.mru, w), !.session = app, !.surface = w]
             lost  == IF prev \notin {NoWindow, w} THEN FocusLost(moved, prev) ELSE moved
  <2>1. /\ moved \in Foci /\ moved.mru = Push(foc.mru, w) /\ moved.told = foc.told
        /\ moved.session = app /\ moved.surface = w
    BY <1>2, <1>4, <1>5 DEF Foci
  <2>2. /\ lost \in Foci /\ lost.mru = Push(foc.mru, w) /\ lost.told \subseteq {w}
        /\ lost.session = app /\ lost.surface = w
    <3> HIDE DEF moved
    <3>1. CASE prev \in {NoWindow, w}
      BY <3>1, <2>1, <1>1, <1>3, <1>4
    <3>2. CASE prev \notin {NoWindow, w} /\ prev \in moved.told
      BY <3>2, <2>1, <1>1, <1>3 DEF FocusLost, Foci
    <3>3. CASE prev \notin {NoWindow, w} /\ prev \notin moved.told
      BY <3>3, <2>1, <1>1, <1>3 DEF FocusLost, Foci
    <3> QED BY <3>1, <3>2, <3>3
  <2>3. new = [lost EXCEPT !.told = lost.told \cup {w}]
    BY DEF Activate
  <2> HIDE DEF lost, new
  <2> QED BY <2>2, <2>3, <1>2 DEF Foci
<1> HIDE DEF new
<1>7. FocusOK(new, info, seen, visible, open)
  BY <1>5, <1>6 DEF FocusOK
<1> QED BY <1>6, <1>7 DEF new, prev

\* Taking the focus from the active window.
LEMMA DeactivatePreserves ==
    ASSUME NEW foc, NEW info, NEW seen, NEW visible, NEW open,
           FocusOK(foc, info, seen, visible, open), DOMAIN info \subseteq Windows,
           Top(foc.mru, visible) # NoWindow
    PROVE  /\ FocusOK(Deactivate(foc, Top(foc.mru, visible)), info, seen, visible, open)
           /\ Deactivate(foc, Top(foc.mru, visible)).told = {}
<1> DEFINE prev == Top(foc.mru, visible)
           new  == Deactivate(foc, prev)
           none == [foc EXCEPT !.session = NoApp, !.surface = NoWindow]
<1>1. prev \in Range(foc.mru) /\ foc.told \subseteq {prev}
  BY TopOfFocus
<1>2. foc \in Foci /\ prev \in Windows
  BY <1>1 DEF FocusOK
<1> HIDE DEF prev
<1>3. /\ none \in Foci /\ none.mru = foc.mru /\ none.told = foc.told
      /\ none.session = NoApp /\ none.surface = NoWindow
  BY <1>2 DEF Foci
<1>4. new = FocusLost(none, prev)
  BY DEF Deactivate
<1> HIDE DEF none, new
<1>5. /\ new \in Foci /\ new.mru = foc.mru /\ new.told = {}
      /\ new.session = NoApp /\ new.surface = NoWindow
  <2>1. CASE prev \in none.told
    BY <2>1, <1>1, <1>2, <1>3, <1>4 DEF FocusLost, Foci
  <2>2. CASE prev \notin none.told
    BY <2>2, <1>1, <1>2, <1>3, <1>4 DEF FocusLost, Foci
  <2> QED BY <2>1, <2>2
<1>6. FocusOK(new, info, seen, visible, open)
  BY <1>5 DEF FocusOK
<1> QED BY <1>5, <1>6 DEF new, prev

\* select_active_window() preserves all of it, whichever window it is given.
LEMMA SelectPreserves ==
    ASSUME NEW foc, NEW info, NEW seen, NEW visible, NEW open, NEW hint,
           FocusOK(foc, info, seen, visible, open), InfoOK(info, open),
           visible \subseteq seen, open \subseteq Apps
    PROVE  FocusOK(select_active_window(foc, info, visible, hint), info, seen, visible, open)
<1> DEFINE prev == Top(foc.mru, visible)
           w    == Selected(info, visible, hint)
<1>1. DOMAIN info \subseteq Windows
  BY DEF InfoOK
<1>2. CASE hint = NoWindow /\ prev # NoWindow
  <2>1. FocusOK(Deactivate(foc, prev), info, seen, visible, open)
    BY <1>1, <1>2, DeactivatePreserves
  <2> QED BY <1>2, <2>1 DEF select_active_window
<1>3. CASE hint # NoWindow /\ w # NoWindow
  <2>1. w \in DOMAIN info /\ w \in visible /\ can_be_active(info[w].type)
    BY <1>3, SelectedSettles
  <2>2. info[w].app \in open
    BY <2>1 DEF InfoOK
  <2> HIDE DEF w
  <2>3. FocusOK(Activate(foc, prev, info[w].app, w), info, seen, visible, open)
    BY <1>1, <2>1, <2>2, ActivatePreserves
  <2> QED BY <1>3, <2>3 DEF select_active_window, w
<1>4. CASE ~(hint = NoWindow /\ prev # NoWindow) /\ ~(hint # NoWindow /\ w # NoWindow)
  BY <1>4 DEF select_active_window
<1> QED BY <1>2, <1>3, <1>4

-----------------------------------------------------------------------------
\* Mir's turn over the sessions visits sessions only.
LEMMA RotationVisitsSessions ==
    ASSUME NEW foc, NEW first, sessions \in Seq(Apps),
           foc.session \in Range(sessions) \cup {NoApp},
           foc.session = NoApp /\ sessions # <<>> => first \in Range(sessions)
    PROVE  /\ DOMAIN Rotation(foc, first) = 1..Len(sessions)
           /\ \A k \in 1..Len(sessions) : Rotation(foc, first)[k] \in Range(sessions)
<1> DEFINE n  == Len(sessions)
           at == IF foc.session = NoApp
                 THEN (CHOOSE i \in DOMAIN sessions : sessions[i] = first) - 1
                 ELSE CHOOSE i \in DOMAIN sessions : sessions[i] = foc.session
<1>1. n \in Nat /\ DOMAIN sessions = 1..n
  BY LenProperties
<1>2. Rotation(foc, first) = [k \in 1..n |-> sessions[((at + k - 1) % n) + 1]]
  BY DEF Rotation
<1>3. ASSUME NEW k \in 1..n
      PROVE  ((at + k - 1) % n) + 1 \in 1..n
  <2>1. n \in Nat /\ n > 0 /\ sessions # <<>>
    BY <1>1, EmptySeq
  <2>2. at \in Int
    <3>1. CASE foc.session = NoApp
      <4>1. \E i \in DOMAIN sessions : sessions[i] = first
        BY <2>1, <3>1 DEF Range
      <4>2. (CHOOSE i \in DOMAIN sessions : sessions[i] = first) \in 1..n
        BY <4>1, <1>1
      <4> QED BY <4>2, <3>1
    <3>2. CASE foc.session # NoApp
      <4>1. \E i \in DOMAIN sessions : sessions[i] = foc.session
        BY <3>2 DEF Range
      <4>2. (CHOOSE i \in DOMAIN sessions : sessions[i] = foc.session) \in 1..n
        BY <4>1, <1>1
      <4> QED BY <4>2, <3>2
    <3> QED BY <3>1, <3>2
  <2> HIDE DEF at, n
  <2>3. ASSUME NEW m \in Int PROVE m % n \in 0..(n - 1)
    BY <2>1
  <2>4. at + k - 1 \in Int
    BY <2>2, <1>1
  <2>5. (at + k - 1) % n \in 0..(n - 1)
    BY <2>3, <2>4
  <2> QED BY <2>1, <2>5
<1> HIDE DEF at
<1> QED BY <1>1, <1>2, <1>3 DEF Range

\* Neither the MRU list nor what the policy has been told has changed.
SameWindows(foc, new) == new.mru = foc.mru /\ new.told = foc.told

\* Mir's focus on the first surface of a session.
LEMMA FocusSessionPreserves ==
    ASSUME NEW foc, NEW info, NEW seen, NEW visible, NEW open, NEW apps, NEW app \in open,
           FocusOK(foc, info, seen, visible, open), DOMAIN info \subseteq Windows,
           AppsOK(apps, info), open \subseteq Apps
    PROVE  /\ FocusOK(FocusSession(foc, apps, app), info, seen, visible, open)
           /\ SameWindows(foc, FocusSession(foc, apps, app))
<1> DEFINE first == IF apps[app] = <<>> THEN NoWindow ELSE apps[app][1]
           new   == [foc EXCEPT !.session = app, !.surface = first]
<1>1. first \in DOMAIN info \cup {NoWindow}
  <2>1. apps[app] \in Seq(Windows) /\ Range(apps[app]) \subseteq DOMAIN info
    BY DEF AppsOK
  <2>2. apps[app] # <<>> => 1 \in DOMAIN apps[app]
    BY <2>1, EmptySeq, LenProperties
  <2> QED BY <2>1, <2>2 DEF Range
<1>2. new = FocusSession(foc, apps, app)
  BY DEF FocusSession
<1> HIDE DEF first
<1>3. /\ new \in Foci /\ new.mru = foc.mru /\ new.told = foc.told
      /\ new.session = app /\ new.surface = first
  BY <1>1 DEF FocusOK, Foci
<1> HIDE DEF new
<1>4. FocusOK(new, info, seen, visible, open) /\ SameWindows(foc, new)
  BY <1>1, <1>3 DEF FocusOK, SameWindows
<1> QED BY <1>2, <1>4

LEMMA FocusNextSessionPreserves ==
    ASSUME NEW foc, NEW info, NEW seen, NEW visible, NEW apps, NEW first,
           sessions \in Seq(Apps), FocusOK(foc, info, seen, visible, Range(sessions)),
           foc.session = NoApp /\ sessions # <<>> => first \in Range(sessions),
           DOMAIN info \subseteq Windows, AppsOK(apps, info)
    PROVE  /\ FocusOK(focus_next_session(foc, apps, first), info, seen, visible, Range(sessions))
           /\ SameWindows(foc, focus_next_session(foc, apps, first))
<1> DEFINE turn == Rotation(foc, first)
           with == {k \in DOMAIN turn : apps[turn[k]] # <<>>}
           next == IF with = {} THEN turn[1] ELSE turn[Min(with)]
<1>1. Range(sessions) \subseteq Apps /\ Len(sessions) \in Nat
  BY LenProperties DEF Range
<1>2. /\ DOMAIN turn = 1..Len(sessions)
      /\ \A k \in 1..Len(sessions) : turn[k] \in Range(sessions)
  BY RotationVisitsSessions DEF FocusOK
<1>3. CASE turn = <<>>
  <2> DEFINE none == [foc EXCEPT !.session = NoApp, !.surface = NoWindow]
  <2>1. focus_next_session(foc, apps, first) = none
    BY <1>3 DEF focus_next_session
  <2>2. /\ none \in Foci /\ none.mru = foc.mru /\ none.told = foc.told
        /\ none.session = NoApp /\ none.surface = NoWindow
    BY DEF FocusOK, Foci
  <2> HIDE DEF none
  <2>3. FocusOK(none, info, seen, visible, Range(sessions)) /\ SameWindows(foc, none)
    BY <2>2 DEF FocusOK, SameWindows
  <2> QED BY <2>1, <2>3
<1>4. CASE turn # <<>>
  <2>1. next \in Range(sessions)
    <3>1. CASE with = {}
      <4>1. Len(sessions) # 0
        <5> SUFFICES ASSUME Len(sessions) = 0 PROVE FALSE
          OBVIOUS
        <5>1. turn = [k \in 1..Len(sessions) |-> turn[k]]
          BY <1>2 DEF Rotation
        <5>2. turn \in Seq({}) /\ Len(turn) = 0
          BY <5>1
        <5> QED BY <5>2, <1>4, EmptySeq
      <4> QED BY <4>1, <1>1, <1>2, <3>1
    <3>2. CASE with # {}
      <4>1. with \subseteq 1..Len(sessions)
        BY <1>2
      <4>2. Min(with) \in with
        <5> HIDE DEF with
        <5> QED BY <4>1, <3>2, <1>1, MinProperties
      <4> QED BY <4>2, <1>2, <3>2
    <3> QED BY <3>1, <3>2
  <2>2. focus_next_session(foc, apps, first) = FocusSession(foc, apps, next)
    BY <1>4 DEF focus_next_session
  <2> HIDE DEF next
  <2> QED BY <2>1, <2>2, <1>1, FocusSessionPreserves
<1> QED BY <1>3, <1>4

-----------------------------------------------------------------------------
\* A selection, from a focus that differs in Mir's part only, of a window that
\* a search has found or of the one that Mir has the focus in.
SelectsFrom(foc, new, info, seen, visible, open) ==
    \E base, hint : /\ FocusOK(base, info, seen, visible, open)
                    /\ SameWindows(foc, base)
                    /\ new = select_active_window(base, info, visible, hint)
                    /\ \/ hint = base.surface
                       \/ hint # NoWindow /\ \E among : hint = Candidate(foc, info, visible, among)

\* focus_next_application() ends with a selection, and before it has moved the
\* focus of Mir only.
LEMMA NextApplicationSelects ==
    ASSUME NEW foc, NEW info, NEW seen, NEW visible, NEW rows, NEW apps, NEW first,
           sessions \in Seq(Apps), FocusOK(foc, info, seen, visible, Range(sessions)),
           foc.session = NoApp /\ sessions # <<>> => first \in Range(sessions),
           InfoOK(info, Range(sessions)), AppsOK(apps, info), visible \subseteq seen
    PROVE  SelectsFrom(foc, focus_next_application(foc, apps, info, visible, rows, first),
                       info, seen, visible, Range(sessions))
<1> DEFINE prev == Top(foc.mru, visible)
           wss  == IF prev = NoWindow THEN {} ELSE workspaces_containing(rows, prev)
           turn == Rotation(foc, first)
           InWorkspace(k) ==
               Candidate(foc, info, visible, Range(apps[turn[k]]) \cap Sharing(rows, wss))
           stop == {k \in DOMAIN turn : /\ apps[turn[k]] # <<>>
                                        /\ \/ InWorkspace(k) # NoWindow
                                           \/ turn[k] = info[prev].app}
           loops   == wss # {} /\ stop # {}
           looped  == IF loops THEN FocusSession(foc, apps, turn[Min(stop)]) ELSE foc
           next    == focus_next_session(looped, apps, first)
           in_next == IF next.session = NoApp THEN NoWindow
                      ELSE Candidate(foc, info, visible, Range(apps[next.session]))
           OK(f)   == FocusOK(f, info, seen, visible, Range(sessions)) /\ SameWindows(foc, f)
           by_workspace == InWorkspace(Min(stop))
           last_resort  == IF in_next # NoWindow THEN in_next ELSE next.surface
<1>1. Range(sessions) \subseteq Apps /\ Len(sessions) \in Nat /\ DOMAIN info \subseteq Windows
  BY LenProperties DEF Range, InfoOK
<1>2. /\ DOMAIN turn = 1..Len(sessions)
      /\ \A k \in 1..Len(sessions) : turn[k] \in Range(sessions)
  BY RotationVisitsSessions DEF FocusOK
<1>3. stop # {} => turn[Min(stop)] \in Range(sessions)
  <2>1. stop \subseteq 1..Len(sessions)
    BY <1>2
  <2> HIDE DEF stop
  <2> QED BY <2>1, <1>1, <1>2, MinProperties
<1> HIDE DEF turn, stop
<1>4. OK(looped) /\ (looped.session = NoApp /\ sessions # <<>> => first \in Range(sessions))
  <2>1. CASE loops
    <3>1. looped = FocusSession(foc, apps, turn[Min(stop)]) /\ turn[Min(stop)] \in Range(sessions)
      BY <2>1, <1>3
    <3>2. OK(looped)
      BY <3>1, <1>1, FocusSessionPreserves
    <3>3. looped.session = turn[Min(stop)]
      BY <3>1, <1>1 DEF FocusSession, FocusOK, Foci
    <3>4. NoApp \notin Range(sessions)
      BY <1>1, ConstantsAssumption
    <3> QED BY <3>1, <3>2, <3>3, <3>4
  <2>2. CASE ~loops
    BY <2>2 DEF SameWindows
  <2> QED BY <2>1, <2>2
<1> HIDE DEF looped
<1>5. OK(next)
  <2>1. FocusOK(next, info, seen, visible, Range(sessions)) /\ SameWindows(looped, next)
    BY <1>1, <1>4, FocusNextSessionPreserves
  <2> HIDE DEF next
  <2> QED BY <1>4, <2>1 DEF SameWindows
<1>6. focus_next_application(foc, apps, info, visible, rows, first) =
        IF loops /\ by_workspace # NoWindow
        THEN select_active_window(looped, info, visible, by_workspace)
        ELSE select_active_window(next, info, visible, last_resort)
  BY Zenon DEF focus_next_application, looped, stop, turn
<1>7. \E among : by_workspace = Candidate(foc, info, visible, among)
  OBVIOUS
<1>8. \/ last_resort = next.surface
      \/ last_resort # NoWindow /\ \E among : last_resort = Candidate(foc, info, visible, among)
  BY Zenon
<1> HIDE DEF by_workspace, last_resort, next, loops
<1> QED BY <1>4, <1>5, <1>6, <1>7, <1>8, Zenon DEF SelectsFrom

\* focus_next_application() preserves what the invariants say of the focus.
LEMMA NextApplicationPreserves ==
    ASSUME NEW foc, NEW info, NEW seen, NEW visible, NEW rows, NEW apps, NEW first,
           sessions \in Seq(Apps), FocusOK(foc, info, seen, visible, Range(sessions)),
           foc.session = NoApp /\ sessions # <<>> => first \in Range(sessions),
           InfoOK(info, Range(sessions)), AppsOK(apps, info), visible \subseteq seen
    PROVE  FocusOK(focus_next_application(foc, apps, info, visible, rows, first),
                   info, seen, visible, Range(sessions))
<1>1. SelectsFrom(foc, focus_next_application(foc, apps, info, visible, rows, first),
                  info, seen, visible, Range(sessions))
  BY NextApplicationSelects
<1>2. Range(sessions) \subseteq Apps
  BY DEF Range
<1> QED BY <1>1, <1>2, SelectPreserves DEF SelectsFrom

LEMMA RefocusPreserves ==
    ASSUME NEW foc, NEW info, NEW seen, NEW visible, NEW rows, NEW apps, NEW app,
           NEW parent, NEW wss, NEW first,
           sessions \in Seq(Apps), FocusOK(foc, info, seen, visible, Range(sessions)),
           foc.session = NoApp /\ sessions # <<>> => first \in Range(sessions),
           InfoOK(info, Range(sessions)), AppsOK(apps, info), visible \subseteq seen
    PROVE  FocusOK(refocus(foc, apps, info, visible, rows, app, parent, wss, first),
                   info, seen, visible, Range(sessions))
<1>1. \E hint : \/ refocus(foc, apps, info, visible, rows, app, parent, wss, first) =
                       select_active_window(foc, info, visible, hint)
                \/ refocus(foc, apps, info, visible, rows, app, parent, wss, first) =
                       focus_next_application(foc, apps, info, visible, rows, first)
  BY Zenon DEF refocus
<1>2. Range(sessions) \subseteq Apps
  BY DEF Range
<1> QED BY <1>1, <1>2, SelectPreserves, NextApplicationPreserves

\* The cycling within an application.
LEMMA WithinApplicationPreserves ==
    ASSUME NEW foc, NEW info, NEW seen, NEW visible, NEW rows, NEW siblings, NEW open,
           FocusOK(foc, info, seen, visible, open), InfoOK(info, open), open \subseteq Apps,
           visible \subseteq seen, Top(foc.mru, visible) # NoWindow
    PROVE  FocusOK(focus_within_application(foc, info, visible, rows, siblings,
                                            Top(foc.mru, visible)),
                   info, seen, visible, open)
<1> DEFINE prev  == Top(foc.mru, visible)
           again == Activate(foc, prev, info[prev].app, prev)
           OK(f) == FocusOK(f, info, seen, visible, open)
<1>1. DOMAIN info \subseteq Windows
  BY DEF InfoOK
<1>2. prev \in Range(foc.mru) /\ prev \in visible
  BY <1>1, TopOfFocus
<1>3. prev \in DOMAIN info /\ can_be_active(info[prev].type) /\ info[prev].app \in open
  BY <1>2 DEF FocusOK, InfoOK
<1>4. OK(again)
  <2> HIDE DEF prev
  <2>1. OK(Activate(foc, Top(foc.mru, visible), info[prev].app, prev))
    BY <1>1, <1>2, <1>3, ActivatePreserves
  <2> QED BY <2>1 DEF prev
<1>5. \E base \in {foc, again} :
         \/ focus_within_application(foc, info, visible, rows, siblings, prev) = base
         \/ \E hint : focus_within_application(foc, info, visible, rows, siblings, prev) =
                         select_active_window(base, info, visible, hint)
  <2> HIDE DEF prev
  <2> QED BY Zenon DEF focus_within_application
<1> HIDE DEF again, prev
<1> QED BY <1>4, <1>5, SelectPreserves DEF prev

-----------------------------------------------------------------------------
LEMMA TrySelectPreserves ==
    ASSUME NEW foc, NEW info, NEW seen, NEW visible, NEW open, NEW hint,
           FocusOK(foc, info, seen, visible, open), InfoOK(info, open),
           visible \subseteq seen, open \subseteq Apps
    PROVE  FocusOK(TrySelect(foc, info, visible, hint), info, seen, visible, open)
BY SelectPreserves DEF TrySelect

LEMMA TryAwayPreserves ==
    ASSUME NEW foc, NEW info, NEW seen, NEW visible, NEW open, NEW w, NEW among,
           FocusOK(foc, info, seen, visible, open), InfoOK(info, open),
           visible \subseteq seen, open \subseteq Apps
    PROVE  FocusOK(TryAway(foc, info, visible, w, among), info, seen, visible, open)
BY TrySelectPreserves DEF TryAway

\* Hiding the active window: afterwards the policy does not think it focused.
LEMMA GiveUpPreserves ==
    ASSUME NEW foc, NEW info, NEW seen, NEW visible, NEW open, NEW w \in Windows,
           FocusOK(foc, info, seen, visible, open), InfoOK(info, open),
           visible \subseteq seen, open \subseteq Apps
    PROVE  /\ FocusOK(GiveUp(foc, info, visible, w), info, seen, visible, open)
           /\ w \notin GiveUp(foc, info, visible, w).told
<1>1. DOMAIN info \subseteq Windows /\ w # NoWindow
  BY ConstantsAssumption DEF InfoOK
<1>2. CASE Top(foc.mru, visible) = w
  <2>1. GiveUp(foc, info, visible, w) = Deactivate(foc, Top(foc.mru, visible))
    BY <1>1, <1>2 DEF GiveUp, select_active_window
  <2>2. /\ FocusOK(Deactivate(foc, Top(foc.mru, visible)), info, seen, visible, open)
        /\ Deactivate(foc, Top(foc.mru, visible)).told = {}
    BY <1>1, <1>2, DeactivatePreserves
  <2> QED BY <2>1, <2>2
<1>3. CASE Top(foc.mru, visible) # w
  <2>1. GiveUp(foc, info, visible, w) = foc
    BY <1>3 DEF GiveUp
  <2>2. w \notin foc.told
    BY <1>1, <1>3, TopOfFocus
  <2> QED BY <2>1, <2>2
<1> QED BY <1>2, <1>3

LEMMA FocusAwayPreserves ==
    ASSUME NEW foc, NEW info, NEW seen, NEW visible, NEW rows, NEW open, NEW w \in Windows,
           FocusOK(foc, info, seen, visible, open), InfoOK(info, open),
           visible \subseteq seen, open \subseteq Apps
    PROVE  /\ FocusOK(FocusAwayFrom(foc, info, visible, rows, w), info, seen, visible, open)
           /\ w \notin FocusAwayFrom(foc, info, visible, rows, w).told
<1> DEFINE shared == Sharing(rows, workspaces_containing(rows, w)) \ {w}
           f1 == select_active_window(foc, info, visible, w)
           f2 == TryAway(f1, info, visible, w, shared)
           f3 == TryAway(f2, info, visible, w, Windows \ {w})
<1>1. FocusAwayFrom(foc, info, visible, rows, w) = GiveUp(f3, info, visible, w)
  BY Zenon DEF FocusAwayFrom
<1>2. FocusOK(f1, info, seen, visible, open)
  BY SelectPreserves
<1> HIDE DEF f1, shared
<1>3. FocusOK(f2, info, seen, visible, open)
  BY <1>2, TryAwayPreserves
<1> HIDE DEF f2
<1>4. FocusOK(f3, info, seen, visible, open)
  BY <1>3, TryAwayPreserves
<1> HIDE DEF f3
<1> QED BY <1>1, <1>4, GiveUpPreserves

\* The focus after set_state(), with the surfaces that are visible by then.
LEMMA AfterStatePreserves ==
    ASSUME NEW foc, NEW info, NEW rows, NEW open, NEW w \in DOMAIN info,
           NEW value \in WindowStates, open \subseteq Apps, InfoOK(info, open),
           FocusOK(foc, info, posted, VisibleSurfaces(info), open)
    PROVE  FocusOK(FocusAfterState(foc, info, rows, w, value),
                   [info EXCEPT ![w].state = value], posted,
                   VisibleSurfaces([info EXCEPT ![w].state = value]), open)
<1> DEFINE after   == [info EXCEPT ![w].state = value]
           visible == VisibleSurfaces(info)
           new     == FocusAfterState(foc, info, rows, w, value)
<1>1. /\ DOMAIN after = DOMAIN info
      /\ \A x \in DOMAIN info : /\ after[x] \in WindowInfos
                                /\ after[x].app = info[x].app
                                /\ after[x].type = info[x].type
                                /\ after[x].parent = info[x].parent
                                /\ after[x].children = info[x].children
                                /\ after[x].state = IF x = w THEN value ELSE info[x].state
  BY DEF InfoOK, WindowInfos
<1>2. after \in [DOMAIN after -> WindowInfos]
  BY <1>1
<1>3. /\ visible \subseteq posted /\ VisibleSurfaces(after) \subseteq posted
      /\ visible \ {w} \subseteq VisibleSurfaces(after)
      /\ value \notin HiddenStates => visible \subseteq VisibleSurfaces(after)
      /\ value = info[w].state => visible = VisibleSurfaces(after)
  BY <1>1 DEF VisibleSurfaces
<1> HIDE DEF after
<1>4. InfoOK(after, open)
  BY <1>1, <1>2 DEF InfoOK
<1>5. \A f, v : FocusOK(f, info, posted, v, open) => FocusOK(f, after, posted, v, open)
  BY <1>1 DEF FocusOK
<1>6. FocusOK(foc, after, posted, visible, open)
  BY <1>5
<1> HIDE DEF visible
<1>7. \A f : FocusOK(f, after, posted, visible, open) /\ w \notin f.told
             => FocusOK(f, after, posted, VisibleSurfaces(after), open)
  BY <1>3 DEF FocusOK
<1>8. \A f : FocusOK(f, after, posted, visible, open) /\ visible \subseteq VisibleSurfaces(after)
             => FocusOK(f, after, posted, VisibleSurfaces(after), open)
  BY DEF FocusOK
<1>9. DOMAIN info \subseteq Windows /\ w \in Windows
  BY DEF InfoOK
<1>10. CASE info[w].state = value
  BY <1>3, <1>6, <1>8, <1>10, Zenon DEF FocusAfterState, after
<1>11. CASE info[w].state # value /\ value \in HiddenStates /\ Top(foc.mru, visible) = w
  <2>1. new = FocusAwayFrom(foc, after, visible, rows, w)
    BY <1>11 DEF FocusAfterState, after, visible
  <2> QED BY <2>1, <1>3, <1>4, <1>6, <1>7, <1>9, FocusAwayPreserves DEF after
<1>12. CASE info[w].state # value /\ value \in HiddenStates /\ Top(foc.mru, visible) # w
  <2>1. new = foc
    BY <1>12 DEF FocusAfterState, visible
  <2>2. w \notin foc.told
    BY <1>12, <1>9, TopOfFocus DEF visible
  <2> QED BY <2>1, <2>2, <1>6, <1>7 DEF after
<1>13. CASE info[w].state # value /\ value \notin HiddenStates
  <2>1. new \in {foc, select_active_window(foc, after, VisibleSurfaces(after), w)}
    BY <1>13 DEF FocusAfterState, after
  <2>2. FocusOK(foc, after, posted, VisibleSurfaces(after), open)
    BY <1>3, <1>6, <1>8, <1>13
  <2>3. FocusOK(select_active_window(foc, after, VisibleSurfaces(after), w),
                after, posted, VisibleSurfaces(after), open)
    BY <2>2, <1>3, <1>4, SelectPreserves
  <2> HIDE DEF new
  <2>4. FocusOK(new, after, posted, VisibleSurfaces(after), open)
    BY <2>1, <2>2, <2>3
  <2> QED BY <2>4 DEF new, after
<1> QED BY <1>10, <1>11, <1>12, <1>13

-----------------------------------------------------------------------------
\* The tree of windows: children() holds each child once, and exactly the
\* windows whose parent() this is.
ChildrenOK(info) ==
    \A w \in DOMAIN info :
        /\ IsInjective(info[w].children)
        /\ \A x \in DOMAIN info : x \in Range(info[w].children) <=> info[x].parent = w

LEMMA StateChangeKeepsTree ==
    ASSUME NEW info, NEW open, NEW w \in DOMAIN info, NEW value \in WindowStates,
           InfoOK(info, open), ChildrenOK(info)
    PROVE  /\ InfoOK([info EXCEPT ![w].state = value], open)
           /\ ChildrenOK([info EXCEPT ![w].state = value])
<1> DEFINE after == [info EXCEPT ![w].state = value]
<1>1. /\ DOMAIN after = DOMAIN info
      /\ \A x \in DOMAIN info : /\ after[x] \in WindowInfos
                                /\ after[x].app = info[x].app
                                /\ after[x].parent = info[x].parent
                                /\ after[x].children = info[x].children
  BY DEF InfoOK, WindowInfos
<1>2. after \in [DOMAIN after -> WindowInfos]
  BY <1>1
<1> HIDE DEF after
<1>3. InfoOK(after, open)
  BY <1>1, <1>2 DEF InfoOK
<1>4. ChildrenOK(after)
  BY <1>1 DEF ChildrenOK
<1> QED BY <1>3, <1>4 DEF after

\* What erase() leaves of the windows.
LEMMA EraseKeepsTree ==
    ASSUME NEW info, NEW open, NEW w \in DOMAIN info, InfoOK(info, open), ChildrenOK(info)
    PROVE  /\ InfoOK(erase(info, w), open)
           /\ ChildrenOK(erase(info, w))
           /\ DOMAIN erase(info, w) = DOMAIN info \ {w}
           /\ \A x \in DOMAIN info \ {w} : /\ erase(info, w)[x].app = info[x].app
                                           /\ erase(info, w)[x].type = info[x].type
                                           /\ erase(info, w)[x].state = info[x].state
<1> DEFINE after == erase(info, w)
<1>1. NoWindow \notin DOMAIN info /\ DOMAIN info \subseteq Windows
  BY ConstantsAssumption DEF InfoOK
<1>2. \A x \in DOMAIN info : /\ info[x].children \in Seq(Windows)
                            /\ IsInjective(info[x].children)
                            /\ info[x] \in WindowInfos
  BY DEF InfoOK, ChildrenOK, WindowInfos
<1>3. \A x \in DOMAIN info : /\ Erase(info[x].children, w) \in Seq(Windows)
                            /\ IsInjective(Erase(info[x].children, w))
                            /\ Range(Erase(info[x].children, w)) = Range(info[x].children) \ {w}
  BY <1>2, EraseProperties
<1>4. DOMAIN after = DOMAIN info \ {w}
  BY DEF erase
<1>5. ASSUME NEW x \in DOMAIN after
      PROVE  /\ after[x] \in WindowInfos
             /\ after[x].app = info[x].app
             /\ after[x].type = info[x].type
             /\ after[x].state = info[x].state
             /\ after[x].parent = IF x \in Range(info[w].children) THEN NoWindow ELSE info[x].parent
             /\ after[x].children = IF x = info[w].parent THEN Erase(info[x].children, w)
                                    ELSE info[x].children
  BY <1>2, <1>3, <1>4 DEF erase, WindowInfos
<1>6. ASSUME NEW x \in DOMAIN after
      PROVE  /\ after[x].parent = IF info[x].parent = w THEN NoWindow ELSE info[x].parent
             /\ IsInjective(after[x].children)
             /\ Range(after[x].children) = Range(info[x].children) \ {w}
  <2>1. x \in DOMAIN info /\ (x # info[w].parent => w \notin Range(info[x].children))
    BY <1>4 DEF ChildrenOK
  <2>2. x \in Range(info[w].children) <=> info[x].parent = w
    BY <2>1 DEF ChildrenOK
  <2> HIDE DEF after
  <2>3. after[x].parent = IF info[x].parent = w THEN NoWindow ELSE info[x].parent
    BY <2>2, <1>5
  <2>4. CASE x = info[w].parent
    BY <2>4, <2>1, <2>3, <1>3, <1>5
  <2>5. CASE x # info[w].parent
    BY <2>5, <2>1, <2>3, <1>2, <1>5
  <2> QED BY <2>4, <2>5
<1>7. after \in [DOMAIN after -> WindowInfos]
  BY <1>5 DEF erase
<1> HIDE DEF after
<1>8. InfoOK(after, open)
  <2>1. ASSUME NEW x \in DOMAIN after
        PROVE  /\ after[x].app \in open
               /\ after[x].parent \in DOMAIN after \cup {NoWindow}
    BY <1>4, <1>5, <1>6 DEF InfoOK
  <2>2. ASSUME NEW x \in DOMAIN after
        PROVE  Range(after[x].children) \subseteq DOMAIN after
    BY <1>4, <1>6 DEF InfoOK
  <2> QED BY <2>1, <2>2, <1>1, <1>4, <1>7 DEF InfoOK
<1>9. ChildrenOK(after)
  BY <1>1, <1>4, <1>6 DEF ChildrenOK
<1> QED BY <1>4, <1>5, <1>8, <1>9 DEF after

\* A new window leaves the tree consistent.
LEMMA WithWindowKeepsTree ==
    ASSUME NEW info, NEW open, NEW w \in Windows \ DOMAIN info, NEW added \in WindowInfos,
           InfoOK(info, open), ChildrenOK(info),
           added.app \in open, added.children = <<>>,
           added.parent \in DOMAIN info \cup {NoWindow}
    PROVE  /\ InfoOK(WithWindow(info, w, added), open)
           /\ ChildrenOK(WithWindow(info, w, added))
           /\ DOMAIN WithWindow(info, w, added) = DOMAIN info \cup {w}
           /\ WithWindow(info, w, added)[w] = added
           /\ \A x \in DOMAIN info : /\ WithWindow(info, w, added)[x].app = info[x].app
                                     /\ WithWindow(info, w, added)[x].type = info[x].type
                                     /\ WithWindow(info, w, added)[x].state = info[x].state
<1> DEFINE after == WithWindow(info, w, added)
           old   == DOMAIN info
<1>1. w # NoWindow /\ old \subseteq Windows /\ NoWindow \notin old
  BY ConstantsAssumption DEF InfoOK
<1>2. DOMAIN after = old \cup {w} /\ after[w] = added
  BY DEF WithWindow
<1>3. ASSUME NEW x \in old
      PROVE  /\ info[x] \in WindowInfos
             /\ info[x].children \in Seq(Windows)
             /\ IsInjective(info[x].children)
             /\ w \notin Range(info[x].children)
             /\ info[x].parent # w
  BY <1>1 DEF InfoOK, ChildrenOK, WindowInfos
<1>4. ASSUME NEW x \in old
      PROVE  /\ Append(info[x].children, w) \in Seq(Windows)
             /\ IsInjective(Append(info[x].children, w))
             /\ Range(Append(info[x].children, w)) = Range(info[x].children) \cup {w}
  BY <1>3, AppendNewProperties
<1>5. ASSUME NEW x \in old
      PROVE  /\ after[x] \in WindowInfos
             /\ after[x].app = info[x].app
             /\ after[x].type = info[x].type
             /\ after[x].state = info[x].state
             /\ after[x].parent = info[x].parent
             /\ after[x].children = IF x = added.parent THEN Append(info[x].children, w)
                                    ELSE info[x].children
  BY <1>3, <1>4 DEF WithWindow, WindowInfos
<1>6. Range(added.children) = {} /\ IsInjective(added.children)
  BY EmptySeq DEF Range, IsInjective
<1>7. after \in [DOMAIN after -> WindowInfos]
  BY <1>2, <1>5 DEF WithWindow
<1> HIDE DEF after
<1>8. ASSUME NEW x \in old
      PROVE  /\ IsInjective(after[x].children)
             /\ Range(after[x].children) = IF x = added.parent THEN Range(info[x].children) \cup {w}
                                           ELSE Range(info[x].children)
  BY <1>3, <1>4, <1>5
<1>9. InfoOK(after, open)
  <2>1. ASSUME NEW x \in DOMAIN after
        PROVE  /\ after[x].app \in open
               /\ after[x].parent \in DOMAIN after \cup {NoWindow}
    BY <1>2, <1>5 DEF InfoOK
  <2>2. ASSUME NEW x \in DOMAIN after
        PROVE  Range(after[x].children) \subseteq DOMAIN after
    <3>1. CASE x = w
      BY <3>1, <1>2, <1>6
    <3>2. CASE x \in old
      BY <3>2, <1>2, <1>8 DEF InfoOK
    <3> QED BY <3>1, <3>2, <1>2
  <2> QED BY <2>1, <2>2, <1>1, <1>2, <1>7 DEF InfoOK
<1>10. ChildrenOK(after)
  <2> SUFFICES ASSUME NEW x \in DOMAIN after, NEW y \in DOMAIN after
               PROVE  /\ IsInjective(after[x].children)
                      /\ y \in Range(after[x].children) <=> after[y].parent = x
    BY DEF ChildrenOK
  <2>1. CASE x = w
    BY <2>1, <1>1, <1>2, <1>3, <1>5, <1>6
  <2>2. CASE x # w /\ y = w
    BY <2>2, <1>2, <1>3, <1>8
  <2>3. CASE x # w /\ y # w
    <3>1. y \in Range(info[x].children) <=> info[y].parent = x
      BY <2>3, <1>2 DEF ChildrenOK
    <3>2. x \in old /\ y \in old /\ y # w
      BY <2>3, <1>2
    <3>3. y \in Range(after[x].children) <=> y \in Range(info[x].children)
      BY <3>2, <1>8
    <3>4. IsInjective(after[x].children) /\ after[y].parent = info[y].parent
      BY <3>2, <1>5, <1>8
    <3> QED BY <3>1, <3>3, <3>4
  <2> QED BY <2>1, <2>2, <2>3
<1> QED BY <1>2, <1>5, <1>9, <1>10 DEF after

\* A change of parent leaves the tree consistent, even one that makes a cycle.
LEMMA ReparentKeepsTree ==
    ASSUME NEW info, NEW open, NEW w \in DOMAIN info, NEW p \in DOMAIN info,
           InfoOK(info, open), ChildrenOK(info)
    PROVE  /\ InfoOK(Reparent(info, w, p), open)
           /\ ChildrenOK(Reparent(info, w, p))
           /\ DOMAIN Reparent(info, w, p) = DOMAIN info
           /\ \A x \in DOMAIN info : /\ Reparent(info, w, p)[x].app = info[x].app
                                     /\ Reparent(info, w, p)[x].type = info[x].type
                                     /\ Reparent(info, w, p)[x].state = info[x].state
<1> DEFINE after == Reparent(info, w, p)
           without(x) == IF x = info[w].parent THEN Erase(info[x].children, w)
                         ELSE info[x].children
<1>1. DOMAIN info \subseteq Windows /\ w \in Windows /\ p \in Windows
  BY DEF InfoOK
<1>2. CASE info[w].parent = p
  BY <1>2 DEF Reparent
<1>3. CASE info[w].parent # p
  <2>1. ASSUME NEW x \in DOMAIN info
        PROVE  /\ info[x] \in WindowInfos
               /\ info[x].children \in Seq(Windows)
               /\ IsInjective(info[x].children)
               /\ w \in Range(info[x].children) <=> x = info[w].parent
    BY DEF InfoOK, ChildrenOK, WindowInfos
  <2>2. ASSUME NEW x \in DOMAIN info
        PROVE  /\ without(x) \in Seq(Windows)
               /\ IsInjective(without(x))
               /\ Range(without(x)) = Range(info[x].children) \ {w}
    BY <2>1, EraseProperties
  <2>3. ASSUME NEW x \in DOMAIN info
        PROVE  /\ Append(without(x), w) \in Seq(Windows)
               /\ IsInjective(Append(without(x), w))
               /\ Range(Append(without(x), w)) = Range(info[x].children) \cup {w}
    <3> HIDE DEF without
    <3>1. w \notin Range(without(x))
      BY <2>2
    <3> QED BY <3>1, <2>2, <1>1, AppendNewProperties
  <2>4. after = [x \in DOMAIN info |->
                    [info[x] EXCEPT !.children = IF x = p THEN Append(without(x), w) ELSE without(x),
                                    !.parent   = IF x = w THEN p ELSE info[x].parent]]
    BY <1>3 DEF Reparent
  <2> HIDE DEF after, without
  <2>5. ASSUME NEW x \in DOMAIN info
        PROVE  /\ after[x] \in WindowInfos
               /\ after[x].app = info[x].app
               /\ after[x].type = info[x].type
               /\ after[x].state = info[x].state
               /\ after[x].parent = IF x = w THEN p ELSE info[x].parent
               /\ after[x].children = IF x = p THEN Append(without(x), w) ELSE without(x)
    BY <2>1, <2>2, <2>3, <2>4, <1>1 DEF WindowInfos
  <2>6. DOMAIN after = DOMAIN info /\ after \in [DOMAIN after -> WindowInfos]
    BY <2>4, <2>5
  <2>7. ASSUME NEW x \in DOMAIN info
        PROVE  /\ IsInjective(after[x].children)
               /\ Range(after[x].children) = IF x = p THEN Range(info[x].children) \cup {w}
                                             ELSE Range(info[x].children) \ {w}
    BY <2>2, <2>3, <2>5
  <2>8. InfoOK(after, open)
    <3>1. ASSUME NEW x \in DOMAIN info
          PROVE  after[x].app \in open /\ after[x].parent \in DOMAIN after \cup {NoWindow}
      BY <2>5, <2>6 DEF InfoOK
    <3>2. ASSUME NEW x \in DOMAIN info
          PROVE  Range(after[x].children) \subseteq DOMAIN after
      BY <2>6, <2>7 DEF InfoOK
    <3> QED BY <3>1, <3>2, <2>6, <1>1 DEF InfoOK
  <2>9. ChildrenOK(after)
    <3> SUFFICES ASSUME NEW x \in DOMAIN info, NEW y \in DOMAIN info
                 PROVE  /\ IsInjective(after[x].children)
                        /\ y \in Range(after[x].children) <=> after[y].parent = x
      BY <2>6 DEF ChildrenOK
    <3>1. y \in Range(info[x].children) <=> info[y].parent = x
      BY DEF ChildrenOK
    <3> QED BY <3>1, <2>5, <2>7, <1>3
  <2> QED BY <2>5, <2>6, <2>8, <2>9 DEF after
<1> QED BY <1>2, <1>3

-----------------------------------------------------------------------------
(* The inductive invariant.                                                *)

SessionsInv == sessions \in Seq(Apps) /\ IsInjective(sessions)

WindowsInv == InfoOK(window_info, Range(sessions)) /\ ChildrenOK(window_info)

\* Each window is in the list of its own application, once, and in no other.
AppsInv ==
    /\ app_info \in [Apps -> Seq(Windows)]
    /\ \A a \in Apps : IsInjective(app_info[a])
    /\ \A a \in Apps : \A w \in Range(app_info[a]) : w \in Live /\ window_info[w].app = a
    /\ \A w \in Live : w \in Range(app_info[window_info[w].app])

WorkspacesInv ==
    /\ workspaces_to_windows \subseteq Workspaces \X Live
    /\ workspace \in [Workspaces -> WorkspaceStates]
    /\ dead_workspaces \subseteq Workspaces

SurfacesInv == posted \subseteq Live /\ ready \subseteq Windows

FocusInv ==
    FocusOK(focus, window_info, posted, VisibleSurfaces(window_info), Range(sessions))

Inv == /\ SessionsInv
       /\ WindowsInv
       /\ AppsInv
       /\ FullscreenExact
       /\ WorkspacesInv
       /\ SurfacesInv
       /\ FocusInv

-----------------------------------------------------------------------------
\* What an operation starts from.
LEMMA StartOfOperation ==
    ASSUME Inv
    PROVE  /\ Range(sessions) \subseteq Apps
           /\ Live \subseteq Windows
           /\ VisibleSurfaces(window_info) \subseteq posted
           /\ AppsOK(app_info, window_info)
           /\ Rows \subseteq Workspaces \X Live
           /\ FocusOK(focus, window_info, posted, VisibleSurfaces(window_info), Range(sessions))
           /\ focus.session = focus.session
           /\ \A first \in FirstSessions :
                 focus.session = NoApp /\ sessions # <<>> => first \in Range(sessions)
<1>1. Range(sessions) \subseteq Apps
  BY DEF Inv, SessionsInv, Range
<1>2. Live \subseteq Windows /\ VisibleSurfaces(window_info) \subseteq posted
  BY DEF Inv, WindowsInv, InfoOK, Live, VisibleSurfaces
<1>3. AppsOK(app_info, window_info)
  BY DEF Inv, AppsInv, AppsOK, Live
<1>4. Rows \subseteq Workspaces \X Live
  BY DEF Inv, WorkspacesInv, Rows
<1>5. focus \in Foci
  BY DEF Inv, FocusInv, FocusOK
<1>6. /\ focus \in Foci /\ focus.mru = focus.mru /\ focus.told = focus.told
      /\ focus.session = focus.session /\ focus.surface = focus.surface
  BY <1>5 DEF Foci
<1>7. FocusOK(focus, window_info, posted, VisibleSurfaces(window_info), Range(sessions))
  BY <1>6 DEF Inv, FocusInv, FocusOK
<1>8. \A first \in FirstSessions :
         focus.session = NoApp /\ sessions # <<>> => first \in Range(sessions)
  BY <1>6 DEF FirstSessions
<1> QED BY <1>1, <1>2, <1>3, <1>4, <1>6, <1>7, <1>8

\* An operation that leaves the tables of windows and applications alone has
\* only the focus and the workspaces to answer for.
LEMMA TablesUnchanged ==
    ASSUME Inv, UNCHANGED <<sessions, app_info, window_info, fullscreen_surfaces, posted>>,
           FocusOK(focus', window_info, posted, VisibleSurfaces(window_info), Range(sessions)),
           workspaces_to_windows' \subseteq Workspaces \X Live,
           workspace' \in [Workspaces -> WorkspaceStates],
           dead_workspaces' \subseteq Workspaces, ready' \subseteq Windows
    PROVE  Inv'
<1>1. SessionsInv' /\ WindowsInv' /\ AppsInv' /\ FullscreenExact'
  BY DEF Inv, SessionsInv, WindowsInv, InfoOK, ChildrenOK, AppsInv, FullscreenExact, Live
<1>2. WorkspacesInv' /\ SurfacesInv'
  BY DEF Inv, WorkspacesInv, SurfacesInv, Live
<1>3. FocusInv'
  BY DEF FocusInv, FocusOK, VisibleSurfaces
<1> QED BY <1>1, <1>2, <1>3 DEF Inv

LEMMA InitImpliesInv == Init => Inv
<1> SUFFICES ASSUME Init PROVE Inv
  OBVIOUS
<1>1. Live = {} /\ Range(sessions) = {} /\ \A a \in Apps : Range(app_info[a]) = {}
  BY EmptySeq DEF Init, Live, Range
<1>2. SessionsInv
  BY EmptySeq DEF Init, SessionsInv, IsInjective
<1>3. WindowsInv
  BY <1>1 DEF Init, WindowsInv, InfoOK, ChildrenOK, Live
<1>4. AppsInv
  BY <1>1, EmptySeq DEF Init, AppsInv, IsInjective
<1>5. FullscreenExact /\ WorkspacesInv /\ SurfacesInv
  BY <1>1 DEF Init, FullscreenExact, WorkspacesInv, SurfacesInv, WorkspaceStates
<1>6. FocusInv
  <2>1. focus \in Foci /\ IsInjective(focus.mru) /\ Range(focus.mru) = {}
    BY EmptySeq DEF Init, Foci, IsInjective, Range
  <2> QED BY <2>1 DEF Init, FocusInv, FocusOK
<1> QED BY <1>2, <1>3, <1>4, <1>5, <1>6 DEF Inv

-----------------------------------------------------------------------------
\* Sessions.
LEMMA AddSessionPreserves == \A a \in Apps : Inv /\ add_session(a) => Inv'
<1> SUFFICES ASSUME NEW a \in Apps, Inv, add_session(a) PROVE Inv'
  OBVIOUS
<1>1. /\ sessions' \in Seq(Apps) /\ IsInjective(sessions')
      /\ Range(sessions') = Range(sessions) \cup {a}
  BY AppendNewProperties DEF Inv, SessionsInv, add_session
<1>2. \A w \in Live : window_info[w].app # a
  BY DEF Inv, WindowsInv, InfoOK, Live, add_session
<1>3. SessionsInv' /\ FullscreenExact' /\ SurfacesInv'
  BY <1>1 DEF Inv, SessionsInv, FullscreenExact, SurfacesInv, Live, add_session
<1>4. WindowsInv'
  BY <1>1 DEF Inv, WindowsInv, InfoOK, ChildrenOK, add_session
<1>5. AppsInv'
  <2>1. app_info' = [app_info EXCEPT ![a] = <<>>] /\ window_info' = window_info
    BY DEF add_session
  <2>2. <<>> \in Seq(Windows) /\ IsInjective(<<>>) /\ Range(<<>>) = {}
    BY EmptySeq DEF IsInjective, Range
  <2>3. app_info' \in [Apps -> Seq(Windows)] /\ app_info'[a] = <<>>
    BY <2>1, <2>2 DEF Inv, AppsInv
  <2>4. \A b \in Apps : b # a => app_info'[b] = app_info[b]
    BY <2>1 DEF Inv, AppsInv
  <2>5. \A b \in Apps : IsInjective(app_info'[b])
    BY <2>2, <2>3, <2>4 DEF Inv, AppsInv
  <2>6. \A b \in Apps : \A w \in Range(app_info'[b]) : w \in Live /\ window_info[w].app = b
    BY <2>2, <2>3, <2>4 DEF Inv, AppsInv
  <2>7. \A w \in Live : w \in Range(app_info'[window_info[w].app])
    <3> SUFFICES ASSUME NEW w \in Live PROVE w \in Range(app_info'[window_info[w].app])
      OBVIOUS
    <3>1. window_info[w].app \in Apps /\ window_info[w].app # a
      BY <1>2, StartOfOperation DEF Inv, WindowsInv, InfoOK, Live
    <3> QED BY <3>1, <2>4 DEF Inv, AppsInv
  <2> QED BY <2>1, <2>3, <2>5, <2>6, <2>7 DEF AppsInv, Live
<1>6. WorkspacesInv'
  BY StartOfOperation DEF Inv, WorkspacesInv, Locker, Live, add_session
<1>7. FocusInv'
  BY <1>1, StartOfOperation DEF FocusInv, FocusOK, VisibleSurfaces, add_session
<1> QED BY <1>3, <1>4, <1>5, <1>6, <1>7 DEF Inv

LEMMA RemoveSessionPreserves == \A a \in Apps : Inv /\ remove_session(a) => Inv'
<1> SUFFICES ASSUME NEW a \in Apps, Inv, remove_session(a) PROVE Inv'
  OBVIOUS
<1>1. /\ sessions' \in Seq(Apps) /\ IsInjective(sessions')
      /\ Range(sessions') = Range(sessions) \ {a}
  BY EraseProperties DEF Inv, SessionsInv, remove_session
<1>2. \A w \in Live : window_info[w].app # a
  <2>1. Range(app_info[a]) = {}
    BY EmptySeq DEF remove_session, Range
  <2> QED BY <2>1 DEF Inv, AppsInv
<1>3. SessionsInv' /\ FullscreenExact' /\ SurfacesInv'
  BY <1>1 DEF Inv, SessionsInv, FullscreenExact, SurfacesInv, Live, remove_session
<1>4. WindowsInv'
  BY <1>1, <1>2 DEF Inv, WindowsInv, InfoOK, ChildrenOK, Live, remove_session
<1>5. AppsInv'
  BY DEF Inv, AppsInv, Live, remove_session
<1>6. WorkspacesInv'
  BY StartOfOperation DEF Inv, WorkspacesInv, Locker, Live, remove_session
<1>7. FocusInv'
  <2> DEFINE session == IF focus.session = a THEN NoApp ELSE focus.session
  <2>1. focus' = [focus EXCEPT !.session = session]
    BY DEF remove_session
  <2>2. focus \in Foci
    BY StartOfOperation DEF FocusOK
  <2>3. /\ focus' \in Foci /\ focus'.mru = focus.mru /\ focus'.told = focus.told
        /\ focus'.surface = focus.surface /\ focus'.session = session
    BY <2>1, <2>2 DEF Foci
  <2> QED BY <2>3, <1>1, StartOfOperation DEF FocusInv, FocusOK, VisibleSurfaces, remove_session
<1> QED BY <1>3, <1>4, <1>5, <1>6, <1>7 DEF Inv

-----------------------------------------------------------------------------
\* Windows.

\* A tree holds windows of the table only.
LEMMA TreeIsLive ==
    ASSUME NEW info, NEW w
    PROVE  Tree(info, w) \subseteq DOMAIN info
BY DEF Tree, Descendants

LEMMA AddSurfacePreserves ==
    \A a \in Apps, w \in Windows, type \in Types, state \in States,
       parent \in Live \cup {NoWindow} : Inv /\ add_surface(a, w, type, state, parent) => Inv'
<1> SUFFICES ASSUME NEW a \in Apps, NEW w \in Windows, NEW type \in Types,
                    NEW state \in States, NEW parent \in Live \cup {NoWindow},
                    Inv, add_surface(a, w, type, state, parent)
             PROVE  Inv'
  OBVIOUS
<1> DEFINE added == [app |-> a, type |-> type, state |-> state,
                     parent |-> parent, children |-> <<>>]
<1>1. added \in WindowInfos
  BY StartOfOperation, ConstantsAssumption, EmptySeq DEF WindowInfos
<1>2. /\ window_info' = WithWindow(window_info, w, added)
      /\ w \in Windows \ DOMAIN window_info /\ a \in Range(sessions)
  BY DEF add_surface, Live
<1>3. /\ added.app = a /\ added.children = <<>> /\ added.parent = parent
      /\ added.state = state /\ added.type = type
  OBVIOUS
<1> HIDE DEF added
<1>4. /\ InfoOK(window_info', Range(sessions)) /\ ChildrenOK(window_info')
      /\ DOMAIN window_info' = Live \cup {w} /\ window_info'[w] = added
      /\ \A x \in Live : /\ window_info'[x].app = window_info[x].app
                         /\ window_info'[x].type = window_info[x].type
                         /\ window_info'[x].state = window_info[x].state
  <2>1. /\ added.app \in Range(sessions) /\ added.parent \in DOMAIN window_info \cup {NoWindow}
        /\ added.children = <<>> /\ w \in Windows \ DOMAIN window_info
    BY <1>2, <1>3 DEF Live
  <2>2. InfoOK(window_info, Range(sessions)) /\ ChildrenOK(window_info)
    BY DEF Inv, WindowsInv
  <2> DEFINE new == WithWindow(window_info, w, added)
  <2>3. /\ InfoOK(new, Range(sessions)) /\ ChildrenOK(new)
        /\ DOMAIN new = DOMAIN window_info \cup {w} /\ new[w] = added
        /\ \A x \in DOMAIN window_info : /\ new[x].app = window_info[x].app
                                         /\ new[x].type = window_info[x].type
                                         /\ new[x].state = window_info[x].state
    <3>1. InfoOK(new, Range(sessions)) /\ ChildrenOK(new)
      BY <1>1, <2>1, <2>2, WithWindowKeepsTree
    <3>2. DOMAIN new = DOMAIN window_info \cup {w} /\ new[w] = added
      BY DEF WithWindow
    <3>3. ASSUME NEW x \in DOMAIN window_info
          PROVE  /\ new[x].app = window_info[x].app
                 /\ new[x].type = window_info[x].type
                 /\ new[x].state = window_info[x].state
      <4>1. window_info[x] \in WindowInfos /\ x # w
        BY <2>1, <2>2 DEF InfoOK
      <4> QED BY <4>1 DEF WithWindow, WindowInfos
    <3> QED BY <3>1, <3>2, <3>3
  <2> HIDE DEF new
  <2>4. window_info' = new
    BY <1>2 DEF new
  <2> QED BY <2>3, <2>4 DEF Live
<1>5. w \notin Live /\ sessions' = sessions /\ posted' = posted /\ w \notin posted
  BY <1>2 DEF add_surface, Inv, SurfacesInv, Live
<1>6. SessionsInv' /\ WindowsInv' /\ SurfacesInv'
  BY <1>4, <1>5 DEF Inv, SessionsInv, WindowsInv, SurfacesInv, Live, InfoOK, ChildrenOK, add_surface
<1>7. AppsInv'
  <2>1. /\ app_info[a] \in Seq(Windows) /\ IsInjective(app_info[a]) /\ w \notin Range(app_info[a])
    BY <1>5 DEF Inv, AppsInv
  <2>2. /\ Append(app_info[a], w) \in Seq(Windows) /\ IsInjective(Append(app_info[a], w))
        /\ Range(Append(app_info[a], w)) = Range(app_info[a]) \cup {w}
    BY <2>1, AppendNewProperties
  <2>3. app_info' = [app_info EXCEPT ![a] = Append(app_info[a], w)]
    BY DEF add_surface
  <2>4. /\ app_info' \in [Apps -> Seq(Windows)]
        /\ \A b \in Apps : app_info'[b] = IF b = a THEN Append(app_info[a], w) ELSE app_info[b]
    BY <2>2, <2>3 DEF Inv, AppsInv
  <2>5. \A b \in Apps : /\ IsInjective(app_info'[b])
                       /\ Range(app_info'[b]) = IF b = a THEN Range(app_info[a]) \cup {w}
                                                ELSE Range(app_info[b])
    BY <2>2, <2>4 DEF Inv, AppsInv
  <2>6. \A b \in Apps : \A x \in Range(app_info'[b]) : x \in Live' /\ window_info'[x].app = b
    <3> SUFFICES ASSUME NEW b \in Apps, NEW x \in Range(app_info'[b])
                 PROVE  x \in Live' /\ window_info'[x].app = b
      OBVIOUS
    <3>1. CASE x \in Range(app_info[b])
      <4>1. x \in Live /\ window_info[x].app = b
        BY <3>1 DEF Inv, AppsInv
      <4> QED BY <4>1, <1>4 DEF Live
    <3>2. CASE b = a /\ x = w
      BY <3>2, <1>3, <1>4 DEF Live
    <3> QED BY <3>1, <3>2, <2>5
  <2>7. ASSUME NEW x \in Live' PROVE x \in Range(app_info'[window_info'[x].app])
    <3>1. CASE x = w
      BY <3>1, <2>5, <1>3, <1>4
    <3>2. CASE x # w
      <4>1. x \in Live /\ window_info'[x].app = window_info[x].app /\ window_info[x].app \in Apps
        BY <3>2, <1>4, StartOfOperation DEF Live, Inv, WindowsInv, InfoOK
      <4>2. x \in Range(app_info[window_info[x].app])
        BY <4>1 DEF Inv, AppsInv
      <4> QED BY <4>1, <4>2, <2>5
    <3> QED BY <3>1, <3>2
  <2> QED BY <2>4, <2>5, <2>6, <2>7 DEF AppsInv
<1>8. FullscreenExact'
  BY <1>3, <1>4, <1>5 DEF Inv, FullscreenExact, Live, add_surface
<1>9. WorkspacesInv'
  <2>1. Tree(window_info', w) \subseteq Live'
    BY TreeIsLive DEF Live
  <2>2. \A ws : workspaces_containing(Rows, ws) \subseteq Workspaces
    BY DEF workspaces_containing
  <2>3. \E inherited \in SUBSET Workspaces :
           workspaces_to_windows' = Rows \cup (inherited \X Tree(window_info', w))
    BY <2>2, <1>2 DEF add_surface, added
  <2>4. workspaces_to_windows' \subseteq Workspaces \X Live'
    BY <2>1, <2>3, <1>4, StartOfOperation DEF Live
  <2> QED BY <2>4 DEF Inv, WorkspacesInv, Locker, add_surface
<1>10. FocusInv'
  <2>1. VisibleSurfaces(window_info)' = VisibleSurfaces(window_info)
    BY <1>4, <1>5 DEF VisibleSurfaces, Live
  <2>2. focus' = focus
    BY DEF add_surface
  <2>3. FocusOK(focus, window_info', posted, VisibleSurfaces(window_info), Range(sessions))
    BY <1>4, <1>5, StartOfOperation DEF FocusOK, Live
  <2> QED BY <2>1, <2>2, <2>3, <1>5 DEF FocusInv, FocusOK
<1> QED BY <1>6, <1>7, <1>8, <1>9, <1>10 DEF Inv

LEMMA FramePostedPreserves == \A w \in Live : Inv /\ frame_posted(w) => Inv'
<1> SUFFICES ASSUME NEW w \in Live, Inv, frame_posted(w) PROVE Inv'
  OBVIOUS
<1>1. SessionsInv' /\ WindowsInv' /\ AppsInv' /\ FullscreenExact' /\ WorkspacesInv'
  BY DEF Inv, SessionsInv, WindowsInv, InfoOK, ChildrenOK, AppsInv, FullscreenExact,
         WorkspacesInv, Live, frame_posted
<1>2. SurfacesInv'
  BY StartOfOperation DEF Inv, SurfacesInv, Live, frame_posted
<1>3. FocusInv'
  <2>1. VisibleSurfaces(window_info) \subseteq VisibleSurfaces(window_info)'
    BY DEF VisibleSurfaces, frame_posted
  <2> QED BY <2>1 DEF Inv, FocusInv, FocusOK, frame_posted
<1> QED BY <1>1, <1>2, <1>3 DEF Inv

LEMMA HandleWindowReadyPreserves == \A w \in ready : Inv /\ handle_window_ready(w) => Inv'
<1> SUFFICES ASSUME NEW w \in ready, Inv, handle_window_ready(w) PROVE Inv'
  OBVIOUS
<1> DEFINE OK(f) == FocusOK(f, window_info, posted, VisibleSurfaces(window_info), Range(sessions))
<1>1. OK(focus)
  BY StartOfOperation
<1>2. OK(select_active_window(focus, window_info, VisibleSurfaces(window_info), w))
  BY <1>1, StartOfOperation, SelectPreserves DEF Inv, WindowsInv
<1>3. OK(focus')
  BY <1>1, <1>2 DEF handle_window_ready
<1> QED BY <1>3, StartOfOperation, TablesUnchanged
        DEF handle_window_ready, Locker, Inv, WorkspacesInv, SurfacesInv

\* The table of windows and the focus may change together, if the windows
\* stay the same ones and keep their applications and types.
LEMMA WindowsModified ==
    ASSUME Inv, UNCHANGED <<sessions, app_info, workspace, posted, ready>>, Locker,
           workspaces_to_windows' = Rows,
           InfoOK(window_info', Range(sessions)), ChildrenOK(window_info'),
           DOMAIN window_info' = Live,
           \A x \in Live : window_info'[x].app = window_info[x].app,
           fullscreen_surfaces' = {x \in Live : window_info'[x].state = "fullscreen"},
           FocusOK(focus', window_info', posted, VisibleSurfaces(window_info'), Range(sessions))
    PROVE  Inv'
<1>1. SessionsInv' /\ WindowsInv' /\ FullscreenExact' /\ SurfacesInv'
  BY DEF Inv, SessionsInv, WindowsInv, InfoOK, ChildrenOK, FullscreenExact, SurfacesInv, Live
<1>2. AppsInv' /\ WorkspacesInv'
  BY StartOfOperation DEF Inv, AppsInv, WorkspacesInv, Locker, Live
<1>3. FocusInv'
  BY DEF FocusInv, FocusOK, VisibleSurfaces
<1> QED BY <1>1, <1>2, <1>3 DEF Inv

LEMMA ModifySurfacePreserves ==
    \A w \in Live, type \in TypeRequests \cup {Unset}, state \in States \cup {Unset} :
        \A parent \in NewParents(w) : Inv /\ modify_surface(w, type, state, parent) => Inv'
<1> SUFFICES ASSUME NEW w \in Live, NEW type, NEW state \in States \cup {Unset},
                    NEW parent \in NewParents(w),
                    Inv, modify_surface(w, type, state, parent)
             PROVE  Inv'
  BY Zenon
<1> DEFINE info   == IF parent = Unset THEN window_info ELSE Reparent(window_info, w, parent)
           after  == [info EXCEPT ![w].state = state]
           open   == Range(sessions)
           seen   == VisibleSurfaces(window_info)
<1>1. InfoOK(window_info, open) /\ ChildrenOK(window_info) /\ w \in DOMAIN window_info
  BY DEF Inv, WindowsInv, Live
<1>2. /\ InfoOK(info, open) /\ ChildrenOK(info) /\ DOMAIN info = Live
      /\ \A x \in Live : /\ info[x].app = window_info[x].app
                         /\ info[x].type = window_info[x].type
                         /\ info[x].state = window_info[x].state
  <2>1. CASE parent = Unset
    BY <2>1, <1>1 DEF Live
  <2>2. CASE parent # Unset
    <3>1. parent \in DOMAIN window_info
      BY <2>2 DEF NewParents, Live
    <3> HIDE DEF open
    <3> QED BY <2>2, <3>1, <1>1, ReparentKeepsTree DEF Live
  <2> QED BY <2>1, <2>2
<1> HIDE DEF info
<1>3. VisibleSurfaces(info) = seen
  BY <1>2 DEF VisibleSurfaces, Live
<1>4. FocusOK(focus, info, posted, VisibleSurfaces(info), open)
  <2>1. FocusOK(focus, window_info, posted, seen, open)
    BY StartOfOperation
  <2> HIDE DEF seen, open
  <2> QED BY <2>1, <1>2, <1>3 DEF FocusOK, Live
<1>5. CASE window_info' = window_info /\ fullscreen_surfaces' = fullscreen_surfaces
           /\ focus' = focus
  BY <1>5, StartOfOperation, TablesUnchanged
     DEF modify_surface, Locker, Inv, WorkspacesInv, SurfacesInv
<1>6. CASE state = Unset /\ window_info' = info /\ fullscreen_surfaces' = fullscreen_surfaces
           /\ focus' = focus
  <2>1. fullscreen_surfaces' = {x \in Live : window_info'[x].state = "fullscreen"}
    BY <1>2, <1>6 DEF Inv, FullscreenExact
  <2> QED BY <2>1, <1>2, <1>4, <1>6, WindowsModified DEF modify_surface
<1>7. CASE /\ state # Unset /\ window_info' = after
           /\ fullscreen_surfaces' = FullscreenAfterState(w, state)
           /\ focus' = FocusAfterState(focus, info, Rows, w, state)
  <2>1. state \in WindowStates /\ w \in DOMAIN info
    BY <1>2, <1>7, ConstantsAssumption
  <2>2. InfoOK(after, open) /\ ChildrenOK(after)
    BY <2>1, <1>2, StateChangeKeepsTree
  <2>3. /\ DOMAIN after = Live
        /\ \A x \in Live : /\ after[x].app = window_info[x].app
                           /\ after[x].state = IF x = w THEN state ELSE window_info[x].state
    BY <1>2 DEF InfoOK, WindowInfos
  <2>4. FocusOK(focus', after, posted, VisibleSurfaces(after), open)
    BY <2>1, <1>2, <1>4, <1>7, StartOfOperation, AfterStatePreserves
  <2> HIDE DEF after
  <2>5. fullscreen_surfaces' = {x \in Live : after[x].state = "fullscreen"}
    BY <2>3, <1>7 DEF Inv, FullscreenExact, FullscreenAfterState
  <2> QED BY <2>2, <2>3, <2>4, <2>5, <1>7, WindowsModified DEF modify_surface
<1> QED BY <1>5, <1>6, <1>7, Zenon DEF modify_surface, info

\* The focus with w out of the MRU list, before another window gets it.
Removed(w) == [focus EXCEPT !.mru     = Erase(@, w),
                            !.surface = IF @ = w THEN NoWindow ELSE @,
                            !.told    = @ \ {w}]

LEMMA WindowRemoved ==
    ASSUME Inv, NEW w \in Live
    PROVE  /\ FocusOK(Removed(w), erase(window_info, w), posted \ {w},
                      VisibleSurfaces(erase(window_info, w)), Range(sessions))
           /\ Removed(w).mru = Erase(focus.mru, w)
           /\ Removed(w).told = focus.told \ {w}
           /\ Removed(w).session = focus.session
<1> DEFINE info    == erase(window_info, w)
           surface == IF focus.surface = w THEN NoWindow ELSE focus.surface
           removed == [focus EXCEPT !.mru     = Erase(focus.mru, w),
                                     !.surface = surface,
                                     !.told    = focus.told \ {w}]
           open    == Range(sessions)
           visible == VisibleSurfaces(info)
<1>1. /\ DOMAIN info = Live \ {w}
      /\ \A x \in Live \ {w} : /\ info[x].type = window_info[x].type
                               /\ info[x].state = window_info[x].state
  <2>1. InfoOK(window_info, open) /\ ChildrenOK(window_info) /\ w \in DOMAIN window_info
    BY DEF Inv, WindowsInv, Live
  <2> HIDE DEF open
  <2>2. /\ InfoOK(info, open)
        /\ DOMAIN info = Live \ {w}
        /\ \A x \in Live \ {w} : /\ info[x].app = window_info[x].app
                                 /\ info[x].type = window_info[x].type
                                 /\ info[x].state = window_info[x].state
    BY <2>1, EraseKeepsTree DEF Live
  <2> QED BY <2>2
<1>2. removed = Removed(w)
  BY DEF Removed
<1> HIDE DEF info
<1>3. /\ FocusOK(focus, window_info, posted, VisibleSurfaces(window_info), open)
      /\ focus \in Foci /\ focus.mru \in Seq(Windows) /\ IsInjective(focus.mru)
  BY StartOfOperation DEF FocusOK, Foci
<1>4. /\ Erase(focus.mru, w) \in Seq(Windows)
      /\ IsInjective(Erase(focus.mru, w))
      /\ Range(Erase(focus.mru, w)) = Range(focus.mru) \ {w}
      /\ focus.mru # <<>> /\ focus.mru[Len(focus.mru)] # w
         => /\ Erase(focus.mru, w) # <<>>
            /\ Erase(focus.mru, w)[Len(Erase(focus.mru, w))] = focus.mru[Len(focus.mru)]
  BY <1>3, EraseProperties
<1>5. /\ removed \in Foci /\ removed.mru = Erase(focus.mru, w)
      /\ removed.told = focus.told \ {w} /\ removed.session = focus.session
      /\ removed.surface = surface
  BY <1>3, <1>4 DEF Foci
<1>6. VisibleSurfaces(window_info) \ {w} \subseteq visible
  BY <1>1 DEF VisibleSurfaces, Live
<1>7. surface \in DOMAIN info \cup {NoWindow}
  BY <1>3, <1>1 DEF FocusOK, Live
<1>8. \A x \in Range(removed.mru) :
        x \in DOMAIN info /\ x \in posted \ {w} /\ can_be_active(info[x].type)
  BY <1>3, <1>4, <1>5, <1>1 DEF FocusOK, Live
<1>9. \A x \in removed.told : /\ removed.mru # <<>> /\ x = removed.mru[Len(removed.mru)]
                              /\ x \in visible
  BY <1>3, <1>4, <1>5, <1>6 DEF FocusOK
<1>10. FocusOK(removed, info, posted \ {w}, visible, open)
  <2> HIDE DEF removed, surface, visible, open
  <2> QED BY <1>3, <1>4, <1>5, <1>7, <1>8, <1>9 DEF FocusOK
<1> HIDE DEF removed
<1> QED BY <1>2, <1>5, <1>10 DEF info

LEMMA RemoveWindowPreserves ==
    \A w \in Live, first \in FirstSessions :
        Inv /\ remove_window(w, first) /\ UNCHANGED ready => Inv'
<1> SUFFICES ASSUME NEW w \in Live, NEW first \in FirstSessions,
                    Inv, remove_window(w, first), ready' = ready
             PROVE  Inv'
  OBVIOUS
<1> DEFINE app     == window_info[w].app
           wss     == workspaces_containing(Rows, w)
           rows    == {row \in Rows : row[2] # w}
           apps    == [app_info EXCEPT ![app] = Erase(app_info[app], w)]
           info    == erase(window_info, w)
           surface == IF focus.surface = w THEN NoWindow ELSE focus.surface
           removed == [focus EXCEPT !.mru     = Erase(focus.mru, w),
                                     !.surface = surface,
                                     !.told    = focus.told \ {w}]
           open    == Range(sessions)
           visible == VisibleSurfaces(info)
<1>1. InfoOK(window_info, open) /\ ChildrenOK(window_info) /\ w \in DOMAIN window_info
  BY DEF Inv, WindowsInv, Live
<1>2. /\ InfoOK(info, open) /\ ChildrenOK(info) /\ DOMAIN info = Live \ {w}
      /\ \A x \in Live \ {w} : /\ info[x].app = window_info[x].app
                               /\ info[x].type = window_info[x].type
                               /\ info[x].state = window_info[x].state
  <2> HIDE DEF open
  <2> QED BY <1>1, EraseKeepsTree DEF Live
<1>3. app \in Apps /\ app_info[app] \in Seq(Windows) /\ IsInjective(app_info[app])
  BY StartOfOperation DEF Inv, WindowsInv, InfoOK, AppsInv, Live
<1>4. /\ Erase(app_info[app], w) \in Seq(Windows)
      /\ IsInjective(Erase(app_info[app], w))
      /\ Range(Erase(app_info[app], w)) = Range(app_info[app]) \ {w}
  BY <1>3, EraseProperties
<1>5. /\ apps \in [Apps -> Seq(Windows)]
      /\ \A a \in Apps : /\ IsInjective(apps[a])
                         /\ Range(apps[a]) = Range(app_info[a]) \ {w}
  <2>1. \A a \in Apps : apps[a] = IF a = app THEN Erase(app_info[app], w) ELSE app_info[a]
    BY <1>4 DEF Inv, AppsInv
  <2>2. apps \in [Apps -> Seq(Windows)]
    BY <1>4 DEF Inv, AppsInv
  <2>3. \A a \in Apps : a # app => w \notin Range(app_info[a])
    BY DEF Inv, AppsInv
  <2> HIDE DEF app, apps
  <2>4. ASSUME NEW a \in Apps
        PROVE  IsInjective(apps[a]) /\ Range(apps[a]) = Range(app_info[a]) \ {w}
    <3>1. CASE a = app
      BY <3>1, <2>1, <1>4
    <3>2. CASE a # app
      <4>1. apps[a] = app_info[a] /\ w \notin Range(app_info[a]) /\ IsInjective(app_info[a])
        BY <3>2, <2>1, <2>3 DEF Inv, AppsInv
      <4> QED BY <4>1
    <3> QED BY <3>1, <3>2
  <2> QED BY <2>2, <2>4
<1>6. /\ window_info' = info /\ app_info' = apps /\ sessions' = sessions
      /\ workspaces_to_windows' = rows /\ dead_workspaces' = {} /\ workspace' = workspace
      /\ fullscreen_surfaces' = fullscreen_surfaces \ {w} /\ posted' = posted \ {w}
      /\ focus' \in {removed, refocus(removed, apps, info, visible, rows, app,
                                      window_info[w].parent, wss, first)}
  BY Zenon DEF remove_window, Locker
<1> HIDE DEF info, apps, app
<1>7. SessionsInv' /\ WindowsInv' /\ FullscreenExact'
  BY <1>2, <1>6 DEF Inv, SessionsInv, WindowsInv, InfoOK, ChildrenOK, FullscreenExact, Live
<1>8. AppsInv'
  <2>1. \A a \in Apps : \A x \in Range(apps[a]) : x \in DOMAIN info /\ info[x].app = a
    BY <1>2, <1>5 DEF Inv, AppsInv
  <2>2. ASSUME NEW x \in DOMAIN info PROVE x \in Range(apps[info[x].app])
    <3>1. x \in Live \ {w} /\ info[x].app = window_info[x].app
      BY <1>2
    <3>2. window_info[x].app \in Apps /\ x \in Range(app_info[window_info[x].app])
      BY <3>1, StartOfOperation DEF Inv, WindowsInv, InfoOK, AppsInv, Live
    <3> QED BY <3>1, <3>2, <1>5
  <2> QED BY <2>1, <2>2, <1>5, <1>6 DEF AppsInv, Live
<1>9. WorkspacesInv' /\ SurfacesInv'
  BY <1>2, <1>6, StartOfOperation DEF Inv, WorkspacesInv, SurfacesInv, Live
<1>10. /\ FocusOK(removed, info, posted \ {w}, visible, open)
       /\ removed.session = focus.session
  <2>1. removed = Removed(w)
    BY DEF Removed
  <2> HIDE DEF removed
  <2> QED BY <2>1, WindowRemoved DEF info
<1> HIDE DEF removed
<1>11. visible \subseteq posted \ {w} /\ AppsOK(apps, info)
  BY <1>2, <1>5, <1>8, <1>6 DEF VisibleSurfaces, AppsOK, AppsInv, Live
<1>12. FocusOK(focus', info, posted \ {w}, visible, open)
  <2>1. sessions \in Seq(Apps)
    BY DEF Inv, SessionsInv
  <2>2. removed.session = NoApp /\ sessions # <<>> => first \in Range(sessions)
    BY <1>10, StartOfOperation
  <2> HIDE DEF visible, rows, wss
  <2>3. FocusOK(refocus(removed, apps, info, visible, rows, app, window_info[w].parent, wss, first),
                info, posted \ {w}, visible, Range(sessions))
    BY <2>1, <2>2, <1>2, <1>10, <1>11, RefocusPreserves
  <2> QED BY <2>3, <1>6, <1>10
<1>13. FocusInv'
  <2>1. VisibleSurfaces(window_info)' = visible
    BY <1>2, <1>6 DEF VisibleSurfaces
  <2> QED BY <2>1, <1>6, <1>12 DEF FocusInv, FocusOK
<1> QED BY <1>7, <1>8, <1>9, <1>13 DEF Inv

-----------------------------------------------------------------------------
\* The operations that only move the focus.

LEMMA SelectWindowPreserves == \A hint : Inv /\ select_window(hint) => Inv'
<1> SUFFICES ASSUME NEW hint, Inv, select_window(hint) PROVE Inv'
  OBVIOUS
<1>1. FocusOK(focus', window_info, posted, VisibleSurfaces(window_info), Range(sessions))
  BY StartOfOperation, SelectPreserves DEF select_window, Inv, WindowsInv
<1> QED BY <1>1, StartOfOperation, TablesUnchanged
        DEF select_window, Locker, Inv, WorkspacesInv, SurfacesInv

LEMMA NextApplicationActionPreserves ==
    \A first \in FirstSessions : Inv /\ next_application(first) => Inv'
<1> SUFFICES ASSUME NEW first \in FirstSessions, Inv, next_application(first) PROVE Inv'
  OBVIOUS
<1>1. FocusOK(focus', window_info, posted, VisibleSurfaces(window_info), Range(sessions))
  BY StartOfOperation, NextApplicationPreserves
     DEF next_application, Inv, WindowsInv, SessionsInv
<1> QED BY <1>1, StartOfOperation, TablesUnchanged
        DEF next_application, Locker, Inv, WorkspacesInv, SurfacesInv

LEMMA WithinApplicationActionsPreserve ==
    Inv /\ (focus_next_within_application \/ focus_prev_within_application) => Inv'
<1> SUFFICES ASSUME Inv, focus_next_within_application \/ focus_prev_within_application
             PROVE  Inv'
  OBVIOUS
<1> DEFINE visible == VisibleSurfaces(window_info)
           prev    == Top(focus.mru, visible)
<1>1. /\ prev # NoWindow
      /\ \E siblings : focus' = focus_within_application(focus, window_info, visible, Rows,
                                                         siblings, prev)
      /\ workspaces_to_windows' = Rows /\ Locker
      /\ UNCHANGED <<sessions, app_info, window_info, fullscreen_surfaces,
                     workspace, posted, ready>>
  BY Zenon DEF focus_next_within_application, focus_prev_within_application, within_application, active
<1>2. focus.mru = focus.mru
  BY DEF Inv, FocusInv, FocusOK, Foci
<1>3. FocusOK(focus', window_info, posted, visible, Range(sessions))
  BY <1>1, <1>2, StartOfOperation, WithinApplicationPreserves DEF Inv, WindowsInv
<1> QED BY <1>1, <1>3, StartOfOperation, TablesUnchanged
        DEF Locker, Inv, WorkspacesInv, SurfacesInv

-----------------------------------------------------------------------------
\* Workspaces.

LEMMA ChangeRowsPreserves ==
    ASSUME NEW rows, rows \subseteq Workspaces \X Live, Inv, ChangeRows(rows)
    PROVE  Inv'
BY StartOfOperation, TablesUnchanged DEF ChangeRows, Locker, Inv, WorkspacesInv, SurfacesInv

LEMMA WorkspaceActionsPreserve ==
    ASSUME Inv,
           \/ \E ws \in Workspaces : \/ create_workspace(ws)
                                     \/ release_workspace(ws)
                                     \/ destroy_workspace(ws)
           \/ \E w \in Live, ws \in Workspaces : \/ add_tree_to_workspace(w, ws)
                                                 \/ remove_tree_from_workspace(w, ws)
           \/ \E to, from \in Workspaces : move_workspace_content_to_workspace(to, from)
    PROVE  Inv'
<1>1. ASSUME NEW ws \in Workspaces, create_workspace(ws) PROVE Inv'
  <2>1. workspace' \in [Workspaces -> WorkspaceStates]
    BY <1>1 DEF create_workspace, Inv, WorkspacesInv, WorkspaceStates
  <2> QED BY <1>1, <2>1, StartOfOperation, TablesUnchanged
          DEF create_workspace, Locker, Inv, SurfacesInv
<1>2. ASSUME NEW ws \in Workspaces, release_workspace(ws) \/ destroy_workspace(ws) PROVE Inv'
  <2>1. workspace' \in [Workspaces -> WorkspaceStates] /\ dead_workspaces' \subseteq Workspaces
    BY <1>2 DEF release_workspace, destroy_workspace, Inv, WorkspacesInv, WorkspaceStates
  <2>2. /\ UNCHANGED <<sessions, app_info, window_info, fullscreen_surfaces, posted>>
        /\ focus' = focus /\ workspaces_to_windows' = workspaces_to_windows /\ ready' = ready
    BY <1>2 DEF release_workspace, destroy_workspace
  <2> QED BY <2>1, <2>2, StartOfOperation, TablesUnchanged
          DEF Inv, FocusInv, WorkspacesInv, SurfacesInv
<1>3. ASSUME NEW w \in Live, NEW ws \in Workspaces, add_tree_to_workspace(w, ws) PROVE Inv'
  <2>1. Rows \cup ({ws} \X Tree(window_info, w)) \subseteq Workspaces \X Live
    BY StartOfOperation, TreeIsLive DEF Live
  <2> QED BY <1>3, <2>1, ChangeRowsPreserves DEF add_tree_to_workspace
<1>4. ASSUME NEW w \in Live, NEW ws \in Workspaces, remove_tree_from_workspace(w, ws) PROVE Inv'
  <2>1. Rows \ ({ws} \X Tree(window_info, w)) \subseteq Workspaces \X Live
    BY StartOfOperation
  <2> QED BY <1>4, <2>1, ChangeRowsPreserves DEF remove_tree_from_workspace
<1>5. ASSUME NEW to \in Workspaces, NEW from \in Workspaces,
             move_workspace_content_to_workspace(to, from)
      PROVE  Inv'
  <2> DEFINE rows == {row \in Rows : row[1] # from} \cup
                     {<<to, row[2]>> : row \in {r \in Rows : r[1] = from}}
  <2>1. rows \subseteq Workspaces \X Live
    BY StartOfOperation
  <2>2. ChangeRows(rows)
    BY <1>5 DEF move_workspace_content_to_workspace
  <2> HIDE DEF rows
  <2> QED BY <2>1, <2>2, ChangeRowsPreserves
<1> QED BY <1>1, <1>2, <1>3, <1>4, <1>5

-----------------------------------------------------------------------------
\* Every step preserves the invariant.
LEMMA NextPreservesInv == Inv /\ [Next]_vars => Inv'
<1> SUFFICES ASSUME Inv, [Next]_vars PROVE Inv'
  OBVIOUS
<1>1. CASE \E a \in Apps : add_session(a) \/ remove_session(a)
  BY <1>1, AddSessionPreserves, RemoveSessionPreserves
<1>2. CASE \E a \in Apps, w \in Windows, type \in Types, state \in States,
              parent \in Live \cup {NoWindow} : add_surface(a, w, type, state, parent)
  BY <1>2, AddSurfacePreserves
<1>3. CASE \/ \E w \in Live : frame_posted(w)
           \/ \E w \in ready : handle_window_ready(w)
  BY <1>3, FramePostedPreserves, HandleWindowReadyPreserves
<1>4. CASE \E w \in Live, type \in TypeRequests \cup {Unset}, state \in States \cup {Unset} :
              \E parent \in NewParents(w) : modify_surface(w, type, state, parent)
  BY <1>4, ModifySurfacePreserves
<1>5. CASE \E w \in Live, first \in FirstSessions : remove_surface(w, first) \/ force_close(w, first)
  BY <1>5, RemoveWindowPreserves DEF remove_surface, force_close
<1>6. CASE \/ \E hint \in Live \cup {NoWindow} : select_window(hint)
           \/ \E first \in FirstSessions : next_application(first)
           \/ focus_next_within_application
           \/ focus_prev_within_application
  BY <1>6, SelectWindowPreserves, NextApplicationActionPreserves, WithinApplicationActionsPreserve
<1>7. CASE \/ \E ws \in Workspaces : \/ create_workspace(ws)
                                     \/ release_workspace(ws)
                                     \/ destroy_workspace(ws)
           \/ \E w \in Live, ws \in Workspaces : \/ add_tree_to_workspace(w, ws)
                                                 \/ remove_tree_from_workspace(w, ws)
           \/ \E to, from \in Workspaces : move_workspace_content_to_workspace(to, from)
  BY <1>7, WorkspaceActionsPreserve
<1>8. CASE UNCHANGED vars
  BY <1>8 DEF vars, Inv, SessionsInv, WindowsInv, InfoOK, ChildrenOK, AppsInv, FullscreenExact,
              WorkspacesInv, SurfacesInv, FocusInv, FocusOK, VisibleSurfaces, Live
<1> QED BY <1>1, <1>2, <1>3, <1>4, <1>5, <1>6, <1>7, <1>8 DEF Next

THEOREM Invariance == Spec => []Inv
<1>1. Init => Inv
  BY InitImpliesInv
<1>2. Inv /\ [Next]_vars => Inv'
  BY NextPreservesInv
<1> QED BY <1>1, <1>2, PTL DEF Spec

-----------------------------------------------------------------------------
\* What follows from the invariant.

\* Every table of the window manager keeps its shape.
THEOREM TypeCorrectness == Spec => []TypeOK
<1>1. ASSUME Inv PROVE TypeOK
  <2>1. Live \subseteq Windows /\ fullscreen_surfaces \subseteq Windows
    BY <1>1, StartOfOperation DEF Inv, FullscreenExact
  <2> QED BY <1>1, <2>1 DEF TypeOK, Inv, SessionsInv, WindowsInv, InfoOK, AppsInv,
             WorkspacesInv, SurfacesInv, FocusInv, FocusOK, Live
<1> QED BY <1>1, Invariance, PTL

\* No list of windows holds a window twice, so that erasing it once is enough.
THEOREM ListsHaveNoDuplicates == Spec => []NoDuplicates
<1>1. Inv => NoDuplicates
  BY DEF Inv, NoDuplicates, SessionsInv, AppsInv, WindowsInv, ChildrenOK, FocusInv, FocusOK, Live
<1> QED BY <1>1, Invariance, PTL

\* info_for() never fails for a window the window manager itself remembers.
THEOREM NothingRemembersADeadWindow == Spec => []ReferencesLive
<1>1. ASSUME Inv PROVE ReferencesLive
  <2>1. \A row \in workspaces_to_windows : row[2] \in Live
    BY <1>1 DEF Inv, WorkspacesInv
  <2>2. Range(focus.mru) \subseteq Live
    BY <1>1 DEF Inv, FocusInv, FocusOK, Live
  <2> QED BY <1>1, <2>1, <2>2 DEF ReferencesLive, Inv, WindowsInv, InfoOK, AppsInv, SurfacesInv,
             FocusInv, FocusOK, Live
<1> QED BY <1>1, Invariance, PTL

\* parent() and children() agree, whatever clients do to the tree.
THEOREM ParentsAndChildrenAgree == Spec => []TreeConsistent
<1>1. Inv => TreeConsistent
  BY DEF Inv, WindowsInv, ChildrenOK, TreeConsistent, Live
<1> QED BY <1>1, Invariance, PTL

\* fullscreen_surfaces holds the fullscreen windows and no other.
THEOREM FullscreenSetIsExact == Spec => []FullscreenExact
<1>1. Inv => FullscreenExact
  BY DEF Inv
<1> QED BY <1>1, Invariance, PTL

\* Only windows that can be active, and have been shown, get into the MRU list.
THEOREM MruHoldsActivatableWindows == Spec => []MruActivatable
<1>1. Inv => MruActivatable
  BY DEF Inv, FocusInv, FocusOK, MruActivatable
<1> QED BY <1>1, Invariance, PTL

\* A window the policy believes focused is the newest of the MRU list and
\* visible.
THEOREM ToldWindowIsNewest == Spec => []ToldIsNewest
<1>1. Inv => ToldIsNewest
  BY DEF Inv, FocusInv, FocusOK, ToldIsNewest
<1> QED BY <1>1, Invariance, PTL

\* The policy never believes any window focused but active_window().
THEOREM PolicyKnowsTheFocus == Spec => []PolicyFocus
<1>1. ASSUME Inv PROVE PolicyFocus
  BY <1>1, TopOfFocus, StartOfOperation DEF Inv, FocusInv, PolicyFocus, active, Live
<1> QED BY <1>1, Invariance, PTL

-----------------------------------------------------------------------------
\* Rows are only added for workspaces that are owned, and a workspace that is
\* destroyed is listed as dead in the same step; so no row outlives its
\* workspace by more than the next operation of the window manager.
THEOREM DeadRowsAreReclaimed == Spec => []DeadRowsReclaimed
<1>1. Init => DeadRowsReclaimed
  BY DEF Init, DeadRowsReclaimed
<1>2. ASSUME Inv, DeadRowsReclaimed, [Next]_vars PROVE DeadRowsReclaimed'
  <2>1. \A row \in Rows : row \in Workspaces \X Live /\ workspace[row[1]] # "absent"
    BY <1>2, StartOfOperation DEF DeadRowsReclaimed, Rows
  <2>2. workspace \in [Workspaces -> WorkspaceStates]
    BY <1>2 DEF Inv, WorkspacesInv
  <2>3. ASSUME workspaces_to_windows' \subseteq Rows, workspace' = workspace
        PROVE  DeadRowsReclaimed'
    BY <2>1, <2>3 DEF DeadRowsReclaimed
  <2>4. ASSUME NEW a \in Apps, add_session(a) \/ remove_session(a) PROVE DeadRowsReclaimed'
    BY <2>3, <2>4 DEF add_session, remove_session
  <2>5. ASSUME NEW a, NEW w, NEW type, NEW state, NEW parent,
               add_surface(a, w, type, state, parent)
        PROVE  DeadRowsReclaimed'
    <3>1. \A x : \A ws \in workspaces_containing(Rows, x) : workspace[ws] = "owned"
      BY DEF workspaces_containing
    <3>2. \A row \in workspaces_to_windows' : row \in Rows \/ workspace[row[1]] = "owned"
      BY <2>5, <3>1, Zenon DEF add_surface
    <3>3. workspace' = workspace
      BY <2>5 DEF add_surface
    <3> QED BY <2>1, <3>2, <3>3 DEF DeadRowsReclaimed
  <2>6. ASSUME NEW w, frame_posted(w) PROVE DeadRowsReclaimed'
    BY <1>2, <2>6 DEF DeadRowsReclaimed, frame_posted
  <2>7. ASSUME NEW w, handle_window_ready(w) PROVE DeadRowsReclaimed'
    BY <2>3, <2>7 DEF handle_window_ready
  <2>8. ASSUME NEW w, NEW type, NEW state, NEW parent, modify_surface(w, type, state, parent)
        PROVE  DeadRowsReclaimed'
    BY <2>3, <2>8 DEF modify_surface
  <2>9. ASSUME NEW w, NEW first, remove_surface(w, first) \/ force_close(w, first)
        PROVE  DeadRowsReclaimed'
    <3>1. remove_window(w, first)
      BY <2>9 DEF remove_surface, force_close
    <3>2. workspaces_to_windows' \subseteq Rows /\ workspace' = workspace
      BY <3>1 DEF remove_window
    <3> QED BY <2>3, <3>2
  <2>10. ASSUME NEW hint, select_window(hint) PROVE DeadRowsReclaimed'
    BY <2>3, <2>10 DEF select_window
  <2>11. ASSUME NEW first, next_application(first) PROVE DeadRowsReclaimed'
    BY <2>3, <2>11 DEF next_application
  <2>12. ASSUME focus_next_within_application \/ focus_prev_within_application
         PROVE  DeadRowsReclaimed'
    <3>1. workspaces_to_windows' \subseteq Rows /\ workspace' = workspace
      BY <2>12 DEF focus_next_within_application, focus_prev_within_application, within_application
    <3> QED BY <2>3, <3>1
  <2>13. ASSUME NEW ws \in Workspaces, create_workspace(ws) PROVE DeadRowsReclaimed'
    <3>1. workspaces_to_windows' = Rows /\ workspace' = [workspace EXCEPT ![ws] = "owned"]
      BY <2>13 DEF create_workspace
    <3> QED BY <2>1, <2>2, <3>1 DEF DeadRowsReclaimed
  <2>14. ASSUME NEW w, NEW ws, add_tree_to_workspace(w, ws) PROVE DeadRowsReclaimed'
    BY <2>1, <2>14 DEF add_tree_to_workspace, ChangeRows, DeadRowsReclaimed
  <2>15. ASSUME NEW w, NEW ws, remove_tree_from_workspace(w, ws) PROVE DeadRowsReclaimed'
    BY <2>3, <2>15 DEF remove_tree_from_workspace, ChangeRows
  <2>16. ASSUME NEW to, NEW from, move_workspace_content_to_workspace(to, from)
         PROVE  DeadRowsReclaimed'
    BY <2>1, <2>16 DEF move_workspace_content_to_workspace, ChangeRows, DeadRowsReclaimed
  <2>17. ASSUME NEW ws \in Workspaces, release_workspace(ws) PROVE DeadRowsReclaimed'
    <3>1. /\ workspaces_to_windows' = workspaces_to_windows /\ dead_workspaces' = dead_workspaces
          /\ workspace' = [workspace EXCEPT ![ws] = "dying"]
      BY <2>17 DEF release_workspace
    <3> QED BY <1>2, <2>2, <3>1 DEF DeadRowsReclaimed, Inv, WorkspacesInv
  <2>18. ASSUME NEW ws \in Workspaces, destroy_workspace(ws) PROVE DeadRowsReclaimed'
    <3>1. /\ workspaces_to_windows' = workspaces_to_windows
          /\ dead_workspaces' = dead_workspaces \cup {ws}
          /\ workspace' = [workspace EXCEPT ![ws] = "absent"]
      BY <2>18 DEF destroy_workspace
    <3> QED BY <1>2, <2>2, <3>1 DEF DeadRowsReclaimed, Inv, WorkspacesInv
  <2>19. CASE UNCHANGED vars
    BY <1>2, <2>19 DEF vars, DeadRowsReclaimed
  <2> QED BY <1>2, <2>4, <2>5, <2>6, <2>7, <2>8, <2>9, <2>10, <2>11, <2>12, <2>13, <2>14,
             <2>15, <2>16, <2>17, <2>18, <2>19 DEF Next
<1> QED BY <1>1, <1>2, Invariance, PTL DEF Spec

-----------------------------------------------------------------------------
(***************************************************************************)
(* The trees of windows: as long as clients make no window its own         *)
(* ancestor there are no cycles, so that the loops over parent() end, and  *)
(* the walk of select_active_window() down to a dialog and up to a parent  *)
(* ends at a window, if any can have the focus.                            *)
(*                                                                         *)
(* That there is no cycle is stated as ranks that grow from parent to      *)
(* child.  What the recursions of Descendants and Selected come to is      *)
(* shown with least counterexamples and by counting windows.               *)
(***************************************************************************)

\* A set of natural numbers that holds 0 and, with each number below m, the
\* next one, holds all up to m.
LEMMA UpTo ==
    ASSUME NEW m \in Nat, NEW S, 0 \in S, \A n \in 0..m : n < m /\ n \in S => n + 1 \in S
    PROVE  0..m \subseteq S
<1> DEFINE R == {ss \in Nat \X Nat : ss[1] < ss[2]}
           T == (0..m) \ S
<1> SUFFICES ASSUME T # {} PROVE FALSE
  OBVIOUS
<1>1. T \subseteq Nat
  OBVIOUS
<1>2. IsWellFoundedOn(R, Nat)
  BY NatLessThanWellFounded DEF OpToRel
<1>3. PICK t \in T : \A u \in T : <<u, t>> \notin R
  <2> HIDE DEF R, T
  <2> QED BY <1>1, <1>2, WFMin
<1>4. t \in 0..m /\ t \notin S /\ t # 0
  BY <1>3
<1>5. t - 1 \in 0..m /\ t - 1 < m /\ t - 1 + 1 = t
  BY <1>4
<1>6. <<t - 1, t>> \in R
  BY <1>5, <1>4
<1>7. t - 1 \in S
  BY <1>3, <1>6, <1>5
<1> QED BY <1>4, <1>5, <1>7

\* f[i] is what comes of c when step is taken i times.
Repeats(f, S, step, c, m) ==
    f \in [0..m -> S] /\ f[0] = c /\ \A i \in 1..m : f[i] = step[f[i - 1]]

\* A step can be taken any number of times.
LEMMA Repeated ==
    ASSUME NEW S, NEW step \in [S -> S], NEW c \in S, NEW m \in Nat
    PROVE  \E f : Repeats(f, S, step, c, m)
<1> DEFINE Good(k, f) == f[0] = c /\ \A i \in 1..k : f[i] = step[f[i - 1]]
           K == {k \in Nat : \E f \in [0..k -> S] : Good(k, f)}
<1>1. 0 \in K
  <2> [i \in 0..0 |-> c] \in [0..0 -> S] /\ Good(0, [i \in 0..0 |-> c])
    OBVIOUS
  <2> QED OBVIOUS
<1>2. ASSUME NEW k \in Nat, k \in K PROVE k + 1 \in K
  <2>1. PICK f \in [0..k -> S] : Good(k, f)
    BY <1>2
  <2> DEFINE g == [i \in 0..(k + 1) |-> IF i = k + 1 THEN step[f[k]] ELSE f[i]]
  <2>2. g \in [0..(k + 1) -> S]
    BY <2>1
  <2>3. Good(k + 1, g)
    <3>1. g[0] = c
      BY <2>1
    <3>2. ASSUME NEW i \in 1..(k + 1) PROVE g[i] = step[g[i - 1]]
      <4>1. CASE i = k + 1
        BY <2>1, <4>1
      <4>2. CASE i \in 1..k
        BY <2>1, <4>2
      <4> QED BY <4>1, <4>2
    <3> QED BY <3>1, <3>2
  <2>4. \E h \in [0..(k + 1) -> S] : Good(k + 1, h)
    <3> HIDE DEF g, Good
    <3> QED BY <2>2, <2>3
  <2> HIDE DEF g, Good
  <2> QED BY <2>4
<1>3. 0..m \subseteq K
  <2> HIDE DEF K
  <2> QED BY <1>1, <1>2, UpTo
<1> QED BY <1>3 DEF Repeats

LEMMA DescendantsStepwise ==
    ASSUME NEW info, NEW w \in DOMAIN info, IsFiniteSet(DOMAIN info),
           \A x \in DOMAIN info : Range(info[x].children) \subseteq DOMAIN info
    PROVE  \E down \in [0..Cardinality(DOMAIN info) -> SUBSET DOMAIN info] :
              /\ down[0] = {w}
              /\ \A i \in 1..Cardinality(DOMAIN info) :
                    down[i] = down[i - 1] \cup UNION {Range(info[x].children) : x \in down[i - 1]}
              /\ Descendants(info, w) = down[Cardinality(DOMAIN info)]
<1> DEFINE n == Cardinality(DOMAIN info)
           S == SUBSET DOMAIN info
           Wider(X) == X \cup UNION {Range(info[x].children) : x \in X}
           step == [X \in S |-> Wider(X)]
           Eq(f) == f = [i \in 0..n |-> IF i = 0 THEN {w} ELSE Wider(f[i - 1])]
<1>1. n \in Nat
  BY FS_CardinalityType
<1>2. step \in [S -> S] /\ {w} \in S
  OBVIOUS
<1>3. PICK g : Repeats(g, S, step, {w}, n)
  <2> HIDE DEF step, S, n
  <2> QED BY <1>1, <1>2, Repeated
<1>4. Eq(g)
  <2>1. ASSUME NEW i \in 0..n PROVE g[i] = IF i = 0 THEN {w} ELSE Wider(g[i - 1])
    <3>1. CASE i = 0
      BY <1>3, <3>1 DEF Repeats
    <3>2. CASE i # 0
      <4>1. i \in 1..n /\ i - 1 \in 0..n
        BY <1>1, <3>2
      <4> QED BY <1>3, <3>2, <4>1 DEF Repeats
    <3> QED BY <3>1, <3>2
  <2>2. g = [i \in 0..n |-> g[i]]
    BY <1>3 DEF Repeats
  <2> HIDE DEF Wider, step, S, n
  <2> QED BY <2>1, <2>2
<1> DEFINE f == CHOOSE h : Eq(h)
<1>5. Eq(f)
  BY <1>4
<1>6. Descendants(info, w) = {x \in DOMAIN info : x \in f[n]}
  BY DEF Descendants
<1> HIDE DEF f
<1>7. DOMAIN f = 0..n /\ \A i \in 0..n : f[i] = IF i = 0 THEN {w} ELSE Wider(f[i - 1])
  BY <1>5
<1>8. 0..n \subseteq {i \in 0..n : f[i] \in S}
  <2> DEFINE T == {i \in 0..n : f[i] \in S}
  <2>1. 0 \in T
    BY <1>1, <1>2, <1>7
  <2>2. ASSUME NEW i \in 0..n, i < n, i \in T PROVE i + 1 \in T
    <3>1. i + 1 \in 0..n /\ f[i + 1] = Wider(f[i])
      BY <1>1, <1>7, <2>2
    <3> QED BY <2>2, <3>1
  <2> HIDE DEF T
  <2>3. 0..n \subseteq T
    <3> HIDE DEF n
    <3> QED BY <1>1, <2>1, <2>2, UpTo
  <2> QED BY <2>3 DEF T
<1>9. f \in [0..n -> S] /\ f[n] \in S /\ f[0] = {w} /\ \A i \in 1..n : f[i] = Wider(f[i - 1])
  <2>1. f = [i \in 0..n |-> f[i]]
    BY <1>5, <1>7
  <2>2. f \in [0..n -> S]
    BY <1>8, <2>1
  <2>3. n \in 0..n /\ 0 \in 0..n /\ \A i \in 1..n : i \in 0..n /\ i # 0
    BY <1>1
  <2> HIDE DEF S, Wider
  <2> QED BY <1>7, <2>2, <2>3
<1>10. Descendants(info, w) = f[n]
  BY <1>6, <1>9
<1> QED BY <1>9, <1>10

-----------------------------------------------------------------------------
\* Descendants() holds the window and the children of all it holds: in as many
\* steps as there are windows the set has stopped growing.
LEMMA DescendantsClosed ==
    ASSUME NEW info, NEW w \in DOMAIN info, IsFiniteSet(DOMAIN info),
           \A x \in DOMAIN info : Range(info[x].children) \subseteq DOMAIN info
    PROVE  /\ w \in Descendants(info, w)
           /\ Descendants(info, w) \subseteq DOMAIN info
           /\ \A x \in Descendants(info, w) : Range(info[x].children) \subseteq Descendants(info, w)
<1> DEFINE n == Cardinality(DOMAIN info)
           Wider(X) == X \cup UNION {Range(info[x].children) : x \in X}
<1>1. n \in Nat
  BY FS_CardinalityType
<1>2. PICK down \in [0..n -> SUBSET DOMAIN info] :
        /\ down[0] = {w}
        /\ \A i \in 1..n : down[i] = Wider(down[i - 1])
        /\ Descendants(info, w) = down[n]
  BY DescendantsStepwise
<1> DEFINE Grows(i) == Cardinality(down[i]) >= i + 1
           Stops(i) == Wider(down[i]) = down[i]
           T == {i \in 0..n : w \in down[i] /\ (Grows(i) \/ Stops(i))}
<1>3. \A i \in 0..n : down[i] \subseteq DOMAIN info /\ IsFiniteSet(down[i])
                      /\ Cardinality(down[i]) \in Nat /\ Cardinality(down[i]) <= n
  <2> SUFFICES ASSUME NEW i \in 0..n
               PROVE  /\ down[i] \subseteq DOMAIN info /\ IsFiniteSet(down[i])
                      /\ Cardinality(down[i]) \in Nat /\ Cardinality(down[i]) <= n
    OBVIOUS
  <2>1. down[i] \subseteq DOMAIN info
    OBVIOUS
  <2> QED BY <2>1, FS_Subset, FS_CardinalityType
<1>4. 0 \in T
  <2>1. Cardinality({w}) = 1
    BY FS_Singleton
  <2>2. w \in down[0] /\ Grows(0) /\ 0 \in 0..n
    BY <1>1, <1>2, <2>1
  <2> QED BY <2>2
<1>5. ASSUME NEW i \in 0..n, i < n, i \in T PROVE i + 1 \in T
  <2>1. i + 1 \in 1..n /\ i + 1 - 1 = i /\ i + 1 \in 0..n
    BY <1>1, <1>5
  <2>2. down[i + 1] = Wider(down[i])
    <3> HIDE DEF Wider, n
    <3> QED BY <1>2, <2>1
  <2>3. CASE Stops(i)
    BY <1>5, <2>1, <2>2, <2>3
  <2>4. CASE Grows(i) /\ ~Stops(i)
    <3>1. PICK y : y \in Wider(down[i]) /\ y \notin down[i]
      BY <2>4
    <3>2. Cardinality(down[i] \cup {y}) = Cardinality(down[i]) + 1 /\ IsFiniteSet(down[i] \cup {y})
      BY <1>3, <3>1, FS_AddElement
    <3>3. Cardinality(down[i] \cup {y}) <= Cardinality(down[i + 1])
      BY <1>3, <2>1, <2>2, <3>1, FS_Subset
    <3>4. Grows(i + 1)
      BY <1>3, <2>1, <2>4, <3>2, <3>3
    <3> QED BY <1>5, <2>1, <2>2, <3>4
  <2> QED BY <1>5, <2>3, <2>4
<1>6. n \in T
  <2>1. 0..n \subseteq T
    <3> HIDE DEF T, n
    <3> QED BY <1>1, <1>4, <1>5, UpTo
  <2> QED BY <1>1, <2>1
<1>7. Stops(n)
  <2>1. ~Grows(n)
    BY <1>1, <1>3
  <2> QED BY <1>6, <2>1
<1>8. down[n] \subseteq DOMAIN info
  BY <1>1, <1>3
<1> QED BY <1>2, <1>6, <1>7, <1>8

-----------------------------------------------------------------------------
(* Trees: windows can be given ranks that grow from parent to child.       *)

Ranks(info, rank) ==
    /\ rank \in [DOMAIN info -> Nat]
    /\ \A w \in DOMAIN info : info[w].parent \in DOMAIN info => rank[info[w].parent] < rank[w]

Acyclic(info) == \E rank : Ranks(info, rank)

\* A window's descendants are of no lower rank.
LEMMA DescendantsRank ==
    ASSUME NEW info, NEW w \in DOMAIN info, IsFiniteSet(DOMAIN info), ChildrenOK(info),
           \A x \in DOMAIN info : Range(info[x].children) \subseteq DOMAIN info,
           NEW rank, Ranks(info, rank)
    PROVE  \A x \in Descendants(info, w) : rank[w] <= rank[x]
<1> DEFINE n == Cardinality(DOMAIN info)
           Wider(X) == X \cup UNION {Range(info[x].children) : x \in X}
<1>1. n \in Nat
  BY FS_CardinalityType
<1>2. PICK down \in [0..n -> SUBSET DOMAIN info] :
        /\ down[0] = {w}
        /\ \A i \in 1..n : down[i] = Wider(down[i - 1])
        /\ Descendants(info, w) = down[n]
  BY DescendantsStepwise
<1> DEFINE T == {i \in 0..n : \A x \in down[i] : rank[w] <= rank[x]}
<1>3. rank \in [DOMAIN info -> Nat]
  BY DEF Ranks
<1>4. 0 \in T
  BY <1>1, <1>2, <1>3
<1>5. ASSUME NEW i \in 0..n, i < n, i \in T PROVE i + 1 \in T
  <2>1. i + 1 \in 1..n /\ i + 1 - 1 = i /\ i + 1 \in 0..n
    BY <1>1, <1>5
  <2>2. down[i + 1] = Wider(down[i])
    <3> HIDE DEF Wider, n
    <3> QED BY <1>2, <2>1
  <2>3. ASSUME NEW x \in down[i + 1] PROVE rank[w] <= rank[x]
    <3>1. CASE x \in down[i]
      BY <1>5, <3>1
    <3>2. CASE \E y \in down[i] : x \in Range(info[y].children)
      <4>1. PICK y \in down[i] : x \in Range(info[y].children)
        BY <3>2
      <4>2. y \in DOMAIN info /\ x \in DOMAIN info /\ rank[w] <= rank[y]
        BY <1>5, <4>1
      <4>3. info[x].parent = y
        BY <4>1, <4>2 DEF ChildrenOK
      <4> QED BY <1>3, <4>2, <4>3 DEF Ranks
    <3> QED BY <2>2, <3>1, <3>2
  <2> QED BY <2>1, <2>3
<1>6. n \in T
  <2>1. 0..n \subseteq T
    <3> HIDE DEF T, n
    <3> QED BY <1>1, <1>4, <1>5, UpTo
  <2> QED BY <1>1, <2>1
<1> QED BY <1>2, <1>6

LEMMA NewWindowIsLeaf ==
    ASSUME NEW info, NEW w, w \notin DOMAIN info, NEW added, added.parent # w,
           \A x \in DOMAIN info : info[x].parent # w,
           NEW after, DOMAIN after = DOMAIN info \cup {w}, after[w].parent = added.parent,
           \A x \in DOMAIN info : after[x].parent = info[x].parent,
           Acyclic(info)
    PROVE  Acyclic(after)
<1>1. PICK rank : Ranks(info, rank)
  BY DEF Acyclic
<1> DEFINE next == IF added.parent \in DOMAIN info THEN rank[added.parent] + 1 ELSE 0
           new  == [x \in DOMAIN after |-> IF x = w THEN next ELSE rank[x]]
<1>2. rank \in [DOMAIN info -> Nat] /\ next \in Nat
  BY <1>1 DEF Ranks
<1> HIDE DEF next
<1>3. new \in [DOMAIN after -> Nat]
  BY <1>2
<1>4. ASSUME NEW x \in DOMAIN after, after[x].parent \in DOMAIN after
      PROVE  new[after[x].parent] < new[x]
  <2>1. CASE x = w
    <3>1. added.parent \in DOMAIN info
      BY <1>4, <2>1
    <3> QED BY <1>2, <2>1, <3>1 DEF next
  <2>2. CASE x # w
    <3>1. x \in DOMAIN info /\ after[x].parent = info[x].parent /\ info[x].parent \in DOMAIN info
      BY <1>4, <2>2
    <3>2. rank[info[x].parent] < rank[x]
      BY <1>1, <3>1 DEF Ranks
    <3> QED BY <2>2, <3>1, <3>2
  <2> QED BY <2>1, <2>2
<1>5. Ranks(after, new)
  <2> HIDE DEF new
  <2> QED BY <1>3, <1>4 DEF Ranks
<1> QED BY <1>5 DEF Acyclic

\* Windows and edges that go leave no cycle behind.
LEMMA FewerEdges ==
    ASSUME NEW info, NEW after, DOMAIN after \subseteq DOMAIN info,
           \A x \in DOMAIN after : after[x].parent \in {info[x].parent, NoWindow},
           NoWindow \notin DOMAIN info, Acyclic(info)
    PROVE  Acyclic(after)
<1>1. PICK rank : Ranks(info, rank)
  BY DEF Acyclic
<1> DEFINE new == [x \in DOMAIN after |-> rank[x]]
<1>2. new \in [DOMAIN after -> Nat]
  BY <1>1 DEF Ranks
<1>3. ASSUME NEW x \in DOMAIN after, after[x].parent \in DOMAIN after
      PROVE  new[after[x].parent] < new[x]
  <2>1. x \in DOMAIN info /\ after[x].parent = info[x].parent /\ info[x].parent \in DOMAIN info
    BY <1>3
  <2> QED BY <1>1, <1>3, <2>1 DEF Ranks
<1>4. Ranks(after, new)
  <2> HIDE DEF new
  <2> QED BY <1>2, <1>3 DEF Ranks
<1> QED BY <1>4 DEF Acyclic

\* A window moves, with all its descendants, below one that is none of them.
LEMMA ReparentAcyclic ==
    ASSUME NEW info, NEW open, NEW w \in DOMAIN info, NEW p \in DOMAIN info,
           IsFiniteSet(DOMAIN info), InfoOK(info, open), ChildrenOK(info),
           p \notin Descendants(info, w), Acyclic(info)
    PROVE  Acyclic(Reparent(info, w, p))
<1>1. PICK rank : Ranks(info, rank)
  BY DEF Acyclic
<1> DEFINE below == Descendants(info, w)
           after == Reparent(info, w, p)
           lift  == rank[p] + 1
           new   == [x \in DOMAIN after |-> IF x \in below THEN rank[x] + lift ELSE rank[x]]
<1>2. \A x \in DOMAIN info : Range(info[x].children) \subseteq DOMAIN info
  BY DEF InfoOK
<1>3. /\ w \in below /\ below \subseteq DOMAIN info
      /\ \A x \in below : Range(info[x].children) \subseteq below
  BY <1>2, DescendantsClosed
<1> HIDE DEF below
<1>4. /\ DOMAIN after = DOMAIN info /\ after[w].parent = p
      /\ \A x \in DOMAIN info \ {w} : after[x].parent = info[x].parent
  BY DEF Reparent
<1> HIDE DEF after
<1>5. rank \in [DOMAIN info -> Nat] /\ lift \in Nat /\ rank[p] < lift
  BY <1>1 DEF Ranks
<1> HIDE DEF lift
<1>6. new \in [DOMAIN after -> Nat]
  BY <1>4, <1>5
<1>7. ASSUME NEW x \in DOMAIN after, after[x].parent \in DOMAIN after
      PROVE  new[after[x].parent] < new[x]
  <2>1. CASE x = w
    <3>1. p \notin below
      BY DEF below
    <3> QED BY <1>3, <1>4, <1>5, <2>1, <3>1
  <2>2. CASE x # w
    <3> DEFINE q == info[x].parent
    <3>1. after[x].parent = q /\ q \in DOMAIN info /\ x \in DOMAIN info
      BY <1>4, <1>7, <2>2
    <3>2. rank[q] < rank[x]
      BY <1>1, <3>1 DEF Ranks
    <3>3. q \in below => x \in below
      <4>1. x \in Range(info[q].children)
        BY <3>1 DEF ChildrenOK
      <4> QED BY <1>3, <4>1
    <3> HIDE DEF q
    <3> QED BY <1>4, <1>5, <3>1, <3>2, <3>3
  <2> QED BY <2>1, <2>2
<1>8. Ranks(after, new)
  <2> HIDE DEF new
  <2> QED BY <1>6, <1>7 DEF Ranks
<1> QED BY <1>8 DEF Acyclic, after

-----------------------------------------------------------------------------
(* Root() and Tree(), which the workspaces work with.                      *)

\* Descendants() is the least set that holds the window and the children of
\* what it holds.
LEMMA DescendantsWithin ==
    ASSUME NEW info, NEW w \in DOMAIN info, IsFiniteSet(DOMAIN info),
           \A x \in DOMAIN info : Range(info[x].children) \subseteq DOMAIN info,
           NEW X, w \in X,
           \A x \in DOMAIN info : x \in X => Range(info[x].children) \subseteq X
    PROVE  Descendants(info, w) \subseteq X
<1> DEFINE n == Cardinality(DOMAIN info)
           Wider(Y) == Y \cup UNION {Range(info[x].children) : x \in Y}
<1>1. n \in Nat
  BY FS_CardinalityType
<1>2. PICK down \in [0..n -> SUBSET DOMAIN info] :
        /\ down[0] = {w}
        /\ \A i \in 1..n : down[i] = Wider(down[i - 1])
        /\ Descendants(info, w) = down[n]
  BY DescendantsStepwise
<1> DEFINE T == {i \in 0..n : down[i] \subseteq X}
<1>3. 0 \in T
  BY <1>1, <1>2
<1>4. ASSUME NEW i \in 0..n, i < n, i \in T PROVE i + 1 \in T
  <2>1. i + 1 \in 1..n /\ i + 1 - 1 = i /\ i + 1 \in 0..n
    BY <1>1, <1>4
  <2>2. down[i + 1] = Wider(down[i])
    <3> HIDE DEF Wider, n
    <3> QED BY <1>2, <2>1
  <2>3. down[i] \subseteq X /\ down[i] \subseteq DOMAIN info
    BY <1>4
  <2> QED BY <2>1, <2>2, <2>3
<1>5. n \in T
  <2>1. 0..n \subseteq T
    <3> HIDE DEF T, n
    <3> QED BY <1>1, <1>3, <1>4, UpTo
  <2> QED BY <1>1, <2>1
<1> QED BY <1>2, <1>5

\* The way up to the root, step by step.
LEMMA RootStepwise ==
    ASSUME NEW info, NEW w \in DOMAIN info, IsFiniteSet(DOMAIN info),
           \A x \in DOMAIN info : info[x].parent \in DOMAIN info \cup {NoWindow}
    PROVE  \E up \in [0..Cardinality(DOMAIN info) -> DOMAIN info] :
              /\ up[0] = w
              /\ \A i \in 1..Cardinality(DOMAIN info) :
                    up[i] = IF info[up[i - 1]].parent = NoWindow THEN up[i - 1]
                            ELSE info[up[i - 1]].parent
              /\ Root(info, w) = up[Cardinality(DOMAIN info)]
<1> DEFINE n == Cardinality(DOMAIN info)
           S == DOMAIN info
           Above(x) == IF info[x].parent = NoWindow THEN x ELSE info[x].parent
           step == [x \in S |-> Above(x)]
           Eq(f) == f = [i \in 0..n |-> IF i = 0 THEN w ELSE Above(f[i - 1])]
<1>1. n \in Nat
  BY FS_CardinalityType
<1>2. step \in [S -> S] /\ \A x \in S : Above(x) \in S
  OBVIOUS
<1>3. PICK g : Repeats(g, S, step, w, n)
  <2> HIDE DEF step, n
  <2> QED BY <1>1, <1>2, Repeated
<1>4. Eq(g)
  <2>1. ASSUME NEW i \in 0..n PROVE g[i] = IF i = 0 THEN w ELSE Above(g[i - 1])
    <3>1. CASE i = 0
      BY <1>3, <3>1 DEF Repeats
    <3>2. CASE i # 0
      <4>1. i \in 1..n /\ i - 1 \in 0..n
        BY <1>1, <3>2
      <4> QED BY <1>3, <3>2, <4>1 DEF Repeats
    <3> QED BY <3>1, <3>2
  <2>2. g = [i \in 0..n |-> g[i]]
    BY <1>3 DEF Repeats
  <2> HIDE DEF Above, step, S, n
  <2> QED BY <2>1, <2>2
<1> DEFINE f == CHOOSE h : Eq(h)
<1>5. Eq(f)
  BY <1>4
<1>6. Root(info, w) = f[n]
  BY DEF Root
<1> HIDE DEF f
<1>7. DOMAIN f = 0..n /\ \A i \in 0..n : f[i] = IF i = 0 THEN w ELSE Above(f[i - 1])
  BY <1>5
<1>8. 0..n \subseteq {i \in 0..n : f[i] \in S}
  <2> DEFINE T == {i \in 0..n : f[i] \in S}
  <2>1. 0 \in T
    BY <1>1, <1>7
  <2>2. ASSUME NEW i \in 0..n, i < n, i \in T PROVE i + 1 \in T
    <3>1. i + 1 \in 0..n /\ f[i + 1] = Above(f[i])
      BY <1>1, <1>7, <2>2
    <3> QED BY <1>2, <2>2, <3>1
  <2> HIDE DEF T
  <2>3. 0..n \subseteq T
    <3> HIDE DEF n
    <3> QED BY <1>1, <2>1, <2>2, UpTo
  <2> QED BY <2>3 DEF T
<1>9. f \in [0..n -> S] /\ f[0] = w /\ \A i \in 1..n : f[i] = Above(f[i - 1])
  <2>1. f = [i \in 0..n |-> f[i]]
    BY <1>5, <1>7
  <2>2. f \in [0..n -> S]
    BY <1>8, <2>1
  <2>3. 0 \in 0..n /\ \A i \in 1..n : i \in 0..n /\ i # 0
    BY <1>1
  <2> HIDE DEF S, Above
  <2> QED BY <1>7, <2>2, <2>3
<1> QED BY <1>6, <1>9

\* Without cycles the root is a window that has no parent: the higher up, the
\* more windows there are that rank lower.  And it is one of the ancestors.
LEMMA RootProperties ==
    ASSUME NEW info, NEW w \in DOMAIN info, IsFiniteSet(DOMAIN info), NoWindow \notin DOMAIN info,
           \A x \in DOMAIN info : info[x].parent \in DOMAIN info \cup {NoWindow},
           Acyclic(info)
    PROVE  /\ Root(info, w) \in DOMAIN info
           /\ info[Root(info, w)].parent = NoWindow
           /\ \A X : /\ w \in X
                     /\ \A x \in DOMAIN info : x \in X /\ info[x].parent \in DOMAIN info
                                               => info[x].parent \in X
                     => Root(info, w) \in X
<1> DEFINE n == Cardinality(DOMAIN info)
           Above(x) == IF info[x].parent = NoWindow THEN x ELSE info[x].parent
<1>1. n \in Nat
  BY FS_CardinalityType
<1>2. PICK up \in [0..n -> DOMAIN info] :
        up[0] = w /\ (\A i \in 1..n : up[i] = Above(up[i - 1])) /\ Root(info, w) = up[n]
  BY RootStepwise
<1>3. PICK rank : rank \in [DOMAIN info -> Nat]
                  /\ \A x \in DOMAIN info : info[x].parent \in DOMAIN info
                                            => rank[info[x].parent] < rank[x]
  BY DEF Acyclic, Ranks
<1>4. up[n] \in DOMAIN info
  BY <1>1
<1>5. ASSUME NEW i \in 0..n, i < n
      PROVE  i + 1 \in 0..n /\ up[i + 1] = Above(up[i]) /\ up[i] \in DOMAIN info
  <2>1. i + 1 \in 1..n /\ i + 1 - 1 = i /\ i + 1 \in 0..n
    BY <1>1, <1>5
  <2> HIDE DEF Above, n
  <2> QED BY <1>2, <2>1
<1>6. info[up[n]].parent = NoWindow
  <2> DEFINE Lower(x) == {y \in DOMAIN info : rank[y] > rank[x]}
             Stops(x) == info[x].parent = NoWindow
             T == {i \in 0..n : Stops(up[i]) \/ Cardinality(Lower(up[i])) >= i}
  <2>1. ASSUME NEW x \in DOMAIN info
        PROVE  /\ IsFiniteSet(Lower(x)) /\ Cardinality(Lower(x)) \in Nat
               /\ x \notin Lower(x) /\ Cardinality(Lower(x) \cup {x}) = Cardinality(Lower(x)) + 1
               /\ Cardinality(Lower(x)) < n
    <3>1. IsFiniteSet(Lower(x)) /\ Cardinality(Lower(x)) \in Nat
      BY FS_Subset, FS_CardinalityType
    <3>2. x \notin Lower(x)
      BY <1>3
    <3>3. Cardinality(Lower(x) \cup {x}) = Cardinality(Lower(x)) + 1 /\ Lower(x) \cup {x} \subseteq DOMAIN info
      BY <3>1, <3>2, FS_AddElement
    <3>4. Cardinality(Lower(x) \cup {x}) <= n
      <4> HIDE DEF Lower
      <4> QED BY <3>3, FS_Subset
    <3> HIDE DEF Lower, n
    <3> QED BY <1>1, <3>1, <3>2, <3>3, <3>4
  <2>2. 0 \in T
    <3>1. 0 \in 0..n /\ up[0] \in DOMAIN info
      BY <1>1
    <3>2. Cardinality(Lower(up[0])) \in Nat
      BY <2>1, <3>1
    <3> HIDE DEF Lower
    <3> QED BY <3>1, <3>2
  <2>3. ASSUME NEW i \in 0..n, i < n, i \in T PROVE i + 1 \in T
    <3>1. CASE Stops(up[i])
      BY <1>5, <2>3, <3>1
    <3>2. CASE ~Stops(up[i])
      <4>1. up[i + 1] = info[up[i]].parent /\ up[i + 1] \in DOMAIN info /\ i + 1 \in 0..n
        BY <1>5, <2>3, <3>2
      <4>2. rank[up[i + 1]] < rank[up[i]]
        BY <1>3, <1>5, <2>3, <4>1
      <4>3. Lower(up[i]) \cup {up[i]} \subseteq Lower(up[i + 1])
        BY <1>3, <1>5, <2>3, <4>1, <4>2
      <4>4. Cardinality(Lower(up[i]) \cup {up[i]}) <= Cardinality(Lower(up[i + 1]))
        <5>1. IsFiniteSet(Lower(up[i + 1]))
          BY <2>1, <4>1
        <5> HIDE DEF Lower
        <5> QED BY <4>3, <5>1, FS_Subset
      <4>5. Cardinality(Lower(up[i])) >= i /\ i \in Nat
        BY <1>1, <2>3, <3>2
      <4>6. /\ Cardinality(Lower(up[i])) \in Nat /\ Cardinality(Lower(up[i + 1])) \in Nat
            /\ Cardinality(Lower(up[i]) \cup {up[i]}) = Cardinality(Lower(up[i])) + 1
        BY <1>5, <2>1, <2>3, <4>1
      <4> HIDE DEF Lower
      <4>7. Cardinality(Lower(up[i + 1])) >= i + 1
        BY <4>4, <4>5, <4>6
      <4> QED BY <4>1, <4>7
    <3> QED BY <3>1, <3>2
  <2>4. n \in T
    <3>1. 0..n \subseteq T
      <4> HIDE DEF T, n
      <4> QED BY <1>1, <2>2, <2>3, UpTo
    <3> QED BY <1>1, <3>1
  <2>5. Cardinality(Lower(up[n])) \in Nat /\ Cardinality(Lower(up[n])) < n
    BY <1>4, <2>1
  <2> QED BY <1>1, <2>4, <2>5
<1>7. ASSUME NEW X, w \in X,
             \A x \in DOMAIN info : x \in X /\ info[x].parent \in DOMAIN info
                                    => info[x].parent \in X
      PROVE  Root(info, w) \in X
  <2> DEFINE T == {i \in 0..n : up[i] \in X}
  <2>1. 0 \in T
    BY <1>1, <1>2, <1>7
  <2>2. ASSUME NEW i \in 0..n, i < n, i \in T PROVE i + 1 \in T
    BY <1>5, <1>7, <2>2
  <2>3. 0..n \subseteq T
    <3> HIDE DEF T, n
    <3> QED BY <1>1, <2>1, <2>2, UpTo
  <2>4. n \in T
    BY <1>1, <2>3
  <2> QED BY <1>2, <2>4
<1> QED BY <1>2, <1>4, <1>6, <1>7

\* Tree() holds a window exactly if it holds its parent, and only what is tied
\* to w by such steps.
LEMMA TreeProperties ==
    ASSUME NEW info, NEW w \in DOMAIN info, IsFiniteSet(DOMAIN info), NoWindow \notin DOMAIN info,
           \A x \in DOMAIN info : info[x].parent \in DOMAIN info \cup {NoWindow},
           \A x \in DOMAIN info : Range(info[x].children) \subseteq DOMAIN info,
           ChildrenOK(info), Acyclic(info)
    PROVE  /\ w \in Tree(info, w)
           /\ Tree(info, w) \subseteq DOMAIN info
           /\ \A x \in DOMAIN info : info[x].parent \in DOMAIN info
                  => (x \in Tree(info, w) <=> info[x].parent \in Tree(info, w))
           /\ \A X : /\ w \in X
                     /\ \A x \in DOMAIN info : info[x].parent \in DOMAIN info
                                               => (x \in X <=> info[x].parent \in X)
                     => Tree(info, w) \subseteq X
<1> DEFINE r == Root(info, w)
           T == Descendants(info, r)
<1>1. r \in DOMAIN info /\ info[r].parent = NoWindow
  BY RootProperties
<1>2. Tree(info, w) = T
  BY DEF Tree
<1> HIDE DEF r
<1>3. /\ r \in T /\ T \subseteq DOMAIN info
      /\ \A x \in T : Range(info[x].children) \subseteq T
  BY <1>1, DescendantsClosed
<1>4. T \subseteq {x \in T : x = r \/ info[x].parent \in T}
  <2> DEFINE X == {x \in T : x = r \/ info[x].parent \in T}
  <2>1. r \in X
    BY <1>3
  <2>2. ASSUME NEW x \in DOMAIN info, x \in X PROVE Range(info[x].children) \subseteq X
    <3> SUFFICES ASSUME NEW y \in Range(info[x].children) PROVE y \in X
      OBVIOUS
    <3>1. x \in T /\ y \in T
      BY <1>3, <2>2
    <3>2. y \in DOMAIN info
      BY <1>3, <3>1
    <3>3. info[y].parent = x
      BY <3>2 DEF ChildrenOK
    <3> QED BY <3>1, <3>3
  <2> HIDE DEF X
  <2>3. T \subseteq X
    BY <1>1, <2>1, <2>2, DescendantsWithin
  <2> QED BY <2>3 DEF X
<1>5. ASSUME NEW x \in DOMAIN info, info[x].parent \in DOMAIN info
      PROVE  x \in T <=> info[x].parent \in T
  <2>1. x \in T => info[x].parent \in T
    BY <1>1, <1>4, <1>5
  <2>2. x \in Range(info[info[x].parent].children)
    BY <1>5 DEF ChildrenOK
  <2> QED BY <1>3, <2>1, <2>2
<1>6. ASSUME NEW X, w \in X,
             \A x \in DOMAIN info : info[x].parent \in DOMAIN info
                                    => (x \in X <=> info[x].parent \in X)
      PROVE  T \subseteq X
  <2>1. r \in X
    <3>1. \A x \in DOMAIN info : x \in X /\ info[x].parent \in DOMAIN info => info[x].parent \in X
      BY <1>6
    <3> QED BY <1>6, <3>1, RootProperties DEF r
  <2>2. ASSUME NEW x \in DOMAIN info, x \in X PROVE Range(info[x].children) \subseteq X
    <3> SUFFICES ASSUME NEW y \in Range(info[x].children) PROVE y \in X
      OBVIOUS
    <3>1. y \in DOMAIN info /\ info[y].parent = x
      BY <2>2 DEF ChildrenOK
    <3> QED BY <1>6, <2>2, <3>1
  <2> QED BY <1>1, <2>1, <2>2, DescendantsWithin
\* w is in the tree as its root is.
<1>7. w \in T
  <2> DEFINE X == {x \in DOMAIN info : x \in T <=> w \in T}
  <2>1. w \in X
    OBVIOUS
  <2>2. ASSUME NEW x \in DOMAIN info, x \in X, info[x].parent \in DOMAIN info
        PROVE  info[x].parent \in X
    BY <1>5, <2>2
  <2> HIDE DEF X
  <2>3. r \in X
    BY <2>1, <2>2, RootProperties DEF r
  <2> QED BY <1>3, <2>3 DEF X
<1> QED BY <1>2, <1>3, <1>5, <1>6, <1>7

-----------------------------------------------------------------------------
(* As long as clients make no cycles themselves there are none.            *)

TreesInv == "cycle" \notin Liberties => Acyclic(window_info)

LEMMA WindowTables ==
    ASSUME Inv
    PROVE  /\ Live \subseteq Windows /\ IsFiniteSet(Live) /\ NoWindow \notin Live
           /\ InfoOK(window_info, Range(sessions)) /\ ChildrenOK(window_info)
           /\ \A w \in Live : /\ window_info[w].parent \in Live \cup {NoWindow}
                             /\ Range(window_info[w].children) \subseteq Live
<1>1. /\ Live \subseteq Windows /\ InfoOK(window_info, Range(sessions))
      /\ ChildrenOK(window_info)
  BY DEF Inv, WindowsInv, InfoOK, Live
<1>2. IsFiniteSet(Live) /\ NoWindow \notin Live
  BY <1>1, FiniteWindows, ConstantsAssumption, FS_Subset
<1> QED BY <1>1, <1>2 DEF InfoOK, Live

LEMMA AddSurfaceKeepsTrees ==
    \A a \in Apps, w \in Windows, type \in Types, state \in States,
       parent \in Live \cup {NoWindow} :
            Inv /\ Acyclic(window_info) /\ add_surface(a, w, type, state, parent)
            => Acyclic(window_info')
<1> SUFFICES ASSUME NEW a \in Apps, NEW w \in Windows, NEW type, NEW state,
                    NEW parent \in Live \cup {NoWindow},
                    Inv, Acyclic(window_info), add_surface(a, w, type, state, parent)
             PROVE  Acyclic(window_info')
  OBVIOUS
<1> DEFINE added == [app |-> a, type |-> type, state |-> state,
                     parent |-> parent, children |-> <<>>]
<1>1. w \notin DOMAIN window_info /\ window_info' = WithWindow(window_info, w, added)
  BY DEF add_surface, Live
<1>2. added.parent = parent
  OBVIOUS
<1> HIDE DEF added
<1>3. added.parent # w /\ \A x \in DOMAIN window_info : window_info[x].parent # w
  BY <1>1, <1>2, WindowTables, ConstantsAssumption DEF Live
<1>4. /\ DOMAIN window_info' = DOMAIN window_info \cup {w}
      /\ window_info'[w] = added
      /\ \A x \in DOMAIN window_info : window_info'[x].parent = window_info[x].parent
  BY <1>1 DEF WithWindow
<1> QED BY <1>1, <1>3, <1>4, NewWindowIsLeaf

LEMMA ModifySurfaceKeepsTrees ==
    \A w \in Live, type \in TypeRequests \cup {Unset}, state \in States \cup {Unset} :
        \A parent \in NewParents(w) :
            /\ Inv /\ "cycle" \notin Liberties /\ Acyclic(window_info)
            /\ modify_surface(w, type, state, parent)
            => Acyclic(window_info')
<1> SUFFICES ASSUME NEW w \in Live, NEW type, NEW state, NEW parent \in NewParents(w),
                    Inv, "cycle" \notin Liberties, Acyclic(window_info),
                    modify_surface(w, type, state, parent)
             PROVE  Acyclic(window_info')
  OBVIOUS
<1> DEFINE info == IF parent = Unset THEN window_info ELSE Reparent(window_info, w, parent)
<1>1. Acyclic(info)
  <2>1. CASE parent = Unset
    BY <2>1
  <2>2. CASE parent # Unset
    <3>1. parent \in Live /\ parent \notin Descendants(window_info, w)
      BY <2>2 DEF NewParents
    <3> QED BY <2>2, <3>1, WindowTables, ReparentAcyclic DEF Live
  <2> QED BY <2>1, <2>2
<1>2. \/ window_info' = window_info
      \/ window_info' = info
      \/ window_info' = [info EXCEPT ![w].state = state]
  BY DEF modify_surface
<1>3. Live \subseteq DOMAIN info /\ NoWindow \notin DOMAIN info
  BY WindowTables DEF Live, Reparent
<1> HIDE DEF info
<1>4. CASE window_info' = [info EXCEPT ![w].state = state]
  <2>1. /\ DOMAIN window_info' = DOMAIN info
        /\ \A x \in DOMAIN info : window_info'[x].parent = info[x].parent
    BY <1>4
  <2> QED BY <1>1, <1>3, <2>1, FewerEdges
<1> QED BY <1>1, <1>2, <1>4

LEMMA RemoveWindowKeepsTrees ==
    \A w \in Live, first \in FirstSessions :
        Inv /\ Acyclic(window_info) /\ remove_window(w, first) => Acyclic(window_info')
<1> SUFFICES ASSUME NEW w \in Live, NEW first, Inv, Acyclic(window_info), remove_window(w, first)
             PROVE  Acyclic(window_info')
  OBVIOUS
<1>1. window_info' = erase(window_info, w)
  BY DEF remove_window
<1>2. /\ DOMAIN window_info' \subseteq DOMAIN window_info
      /\ \A x \in DOMAIN window_info' :
            window_info'[x].parent \in {window_info[x].parent, NoWindow}
  <2>1. \A x \in Live : window_info[x] \in WindowInfos
    BY WindowTables DEF InfoOK, Live
  <2> QED BY <1>1, <2>1 DEF erase, WindowInfos, Live
<1> QED BY <1>2, WindowTables, FewerEdges DEF Live

LEMMA NextKeepsTrees == Inv /\ TreesInv /\ [Next]_vars => TreesInv'
<1> SUFFICES ASSUME Inv, Acyclic(window_info), "cycle" \notin Liberties, [Next]_vars
             PROVE  Acyclic(window_info')
  BY DEF TreesInv
<1>1. CASE \E a \in Apps, w \in Windows, type \in Types, state \in States,
             parent \in Live \cup {NoWindow} : add_surface(a, w, type, state, parent)
  BY <1>1, AddSurfaceKeepsTrees
<1>2. CASE \E w \in Live, type \in TypeRequests \cup {Unset}, state \in States \cup {Unset} :
             \E parent \in NewParents(w) : modify_surface(w, type, state, parent)
  BY <1>2, ModifySurfaceKeepsTrees
<1>3. CASE \E w \in Live, first \in FirstSessions :
             remove_surface(w, first) \/ force_close(w, first)
  BY <1>3, RemoveWindowKeepsTrees DEF remove_surface, force_close
<1>4. CASE UNCHANGED window_info
  BY <1>4
<1> QED BY <1>1, <1>2, <1>3, <1>4
        DEF Next, vars, add_session, remove_session, frame_posted, handle_window_ready,
            select_window, next_application, focus_next_within_application,
            focus_prev_within_application, within_application, create_workspace,
            add_tree_to_workspace, remove_tree_from_workspace,
            move_workspace_content_to_workspace, ChangeRows, release_workspace, destroy_workspace

\* add_surface(), modify_surface() and the removal of windows keep the windows
\* ranked: a new window has no children, and a window with a new parent takes
\* its descendants' ranks up with it.
THEOREM TreesAreAcyclic == Spec => []TreesInv
<1>1. Init => TreesInv
  <2> SUFFICES ASSUME Init PROVE Acyclic(window_info)
    BY DEF TreesInv
  <2>1. Ranks(window_info, [w \in {} |-> 0])
    BY DEF Init, Ranks
  <2> QED BY <2>1 DEF Acyclic
<1>2. Inv /\ TreesInv /\ [Next]_vars => TreesInv'
  BY NextKeepsTrees
<1> QED BY <1>1, <1>2, Invariance, PTL DEF Spec

\* No window is its own ancestor, as long as no client makes it one
\* (modify_window() does not look): the recursions over the tree end.
THEOREM TreesHaveRoots ==
    ASSUME "cycle" \notin Liberties
    PROVE  Spec => []Forest
<1>1. Inv /\ TreesInv => Forest
  <2> SUFFICES ASSUME Inv, TreesInv, NEW w \in Live, window_info[w].parent # NoWindow
               PROVE  window_info[w].parent \notin Descendants(window_info, w)
    BY DEF Forest
  <2>1. PICK rank : Ranks(window_info, rank)
    BY DEF TreesInv, Acyclic
  <2>2. window_info[w].parent \in Live
    BY WindowTables
  <2>3. rank[window_info[w].parent] < rank[w]
    BY <2>1, <2>2 DEF Ranks, Live
  <2>4. \A x \in Descendants(window_info, w) : rank[w] <= rank[x]
    BY <2>1, WindowTables, DescendantsRank DEF Live
  <2>5. rank[window_info[w].parent] \in Nat /\ rank[w] \in Nat
    BY <2>1, <2>2 DEF Ranks, Live
  <2> QED BY <2>3, <2>4, <2>5
<1> QED BY <1>1, Invariance, TreesAreAcyclic, PTL

-----------------------------------------------------------------------------
(* Workspaces hold whole trees, as long as clients give no window a new    *)
(* parent: modify_window() leaves the workspaces of the tree alone.        *)

\* The workspace holds a window exactly if it holds its parent.
HoldsTrees(info, rows, ws) ==
    \A x \in DOMAIN info :
        info[x].parent \in DOMAIN info => (<<ws, x>> \in rows <=> <<ws, info[x].parent>> \in rows)

\* A living workspace holds whole trees.
TreesTogether ==
    \A ws \in Workspaces : workspace[ws] = "owned" => HoldsTrees(window_info, Rows, ws)

\* Clients do not change the trees but by opening and closing windows.
PlainTrees == Liberties \cap {"reparent", "cycle"} = {}

\* A tree joins a workspace, or leaves it, as a whole.
LEMMA WholeTreesMove ==
    ASSUME NEW info, NEW w \in DOMAIN info, IsFiniteSet(DOMAIN info), NoWindow \notin DOMAIN info,
           \A x \in DOMAIN info : info[x].parent \in DOMAIN info \cup {NoWindow},
           \A x \in DOMAIN info : Range(info[x].children) \subseteq DOMAIN info,
           ChildrenOK(info), Acyclic(info),
           NEW rows, NEW ws, HoldsTrees(info, rows, ws), NEW some
    PROVE  /\ HoldsTrees(info, rows \cup (some \X Tree(info, w)), ws)
           /\ HoldsTrees(info, rows \ (some \X Tree(info, w)), ws)
<1> DEFINE T == Tree(info, w)
<1>1. \A x \in DOMAIN info : info[x].parent \in DOMAIN info => (x \in T <=> info[x].parent \in T)
  BY TreeProperties
<1> HIDE DEF T
<1>2. \A x : <<ws, x>> \in some \X T <=> ws \in some /\ x \in T
  OBVIOUS
<1>3. \A x : /\ <<ws, x>> \in rows \cup (some \X T)
                 <=> <<ws, x>> \in rows \/ (ws \in some /\ x \in T)
             /\ <<ws, x>> \in rows \ (some \X T)
                 <=> <<ws, x>> \in rows /\ ~(ws \in some /\ x \in T)
  BY <1>2
<1> DEFINE more == rows \cup (some \X T)
           less == rows \ (some \X T)
<1> HIDE DEF more, less
<1>4. HoldsTrees(info, more, ws)
  BY <1>1, <1>3 DEF HoldsTrees, more
<1>5. HoldsTrees(info, less, ws)
  BY <1>1, <1>3 DEF HoldsTrees, less
<1> QED BY <1>4, <1>5 DEF more, less, T

\* Operations that leave the parents and the workspaces' contents alone.
LEMMA TogetherUnchanged ==
    ASSUME TreesTogether, workspace \in [Workspaces -> WorkspaceStates],
           DOMAIN window_info' \subseteq DOMAIN window_info,
           \A x \in DOMAIN window_info' :
                window_info'[x].parent \in {window_info[x].parent, NoWindow},
           NoWindow \notin DOMAIN window_info,
           \A ws \in Workspaces : workspace'[ws] = "owned" =>
                /\ workspace[ws] = "owned"
                /\ \A x \in DOMAIN window_info' : <<ws, x>> \in Rows' <=> <<ws, x>> \in Rows
    PROVE  TreesTogether'
<1> SUFFICES ASSUME NEW ws \in Workspaces, workspace'[ws] = "owned"
             PROVE  HoldsTrees(window_info', Rows', ws)
  BY DEF TreesTogether
<1>1. HoldsTrees(window_info, Rows, ws)
  BY DEF TreesTogether
<1> SUFFICES ASSUME NEW x \in DOMAIN window_info',
                    window_info'[x].parent \in DOMAIN window_info'
             PROVE  <<ws, x>> \in Rows' <=> <<ws, window_info'[x].parent>> \in Rows'
  BY DEF HoldsTrees
<1>2. window_info'[x].parent = window_info[x].parent
  OBVIOUS
<1> QED BY <1>1, <1>2 DEF HoldsTrees

\* What the mutex is taken with: the rows of the dead workspaces are gone.
LEMMA RowsAfterLocker ==
    ASSUME dead_workspaces' = {}
    PROVE  Rows' = workspaces_to_windows'
BY DEF Rows

LEMMA AddSurfaceKeepsTogether ==
    ASSUME Inv, Acyclic(window_info), Acyclic(window_info'), Inv', TreesTogether,
           NEW a \in Apps, NEW w \in Windows, NEW type \in Types, NEW state \in States,
           NEW parent \in Live \cup {NoWindow}, add_surface(a, w, type, state, parent)
    PROVE  TreesTogether'
<1> DEFINE info == window_info'
           inherited == IF parent = NoWindow THEN {} ELSE workspaces_containing(Rows, parent)
           T == Tree(info, w)
           added == [app |-> a, type |-> type, state |-> state,
                     parent |-> parent, children |-> <<>>]
<1>1. /\ w \notin Live /\ workspace' = workspace
      /\ info = WithWindow(window_info, w, added)
      /\ Rows' = Rows \cup (inherited \X T)
  BY RowsAfterLocker DEF add_surface, Locker
<1>2. added.parent = parent
  OBVIOUS
<1> HIDE DEF added, inherited
<1>3. /\ DOMAIN info = Live \cup {w} /\ info[w].parent = parent
      /\ \A x \in Live : info[x].parent = window_info[x].parent
  BY <1>1, <1>2 DEF WithWindow, Live
<1>4. /\ IsFiniteSet(DOMAIN info) /\ NoWindow \notin DOMAIN info
      /\ \A x \in DOMAIN info : info[x].parent \in DOMAIN info \cup {NoWindow}
      /\ \A x \in DOMAIN info : Range(info[x].children) \subseteq DOMAIN info
      /\ ChildrenOK(info)
  <2>1. InfoOK(info, Range(sessions')) /\ ChildrenOK(info)
    BY DEF Inv, WindowsInv
  <2>2. IsFiniteSet(DOMAIN info) /\ NoWindow \notin DOMAIN info
    BY <2>1, FiniteWindows, ConstantsAssumption, FS_Subset DEF InfoOK
  <2> QED BY <2>1, <2>2 DEF InfoOK
<1>5. /\ w \in T
      /\ \A x \in DOMAIN info : info[x].parent \in DOMAIN info => (x \in T <=> info[x].parent \in T)
  BY <1>3, <1>4, TreeProperties
<1> HIDE DEF T, info
<1> SUFFICES ASSUME NEW ws \in Workspaces, workspace[ws] = "owned",
                    NEW x \in DOMAIN info, info[x].parent \in DOMAIN info
             PROVE  <<ws, x>> \in Rows' <=> <<ws, info[x].parent>> \in Rows'
  BY <1>1 DEF TreesTogether, HoldsTrees, info
<1>6. \A y : <<ws, y>> \in Rows' <=> <<ws, y>> \in Rows \/ (ws \in inherited /\ y \in T)
  BY <1>1
<1>7. parent \in Live => (ws \in inherited <=> <<ws, parent>> \in Rows)
  BY WindowTables DEF inherited, workspaces_containing
<1>8. \A y : <<ws, y>> \in Rows => y \in Live
  BY DEF Inv, WorkspacesInv, Rows
<1>9. CASE x = w
  <2>1. info[x].parent = parent /\ parent \in DOMAIN info /\ parent # NoWindow
    BY <1>3, <1>4, <1>9
  <2>2. parent \in Live
    BY <2>1
  <2>3. parent \in T
    BY <1>5, <1>9, <2>1
  <2> QED BY <1>1, <1>5, <1>6, <1>7, <1>8, <1>9, <2>1, <2>2, <2>3
<1>10. CASE x # w
  <2>1. x \in Live /\ info[x].parent = window_info[x].parent
    BY <1>3, <1>10
  <2>2. info[x].parent \in Live
    BY <1>4, <2>1, WindowTables
  <2>3. <<ws, x>> \in Rows <=> <<ws, info[x].parent>> \in Rows
    BY <2>1, <2>2 DEF TreesTogether, HoldsTrees, Live
  <2> QED BY <1>5, <1>6, <2>3
<1> QED BY <1>9, <1>10

LEMMA RemoveWindowKeepsTogether ==
    ASSUME Inv, TreesTogether, NEW w \in Live, NEW first, remove_window(w, first),
           workspace' = workspace
    PROVE  TreesTogether'
<1>1. /\ window_info' = erase(window_info, w)
      /\ Rows' = {row \in Rows : row[2] # w}
  BY RowsAfterLocker DEF remove_window, Locker
<1>2. /\ DOMAIN window_info' = Live \ {w}
      /\ \A x \in DOMAIN window_info' :
            window_info'[x].parent \in {window_info[x].parent, NoWindow}
  <2>1. \A x \in Live : window_info[x] \in WindowInfos
    BY WindowTables DEF InfoOK, Live
  <2> QED BY <1>1, <2>1 DEF erase, WindowInfos, Live
<1>3. \A ws, x : x # w => (<<ws, x>> \in Rows' <=> <<ws, x>> \in Rows)
  BY <1>1
<1>4. workspace \in [Workspaces -> WorkspaceStates]
  BY DEF Inv, WorkspacesInv
<1> QED BY <1>2, <1>3, <1>4, WindowTables, TogetherUnchanged DEF Live

LEMMA WorkspaceActionsKeepTogether ==
    ASSUME Inv, Acyclic(window_info), TreesTogether,
           \/ \E ws \in Workspaces :
                create_workspace(ws) \/ release_workspace(ws) \/ destroy_workspace(ws)
           \/ \E w \in Live, ws \in Workspaces :
                add_tree_to_workspace(w, ws) \/ remove_tree_from_workspace(w, ws)
           \/ \E to, from \in Workspaces : move_workspace_content_to_workspace(to, from)
    PROVE  TreesTogether'
<1> DEFINE info == window_info
<1>1. workspace \in [Workspaces -> WorkspaceStates] /\ NoWindow \notin Live
  BY WindowTables DEF Inv, WorkspacesInv
<1>2. window_info' = window_info
  BY DEF create_workspace, release_workspace, destroy_workspace, add_tree_to_workspace,
         remove_tree_from_workspace, move_workspace_content_to_workspace, ChangeRows
<1>3. ASSUME NEW new \in Workspaces, create_workspace(new) PROVE TreesTogether'
  <2>1. /\ Rows' = Rows /\ workspace' = [workspace EXCEPT ![new] = "owned"]
        /\ \A x \in Windows : <<new, x>> \notin Rows
    BY <1>3, RowsAfterLocker DEF create_workspace, Locker
  <2>2. ASSUME NEW ws \in Workspaces, workspace'[ws] = "owned"
        PROVE  HoldsTrees(window_info, Rows, ws)
    <3>1. CASE ws = new
      BY <2>1, <3>1, WindowTables DEF HoldsTrees, Live
    <3>2. CASE ws # new
      BY <1>1, <2>1, <2>2, <3>2 DEF TreesTogether
    <3> QED BY <3>1, <3>2
  <2> QED BY <1>2, <2>1, <2>2 DEF TreesTogether
<1>4. ASSUME NEW gone \in Workspaces, release_workspace(gone) \/ destroy_workspace(gone)
      PROVE  TreesTogether'
  <2>1. /\ \E s \in {"dying", "absent"} : workspace' = [workspace EXCEPT ![gone] = s]
        /\ workspaces_to_windows' = workspaces_to_windows
        /\ dead_workspaces' \in {dead_workspaces, dead_workspaces \cup {gone}}
    BY <1>4 DEF release_workspace, destroy_workspace
  <2>2. ASSUME NEW ws \in Workspaces, workspace'[ws] = "owned"
        PROVE  /\ workspace[ws] = "owned"
               /\ \A x : <<ws, x>> \in Rows' <=> <<ws, x>> \in Rows
    <3>1. ws # gone /\ workspace[ws] = "owned"
      BY <1>1, <2>1, <2>2
    <3>2. ws \in dead_workspaces' <=> ws \in dead_workspaces
      BY <2>1, <3>1
    <3> QED BY <2>1, <3>1, <3>2 DEF Rows
  <2> QED BY <1>1, <1>2, <2>2, TogetherUnchanged DEF Live
<1>5. ASSUME NEW rows, ChangeRows(rows),
             \A ws \in Workspaces : workspace[ws] = "owned" => HoldsTrees(window_info, rows, ws)
      PROVE  TreesTogether'
  BY <1>2, <1>5, RowsAfterLocker DEF ChangeRows, Locker, TreesTogether
<1>6. ASSUME NEW w \in Live, NEW in \in Workspaces,
             add_tree_to_workspace(w, in) \/ remove_tree_from_workspace(w, in)
      PROVE  TreesTogether'
  <2>1. \A ws \in Workspaces : workspace[ws] = "owned" =>
            /\ HoldsTrees(window_info, Rows \cup ({in} \X Tree(window_info, w)), ws)
            /\ HoldsTrees(window_info, Rows \ ({in} \X Tree(window_info, w)), ws)
    BY WindowTables, WholeTreesMove DEF TreesTogether, Live
  <2> QED BY <1>5, <1>6, <2>1 DEF add_tree_to_workspace, remove_tree_from_workspace
<1>7. ASSUME NEW to \in Workspaces, NEW from \in Workspaces,
             move_workspace_content_to_workspace(to, from)
      PROVE  TreesTogether'
  <2> DEFINE rows == {row \in Rows : row[1] # from} \cup
                     {<<to, row[2]>> : row \in {r \in Rows : r[1] = from}}
  <2>1. workspace[to] = "owned" /\ workspace[from] = "owned" /\ ChangeRows(rows)
    BY <1>7 DEF move_workspace_content_to_workspace
  <2>2. HoldsTrees(window_info, Rows, to) /\ HoldsTrees(window_info, Rows, from)
    BY <2>1 DEF TreesTogether
  <2>3. \A ws, x : <<ws, x>> \in rows <=> \/ ws # from /\ <<ws, x>> \in Rows
                                          \/ ws = to /\ <<from, x>> \in Rows
    <3>1. \A row \in Rows : row = <<row[1], row[2]>>
      BY DEF Inv, WorkspacesInv, Rows
    <3> QED BY <3>1
  <2> HIDE DEF rows
  <2>4. \A ws \in Workspaces : workspace[ws] = "owned" => HoldsTrees(window_info, rows, ws)
    BY <2>2, <2>3 DEF HoldsTrees, TreesTogether
  <2> QED BY <1>5, <2>1, <2>4
<1> QED BY <1>3, <1>4, <1>6, <1>7

LEMMA NextKeepsTogether ==
    ASSUME PlainTrees, Inv, Inv', TreesInv, TreesInv', TreesTogether, [Next]_vars
    PROVE  TreesTogether'
<1>1. Acyclic(window_info) /\ Acyclic(window_info')
  BY DEF TreesInv, PlainTrees
<1>2. /\ workspace \in [Workspaces -> WorkspaceStates] /\ NoWindow \notin Live
      /\ window_info \in [Live -> WindowInfos]
  BY WindowTables DEF Inv, WorkspacesInv, InfoOK, Live
<1>3. CASE \E a \in Apps, w \in Windows, type \in Types, state \in States,
             parent \in Live \cup {NoWindow} : add_surface(a, w, type, state, parent)
  BY <1>1, <1>3, AddSurfaceKeepsTogether
<1>4. CASE \E w \in Live, first \in FirstSessions :
             remove_surface(w, first) \/ force_close(w, first)
  <2>1. workspace' = workspace
    BY <1>4 DEF remove_surface, force_close, remove_window
  <2> QED BY <1>1, <1>4, <2>1, RemoveWindowKeepsTogether DEF remove_surface, force_close
<1>5. CASE \E ws \in Workspaces :
              create_workspace(ws) \/ release_workspace(ws) \/ destroy_workspace(ws)
  BY <1>1, <1>5, WorkspaceActionsKeepTogether
<1>6. CASE \E w \in Live, ws \in Workspaces :
              add_tree_to_workspace(w, ws) \/ remove_tree_from_workspace(w, ws)
  BY <1>1, <1>6, WorkspaceActionsKeepTogether
<1>7. CASE \E to, from \in Workspaces : move_workspace_content_to_workspace(to, from)
  BY <1>1, <1>7, WorkspaceActionsKeepTogether
<1>8. ASSUME workspace' = workspace, Rows' = Rows, DOMAIN window_info' = DOMAIN window_info,
             \A x \in DOMAIN window_info : window_info'[x].parent = window_info[x].parent
      PROVE  TreesTogether'
  BY <1>1, <1>2, <1>8, TogetherUnchanged DEF Live
<1>9. ASSUME NEW w \in Live, NEW type, NEW state, NEW parent \in NewParents(w),
             modify_surface(w, type, state, parent)
      PROVE  TreesTogether'
  <2>1. parent = Unset
    BY DEF NewParents, PlainTrees
  <2>2. /\ workspace' = workspace /\ Rows' = Rows
        /\ window_info' \in {window_info, [window_info EXCEPT ![w].state = state]}
    BY <1>9, <2>1, RowsAfterLocker DEF modify_surface, Locker
  <2>3. /\ DOMAIN window_info' = DOMAIN window_info
        /\ \A x \in DOMAIN window_info : window_info'[x].parent = window_info[x].parent
    <3>1. CASE window_info' = window_info
      BY <3>1
    <3>2. CASE window_info' = [window_info EXCEPT ![w].state = state]
      <4>1. \A x \in DOMAIN window_info : window_info[x] \in WindowInfos
        BY <1>2 DEF Live
      <4> QED BY <3>2, <4>1 DEF WindowInfos
    <3> QED BY <2>2, <3>1, <3>2
  <2> QED BY <1>8, <2>2, <2>3
<1>10. ASSUME workspace' = workspace, window_info' = window_info,
              \/ Locker /\ workspaces_to_windows' = Rows
              \/ UNCHANGED <<dead_workspaces, workspaces_to_windows>>
       PROVE  TreesTogether'
  BY <1>8, <1>10, RowsAfterLocker DEF Rows, Locker
<1>11. CASE \/ \E a \in Apps : add_session(a) \/ remove_session(a)
            \/ \E w \in Live : frame_posted(w)
            \/ \E w \in ready : handle_window_ready(w)
            \/ \E hint \in Live \cup {NoWindow} : select_window(hint)
            \/ \E first \in FirstSessions : next_application(first)
            \/ focus_next_within_application
            \/ focus_prev_within_application
            \/ UNCHANGED vars
  <2>1. /\ workspace' = workspace /\ window_info' = window_info
        /\ \/ Locker /\ workspaces_to_windows' = Rows
           \/ UNCHANGED <<dead_workspaces, workspaces_to_windows>>
    BY <1>11 DEF add_session, remove_session, frame_posted, handle_window_ready, select_window,
                 next_application, focus_next_within_application,
                 focus_prev_within_application, within_application, vars
  <2> QED BY <1>10, <2>1
<1> QED BY <1>3, <1>4, <1>5, <1>6, <1>7, <1>9, <1>11 DEF Next

\* A window and its parent are in the same workspaces, whatever comes and goes,
\* as long as clients give no window a new parent: add_surface() has the whole
\* tree join the parent's workspaces, and policies move whole trees.
THEOREM WorkspacesHoldTrees ==
    ASSUME PlainTrees
    PROVE  Spec => []TreesTogether
<1>1. Init => TreesTogether
  BY DEF Init, TreesTogether, HoldsTrees
<1>2. Inv /\ Inv' /\ TreesInv /\ TreesInv' /\ TreesTogether /\ [Next]_vars => TreesTogether'
  BY NextKeepsTogether
<1> QED BY <1>1, <1>2, Invariance, TreesAreAcyclic, PTL DEF Spec

-----------------------------------------------------------------------------
(* Where select_active_window() ends.                                      *)

\* The windows it could start from with success, were it not for dialogs.
Activatable(info, visible) ==
    {x \in DOMAIN info : is_visible(info, visible, x) /\ can_be_active(info[x].type)}

\* The recursion, one call after the other: walk[i] is its i-th hint.
Walks(walk, info, visible, hint) ==
    LET depth == 2 * Cardinality(DOMAIN info) IN
    /\ walk \in [0..depth -> DOMAIN info \cup {NoWindow}]
    /\ walk[0] = hint
    /\ \A i \in 1..depth :
        walk[i] = IF walk[i - 1] \notin DOMAIN info \/ Settles(info, visible, walk[i - 1])
                  THEN walk[i - 1]
                  ELSE Redirect(info, visible, walk[i - 1])
    /\ Selected(info, visible, hint) =
            IF walk[depth] \in DOMAIN info /\ Settles(info, visible, walk[depth])
            THEN walk[depth] ELSE NoWindow

LEMMA SelectedStepwise ==
    ASSUME NEW info, NEW open, NEW visible, NEW hint \in DOMAIN info,
           IsFiniteSet(DOMAIN info), InfoOK(info, open)
    PROVE  \E walk : Walks(walk, info, visible, hint)
<1> DEFINE depth == 2 * Cardinality(DOMAIN info)
           S     == DOMAIN info \cup {NoWindow}
           Moved(x) == IF x \notin DOMAIN info \/ Settles(info, visible, x) THEN x
                       ELSE Redirect(info, visible, x)
           step == [x \in S |-> Moved(x)]
           Eq(f) == f = [i \in 0..depth |-> IF i = 0 THEN hint ELSE Moved(f[i - 1])]
<1>1. depth \in Nat
  BY FS_CardinalityType
<1>2. \A x \in S : Moved(x) \in S
  <2> SUFFICES ASSUME NEW x \in DOMAIN info, ~Settles(info, visible, x)
               PROVE  Redirect(info, visible, x) \in S
    OBVIOUS
  <2> DEFINE dialogs == VisibleDialogs(info, visible, x)
             children == info[x].children
  <2>1. children \in Seq(Windows) /\ Range(children) \subseteq DOMAIN info
    BY DEF InfoOK, WindowInfos
  <2>2. CASE dialogs # {}
    <3>1. dialogs \subseteq 1..Len(children) /\ Len(children) \in Nat
      BY <2>1, LenProperties DEF VisibleDialogs
    <3>2. Min(dialogs) \in 1..Len(children)
      <4> HIDE DEF dialogs, children
      <4> QED BY <2>2, <3>1, MinProperties
    <3>3. children[Min(dialogs)] \in Range(children)
      BY <2>1, <3>2 DEF Range
    <3> QED BY <2>1, <2>2, <3>3 DEF Redirect
  <2>3. CASE dialogs = {}
    BY <2>3 DEF Redirect, InfoOK
  <2> QED BY <2>2, <2>3
<1>3. step \in [S -> S] /\ hint \in S
  <2> HIDE DEF Moved
  <2> QED BY <1>2
<1>4. PICK g : Repeats(g, S, step, hint, depth)
  <2> HIDE DEF step, S, depth
  <2> QED BY <1>1, <1>3, Repeated
<1>5. g \in [0..depth -> S] /\ g[0] = hint /\ \A i \in 1..depth : g[i] = Moved(g[i - 1])
  <2>1. g \in [0..depth -> S] /\ g[0] = hint /\ \A i \in 1..depth : g[i] = step[g[i - 1]]
    BY <1>4 DEF Repeats
  <2>2. \A i \in 1..depth : i - 1 \in 0..depth
    BY <1>1
  <2> HIDE DEF Moved, depth, S
  <2> QED BY <2>1, <2>2
<1>6. Eq(g)
  <2>1. ASSUME NEW i \in 0..depth PROVE g[i] = IF i = 0 THEN hint ELSE Moved(g[i - 1])
    <3>1. i = 0 \/ i \in 1..depth
      BY <1>1
    <3> HIDE DEF Moved, depth
    <3> QED BY <1>5, <3>1
  <2>2. g = [i \in 0..depth |-> g[i]]
    BY <1>5
  <2> HIDE DEF Moved, depth, S
  <2> QED BY <2>1, <2>2
<1> DEFINE f == CHOOSE h : Eq(h)
<1>7. Eq(f)
  BY <1>6
<1>8. Selected(info, visible, hint) =
        IF f[depth] \in DOMAIN info /\ Settles(info, visible, f[depth]) THEN f[depth] ELSE NoWindow
  BY DEF Selected
<1> HIDE DEF f
<1>9. f = g
  <2>1. DOMAIN f = 0..depth /\ \A i \in 0..depth : f[i] = IF i = 0 THEN hint ELSE Moved(f[i - 1])
    <3> HIDE DEF Moved, depth
    <3> QED BY <1>7
  <2> DEFINE T == {i \in 0..depth : f[i] = g[i]}
  <2>2. 0 \in T
    BY <1>1, <1>5, <2>1
  <2>3. ASSUME NEW i \in 0..depth, i < depth, i \in T PROVE i + 1 \in T
    <3>1. i + 1 \in 1..depth /\ i + 1 \in 0..depth /\ i + 1 - 1 = i /\ i + 1 # 0
      BY <1>1, <2>3
    <3> HIDE DEF Moved, depth
    <3> QED BY <1>5, <2>1, <2>3, <3>1
  <2>4. 0..depth \subseteq T
    <3> HIDE DEF T, depth
    <3> QED BY <1>1, <2>2, <2>3, UpTo
  <2>5. f = [i \in 0..depth |-> f[i]] /\ g = [i \in 0..depth |-> g[i]]
    <3> HIDE DEF Moved, depth
    <3> QED BY <1>5, <1>7
  <2> QED BY <2>4, <2>5
<1> QED BY <1>5, <1>8, <1>9 DEF Walks

\* One call hands the focus down to a dialog that could have it as well.
LEMMA RedirectGoesDown ==
    ASSUME NEW info, NEW open, NEW visible, InfoOK(info, open), ChildrenOK(info),
           NEW x \in Activatable(info, visible), ~Settles(info, visible, x)
    PROVE  /\ Redirect(info, visible, x) \in Activatable(info, visible)
           /\ info[Redirect(info, visible, x)].parent = x
<1> DEFINE dialogs == VisibleDialogs(info, visible, x)
           children == info[x].children
           y == children[Min(dialogs)]
<1>1. x \in DOMAIN info /\ children \in Seq(Windows) /\ Range(children) \subseteq DOMAIN info
  BY DEF InfoOK, WindowInfos, Activatable
<1>2. dialogs # {}
  BY DEF Settles, Activatable
<1>3. dialogs \subseteq 1..Len(children) /\ Len(children) \in Nat
  BY <1>1, LenProperties DEF VisibleDialogs
<1>4. Min(dialogs) \in dialogs
  <2> HIDE DEF dialogs, children
  <2> QED BY <1>2, <1>3, MinProperties
<1>5. y \in Range(children) /\ info[y].type = "dialog" /\ is_visible(info, visible, y)
  BY <1>1, <1>4 DEF VisibleDialogs, Range
<1>6. y \in Activatable(info, visible)
  BY <1>1, <1>5 DEF Activatable, can_be_active
<1>7. info[y].parent = x
  BY <1>1, <1>5 DEF ChildrenOK
<1> QED BY <1>2, <1>6, <1>7 DEF Redirect

\* In a tree without cycles every window that is visible and can be active
\* leads select_active_window() to some window, itself or a dialog below it.
LEMMA ActivatableIsSelected ==
    ASSUME NEW info, NEW open, NEW visible, IsFiniteSet(DOMAIN info), InfoOK(info, open),
           ChildrenOK(info), Acyclic(info), NEW w \in Activatable(info, visible)
    PROVE  Selected(info, visible, w) # NoWindow
<1> DEFINE n     == Cardinality(DOMAIN info)
           depth == 2 * n
           A     == Activatable(info, visible)
           S     == DOMAIN info \cup {NoWindow}
           Ends(x) == Settles(info, visible, x)
<1>1. n \in Nat /\ depth \in Nat /\ n < depth + 1
  BY FS_CardinalityType
<1>2. A \subseteq DOMAIN info /\ w \in A /\ NoWindow \notin DOMAIN info
  BY ConstantsAssumption DEF Activatable, InfoOK
<1>3. PICK walk : Walks(walk, info, visible, w)
  BY <1>2, SelectedStepwise
<1>4. /\ walk \in [0..depth -> S]
      /\ walk[0] = w
      /\ \A i \in 1..depth : walk[i] = IF walk[i - 1] \notin DOMAIN info \/ Ends(walk[i - 1])
                                       THEN walk[i - 1]
                                       ELSE Redirect(info, visible, walk[i - 1])
      /\ Selected(info, visible, w) =
                IF walk[depth] \in DOMAIN info /\ Ends(walk[depth]) THEN walk[depth] ELSE NoWindow
  BY <1>3 DEF Walks
<1>5. PICK rank : Ranks(info, rank)
  BY DEF Acyclic
<1>6. rank \in [DOMAIN info -> Nat]
  BY <1>5 DEF Ranks
<1> HIDE DEF depth, n, A, Ends
<1>7. \A i \in 0..depth : i < depth => i + 1 \in 1..depth /\ i + 1 \in 0..depth /\ i + 1 - 1 = i
  BY <1>1
<1>8. ASSUME NEW i \in 0..depth, i < depth, walk[i] \in A
      PROVE  /\ walk[i + 1] \in A
             /\ Ends(walk[i]) => walk[i + 1] = walk[i]
             /\ ~Ends(walk[i]) => rank[walk[i]] < rank[walk[i + 1]]
  <2>1. walk[i] \in DOMAIN info
    BY <1>2, <1>8
  <2>2. walk[i + 1] = IF Ends(walk[i]) THEN walk[i] ELSE Redirect(info, visible, walk[i])
    BY <1>4, <1>7, <1>8, <2>1
  <2>3. CASE ~Ends(walk[i])
    <3>1. walk[i + 1] \in A /\ info[walk[i + 1]].parent = walk[i]
      BY <1>8, <2>2, <2>3, RedirectGoesDown DEF A, Ends
    <3>2. rank[walk[i]] < rank[walk[i + 1]]
      BY <1>2, <1>5, <2>1, <3>1 DEF Ranks
    <3> QED BY <2>3, <3>1, <3>2
  <2> QED BY <1>8, <2>2, <2>3
<1>9. \A i \in 0..depth : walk[i] \in A
  <2> DEFINE T == {i \in 0..depth : walk[i] \in A}
  <2>1. 0 \in T
    BY <1>1, <1>2, <1>4
  <2>2. ASSUME NEW i \in 0..depth, i < depth, i \in T PROVE i + 1 \in T
    BY <1>7, <1>8, <2>2
  <2>3. 0..depth \subseteq T
    <3> HIDE DEF T
    <3> QED BY <1>1, <2>1, <2>2, UpTo
  <2> QED BY <2>3
<1>10. \A i \in 0..depth : rank[walk[i]] \in Nat
  BY <1>2, <1>6, <1>9
<1>11. depth \in 0..depth
  BY <1>1
\* Had it not ended it would have passed more windows than there are.
<1>12. Ends(walk[depth])
  <2> SUFFICES ASSUME ~Ends(walk[depth]) PROVE FALSE
    OBVIOUS
  <2>1. ASSUME NEW i \in 0..depth PROVE ~Ends(walk[i])
    <3> SUFFICES ASSUME Ends(walk[i]) PROVE FALSE
      OBVIOUS
    <3> DEFINE U == {k \in 0..depth : k >= i => Ends(walk[k])}
    <3>1. ASSUME NEW k \in 0..depth, k < depth, k \in U PROVE k + 1 \in U
      <4>1. CASE k + 1 < i \/ k + 1 = i
        BY <1>7, <3>1, <4>1
      <4>2. CASE k >= i
        <5>1. walk[k + 1] = walk[k] /\ Ends(walk[k])
          BY <1>8, <1>9, <3>1, <4>2
        <5> QED BY <1>7, <3>1, <5>1
      <4> QED BY <1>1, <4>1, <4>2
    <3>2. 0 \in U
      BY <1>1
    <3>3. depth \in U
      <4> HIDE DEF U
      <4> QED BY <1>1, <1>11, <3>1, <3>2, UpTo
    <3> QED BY <1>1, <3>3
  <2> DEFINE Rises(i) == \A j \in 0..i : j < i => rank[walk[j]] < rank[walk[i]]
             T == {i \in 0..depth : Rises(i)}
  <2>2. 0 \in T
    BY <1>1
  <2>3. ASSUME NEW i \in 0..depth, i < depth, i \in T PROVE i + 1 \in T
    <3>1. rank[walk[i]] < rank[walk[i + 1]]
      BY <1>8, <1>9, <2>1, <2>3
    <3>2. ASSUME NEW j \in 0..(i + 1), j < i + 1 PROVE rank[walk[j]] < rank[walk[i + 1]]
      <4>1. j \in 0..i /\ j \in 0..depth /\ i + 1 \in 0..depth
        BY <1>1, <1>7, <2>3, <3>2
      <4>2. {rank[walk[j]], rank[walk[i]], rank[walk[i + 1]]} \subseteq Nat
        BY <1>10, <4>1
      <4>3. CASE j = i
        BY <3>1, <4>3
      <4>4. CASE j < i
        <5>1. rank[walk[j]] < rank[walk[i]]
          BY <2>3, <4>1, <4>4
        <5> QED BY <3>1, <4>2, <5>1
      <4> QED BY <4>1, <4>3, <4>4
    <3> QED BY <1>7, <2>3, <3>2
  <2>4. \A i \in 0..depth : Rises(i)
    <3>1. 0..depth \subseteq T
      <4> HIDE DEF T
      <4> QED BY <1>1, <2>2, <2>3, UpTo
    <3> QED BY <3>1
  <2>5. \A i, j \in 0..depth : walk[i] = walk[j] => i = j
    <3>1. ASSUME NEW i \in 0..depth, NEW j \in 0..depth, i < j PROVE walk[i] # walk[j]
      <4>1. i \in 0..j
        BY <1>1, <3>1
      <4>2. rank[walk[i]] < rank[walk[j]]
        BY <2>4, <3>1, <4>1
      <4> QED BY <1>10, <4>2
    <3> QED BY <1>1, <3>1
  <2>6. walk \in Injection(0..depth, DOMAIN info)
    <3>1. walk \in [0..depth -> DOMAIN info]
      BY <1>2, <1>4, <1>9
    <3> QED BY <2>5, <3>1 DEF Injection, IsInjective
  <2>7. Cardinality(0..depth) <= n
    BY <2>6, FS_Injection DEF n
  <2>8. Cardinality(0..depth) = depth + 1
    BY <1>1, FS_Interval
  <2> QED BY <1>1, <2>7, <2>8
<1> QED BY <1>2, <1>4, <1>9, <1>11, <1>12
\* X holds a window exactly if it holds its parent.
ClosedUnderTrees(info, X) ==
    \A x \in DOMAIN info : info[x].parent \in DOMAIN info => (x \in X <=> info[x].parent \in X)

\* The walk stays in the tree it starts in.
LEMMA SelectedWithin ==
    ASSUME NEW info, NEW open, NEW visible, NEW hint \in DOMAIN info,
           IsFiniteSet(DOMAIN info), InfoOK(info, open), ChildrenOK(info),
           NEW X, hint \in X, ClosedUnderTrees(info, X)
    PROVE  Selected(info, visible, hint) \in X \cup {NoWindow}
<1> DEFINE depth == 2 * Cardinality(DOMAIN info)
<1>1. depth \in Nat /\ NoWindow \notin DOMAIN info
  BY FS_CardinalityType, ConstantsAssumption DEF InfoOK
<1>2. PICK walk : Walks(walk, info, visible, hint)
  BY SelectedStepwise
<1>3. /\ walk[0] = hint
      /\ \A i \in 1..depth : walk[i] = IF walk[i - 1] \notin DOMAIN info
                                          \/ Settles(info, visible, walk[i - 1])
                                       THEN walk[i - 1]
                                       ELSE Redirect(info, visible, walk[i - 1])
      /\ Selected(info, visible, hint) =
                IF walk[depth] \in DOMAIN info /\ Settles(info, visible, walk[depth])
                THEN walk[depth] ELSE NoWindow
  BY <1>2 DEF Walks
<1>4. ASSUME NEW x \in DOMAIN info, x \in X, Redirect(info, visible, x) \in DOMAIN info
      PROVE  Redirect(info, visible, x) \in X
  <2> DEFINE dialogs  == VisibleDialogs(info, visible, x)
             children == info[x].children
  <2>1. CASE dialogs # {}
    <3>1. children \in Seq(Windows)
      BY DEF InfoOK, WindowInfos
    <3>2. dialogs \subseteq 1..Len(children) /\ Len(children) \in Nat
      BY <3>1, LenProperties DEF VisibleDialogs
    <3>3. Min(dialogs) \in 1..Len(children)
      <4> HIDE DEF dialogs, children
      <4> QED BY <2>1, <3>2, MinProperties
    <3>4. children[Min(dialogs)] \in Range(children)
      BY <3>1, <3>3 DEF Range
    <3>5. Redirect(info, visible, x) = children[Min(dialogs)]
      BY <2>1 DEF Redirect
    <3>6. info[Redirect(info, visible, x)].parent = x
      BY <1>4, <3>4, <3>5 DEF ChildrenOK
    <3> QED BY <1>4, <3>6 DEF ClosedUnderTrees
  <2>2. CASE dialogs = {}
    BY <1>4, <2>2 DEF Redirect, ClosedUnderTrees
  <2> QED BY <2>1, <2>2
<1> DEFINE T == {i \in 0..depth : walk[i] \in DOMAIN info => walk[i] \in X}
<1> HIDE DEF depth
<1>5. 0 \in T
  BY <1>1, <1>3
<1>6. ASSUME NEW i \in 0..depth, i < depth, i \in T PROVE i + 1 \in T
  <2>1. i + 1 \in 1..depth /\ i + 1 - 1 = i /\ i + 1 \in 0..depth
    BY <1>1, <1>6
  <2>2. walk[i + 1] = IF walk[i] \notin DOMAIN info \/ Settles(info, visible, walk[i])
                      THEN walk[i] ELSE Redirect(info, visible, walk[i])
    BY <1>3, <2>1
  <2>3. CASE walk[i + 1] = walk[i]
    BY <1>6, <2>1, <2>3
  <2>4. CASE walk[i] \in DOMAIN info /\ walk[i + 1] = Redirect(info, visible, walk[i])
    BY <1>4, <1>6, <2>1, <2>4
  <2> QED BY <2>2, <2>3, <2>4
<1>7. depth \in T
  <2>1. 0..depth \subseteq T
    <3> HIDE DEF T
    <3> QED BY <1>1, <1>5, <1>6, UpTo
  <2> QED BY <1>1, <2>1
<1> QED BY <1>3, <1>7

\* ... and ends at the first window that keeps the focus.
LEMMA SettledIsSelected ==
    ASSUME NEW info, NEW open, NEW visible, NEW hint \in DOMAIN info,
           IsFiniteSet(DOMAIN info), InfoOK(info, open), Settles(info, visible, hint)
    PROVE  Selected(info, visible, hint) = hint
<1> DEFINE depth == 2 * Cardinality(DOMAIN info)
<1>1. depth \in Nat
  BY FS_CardinalityType
<1>2. PICK walk : Walks(walk, info, visible, hint)
  BY SelectedStepwise
<1>3. /\ walk[0] = hint
      /\ \A i \in 1..depth : walk[i] = IF walk[i - 1] \notin DOMAIN info
                                          \/ Settles(info, visible, walk[i - 1])
                                       THEN walk[i - 1]
                                       ELSE Redirect(info, visible, walk[i - 1])
      /\ Selected(info, visible, hint) =
                IF walk[depth] \in DOMAIN info /\ Settles(info, visible, walk[depth])
                THEN walk[depth] ELSE NoWindow
  BY <1>2 DEF Walks
<1> DEFINE T == {i \in 0..depth : walk[i] = hint}
<1> HIDE DEF depth
<1>4. 0 \in T
  BY <1>1, <1>3
<1>5. ASSUME NEW i \in 0..depth, i < depth, i \in T PROVE i + 1 \in T
  <2>1. i + 1 \in 1..depth /\ i + 1 - 1 = i /\ i + 1 \in 0..depth
    BY <1>1, <1>5
  <2>2. walk[i + 1] = IF walk[i] \notin DOMAIN info \/ Settles(info, visible, walk[i])
                      THEN walk[i] ELSE Redirect(info, visible, walk[i])
    BY <1>3, <2>1
  <2> QED BY <1>5, <2>1, <2>2
<1>6. 0..depth \subseteq T
  <2> HIDE DEF T
  <2> QED BY <1>1, <1>4, <1>5, UpTo
<1>7. walk[depth] = hint
  BY <1>1, <1>6
<1> QED BY <1>3, <1>7

-----------------------------------------------------------------------------
(***************************************************************************)
(* BasicWindowManager implements InputFocus, as long as clients make no    *)
(* window its own ancestor.                                                *)
(*                                                                         *)
(* What an operation does to the focus is one of the relations below, of   *)
(* the focus before and the focus after it; each is then related to an     *)
(* action of InputFocus.  That some window gets the focus when one could   *)
(* have it rests on ActivatableIsSelected, hence on the trees.             *)
(***************************************************************************)

\* The operators on lists are the same on both sides.
LEMMA SameLists ==
    ASSUME NEW list, NEW w, NEW ws
    PROVE  /\ Promise!Push(list, w) = Push(list, w)
           /\ Promise!Erase(list, w) = Erase(list, w)
           /\ Promise!Top(list, ws) = Top(list, ws)
           /\ Promise!Range(list) = Range(list)
<1>1. Promise!Range(list) = Range(list)
  BY DEF Promise!Range, Range
<1>2. Promise!Erase(list, w) = Erase(list, w)
  BY <1>1, Zenon DEF Promise!Erase, Erase
<1>3. Promise!Newest(list, ws) = Newest(list, ws)
  BY Zenon DEF Promise!Newest, Newest, Promise!Max, Max
<1> QED BY <1>1, <1>2, <1>3 DEF Promise!Push, Push, Promise!Top, Top

\* The newest window may be pushed again to no effect.
LEMMA PushNewest ==
    ASSUME NEW S, NEW list \in Seq(S), IsInjective(list), list # <<>>
    PROVE  Push(list, list[Len(list)]) = list
<1> DEFINE n == Len(list)
           w == list[n]
           short == Erase(list, w)
<1>1. n \in Nat /\ DOMAIN list = 1..n /\ n # 0 /\ \A i \in 1..n : list[i] \in S
  BY EmptySeq, LenProperties
<1>2. w \in Range(list) /\ n \in 1..n
  BY <1>1 DEF Range
<1>3. \A i \in 1..n : list[i] = w => i = n
  BY <1>1, <1>2 DEF IsInjective
<1>4. (CHOOSE i \in DOMAIN list : list[i] = w) = n
  BY <1>1, <1>2, <1>3
<1>5. short = [i \in 1..(n - 1) |-> IF i < n THEN list[i] ELSE list[i + 1]]
  BY <1>2, <1>4 DEF Erase
<1>6. short \in Seq(S) /\ Len(short) = n - 1 /\ \A i \in 1..(n - 1) : short[i] = list[i]
  <2>1. \A i \in 1..(n - 1) : i < n /\ list[i] \in S /\ i \in 1..n
    BY <1>1
  <2>2. n - 1 \in Nat
    BY <1>1
  <2> HIDE DEF n, w, short
  <2>3. short = [i \in 1..(n - 1) |-> list[i]]
    BY <1>5, <2>1
  <2> QED BY <2>1, <2>2, <2>3
<1> DEFINE long == Append(short, w)
<1> HIDE DEF short, w, n
<1>7. /\ long \in Seq(S) /\ Len(long) = n /\ long[n] = w
      /\ \A i \in 1..(n - 1) : long[i] = list[i]
  BY <1>1, <1>2, <1>6, AppendProperties DEF w
<1>8. \A i \in 1..n : long[i] = list[i]
  <2>1. \A i \in 1..n : i = n \/ i \in 1..(n - 1)
    BY <1>1
  <2> HIDE DEF long
  <2> QED BY <1>7, <2>1 DEF w
<1>9. long = list
  <2> HIDE DEF long
  <2>1. long = [i \in 1..n |-> long[i]]
    <3>1. DOMAIN long = 1..n
      BY <1>7, LenProperties
    <3> QED BY <1>7, <3>1
  <2>2. list = [i \in 1..n |-> list[i]]
    BY <1>1
  <2> QED BY <1>8, <2>1, <2>2
<1> QED BY <1>9 DEF Push, short, w, n

-----------------------------------------------------------------------------
(* What becomes of the focus while the same windows stay visible.          *)

Dropped(foc, new) == new.mru = foc.mru /\ new.told = {}

Pushes(foc, new, w) == new.mru = Push(foc.mru, w) /\ new.told = {w}

\* ... and Mir knows: it is in the window's surface and its application.
Goes(foc, new, w, app) == Pushes(foc, new, w) /\ new.surface = w /\ new.session = app

Moves(foc, visible, new) ==
    SameWindows(foc, new) \/ Dropped(foc, new) \/ \E w \in visible : Pushes(foc, new, w)

LEMMA ActivatePushes ==
    ASSUME NEW foc \in Foci, NEW prev, NEW app, NEW w
    PROVE  /\ Activate(foc, prev, app, w).mru = Push(foc.mru, w)
           /\ Activate(foc, prev, app, w).surface = w
           /\ Activate(foc, prev, app, w).session = app
<1> DEFINE moved == [foc EXCEPT !.mru = Push(foc.mru, w), !.session = app, !.surface = w]
           lost  == IF prev \notin {NoWindow, w} THEN FocusLost(moved, prev) ELSE moved
<1>1. /\ DOMAIN moved = DOMAIN foc /\ moved.mru = Push(foc.mru, w)
      /\ moved.surface = w /\ moved.session = app
  BY DEF Foci
<1>2. DOMAIN foc = {"mru", "session", "surface", "told"}
  BY DEF Foci
<1> HIDE DEF moved
<1>3. /\ DOMAIN lost = DOMAIN foc /\ lost.mru = moved.mru
      /\ lost.surface = moved.surface /\ lost.session = moved.session
  BY <1>1, <1>2 DEF FocusLost
<1>4. Activate(foc, prev, app, w) = [lost EXCEPT !.told = lost.told \cup {w}]
  BY DEF Activate, moved
<1> HIDE DEF lost
<1> QED BY <1>1, <1>2, <1>3, <1>4

LEMMA ActivateGoes ==
    ASSUME NEW foc, NEW info, NEW seen, NEW visible, NEW open, NEW w, NEW app,
           FocusOK(foc, info, seen, visible, open), DOMAIN info \subseteq Windows,
           visible \subseteq seen, w \in DOMAIN info, w \in visible,
           can_be_active(info[w].type), app \in open, open \subseteq Apps
    PROVE  Goes(foc, Activate(foc, Top(foc.mru, visible), app, w), w, app)
<1>1. Activate(foc, Top(foc.mru, visible), app, w).told = {w}
  BY ActivatePreserves
<1>2. /\ Activate(foc, Top(foc.mru, visible), app, w).mru = Push(foc.mru, w)
      /\ Activate(foc, Top(foc.mru, visible), app, w).surface = w
      /\ Activate(foc, Top(foc.mru, visible), app, w).session = app
  BY ActivatePushes DEF FocusOK
<1> QED BY <1>1, <1>2 DEF Goes, Pushes

\* A selection moves the focus to the window it ends at, if it ends at one.
LEMMA SelectMoves ==
    ASSUME NEW foc, NEW info, NEW seen, NEW visible, NEW open, NEW hint,
           FocusOK(foc, info, seen, visible, open), InfoOK(info, open),
           visible \subseteq seen, open \subseteq Apps
    PROVE  LET new == select_active_window(foc, info, visible, hint)
               w   == Selected(info, visible, hint)
           IN  /\ hint # NoWindow /\ w # NoWindow => w \in visible /\ Goes(foc, new, w, info[w].app)
               /\ hint # NoWindow /\ w = NoWindow => new = foc
               /\ hint = NoWindow => Dropped(foc, new)
<1> DEFINE prev == Top(foc.mru, visible)
           w    == Selected(info, visible, hint)
           new  == select_active_window(foc, info, visible, hint)
<1>1. DOMAIN info \subseteq Windows /\ foc \in Foci
  BY DEF InfoOK, FocusOK
<1>2. CASE hint # NoWindow /\ w # NoWindow
  <2>1. w \in DOMAIN info /\ w \in visible /\ can_be_active(info[w].type)
    BY <1>2, SelectedSettles
  <2>2. info[w].app \in open
    BY <2>1 DEF InfoOK
  <2>3. new = Activate(foc, prev, info[w].app, w)
    BY <1>2 DEF select_active_window
  <2> HIDE DEF w, new
  <2>4. Goes(foc, Activate(foc, Top(foc.mru, visible), info[w].app, w), w, info[w].app)
    BY <1>1, <2>1, <2>2, ActivateGoes
  <2> QED BY <1>2, <2>1, <2>3, <2>4 DEF w, new
<1>3. CASE hint # NoWindow /\ w = NoWindow
  BY <1>3 DEF select_active_window
<1>4. CASE hint = NoWindow
  <2>1. CASE prev # NoWindow
    <3>1. new = Deactivate(foc, prev)
      BY <1>4, <2>1 DEF select_active_window
    <3>2. new.told = {}
      BY <1>1, <2>1, <3>1, DeactivatePreserves
    <3>3. new.mru = foc.mru
      BY <1>1, <3>1 DEF Deactivate, FocusLost, Foci
    <3> QED BY <1>4, <3>2, <3>3 DEF Dropped
  <2>2. CASE prev = NoWindow
    <3>1. new = foc
      BY <1>4, <2>2 DEF select_active_window
    <3>2. foc.told \subseteq {NoWindow}
      BY <1>1, <2>2, TopOfFocus
    <3>3. foc.told = {}
      BY <1>1, <3>2, ConstantsAssumption DEF Foci
    <3> QED BY <1>4, <3>1, <3>3 DEF Dropped
  <2> QED BY <2>1, <2>2
<1> QED BY <1>2, <1>3, <1>4

LEMMA SelectIsMove ==
    ASSUME NEW foc, NEW info, NEW seen, NEW visible, NEW open, NEW hint,
           FocusOK(foc, info, seen, visible, open), InfoOK(info, open),
           visible \subseteq seen, open \subseteq Apps
    PROVE  Moves(foc, visible, select_active_window(foc, info, visible, hint))
<1> DEFINE new == select_active_window(foc, info, visible, hint)
           w   == Selected(info, visible, hint)
<1>1. /\ hint # NoWindow /\ w # NoWindow => w \in visible /\ Goes(foc, new, w, info[w].app)
      /\ hint # NoWindow /\ w = NoWindow => new = foc
      /\ hint = NoWindow => Dropped(foc, new)
  BY SelectMoves
<1> HIDE DEF w, new
<1> QED BY <1>1 DEF Moves, SameWindows, Goes, new

\* A search through the MRU list finds a window whose selection succeeds, or
\* there is none.
LEMMA CandidateProperties ==
    ASSUME NEW foc, NEW info, NEW seen, NEW visible, NEW open, NEW among,
           FocusOK(foc, info, seen, visible, open)
    PROVE  LET hint == Candidate(foc, info, visible, among)
           IN  /\ hint # NoWindow => Selected(info, visible, hint) # NoWindow
               /\ hint = NoWindow => \A v \in Range(foc.mru) \cap visible \cap among :
                                        Selected(info, visible, v) = NoWindow
<1> DEFINE hits == {w \in visible \cap among : Selected(info, visible, w) # NoWindow}
           hint == Candidate(foc, info, visible, among)
<1>1. foc.mru \in Seq(Windows) /\ NoWindow \notin Windows
  BY ConstantsAssumption DEF FocusOK, Foci
<1>2. hint = Newest(foc.mru, hits)
  BY DEF Candidate
<1> HIDE DEF hits, hint
<1>3. /\ hint \in (Range(foc.mru) \cap hits) \cup {NoWindow}
      /\ hint = NoWindow <=> Range(foc.mru) \cap hits = {}
  BY <1>1, <1>2, NewestProperties
<1> QED BY <1>3 DEF hits, hint

\* The windows a search finds nothing among.
Hopeless(foc, info, visible, among) ==
    \A v \in Range(foc.mru) \cap visible \cap among : Selected(info, visible, v) = NoWindow

\* Hiding the active window hands the focus to another window; it is dropped
\* only if none of the windows that had it could have it again.
LEMMA AwayMoves ==
    ASSUME NEW foc, NEW info, NEW seen, NEW visible, NEW open, NEW rows, NEW w \in DOMAIN info,
           FocusOK(foc, info, seen, visible, open), InfoOK(info, open),
           visible \subseteq seen, visible \subseteq Windows, open \subseteq Apps,
           w = Top(foc.mru, visible), info[w].state \in HiddenStates
    PROVE  LET new == FocusAwayFrom(foc, info, visible, rows, w)
           IN  \/ \E x \in visible \ {w} : Goes(foc, new, x, info[x].app)
               \/ Dropped(foc, new) /\ Hopeless(foc, info, visible, Windows \ {w})
<1> DEFINE Elsewhere(f) == \E x \in visible \ {w} : Goes(foc, f, x, info[x].app)
           shared == Sharing(rows, workspaces_containing(rows, w)) \ {w}
           f1  == select_active_window(foc, info, visible, w)
           f2  == TryAway(f1, info, visible, w, shared)
           f3  == TryAway(f2, info, visible, w, Windows \ {w})
           new == FocusAwayFrom(foc, info, visible, rows, w)
<1>1. /\ DOMAIN info \subseteq Windows /\ w \in Windows /\ NoWindow \notin Windows
      /\ foc.mru \in Seq(Windows) /\ IsInjective(foc.mru)
  BY ConstantsAssumption DEF InfoOK, FocusOK, Foci
\* No selection ends at w any more.
<1>2. ASSUME NEW hint, hint # NoWindow
      PROVE  LET f == select_active_window(foc, info, visible, hint)
             IN  /\ Selected(info, visible, hint) # NoWindow => Elsewhere(f)
                 /\ Selected(info, visible, hint) = NoWindow => f = foc
  <2> DEFINE x == Selected(info, visible, hint)
             f == select_active_window(foc, info, visible, hint)
  <2>1. /\ x # NoWindow => x \in visible /\ Goes(foc, f, x, info[x].app)
        /\ x = NoWindow => f = foc
    BY <1>2, SelectMoves
  <2>2. x # w
    <3>1. x = NoWindow \/ Settles(info, visible, x)
      BY Zenon DEF Selected
    <3>2. ~Settles(info, visible, w)
      BY DEF Settles, is_visible
    <3> HIDE DEF x
    <3> QED BY <1>1, <3>1, <3>2
  <2> HIDE DEF x, f
  <2> QED BY <2>1, <2>2 DEF x, f
<1>3. ASSUME NEW f, Elsewhere(f) PROVE Top(f.mru, visible) \notin {w, NoWindow}
  <2>1. PICK x \in visible \ {w} : f.mru = Push(foc.mru, x)
    BY <1>3 DEF Goes, Pushes
  <2>2. x \in Windows
    BY <2>1
  <2> DEFINE list == Push(foc.mru, x)
  <2>3. /\ list \in Seq(Windows) /\ list # <<>> /\ list[Len(list)] = x
    BY <1>1, <2>2, PushProperties
  <2> HIDE DEF list
  <2>4. Top(list, visible) = x
    BY <1>1, <2>1, <2>3, NewestProperties DEF Top
  <2> QED BY <1>1, <2>1, <2>2, <2>4 DEF list
<1>4. ASSUME NEW f, f = foc \/ Elsewhere(f), NEW among
      PROVE  LET g == TryAway(f, info, visible, w, among)
             IN  Elsewhere(g) \/ (g = foc /\ Hopeless(foc, info, visible, among))
  <2> DEFINE g    == TryAway(f, info, visible, w, among)
             hint == Candidate(foc, info, visible, among)
  <2> HIDE DEF Elsewhere
  <2>1. CASE Elsewhere(f)
    <3>1. g = f
      BY <1>3, <2>1 DEF TryAway
    <3> HIDE DEF g
    <3> QED BY <2>1, <3>1 DEF g
  <2>2. CASE f = foc
    <3>1. g = TrySelect(foc, info, visible, hint)
      BY <2>2 DEF TryAway
    <3>2. /\ hint # NoWindow => Selected(info, visible, hint) # NoWindow
          /\ hint = NoWindow => Hopeless(foc, info, visible, among)
      BY CandidateProperties DEF Hopeless
    <3>3. CASE hint = NoWindow
      BY <3>1, <3>2, <3>3 DEF TrySelect
    <3>4. CASE hint # NoWindow
      <4>1. g = select_active_window(foc, info, visible, hint)
        BY <3>1, <3>4 DEF TrySelect
      <4> HIDE DEF g, hint
      <4>2. Elsewhere(g)
        BY <1>2, <3>2, <3>4, <4>1
      <4> QED BY <4>2 DEF g
    <3> QED BY <3>3, <3>4
  <2> QED BY <1>4, <2>1, <2>2
<1>5. f1 = foc \/ Elsewhere(f1)
  <2> HIDE DEF Elsewhere
  <2> QED BY <1>1, <1>2
<1>6. new = GiveUp(f3, info, visible, w)
  BY DEF FocusAwayFrom
<1> HIDE DEF Elsewhere, f1
<1>7. f2 = foc \/ Elsewhere(f2)
  BY <1>4, <1>5
<1> HIDE DEF f2
<1>8. (f3 = foc /\ Hopeless(foc, info, visible, Windows \ {w})) \/ Elsewhere(f3)
  BY <1>4, <1>7
<1> HIDE DEF f3, new
<1>9. CASE Elsewhere(f3)
  <2>1. new = f3
    BY <1>3, <1>6, <1>9 DEF GiveUp
  <2> QED BY <1>9, <2>1 DEF Elsewhere, new
<1>10. CASE f3 = foc /\ Hopeless(foc, info, visible, Windows \ {w})
  <2>1. new = select_active_window(foc, info, visible, NoWindow)
    BY <1>6, <1>10 DEF GiveUp
  <2>2. Dropped(foc, new)
    BY <2>1, SelectMoves
  <2> QED BY <1>10, <2>2 DEF new
<1> QED BY <1>8, <1>9, <1>10

\* Cycling within an application: the active window may be activated again on
\* the way, which is not to be seen afterwards as it is the newest.
LEMMA WithinApplicationMoves ==
    ASSUME NEW foc, NEW info, NEW seen, NEW visible, NEW rows, NEW siblings, NEW open,
           FocusOK(foc, info, seen, visible, open), InfoOK(info, open), open \subseteq Apps,
           visible \subseteq seen, foc.mru # <<>>, foc.mru[Len(foc.mru)] \in visible
    PROVE  Moves(foc, visible,
                 focus_within_application(foc, info, visible, rows, siblings,
                                          Top(foc.mru, visible)))
<1> DEFINE prev  == Top(foc.mru, visible)
           again == Activate(foc, prev, info[prev].app, prev)
           new   == focus_within_application(foc, info, visible, rows, siblings, prev)
           OK(f) == FocusOK(f, info, seen, visible, open)
<1>1. DOMAIN info \subseteq Windows /\ foc.mru \in Seq(Windows) /\ IsInjective(foc.mru)
  BY DEF InfoOK, FocusOK, Foci
<1>2. prev = foc.mru[Len(foc.mru)] /\ prev \in visible
  BY <1>1, NewestProperties, ConstantsAssumption DEF Top
<1>3. prev \in Range(foc.mru)
  BY <1>1, <1>2, EmptySeq, LenProperties DEF Range
<1>4. prev \in DOMAIN info /\ can_be_active(info[prev].type) /\ info[prev].app \in open
  BY <1>3 DEF FocusOK, InfoOK
<1>5. Push(foc.mru, prev) = foc.mru
  BY <1>1, <1>2, PushNewest
<1>6. OK(again) /\ Goes(foc, again, prev, info[prev].app)
  <2> HIDE DEF prev
  <2>1. /\ OK(Activate(foc, Top(foc.mru, visible), info[prev].app, prev))
        /\ Goes(foc, Activate(foc, Top(foc.mru, visible), info[prev].app, prev),
                prev, info[prev].app)
    BY <1>1, <1>2, <1>4, ActivatePreserves, ActivateGoes
  <2> QED BY <2>1 DEF prev
<1>7. \E base \in {foc, again} :
         \/ new = base
         \/ \E hint : new = select_active_window(base, info, visible, hint)
  <2> HIDE DEF prev
  <2> QED BY Zenon DEF focus_within_application
<1> HIDE DEF again, new, prev
<1>8. PICK base \in {foc, again} : Moves(base, visible, new)
  BY <1>6, <1>7, SelectIsMove DEF Moves, SameWindows
<1>9. CASE base = foc
  BY <1>8, <1>9 DEF new, prev
<1>10. CASE base = again
  BY <1>2, <1>5, <1>6, <1>8, <1>10 DEF Moves, SameWindows, Dropped, Goes, Pushes, new, prev
<1> QED BY <1>8, <1>9, <1>10

LEMMA NextApplicationMoves ==
    ASSUME NEW foc, NEW info, NEW seen, NEW visible, NEW rows, NEW apps, NEW first,
           sessions \in Seq(Apps), FocusOK(foc, info, seen, visible, Range(sessions)),
           foc.session = NoApp /\ sessions # <<>> => first \in Range(sessions),
           InfoOK(info, Range(sessions)), AppsOK(apps, info), visible \subseteq seen
    PROVE  Moves(foc, visible,
                 focus_next_application(foc, apps, info, visible, rows, first))
<1> DEFINE new == focus_next_application(foc, apps, info, visible, rows, first)
<1>1. SelectsFrom(foc, new, info, seen, visible, Range(sessions))
  BY NextApplicationSelects
<1>2. Range(sessions) \subseteq Apps
  BY DEF Range
<1> HIDE DEF new
<1>3. PICK base : SameWindows(foc, base) /\ Moves(base, visible, new)
  BY <1>1, <1>2, SelectIsMove DEF SelectsFrom
<1> QED BY <1>3 DEF Moves, SameWindows, Dropped, Goes, Pushes, new

\* After the active window has gone the focus goes to a window that could have
\* it, unless none can.
LEMMA RefocusMoves ==
    ASSUME NEW foc, NEW info, NEW seen, NEW visible, NEW rows, NEW apps, NEW app,
           NEW parent, NEW wss, NEW first,
           sessions \in Seq(Apps), FocusOK(foc, info, seen, visible, Range(sessions)),
           foc.session = NoApp /\ sessions # <<>> => first \in Range(sessions),
           InfoOK(info, Range(sessions)), AppsOK(apps, info), visible \subseteq seen
    PROVE  LET new == refocus(foc, apps, info, visible, rows, app, parent, wss, first)
           IN  \/ \E x \in visible : Goes(foc, new, x, info[x].app)
               \/ Moves(foc, visible, new) /\ Hopeless(foc, info, visible, Windows)
<1> DEFINE Recent(among) == Candidate(foc, info, visible, among)
           attempts == <<
               IF parent # NoWindow /\ Selected(info, visible, parent) # NoWindow
               THEN parent ELSE NoWindow,
               Recent(Range(apps[app]) \cap Sharing(rows, wss)),
               Recent(Sharing(rows, wss)),
               Recent(Range(apps[app])),
               Recent(Windows)>>
           hits == {i \in DOMAIN attempts : attempts[i] # NoWindow}
           new  == refocus(foc, apps, info, visible, rows, app, parent, wss, first)
<1>1. Range(sessions) \subseteq Apps
  BY DEF Range
<1>2. new = IF hits # {}
            THEN select_active_window(foc, info, visible, attempts[Min(hits)])
            ELSE focus_next_application(foc, apps, info, visible, rows, first)
  BY Zenon DEF refocus
<1>3. \A among : Recent(among) # NoWindow => Selected(info, visible, Recent(among)) # NoWindow
  BY CandidateProperties
<1>4. Recent(Windows) = NoWindow => Hopeless(foc, info, visible, Windows)
  BY CandidateProperties DEF Hopeless
<1> HIDE DEF Recent, new
<1>5. DOMAIN attempts = 1..5 /\ hits \subseteq 1..5
  OBVIOUS
<1>6. CASE hits # {}
  <2> DEFINE hint == attempts[Min(hits)]
  <2>1. Min(hits) \in hits
    <3> HIDE DEF hits
    <3> QED BY <1>5, <1>6, MinProperties
  <2>2. hint # NoWindow /\ Selected(info, visible, hint) # NoWindow
    <3>1. \A i \in hits : Selected(info, visible, attempts[i]) # NoWindow
      BY <1>3
    <3> HIDE DEF attempts
    <3> QED BY <2>1, <3>1
  <2> HIDE DEF hint
  <2>3. \E x \in visible : Goes(foc, select_active_window(foc, info, visible, hint),
                                 x, info[x].app)
    BY <1>1, <2>2, SelectMoves
  <2> QED BY <1>2, <1>6, <2>3 DEF hint, new
<1>7. CASE hits = {}
  <2>1. Recent(Windows) = NoWindow
    BY <1>7
  <2>2. Moves(foc, visible, new)
    BY <1>2, <1>7, NextApplicationMoves
  <2> QED BY <1>4, <2>1, <2>2 DEF new
<1> QED BY <1>6, <1>7

-----------------------------------------------------------------------------
(* The operations, one after the other.                                    *)

shown == VisibleSurfaces(window_info)

Step == [Promise!Next]_(Promise!vars)

\* If any window of the MRU list is visible the newest one is: a window that
\* is shown again while none is active goes to the end of the list.
NewestShown ==
    \/ Range(focus.mru) \cap shown = {}
    \/ focus.mru # <<>> /\ focus.mru[Len(focus.mru)] \in shown

\* What an operation starts from.
LEMMA StartOfStep ==
    ASSUME Inv
    PROVE  /\ shown \subseteq posted /\ shown \subseteq Windows /\ shown \subseteq Live
           /\ Live \subseteq Windows /\ NoWindow \notin Windows
           /\ focus \in Foci /\ focus.mru \in Seq(Windows) /\ IsInjective(focus.mru)
           /\ focus.told \subseteq {Top(focus.mru, shown)} /\ focus.told \subseteq shown
           /\ Range(focus.mru) \subseteq posted
           /\ sessions \in Seq(Apps) /\ Range(sessions) \subseteq Apps
           /\ AppsOK(app_info, window_info)
           /\ InfoOK(window_info, Range(sessions)) /\ ChildrenOK(window_info)
           /\ FocusOK(focus, window_info, posted, shown, Range(sessions))
<1>1. FocusOK(focus, window_info, posted, shown, Range(sessions))
  BY DEF Inv, FocusInv, shown
<1>2. /\ Live \subseteq Windows /\ InfoOK(window_info, Range(sessions))
      /\ ChildrenOK(window_info) /\ NoWindow \notin Windows
      /\ sessions \in Seq(Apps)
  BY ConstantsAssumption DEF Inv, WindowsInv, SessionsInv, InfoOK, Live
<1>3. shown \subseteq posted /\ shown \subseteq Live
  BY DEF shown, VisibleSurfaces, Live
<1>4. focus.told \subseteq {Top(focus.mru, shown)}
  BY <1>1, <1>2, TopOfFocus DEF Live
<1>5. /\ focus \in Foci /\ focus.mru \in Seq(Windows) /\ IsInjective(focus.mru)
      /\ focus.told \subseteq shown /\ Range(focus.mru) \subseteq posted
  BY <1>1 DEF FocusOK, Foci
<1> QED BY <1>1, <1>2, <1>3, <1>4, <1>5, StartOfOperation

LEMMA QuietStep ==
    ASSUME SameWindows(focus, focus'), shown' = shown
    PROVE  Step
BY DEF Step, SameWindows, Promise!vars, shown

\* An operation that only moves the focus.
LEMMA MoveStep ==
    ASSUME Inv, Moves(focus, shown, focus'), shown' = shown
    PROVE  Step
<1>1. CASE SameWindows(focus, focus')
  BY <1>1, QuietStep
<1>2. CASE Dropped(focus, focus')
  <2>1. Promise!Deselect
    BY <1>2 DEF Promise!Deselect, Dropped, shown
  <2> QED BY <2>1 DEF Step, Promise!Next
<1>3. CASE \E w \in shown : Pushes(focus, focus', w)
  <2>1. PICK w \in shown : Pushes(focus, focus', w)
    BY <1>3
  <2>2. Promise!Select(w)
    BY <2>1, SameLists DEF Promise!Select, Promise!Focused, Pushes, shown
  <2>3. w \in Windows
    BY <2>1, StartOfStep
  <2> QED BY <2>2, <2>3 DEF Step, Promise!Next
<1> QED BY <1>1, <1>2, <1>3 DEF Moves

\* A window comes to be seen.
LEMMA AppearStep ==
    ASSUME NEW w \in Windows \ shown, shown' = shown \cup {w},
           \/ /\ SameWindows(focus, focus')
              /\ Top(focus.mru, shown) = NoWindow => w \notin Range(focus.mru)
           \/ /\ Top(focus.mru, shown) = NoWindow
              /\ \E x \in Windows \cap shown' : Pushes(focus, focus', x)
    PROVE  Step
<1>1. Promise!Appear(w)
  BY SameLists DEF Promise!Appear, Promise!Focused, SameWindows, Pushes, shown
<1> QED BY <1>1 DEF Step, Promise!Next

\* A window is seen no more; kept is the list with or without it.
LEMMA DisappearStep ==
    ASSUME NEW w \in shown, w \in Windows, shown' = shown \ {w},
           NEW kept, kept \in {focus.mru, Erase(focus.mru, w)},
           \/ /\ w # Top(focus.mru, shown)
              /\ focus.mru' = kept /\ focus.told' = focus.told
           \/ /\ w = Top(focus.mru, shown)
              /\ \/ \E x \in shown' : focus.mru' = Push(kept, x) /\ focus.told' = {x}
                 \/ focus.mru' = kept /\ focus.told' = {} /\ Range(kept) \cap shown' = {}
    PROVE  Step
<1>1. Promise!Disappear(w)
  BY SameLists DEF Promise!Disappear, shown
<1> QED BY <1>1 DEF Step, Promise!Next

LEMMA ForgetStep ==
    ASSUME NEW w \in Windows \ shown, shown' = shown,
           focus.mru' = Erase(focus.mru, w), focus.told' = focus.told
    PROVE  Step
<1>1. Promise!Forget(w)
  BY SameLists DEF Promise!Forget, shown
<1> QED BY <1>1 DEF Step, Promise!Next
\* In every such step the newest window stays visible if any is.
LEMMA StepKeepsNewestShown ==
    ASSUME Inv, Inv', NewestShown, Step
    PROVE  NewestShown'
<1> DEFINE list == focus.mru
           newest == list[Len(list)]
<1>1. /\ list \in Seq(Windows) /\ IsInjective(list) /\ shown \subseteq Windows
      /\ NoWindow \notin Windows
  BY StartOfStep
<1>2. /\ list # <<>> /\ newest \in shown => Top(list, shown) = newest
      /\ Top(list, shown) = NoWindow <=> Range(list) \cap shown = {}
      /\ list # <<>> => newest \in Range(list)
  BY <1>1, NewestProperties, EmptySeq, LenProperties DEF Top, Range
<1>3. ASSUME NEW kept \in Seq(Windows), IsInjective(kept), NEW x \in Windows \cap shown',
             focus.mru' = Push(kept, x)
      PROVE  NewestShown'
  <2> DEFINE pushed == Push(kept, x)
  <2>1. pushed # <<>> /\ pushed[Len(pushed)] = x
    BY <1>3, PushProperties
  <2> HIDE DEF pushed
  <2>2. focus.mru' = pushed
    BY <1>3 DEF pushed
  <2> QED BY <1>3, <2>1, <2>2 DEF NewestShown
<1>4. ASSUME NEW w
      PROVE  /\ Erase(list, w) \in Seq(Windows) /\ IsInjective(Erase(list, w))
             /\ Range(Erase(list, w)) = Range(list) \ {w}
             /\ list # <<>> /\ newest # w
                => Erase(list, w) # <<>> /\ Erase(list, w)[Len(Erase(list, w))] = newest
  BY <1>1, EraseProperties
<1>5. ASSUME UNCHANGED Promise!vars PROVE NewestShown'
  BY <1>5 DEF Promise!vars, NewestShown, shown
<1>6. ASSUME NEW w \in Windows, Promise!Select(w) PROVE NewestShown'
  <2>1. focus.mru' = Push(list, w) /\ w \in shown'
    BY <1>6, SameLists DEF Promise!Select, Promise!Focused, shown
  <2> QED BY <1>1, <1>3, <2>1
<1>7. ASSUME NEW w \in Windows, Promise!Appear(w) PROVE NewestShown'
  <2>1. /\ shown' = shown \cup {w}
        /\ \/ /\ focus.mru' = focus.mru
              /\ Top(list, shown) = NoWindow => w \notin Range(list)
           \/ \E x \in Windows \cap shown' : focus.mru' = Push(list, x)
    BY <1>7, SameLists DEF Promise!Appear, Promise!Focused, shown
  <2>2. CASE \E x \in Windows \cap shown' : focus.mru' = Push(list, x)
    BY <1>1, <1>3, <2>2
  <2>3. CASE focus.mru' = focus.mru /\ (Top(list, shown) = NoWindow => w \notin Range(list))
    BY <1>2, <2>1, <2>3 DEF NewestShown
  <2> QED BY <2>1, <2>2, <2>3
<1>8. ASSUME NEW w \in Windows, Promise!Disappear(w) PROVE NewestShown'
  <2>1. PICK kept \in {list, Erase(list, w)} :
           /\ w \in shown /\ shown' = shown \ {w}
           /\ \/ w # Top(list, shown) /\ focus.mru' = kept
              \/ \E x \in shown' : focus.mru' = Push(kept, x)
              \/ focus.mru' = kept /\ Range(kept) \cap shown' = {}
    <3>1. PICK kept \in {list, Promise!Erase(list, w)} :
             /\ w \in shown /\ shown' = shown \ {w}
             /\ \/ w # Promise!Top(list, shown) /\ focus.mru' = kept
                \/ \E x \in shown' : focus.mru' = Promise!Push(kept, x)
                \/ focus.mru' = kept /\ Promise!Range(kept) \cap shown' = {}
      BY <1>8, Zenon DEF Promise!Disappear, shown
    <3>2. kept \in {list, Erase(list, w)}
      BY <3>1, SameLists
    <3> QED BY <3>1, <3>2, SameLists
  <2>2. CASE \E x \in shown' : focus.mru' = Push(kept, x)
    BY <1>1, <1>3, <1>4, <2>1, <2>2
  <2>3. CASE focus.mru' = kept /\ Range(kept) \cap shown' = {}
    BY <2>3 DEF NewestShown
  <2>4. CASE w # Top(list, shown) /\ focus.mru' = kept
    <3>1. CASE Range(list) \cap shown = {}
      BY <1>4, <2>1, <2>4, <3>1 DEF NewestShown
    <3>2. CASE list # <<>> /\ newest \in shown
      <4>1. newest # w /\ newest \in shown'
        BY <1>2, <2>1, <2>4, <3>2
      <4>2. kept # <<>> /\ kept[Len(kept)] = newest
        BY <1>4, <2>1, <3>2, <4>1
      <4> QED BY <2>4, <4>1, <4>2 DEF NewestShown
    <3> QED BY <3>1, <3>2 DEF NewestShown
  <2> QED BY <2>1, <2>2, <2>3, <2>4
<1>9. ASSUME NEW w \in Windows, Promise!Forget(w) PROVE NewestShown'
  <2>1. w \notin shown /\ focus.mru' = Erase(list, w) /\ shown' = shown
    BY <1>9, SameLists DEF Promise!Forget, shown
  <2>2. CASE Range(list) \cap shown = {}
    BY <1>4, <2>1, <2>2 DEF NewestShown
  <2>3. CASE list # <<>> /\ newest \in shown
    <3>1. newest # w
      BY <2>1, <2>3
    <3>2. Erase(list, w) # <<>> /\ Erase(list, w)[Len(Erase(list, w))] = newest
      BY <1>4, <2>3, <3>1
    <3> QED BY <2>1, <2>3, <3>2 DEF NewestShown
  <2> QED BY <2>2, <2>3 DEF NewestShown
<1>10. ASSUME Promise!Deselect PROVE NewestShown'
  BY <1>10 DEF Promise!Deselect, NewestShown, shown
<1> QED BY <1>5, <1>6, <1>7, <1>8, <1>9, <1>10 DEF Step, Promise!Next

\* What an operation ends with.
LEMMA EndOfOperation ==
    ASSUME Inv', Acyclic(window_info')
    PROVE  /\ IsFiniteSet(DOMAIN window_info')
           /\ InfoOK(window_info', Range(sessions')) /\ ChildrenOK(window_info')
           /\ AppsOK(app_info', window_info')
<1>1. /\ InfoOK(window_info', Range(sessions')) /\ ChildrenOK(window_info')
      /\ DOMAIN window_info' \subseteq Windows
  BY DEF Inv, WindowsInv, InfoOK
<1>2. IsFiniteSet(DOMAIN window_info')
  BY <1>1, FiniteWindows, FS_Subset
<1>3. AppsOK(app_info', window_info')
  BY DEF Inv, AppsInv, AppsOK, Live
<1> QED BY <1>1, <1>2, <1>3

\* In a tree without cycles only windows that are not visible are hopeless.
LEMMA NoHopeless ==
    ASSUME NEW foc, NEW info, NEW seen, NEW visible, NEW open, NEW among, NEW vs,
           FocusOK(foc, info, seen, visible, open), InfoOK(info, open), ChildrenOK(info),
           IsFiniteSet(DOMAIN info), Acyclic(info),
           Hopeless(foc, info, visible, among), vs \subseteq visible \cap among,
           \A v \in vs \cap DOMAIN info : info[v].state \notin HiddenStates
    PROVE  Range(foc.mru) \cap vs = {}
<1> SUFFICES ASSUME NEW v \in Range(foc.mru) \cap vs PROVE FALSE
  OBVIOUS
<1>1. v \in DOMAIN info /\ can_be_active(info[v].type)
  BY DEF FocusOK
<1>2. v \in Activatable(info, visible)
  BY <1>1 DEF Activatable, is_visible
<1>3. Selected(info, visible, v) # NoWindow
  BY <1>2, ActivatableIsSelected
<1> QED BY <1>3 DEF Hopeless

\* When the active window w goes away, another one of the list is active next.
Survives ==
    \A w \in Live :
        GoesAway(w) /\ (Range(focus.mru) \cap shown) \ {w} # {}
        => /\ active' # NoWindow
           /\ focus'.surface = active'
           /\ focus'.session = window_info'[active'].app
           /\ focus'.told = {active'}

\* The focus has gone to another window: the one that is active now.
LEMMA HandedOn ==
    ASSUME NEW kept \in Seq(Windows), IsInjective(kept), NEW x \in Windows \cap shown',
           focus'.mru = Push(kept, x), focus'.told = {x},
           focus'.surface = x, focus'.session = window_info'[x].app
    PROVE  Survives
<1> DEFINE list == Push(kept, x)
<1>1. list \in Seq(Windows) /\ list # <<>> /\ list[Len(list)] = x
  BY PushProperties
<1> HIDE DEF list
<1>2. Top(list, shown') = x /\ x # NoWindow
  BY <1>1, NewestProperties, ConstantsAssumption DEF Top
<1>3. active' = x
  BY <1>2 DEF active, shown, list
<1> QED BY <1>2, <1>3 DEF Survives

\* No window goes away in a step that leaves the states of all alone.
LEMMA NobodyGoes ==
    ASSUME Inv, Live \subseteq Live',
           \A x \in Live : window_info'[x].state = window_info[x].state
    PROVE  Survives /\ \A w \in Live : ~GoesAway(w)
<1> SUFFICES ASSUME NEW w \in Live, GoesAway(w) PROVE FALSE
  BY DEF Survives
<1>1. w = Top(focus.mru, shown) /\ window_info[w].state \in HiddenStates
  BY DEF GoesAway, active, shown
<1>2. w \in shown
  <2>1. /\ Live \subseteq Windows /\ NoWindow \notin Windows /\ focus.mru \in Seq(Windows)
    BY StartOfStep
  <2> QED BY <1>1, <2>1, NewestProperties DEF Top
<1> QED BY <1>1, <1>2 DEF shown, VisibleSurfaces

LEMMA AddSurfaceStep ==
    ASSUME Inv, NEW a, NEW w, NEW type, NEW state, NEW parent,
           add_surface(a, w, type, state, parent)
    PROVE  Step /\ Survives
<1>1. /\ posted' = posted /\ posted \subseteq Live /\ w \notin Live /\ focus' = focus
      /\ DOMAIN window_info' = Live \cup {w}
  BY DEF add_surface, WithWindow, Inv, SurfacesInv, Live
<1>2. \A x \in Live : window_info'[x].state = window_info[x].state
  <2>1. \A x \in Live : window_info[x] \in WindowInfos
    BY DEF Inv, WindowsInv, InfoOK, Live
  <2> SUFFICES ASSUME NEW x \in Live PROVE window_info'[x].state = window_info[x].state
    OBVIOUS
  <2>2. \/ window_info'[x] = window_info[x]
        \/ window_info'[x] = [window_info[x] EXCEPT !.children = Append(@, w)]
    BY <1>1 DEF add_surface, WithWindow, Live
  <2> QED BY <2>1, <2>2 DEF WindowInfos
<1>3. shown' = shown
  BY <1>1, <1>2 DEF shown, VisibleSurfaces, Live
<1>4. Live \subseteq Live'
  BY <1>1 DEF Live
<1> QED BY <1>1, <1>2, <1>3, <1>4, QuietStep, NobodyGoes DEF SameWindows

LEMMA FramePostedStep ==
    ASSUME Inv, NEW w \in Live, frame_posted(w)
    PROVE  Step
<1>1. /\ focus' = focus /\ w \notin posted
      /\ shown' = IF window_info[w].state \in HiddenStates THEN shown ELSE shown \cup {w}
  BY DEF frame_posted, shown, VisibleSurfaces, Live
<1>2. w \in Windows \ shown /\ w \notin Range(focus.mru)
  BY <1>1, StartOfStep
<1> QED BY <1>1, <1>2, QuietStep, AppearStep DEF SameWindows

\* The operations that move the focus and nothing else.
LEMMA FocusStep ==
    ASSUME Inv, NewestShown,
           \/ \E w \in ready : handle_window_ready(w)
           \/ \E hint : select_window(hint)
           \/ \E first \in FirstSessions : next_application(first)
           \/ focus_next_within_application
           \/ focus_prev_within_application
    PROVE  Step
<1>1. /\ FocusOK(focus, window_info, posted, shown, Range(sessions))
      /\ InfoOK(window_info, Range(sessions)) /\ shown \subseteq posted
      /\ Range(sessions) \subseteq Apps /\ AppsOK(app_info, window_info)
      /\ sessions \in Seq(Apps)
      /\ focus.mru \in Seq(Windows) /\ NoWindow \notin Windows
  BY StartOfStep
<1>2. shown' = shown
  BY DEF handle_window_ready, select_window, next_application, within_application,
         focus_next_within_application, focus_prev_within_application, shown, VisibleSurfaces
<1>3. ASSUME NEW hint, focus' = select_active_window(focus, window_info, shown, hint)
      PROVE  Step
  BY <1>1, <1>2, <1>3, SelectIsMove, MoveStep
<1>4. ASSUME NEW w \in ready, handle_window_ready(w) PROVE Step
  <2>1. \/ focus' = focus
        \/ focus' = select_active_window(focus, window_info, shown, w)
    BY <1>4 DEF handle_window_ready, shown
  <2> QED BY <1>2, <1>3, <2>1, QuietStep DEF SameWindows
<1>5. ASSUME NEW hint, select_window(hint) PROVE Step
  BY <1>3, <1>5 DEF select_window, shown
<1>6. ASSUME NEW first \in FirstSessions, next_application(first) PROVE Step
  <2>1. focus' = focus_next_application(focus, app_info, window_info, shown, Rows, first)
    BY <1>6 DEF next_application, shown
  <2>2. focus.session = NoApp /\ sessions # <<>> => first \in Range(sessions)
    BY StartOfOperation
  <2>3. Moves(focus, shown, focus')
    BY <1>1, <2>1, <2>2, NextApplicationMoves
  <2> QED BY <1>2, <2>3, MoveStep
<1>7. ASSUME focus_next_within_application \/ focus_prev_within_application PROVE Step
  <2>1. PICK siblings : /\ Top(focus.mru, shown) # NoWindow
                        /\ focus' = focus_within_application(focus, window_info, shown, Rows,
                                          siblings, Top(focus.mru, shown))
    BY <1>7, Zenon DEF focus_next_within_application, focus_prev_within_application,
                       within_application, active, shown
  <2>2. focus.mru # <<>> /\ focus.mru[Len(focus.mru)] \in shown
    BY <1>1, <2>1, NewestProperties DEF NewestShown, Top
  <2>3. Moves(focus, shown, focus')
    BY <1>1, <2>1, <2>2, WithinApplicationMoves
  <2> QED BY <1>2, <2>3, MoveStep
<1> QED BY <1>4, <1>5, <1>6, <1>7

LEMMA ModifySurfaceStep ==
    ASSUME Inv, Inv', Acyclic(window_info'), NEW w \in Live, NEW type,
           NEW state \in States \cup {Unset}, NEW parent \in NewParents(w),
           modify_surface(w, type, state, parent)
    PROVE  Step /\ Survives
<1> DEFINE info  == IF parent = Unset THEN window_info ELSE Reparent(window_info, w, parent)
           after == [info EXCEPT ![w].state = state]
           open  == Range(sessions)
<1>1. /\ shown \subseteq posted /\ shown \subseteq Windows /\ w \in Windows
      /\ NoWindow \notin Windows /\ open \subseteq Apps
      /\ InfoOK(window_info, open) /\ ChildrenOK(window_info)
      /\ FocusOK(focus, window_info, posted, shown, open)
      /\ focus.mru \in Seq(Windows) /\ focus.told \subseteq {Top(focus.mru, shown)}
      /\ focus.told \subseteq shown
  BY StartOfStep
<1>2. /\ InfoOK(info, open) /\ DOMAIN info = Live
      /\ \A x \in Live : /\ info[x].app = window_info[x].app
                         /\ info[x].type = window_info[x].type
                         /\ info[x].state = window_info[x].state
  <2>1. CASE parent = Unset
    BY <2>1, <1>1 DEF Live
  <2>2. CASE parent # Unset
    <3>1. parent \in DOMAIN window_info
      BY <2>2 DEF NewParents, Live
    <3> HIDE DEF open
    <3> QED BY <2>2, <3>1, <1>1, ReparentKeepsTree DEF Live
  <2> QED BY <2>1, <2>2
<1> HIDE DEF info
<1>3. VisibleSurfaces(info) = shown /\ posted' = posted /\ sessions' = sessions
  BY <1>2 DEF VisibleSurfaces, Live, shown, modify_surface
<1>4. CASE focus' = focus /\ window_info' \in {window_info, info}
  <2>1. shown' = shown
    BY <1>3, <1>4 DEF shown, VisibleSurfaces
  <2>2. Live' = Live /\ \A x \in Live : window_info'[x].state = window_info[x].state
    BY <1>2, <1>4 DEF Live
  <2> QED BY <1>4, <2>1, <2>2, QuietStep, NobodyGoes DEF SameWindows
<1>5. CASE /\ state # Unset /\ window_info' = after
           /\ focus' = FocusAfterState(focus, info, Rows, w, state)
  <2>1. /\ DOMAIN after = Live
        /\ \A x \in Live : /\ after[x].app = window_info[x].app
                           /\ after[x].type = window_info[x].type
                           /\ after[x].state = IF x = w THEN state ELSE window_info[x].state
    BY <1>2 DEF InfoOK, WindowInfos
  <2>2. shown' = VisibleSurfaces(after)
    BY <1>3, <1>5 DEF shown, VisibleSurfaces
  <2>3. /\ IsFiniteSet(DOMAIN after) /\ InfoOK(after, open) /\ ChildrenOK(after)
        /\ Acyclic(after)
    BY <1>3, <1>5, EndOfOperation
  <2>4. focus' = IF window_info[w].state = state THEN focus
                 ELSE IF state \in HiddenStates
                 THEN IF Top(focus.mru, shown) = w
                      THEN FocusAwayFrom(focus, after, shown, Rows, w) ELSE focus
                 ELSE IF window_info[w].state \in HiddenStates
                         /\ Top(focus.mru, shown) = NoWindow
                 THEN select_active_window(focus, after, shown', w)
                 ELSE focus
    BY <1>2, <1>3, <1>5, <2>2 DEF FocusAfterState
  <2> HIDE DEF after
  <2>5. shown' = IF state \in HiddenStates THEN shown \ {w}
                 ELSE IF w \in posted THEN shown \cup {w} ELSE shown
    BY <2>1, <2>2 DEF shown, VisibleSurfaces, Live
  <2>6. w \in shown <=> w \in posted /\ window_info[w].state \notin HiddenStates
    BY DEF shown, VisibleSurfaces, Live
  <2>7. FocusOK(focus, after, posted, shown, open)
    <3> HIDE DEF open
    <3> QED BY <1>1, <2>1 DEF FocusOK, Live
  <2>8. ASSUME state \in HiddenStates, Top(focus.mru, shown) = w,
                focus' = FocusAwayFrom(focus, after, shown, Rows, w)
         PROVE  /\ w \in shown /\ shown' = shown \ {w}
                /\ \/ \E x \in shown' : Goes(focus, focus', x, after[x].app)
                   \/ Dropped(focus, focus') /\ Range(focus.mru) \cap shown' = {}
    <3>1. w \in shown /\ shown' = shown \ {w}
      BY <1>1, <2>5, <2>8, NewestProperties DEF Top
    <3>2. w \in DOMAIN after /\ after[w].state \in HiddenStates
      BY <2>1, <2>8
    <3>3. \/ \E x \in shown \ {w} : Goes(focus, focus', x, after[x].app)
          \/ Dropped(focus, focus') /\ Hopeless(focus, after, shown, Windows \ {w})
      BY <1>1, <2>3, <2>7, <2>8, <3>2, AwayMoves
    <3>4. CASE Dropped(focus, focus') /\ Hopeless(focus, after, shown, Windows \ {w})
      <4>1. \A v \in shown' \cap DOMAIN after : after[v].state \notin HiddenStates
        BY <2>1, <3>1 DEF shown, VisibleSurfaces, Live
      <4>2. shown' \subseteq shown \cap (Windows \ {w})
        BY <1>1, <3>1
      <4>3. Range(focus.mru) \cap shown' = {}
        BY <2>3, <2>7, <3>4, <4>1, <4>2, NoHopeless
      <4> QED BY <3>1, <3>4, <4>3
    <3> QED BY <3>1, <3>3, <3>4
  <2>9. Step
    <3>1. CASE focus' = focus /\ shown' = shown
      BY <3>1, QuietStep DEF SameWindows
    <3>2. CASE w \in shown /\ shown' = shown \ {w} /\ focus' = focus
               /\ Top(focus.mru, shown) # w
      BY <1>1, <3>2, DisappearStep
    <3>3. CASE w \notin shown /\ shown' = shown \cup {w} /\ focus' = focus
                /\ Top(focus.mru, shown) # NoWindow
      BY <1>1, <3>3, AppearStep DEF SameWindows
    <3>4. CASE /\ state \notin HiddenStates /\ window_info[w].state \in HiddenStates
                /\ Top(focus.mru, shown) = NoWindow
                /\ focus' = select_active_window(focus, after, shown', w)
      <4>1. focus.told = {}
        BY <1>1, <3>4
      <4>2. FocusOK(focus, after, posted, shown', open)
        BY <2>7, <4>1 DEF FocusOK
      <4>3. shown' \subseteq posted /\ shown' \subseteq Windows
        BY <1>1, <2>5, <3>4
      <4> DEFINE x == Selected(after, shown', w)
      <4>4. /\ x # NoWindow => x \in shown' /\ Goes(focus, focus', x, after[x].app)
            /\ x = NoWindow => focus' = focus
        BY <1>1, <2>3, <3>4, <4>2, <4>3, SelectMoves
      <4>5. CASE w \notin posted
        <5>1. shown' = shown
          BY <2>5, <3>4, <4>5
        <5>2. Moves(focus, shown, focus')
          <6> HIDE DEF x
          <6> QED BY <4>4, <5>1 DEF Moves, SameWindows, Goes
        <5> QED BY <5>1, <5>2, MoveStep
      <4>6. CASE w \in posted
        <5>1. w \in Windows \ shown /\ shown' = shown \cup {w}
          BY <1>1, <2>5, <2>6, <3>4, <4>6
        <5>2. CASE x # NoWindow
          <6> HIDE DEF x
          <6> QED BY <3>4, <4>3, <4>4, <5>1, <5>2, AppearStep DEF Goes
        <5>3. CASE x = NoWindow
          <6>1. w \notin Range(focus.mru)
            <7> SUFFICES ASSUME w \in Range(focus.mru) PROVE FALSE
              OBVIOUS
            <7>1. w \in DOMAIN after /\ can_be_active(after[w].type)
              BY <2>7 DEF FocusOK
            <7>2. after[w].state \notin HiddenStates /\ w \in shown'
              BY <2>1, <3>4, <5>1
            <7>3. w \in Activatable(after, shown')
              BY <7>1, <7>2 DEF Activatable, is_visible
            <7> QED BY <2>3, <5>3, <7>3, ActivatableIsSelected
          <6> QED BY <3>4, <4>4, <5>1, <5>3, <6>1, AppearStep DEF SameWindows
        <5> QED BY <5>2, <5>3
      <4> QED BY <4>5, <4>6
    <3>5. CASE /\ state \in HiddenStates /\ Top(focus.mru, shown) = w
                /\ focus' = FocusAwayFrom(focus, after, shown, Rows, w)
      BY <1>1, <2>8, <3>5, DisappearStep DEF Goes, Pushes, Dropped
    <3> QED BY <2>4, <2>5, <2>6, <3>1, <3>2, <3>3, <3>4, <3>5
  <2>10. Survives
    <3> SUFFICES ASSUME NEW v \in Live, GoesAway(v), (Range(focus.mru) \cap shown) \ {v} # {}
                 PROVE  Survives
      BY DEF Survives
    <3>1. v = Top(focus.mru, shown) /\ after[v].state \in HiddenStates
      BY <1>5, <2>1 DEF GoesAway, active, shown, Live
    <3>2. v \in shown /\ window_info[v].state \notin HiddenStates
      <4>1. Live \subseteq Windows
        BY StartOfStep
      <4>2. v \in shown
        BY <1>1, <3>1, <4>1, NewestProperties DEF Top
      <4> QED BY <4>2 DEF shown, VisibleSurfaces
    <3>3. v = w /\ state \in HiddenStates /\ window_info[w].state # state
      BY <2>1, <3>1, <3>2
    <3>4. /\ shown' = shown \ {w}
          /\ \/ \E x \in shown' : Goes(focus, focus', x, after[x].app)
             \/ Range(focus.mru) \cap shown' = {}
      BY <2>4, <2>8, <3>1, <3>3
    <3>5. PICK x \in shown' : Goes(focus, focus', x, after[x].app)
      BY <3>3, <3>4
    <3>6. IsInjective(focus.mru)
      BY StartOfStep
    <3> QED BY <1>1, <1>5, <3>4, <3>5, <3>6, HandedOn DEF Goes, Pushes
  <2> QED BY <2>9, <2>10
<1> QED BY <1>4, <1>5, Zenon DEF modify_surface, info

LEMMA RemoveWindowStep ==
    ASSUME Inv, Inv', Acyclic(window_info'), NEW w \in Live, NEW first \in FirstSessions,
           remove_window(w, first)
    PROVE  Step /\ Survives
<1> DEFINE info    == erase(window_info, w)
           wss     == workspaces_containing(Rows, w)
           rows    == {row \in Rows : row[2] # w}
           visible == VisibleSurfaces(info)
           removed == Removed(w)
           new     == refocus(removed, app_info', info, visible, rows, window_info[w].app,
                              window_info[w].parent, wss, first)
<1>1. /\ shown \subseteq posted /\ shown \subseteq Windows /\ w \in Windows
      /\ NoWindow \notin Windows /\ sessions \in Seq(Apps)
      /\ InfoOK(window_info, Range(sessions)) /\ ChildrenOK(window_info)
      /\ focus.mru \in Seq(Windows)
      /\ focus.told \subseteq {Top(focus.mru, shown)} /\ focus.told \subseteq shown
  BY StartOfStep
<1>2. /\ window_info' = info /\ posted' = posted \ {w} /\ sessions' = sessions
      /\ focus' = IF active = w THEN new ELSE removed
  BY Zenon DEF remove_window, Removed
<1>3. /\ DOMAIN info = Live \ {w}
      /\ \A x \in Live \ {w} : info[x].state = window_info[x].state
  <2> DEFINE open == Range(sessions)
  <2>1. InfoOK(window_info, open) /\ ChildrenOK(window_info) /\ w \in DOMAIN window_info
    BY <1>1 DEF Live
  <2> HIDE DEF open
  <2>2. /\ InfoOK(info, open)
        /\ DOMAIN info = Live \ {w}
        /\ \A x \in Live \ {w} : /\ info[x].app = window_info[x].app
                                 /\ info[x].type = window_info[x].type
                                 /\ info[x].state = window_info[x].state
    BY <2>1, EraseKeepsTree DEF Live
  <2> QED BY <2>2
<1>4. /\ FocusOK(removed, info, posted \ {w}, visible, Range(sessions))
      /\ removed.mru = Erase(focus.mru, w) /\ removed.told = focus.told \ {w}
      /\ removed.session = focus.session
  BY WindowRemoved
<1>5. /\ IsFiniteSet(DOMAIN info) /\ InfoOK(info, Range(sessions)) /\ ChildrenOK(info)
      /\ Acyclic(info) /\ AppsOK(app_info', info)
  BY <1>2, EndOfOperation
<1> HIDE DEF info
<1>6. visible = shown \ {w} /\ shown' = visible /\ visible \subseteq posted \ {w}
  BY <1>2, <1>3 DEF shown, VisibleSurfaces, Live
<1>7. \A v \in visible : info[v].state \notin HiddenStates
  BY DEF VisibleSurfaces
<1> HIDE DEF removed, visible, new
<1>8. CASE Top(focus.mru, shown) = w
  <2>1. w \in shown
    BY <1>1, <1>8, NewestProperties DEF Top
  <2>2. focus' = new /\ removed.told = {}
    BY <1>1, <1>2, <1>4, <1>8 DEF active, shown
  <2>3. removed.session = NoApp /\ sessions # <<>> => first \in Range(sessions)
    BY <1>4, StartOfOperation
  <2>4. \/ \E x \in visible : Goes(removed, new, x, info[x].app)
        \/ Moves(removed, visible, new) /\ Hopeless(removed, info, visible, Windows)
    BY <1>1, <1>4, <1>5, <1>6, <2>3, RefocusMoves DEF new
  <2>5. CASE \E x \in visible : Goes(removed, new, x, info[x].app)
    <3>1. Step
      BY <1>1, <1>4, <1>6, <1>8, <2>1, <2>2, <2>5, DisappearStep DEF Goes, Pushes
    <3>2. removed.mru \in Seq(Windows) /\ IsInjective(removed.mru)
      BY <1>4 DEF FocusOK, Foci
    <3>3. PICK x \in visible : Goes(removed, new, x, info[x].app)
      BY <2>5
    <3>4. Survives
      BY <1>1, <1>2, <1>6, <2>2, <3>2, <3>3, HandedOn DEF Goes, Pushes
    <3> QED BY <3>1, <3>4
  <2>6. CASE Moves(removed, visible, new) /\ Hopeless(removed, info, visible, Windows)
    <3>1. Range(removed.mru) \cap visible = {}
      BY <1>1, <1>4, <1>5, <1>6, <1>7, <2>6, NoHopeless
    <3>2. \/ new.mru = removed.mru /\ new.told = {}
          \/ \E x \in visible : new.mru = Push(removed.mru, x) /\ new.told = {x}
      BY <2>2, <2>6 DEF Moves, SameWindows, Dropped, Pushes
    <3>3. Step
      BY <1>1, <1>4, <1>6, <1>8, <2>1, <2>2, <3>1, <3>2, DisappearStep
    <3>4. Range(removed.mru) = Range(focus.mru) \ {w}
      BY <1>1, <1>4, EraseProperties, StartOfStep
    <3>5. (Range(focus.mru) \cap shown) \ {w} = {}
      BY <1>6, <3>1, <3>4
    <3>6. Survives
      BY <1>8, <3>5 DEF Survives, GoesAway, active, shown
    <3> QED BY <3>3, <3>6
  <2> QED BY <2>4, <2>5, <2>6
<1>9. CASE Top(focus.mru, shown) # w
  <2>1. focus' = removed /\ focus.told \ {w} = focus.told
    BY <1>1, <1>2, <1>9 DEF active, shown
  <2>2. Step
    <3>1. CASE w \in shown
      BY <1>1, <1>4, <1>6, <1>9, <2>1, <3>1, DisappearStep
    <3>2. CASE w \notin shown
      <4>1. shown' = shown
        BY <1>6, <3>2
      <4> QED BY <1>1, <1>4, <2>1, <3>2, <4>1, ForgetStep
    <3> QED BY <3>1, <3>2
  <2>3. Survives
    <3> SUFFICES ASSUME NEW v \in Live, GoesAway(v) PROVE FALSE
      BY DEF Survives
    <3>1. v = Top(focus.mru, shown) /\ v # w
      BY <1>9 DEF GoesAway, active, shown
    <3>2. v \in shown
      <4>1. Live \subseteq Windows
        BY StartOfStep
      <4> QED BY <1>1, <3>1, <4>1, NewestProperties DEF Top
    <3>3. v \in DOMAIN info /\ v \in visible
      BY <1>3, <1>6, <3>1, <3>2
    <3> QED BY <1>2, <1>7, <3>3 DEF GoesAway, Live
  <2> QED BY <2>2, <2>3
<1> QED BY <1>8, <1>9

LEMMA NextIsStep ==
    ASSUME Inv, Inv', NewestShown, Acyclic(window_info'), [Next]_vars
    PROVE  Step /\ Survives
\* An operation that leaves the windows and the focus alone.
<1>1. ASSUME UNCHANGED <<window_info, posted>>, SameWindows(focus, focus')
      PROVE  Step /\ Survives
  <2>1. shown' = shown
    BY <1>1 DEF shown, VisibleSurfaces
  <2> QED BY <1>1, <2>1, QuietStep, NobodyGoes DEF Live
<1>2. SameWindows(focus, focus)
  BY DEF SameWindows
<1>3. CASE UNCHANGED vars
  BY <1>1, <1>2, <1>3 DEF vars
<1>4. ASSUME NEW a \in Apps, add_session(a) PROVE Step /\ Survives
  BY <1>1, <1>2, <1>4 DEF add_session
<1>5. ASSUME NEW a \in Apps, remove_session(a) PROVE Step /\ Survives
  <2>1. SameWindows(focus, focus')
    BY <1>5, StartOfStep DEF remove_session, SameWindows, Foci
  <2> QED BY <1>1, <1>5, <2>1 DEF remove_session
<1>6. ASSUME NEW ws \in Workspaces,
             create_workspace(ws) \/ release_workspace(ws) \/ destroy_workspace(ws)
      PROVE  Step /\ Survives
  BY <1>1, <1>2, <1>6 DEF create_workspace, release_workspace, destroy_workspace
<1>7. ASSUME NEW rows, ChangeRows(rows) PROVE Step /\ Survives
  BY <1>1, <1>2, <1>7 DEF ChangeRows
<1>8. ASSUME NEW w, NEW ws, add_tree_to_workspace(w, ws) \/ remove_tree_from_workspace(w, ws)
      PROVE  Step /\ Survives
  BY <1>7, <1>8, Zenon DEF add_tree_to_workspace, remove_tree_from_workspace
<1>9. ASSUME NEW to, NEW from, move_workspace_content_to_workspace(to, from) PROVE Step /\ Survives
  BY <1>7, <1>9, Zenon DEF move_workspace_content_to_workspace
<1>10. ASSUME NEW w \in Live, NEW first \in FirstSessions,
              remove_surface(w, first) \/ force_close(w, first)
       PROVE  Step /\ Survives
  BY <1>10, RemoveWindowStep, Zenon DEF remove_surface, force_close
<1>11. ASSUME NEW a \in Apps, NEW w \in Windows, NEW type \in Types, NEW state \in States,
              NEW parent \in Live \cup {NoWindow}, add_surface(a, w, type, state, parent)
       PROVE  Step /\ Survives
  BY <1>11, AddSurfaceStep
<1>12. ASSUME NEW w \in Live, NEW type \in TypeRequests \cup {Unset},
              NEW state \in States \cup {Unset}, NEW parent \in NewParents(w),
              modify_surface(w, type, state, parent)
       PROVE  Step /\ Survives
  BY <1>12, ModifySurfaceStep
<1>13. ASSUME NEW w \in Live, frame_posted(w) PROVE Step /\ Survives
  BY <1>13, FramePostedStep, NobodyGoes DEF frame_posted, Live
<1>14. ASSUME \/ \E w \in ready : handle_window_ready(w)
              \/ \E hint : select_window(hint)
              \/ \E first \in FirstSessions : next_application(first)
              \/ focus_next_within_application
              \/ focus_prev_within_application
       PROVE  Step /\ Survives
  <2>1. window_info' = window_info
    BY <1>14 DEF handle_window_ready, select_window, next_application, within_application,
         focus_next_within_application, focus_prev_within_application
  <2> QED BY <1>14, <2>1, FocusStep, NobodyGoes DEF Live
<1> QED BY <1>3, <1>4, <1>5, <1>6, <1>8, <1>9, <1>10, <1>11, <1>12, <1>13, <1>14 DEF Next

\* As long as clients make no window its own ancestor, the window manager keeps
\* the promise about the focus: windows come and go one at a time, the order in
\* which they had the focus is kept, and when the active window goes another
\* one gets the focus, however many attempts of refocus() and set_state() fail
\* on the way.
THEOREM FocusIsAsPromised ==
    ASSUME "cycle" \notin Liberties
    PROVE  Spec => FocusPromise
<1>1. Init => Promise!Init /\ NewestShown
  BY DEF Init, Promise!Init, NewestShown, shown, VisibleSurfaces, Range
<1>2. ASSUME Inv, Inv', TreesInv', NewestShown, [Next]_vars PROVE Step /\ NewestShown'
  <2>1. Acyclic(window_info')
    BY <1>2 DEF TreesInv
  <2>2. Step
    BY <1>2, <2>1, NextIsStep
  <2> QED BY <1>2, <2>2, StepKeepsNewestShown
<1>3. Step => [Promise!Next]_(Promise!vars)
  BY DEF Step
<1> HIDE DEF Step
<1> QED BY <1>1, <1>2, <1>3, Invariance, TreesAreAcyclic, PTL
        DEF Spec, FocusPromise, Promise!Spec

\* As long as clients make no window its own ancestor, the focus survives the
\* active window: when that is closed, hidden or minimized while another window
\* of the MRU list is visible, a window gets the focus, and Mir, the policy and
\* active_window() agree on which.
THEOREM FocusIsHandedOn ==
    ASSUME "cycle" \notin Liberties
    PROVE  Spec => FocusSurvives
<1>1. Init => NewestShown
  BY DEF Init, NewestShown, shown, VisibleSurfaces, Range
<1>2. ASSUME Inv, Inv', TreesInv', NewestShown, [Next]_vars
      PROVE  NewestShown' /\ Survives
  <2>1. Acyclic(window_info')
    BY <1>2 DEF TreesInv
  <2>2. Step /\ Survives
    BY <1>2, <2>1, NextIsStep
  <2> QED BY <1>2, <2>2, StepKeepsNewestShown
<1>3. Survives <=>
        \A w \in Live :
            GoesAway(w) /\ (Range(focus.mru) \cap VisibleSurfaces(window_info)) \ {w} # {}
            => /\ active' # NoWindow
               /\ focus'.surface = active'
               /\ focus'.session = window_info'[active'].app
               /\ focus'.told = {active'}
  BY DEF Survives, shown
<1> HIDE DEF Survives
<1> QED BY <1>1, <1>2, <1>3, Invariance, TreesAreAcyclic, PTL DEF Spec, FocusSurvives
-----------------------------------------------------------------------------
(* Where the focus goes to, if clients give no window a new parent: to a   *)
(* window in a workspace of the active window that goes away, if any of    *)
(* those can have it.  X is the set of the windows in these workspaces.    *)

\* The focus has gone to a window of X.
Lands(foc, info, visible, X, new) == \E x \in visible \cap X : Goes(foc, new, x, info[x].app)

\* A selection that starts in X ends there.
LEMMA SelectStays ==
    ASSUME NEW foc, NEW info, NEW seen, NEW visible, NEW open, NEW hint \in DOMAIN info, NEW X,
           FocusOK(foc, info, seen, visible, open), InfoOK(info, open), ChildrenOK(info),
           IsFiniteSet(DOMAIN info), visible \subseteq seen, open \subseteq Apps,
           ClosedUnderTrees(info, X), hint \in X, Selected(info, visible, hint) # NoWindow
    PROVE  LET x == Selected(info, visible, hint)
           IN  /\ x \in visible \cap X
               /\ Goes(foc, select_active_window(foc, info, visible, hint), x, info[x].app)
<1> DEFINE x == Selected(info, visible, hint)
<1>1. x \in X
  BY SelectedWithin
<1>2. hint # NoWindow
  BY ConstantsAssumption DEF InfoOK
<1>3. x \in visible /\ Goes(foc, select_active_window(foc, info, visible, hint), x, info[x].app)
  BY <1>2, SelectMoves
<1> HIDE DEF x
<1> QED BY <1>1, <1>3 DEF x

\* A search ends at a window of the MRU list among those it looks for.
LEMMA CandidateAmong ==
    ASSUME NEW foc, NEW info, NEW seen, NEW visible, NEW open, NEW among,
           FocusOK(foc, info, seen, visible, open), InfoOK(info, open)
    PROVE  LET hint == Candidate(foc, info, visible, among)
           IN  hint # NoWindow => /\ hint \in DOMAIN info /\ hint \in visible \cap among
                                  /\ Selected(info, visible, hint) # NoWindow
<1> DEFINE hits == {w \in visible \cap among : Selected(info, visible, w) # NoWindow}
<1>1. foc.mru \in Seq(Windows) /\ NoWindow \notin Windows
  BY ConstantsAssumption DEF FocusOK, Foci
<1>2. Candidate(foc, info, visible, among) = Newest(foc.mru, hits)
  BY DEF Candidate
<1> HIDE DEF hits
<1>3. Newest(foc.mru, hits) \in (Range(foc.mru) \cap hits) \cup {NoWindow}
  BY <1>1, NewestProperties
<1>4. \A w \in Range(foc.mru) : w \in DOMAIN info
  BY DEF FocusOK
<1> QED BY <1>2, <1>3, <1>4 DEF hits

\* Hiding the active window.
LEMMA AwayStays ==
    ASSUME NEW foc, NEW info, NEW seen, NEW visible, NEW open, NEW rows, NEW w \in DOMAIN info,
           FocusOK(foc, info, seen, visible, open), InfoOK(info, open), ChildrenOK(info),
           IsFiniteSet(DOMAIN info),
           visible \subseteq seen, visible \subseteq Windows, open \subseteq Apps,
           w = Top(foc.mru, visible), info[w].state \in HiddenStates,
           NEW X, X = Sharing(rows, workspaces_containing(rows, w)), w \in X,
           ClosedUnderTrees(info, X), ~Hopeless(foc, info, visible, X \ {w})
    PROVE  Lands(foc, info, visible, X \ {w}, FocusAwayFrom(foc, info, visible, rows, w))
<1> DEFINE there == X \ {w}
           Landed(f) == Lands(foc, info, visible, there, f)
           f1  == select_active_window(foc, info, visible, w)
           f2  == TryAway(f1, info, visible, w, there)
           f3  == TryAway(f2, info, visible, w, Windows \ {w})
           new == FocusAwayFrom(foc, info, visible, rows, w)
<1>1. /\ DOMAIN info \subseteq Windows /\ w \in Windows /\ NoWindow \notin Windows
      /\ foc.mru \in Seq(Windows) /\ IsInjective(foc.mru)
  BY ConstantsAssumption DEF InfoOK, FocusOK, Foci
<1>2. new = GiveUp(f3, info, visible, w)
  BY DEF FocusAwayFrom
<1> HIDE DEF new
\* No selection ends at w any more.
<1>3. ASSUME NEW hint PROVE Selected(info, visible, hint) # w
  <2> DEFINE x == Selected(info, visible, hint)
  <2>1. x = NoWindow \/ Settles(info, visible, x)
    BY Zenon DEF Selected
  <2>2. ~Settles(info, visible, w)
    BY DEF Settles, is_visible
  <2> HIDE DEF x
  <2>3. x # w
    BY <1>1, <2>1, <2>2
  <2> QED BY <2>3 DEF x
<1>4. ASSUME NEW hint \in DOMAIN info, hint \in X, Selected(info, visible, hint) # NoWindow
      PROVE  Landed(select_active_window(foc, info, visible, hint))
  <2> DEFINE x == Selected(info, visible, hint)
  <2>1. /\ x \in visible \cap X
        /\ Goes(foc, select_active_window(foc, info, visible, hint), x, info[x].app)
    <3> HIDE DEF there
    <3> QED BY <1>4, SelectStays
  <2>2. x # w
    BY <1>3
  <2> HIDE DEF x
  <2> QED BY <2>1, <2>2 DEF Lands
\* Once it has landed the focus is another window's, and is left there.
<1>5. ASSUME NEW f, Landed(f) PROVE Top(f.mru, visible) \notin {w, NoWindow}
  <2>1. PICK x \in visible \ {w} : f.mru = Push(foc.mru, x)
    BY <1>5 DEF Lands, Goes, Pushes
  <2>2. x \in Windows
    BY <2>1
  <2> DEFINE list == Push(foc.mru, x)
  <2>3. /\ list \in Seq(Windows) /\ list # <<>> /\ list[Len(list)] = x
    BY <1>1, <2>2, PushProperties
  <2> HIDE DEF list
  <2>4. Top(list, visible) = x
    BY <1>1, <2>1, <2>3, NewestProperties DEF Top
  <2> QED BY <1>1, <2>1, <2>2, <2>4 DEF list
<1>6. f1 = foc \/ Landed(f1)
  <2>1. CASE Selected(info, visible, w) # NoWindow
    BY <1>4, <2>1
  <2>2. CASE Selected(info, visible, w) = NoWindow
    BY <1>1, <2>2, SelectMoves
  <2> QED BY <2>1, <2>2
<1> HIDE DEF f1, Landed
<1>7. Landed(f2)
  <2>1. CASE Landed(f1)
    <3>1. f2 = f1
      BY <1>5, <2>1 DEF TryAway
    <3> QED BY <2>1, <3>1
  <2>2. CASE f1 = foc
    <3> DEFINE hint == Candidate(foc, info, visible, there)
    <3>1. f2 = TrySelect(foc, info, visible, hint)
      BY <2>2 DEF TryAway
    <3>2. hint # NoWindow
      <4> HIDE DEF there
      <4>1. hint = NoWindow => Hopeless(foc, info, visible, there)
        BY CandidateProperties DEF Hopeless
      <4> QED BY <4>1 DEF there
    <3>3. hint \in DOMAIN info /\ hint \in there /\ Selected(info, visible, hint) # NoWindow
      <4> HIDE DEF there
      <4> QED BY <3>2, CandidateAmong
    <3> HIDE DEF hint, f2
    <3>4. f2 = select_active_window(foc, info, visible, hint)
      BY <3>1, <3>2 DEF TrySelect
    <3> QED BY <1>4, <3>3, <3>4
  <2> QED BY <1>6, <2>1, <2>2
<1> HIDE DEF f2
<1>8. f3 = f2
  BY <1>5, <1>7 DEF TryAway
<1>9. new = f2
  BY <1>2, <1>5, <1>7, <1>8 DEF GiveUp
<1> QED BY <1>7, <1>9 DEF Landed, new

\* Closing the active window.
LEMMA RefocusStays ==
    ASSUME NEW foc, NEW info, NEW seen, NEW visible, NEW open, NEW rows, NEW apps, NEW app,
           NEW parent \in DOMAIN info \cup {NoWindow}, NEW wss, NEW first,
           FocusOK(foc, info, seen, visible, open), InfoOK(info, open), ChildrenOK(info),
           IsFiniteSet(DOMAIN info), visible \subseteq seen, open \subseteq Apps,
           NEW X, X = Sharing(rows, wss), ClosedUnderTrees(info, X),
           parent \in X \cup {NoWindow}, ~Hopeless(foc, info, visible, X)
    PROVE  Lands(foc, info, visible, X,
                 refocus(foc, apps, info, visible, rows, app, parent, wss, first))
<1> DEFINE Recent(among) == Candidate(foc, info, visible, among)
           attempts == <<
               IF parent # NoWindow /\ Selected(info, visible, parent) # NoWindow
               THEN parent ELSE NoWindow,
               Recent(Range(apps[app]) \cap Sharing(rows, wss)),
               Recent(Sharing(rows, wss)),
               Recent(Range(apps[app])),
               Recent(Windows)>>
           hits == {i \in DOMAIN attempts : attempts[i] # NoWindow}
           new  == refocus(foc, apps, info, visible, rows, app, parent, wss, first)
           Good(hint) == hint \in DOMAIN info /\ hint \in X /\ Selected(info, visible, hint) # NoWindow
<1>1. new = IF hits # {}
            THEN select_active_window(foc, info, visible, attempts[Min(hits)])
            ELSE focus_next_application(foc, apps, info, visible, rows, first)
  BY Zenon DEF refocus
<1>2. \A among : among \subseteq X => Recent(among) = NoWindow \/ Good(Recent(among))
  BY CandidateAmong
<1>3. Recent(Sharing(rows, wss)) # NoWindow
  BY CandidateProperties DEF Hopeless
<1> HIDE DEF Recent, new
<1>4. 3 \in hits /\ hits \subseteq 1..5
  BY <1>3
<1>5. Min(hits) \in hits /\ Min(hits) \in 1..3
  <2> HIDE DEF hits
  <2>1. hits # {}
    BY <1>4
  <2>2. Min(hits) \in hits /\ Min(hits) <= 3
    BY <1>4, <2>1, MinProperties
  <2> DEFINE m == Min(hits)
  <2>3. m \in 1..5 /\ m <= 3
    BY <1>4, <2>2
  <2> HIDE DEF m
  <2>4. m \in 1..3
    BY <2>3
  <2> QED BY <2>2, <2>4 DEF m
<1>6. /\ attempts[1] = NoWindow \/ Good(attempts[1])
      /\ attempts[2] = NoWindow \/ Good(attempts[2])
      /\ attempts[3] = NoWindow \/ Good(attempts[3])
  <2>1. attempts[1] = NoWindow \/ Good(attempts[1])
    OBVIOUS
  <2>2. attempts[2] = Recent(Range(apps[app]) \cap Sharing(rows, wss))
    OBVIOUS
  <2>3. attempts[3] = Recent(Sharing(rows, wss))
    OBVIOUS
  <2> HIDE DEF attempts, Good
  <2> QED BY <1>2, <2>1, <2>2, <2>3
<1> DEFINE hint == attempts[Min(hits)]
<1>7. Good(hint)
  <2>1. \A i \in 1..3 : attempts[i] = NoWindow \/ Good(attempts[i])
    <3> HIDE DEF attempts, Good
    <3> QED BY <1>6
  <2>2. attempts[Min(hits)] # NoWindow
    <3>1. \A i \in hits : attempts[i] # NoWindow
      OBVIOUS
    <3> HIDE DEF hits, attempts
    <3> QED BY <1>5, <3>1
  <2> HIDE DEF hits, attempts, Good
  <2> QED BY <1>5, <2>1, <2>2
<1>8. new = select_active_window(foc, info, visible, hint)
  <2> HIDE DEF attempts
  <2>1. hits # {}
    BY <1>4
  <2> HIDE DEF hits
  <2> QED BY <1>1, <2>1
<1> HIDE DEF hint
<1>9. Lands(foc, info, visible, X, select_active_window(foc, info, visible, hint))
  <2> DEFINE x == Selected(info, visible, hint)
  <2>1. /\ x \in visible \cap X
        /\ Goes(foc, select_active_window(foc, info, visible, hint), x, info[x].app)
    BY <1>7, SelectStays
  <2> HIDE DEF x
  <2> QED BY <2>1 DEF Lands
<1> QED BY <1>8, <1>9 DEF new

-----------------------------------------------------------------------------
\* What FocusStaysInWorkspace says of a step.
Stays ==
    \A w \in Live :
        LET wss == workspaces_containing(Rows, w) IN
        GoesAway(w) /\ ((Range(focus.mru) \cap shown) \ {w}) \cap Sharing(Rows, wss) # {}
        => active' \in Sharing(Rows, wss)

\* The windows that share a workspace are whole trees.
LEMMA SharingIsClosed ==
    ASSUME Inv, TreesTogether, NEW w
    PROVE  LET X == Sharing(Rows, workspaces_containing(Rows, w)) IN
           /\ ClosedUnderTrees(window_info, X)
           /\ w \in Live /\ X # {} => w \in X
<1> DEFINE wss == workspaces_containing(Rows, w)
           X   == Sharing(Rows, wss)
<1>1. \A x \in DOMAIN window_info : x \in X <=> \E ws \in wss : <<ws, x>> \in Rows
  BY WindowTables DEF Sharing, Live
<1>2. \A ws \in wss : HoldsTrees(window_info, Rows, ws)
  BY DEF workspaces_containing, TreesTogether
<1>3. \A ws \in wss : <<ws, w>> \in Rows
  BY DEF workspaces_containing
<1>4. X # {} => wss # {}
  BY DEF Sharing
<1> HIDE DEF wss, X
<1>5. ClosedUnderTrees(window_info, X)
  BY <1>1, <1>2 DEF ClosedUnderTrees, HoldsTrees
<1>6. w \in Live /\ X # {} => w \in X
  BY <1>1, <1>3, <1>4 DEF Live
<1> QED BY <1>5, <1>6 DEF X, wss

\* The window the focus has landed on is the active one.
LEMMA LandedIsActive ==
    ASSUME NEW kept \in Seq(Windows), IsInjective(kept), NEW x \in Windows \cap shown',
           focus'.mru = Push(kept, x)
    PROVE  active' = x
<1> DEFINE list == Push(kept, x)
<1>1. list \in Seq(Windows) /\ list # <<>> /\ list[Len(list)] = x
  BY PushProperties
<1> HIDE DEF list
<1>2. Top(list, shown') = x
  BY <1>1, NewestProperties, ConstantsAssumption DEF Top
<1> QED BY <1>2 DEF active, shown, list

LEMMA ModifySurfaceStays ==
    ASSUME Inv, Inv', Acyclic(window_info'), TreesTogether, PlainTrees, NEW w \in Live, NEW type,
           NEW state \in States \cup {Unset}, NEW parent \in NewParents(w),
           modify_surface(w, type, state, parent)
    PROVE  Stays
<1> DEFINE after == [window_info EXCEPT ![w].state = state]
           open  == Range(sessions)
<1>1. /\ shown \subseteq posted /\ shown \subseteq Windows /\ shown \subseteq Live
      /\ w \in Windows /\ Live \subseteq Windows
      /\ NoWindow \notin Windows /\ open \subseteq Apps
      /\ FocusOK(focus, window_info, posted, shown, open)
      /\ focus.mru \in Seq(Windows) /\ IsInjective(focus.mru)
      /\ InfoOK(window_info, open)
  BY StartOfStep
<1>2. parent = Unset
  BY DEF NewParents, PlainTrees
<1>3. /\ sessions' = sessions /\ posted' = posted
      /\ \/ window_info' = window_info
         \/ state # Unset /\ window_info' = after
            /\ focus' = FocusAfterState(focus, window_info, Rows, w, state)
  BY <1>2 DEF modify_surface
<1> SUFFICES ASSUME NEW v \in Live, GoesAway(v),
                    NEW u \in ((Range(focus.mru) \cap shown) \ {v})
                              \cap Sharing(Rows, workspaces_containing(Rows, v))
             PROVE  active' \in Sharing(Rows, workspaces_containing(Rows, v))
  BY DEF Stays
<1>4. v = Top(focus.mru, shown) /\ v \in shown /\ window_info[v].state \notin HiddenStates
  <2>1. v = Top(focus.mru, shown)
    BY DEF GoesAway, active, shown
  <2>2. v \in shown
    BY <1>1, <2>1, NewestProperties DEF Top
  <2> QED BY <2>1, <2>2 DEF shown, VisibleSurfaces
<1>5. window_info' = after /\ focus' = FocusAfterState(focus, window_info, Rows, w, state)
  BY <1>3, <1>4 DEF GoesAway, Live
<1>6. /\ DOMAIN after = Live
      /\ \A x \in Live : /\ after[x].type = window_info[x].type
                         /\ after[x].parent = window_info[x].parent
                         /\ after[x].state = IF x = w THEN state ELSE window_info[x].state
  BY <1>1 DEF InfoOK, WindowInfos, Live
<1>7. v = w /\ state \in HiddenStates /\ window_info[w].state # state
  BY <1>4, <1>5, <1>6 DEF GoesAway, Live
<1>8. /\ IsFiniteSet(DOMAIN after) /\ InfoOK(after, open) /\ ChildrenOK(after)
      /\ Acyclic(after)
  BY <1>3, <1>5, EndOfOperation
<1>9. focus' = FocusAwayFrom(focus, after, shown, Rows, w)
  BY <1>4, <1>5, <1>7 DEF FocusAfterState, shown
<1>10. shown' = shown \ {w}
  BY <1>3, <1>5, <1>6, <1>7 DEF shown, VisibleSurfaces, Live
<1> HIDE DEF after
<1>11. FocusOK(focus, after, posted, shown, open)
  <2> HIDE DEF open
  <2> QED BY <1>1, <1>6 DEF FocusOK, Live
<1> HIDE DEF open
<1> DEFINE X == Sharing(Rows, workspaces_containing(Rows, w))
<1>12. w \in X /\ ClosedUnderTrees(window_info, X) /\ u \in X /\ u # w
  BY <1>7, SharingIsClosed
<1> HIDE DEF X
<1>13. ClosedUnderTrees(after, X)
  BY <1>6, <1>12 DEF ClosedUnderTrees, Live
<1>14. ~Hopeless(focus, after, shown, X \ {w})
  <2> SUFFICES ASSUME Hopeless(focus, after, shown, X \ {w}) PROVE FALSE
    OBVIOUS
  <2>1. u \in shown \ {w} /\ u \in Range(focus.mru)
    BY <1>7
  <2>2. {u} \subseteq shown \cap (X \ {w})
    BY <1>12, <2>1
  <2>3. \A x \in {u} \cap DOMAIN after : after[x].state \notin HiddenStates
    BY <1>6, <2>1 DEF shown, VisibleSurfaces, Live
  <2>4. Range(focus.mru) \cap {u} = {}
    BY <1>8, <1>11, <2>2, <2>3, NoHopeless
  <2> QED BY <2>1, <2>4
<1>15. w \in DOMAIN after /\ after[w].state \in HiddenStates /\ w = Top(focus.mru, shown)
  BY <1>4, <1>6, <1>7
<1>16. Lands(focus, after, shown, X \ {w}, focus')
  <2>1. X = Sharing(Rows, workspaces_containing(Rows, w))
    BY DEF X
  <2> QED BY <1>1, <1>8, <1>9, <1>11, <1>12, <1>13, <1>14, <1>15, <2>1, AwayStays
<1>17. PICK x \in shown \cap (X \ {w}) : focus'.mru = Push(focus.mru, x)
  BY <1>16 DEF Lands, Goes, Pushes
<1>18. active' = x
  BY <1>1, <1>10, <1>17, LandedIsActive
<1> QED BY <1>7, <1>17, <1>18 DEF X

LEMMA RemoveWindowStays ==
    ASSUME Inv, Inv', Acyclic(window_info), Acyclic(window_info'), TreesTogether,
           NEW w \in Live, NEW first \in FirstSessions, remove_window(w, first)
    PROVE  Stays
<1> DEFINE info    == erase(window_info, w)
           wss     == workspaces_containing(Rows, w)
           rows    == {row \in Rows : row[2] # w}
           visible == VisibleSurfaces(info)
           removed == Removed(w)
           parent  == window_info[w].parent
           new     == refocus(removed, app_info', info, visible, rows, window_info[w].app,
                              parent, wss, first)
<1>1. /\ shown \subseteq posted /\ shown \subseteq Windows /\ shown \subseteq Live
      /\ w \in Windows /\ Live \subseteq Windows /\ NoWindow \notin Windows
      /\ InfoOK(window_info, Range(sessions)) /\ ChildrenOK(window_info)
      /\ Range(sessions) \subseteq Apps
      /\ focus.mru \in Seq(Windows) /\ IsInjective(focus.mru)
  BY StartOfStep
<1>2. /\ window_info' = info /\ posted' = posted \ {w} /\ sessions' = sessions
      /\ focus' = IF active = w THEN new ELSE removed
  BY Zenon DEF remove_window, Removed
<1>3. /\ DOMAIN info = Live \ {w}
      /\ \A x \in Live \ {w} : /\ info[x].state = window_info[x].state
                               /\ info[x].parent \in {window_info[x].parent, NoWindow}
  <2>1. \A x \in Live : window_info[x] \in WindowInfos
    BY <1>1 DEF InfoOK, Live
  <2> QED BY <2>1 DEF erase, WindowInfos, Live
<1>4. /\ FocusOK(removed, info, posted \ {w}, visible, Range(sessions))
      /\ removed.mru = Erase(focus.mru, w)
  BY WindowRemoved
<1>5. /\ IsFiniteSet(DOMAIN info) /\ InfoOK(info, Range(sessions)) /\ ChildrenOK(info)
      /\ Acyclic(info)
  BY <1>2, EndOfOperation
<1>6. parent \in DOMAIN info \cup {NoWindow}
  <2>1. parent \in Live \cup {NoWindow}
    BY WindowTables
  <2>2. parent # w
    BY DEF Acyclic, Ranks, Live
  <2> QED BY <1>3, <2>1, <2>2
<1> HIDE DEF info
<1>7. visible = shown \ {w} /\ shown' = visible /\ visible \subseteq posted \ {w}
  BY <1>2, <1>3 DEF shown, VisibleSurfaces, Live
<1>8. \A x \in visible : info[x].state \notin HiddenStates
  BY DEF VisibleSurfaces
<1> HIDE DEF removed, visible, new, parent
<1> SUFFICES ASSUME NEW v \in Live, GoesAway(v),
                    NEW u \in ((Range(focus.mru) \cap shown) \ {v})
                              \cap Sharing(Rows, workspaces_containing(Rows, v))
             PROVE  active' \in Sharing(Rows, workspaces_containing(Rows, v))
  BY DEF Stays
<1>9. v = w /\ active = w
  <2>1. v = Top(focus.mru, shown) /\ v = active
    BY DEF GoesAway, active, shown
  <2>2. v \in shown
    <3>1. Newest(focus.mru, shown) \in (Range(focus.mru) \cap shown) \cup {NoWindow}
      BY <1>1, NewestProperties
    <3>2. v # NoWindow
      BY <1>1
    <3> QED BY <2>1, <3>1, <3>2 DEF Top
  <2>3. v # w => v \in DOMAIN info /\ v \in visible
    BY <1>3, <1>7, <2>2
  <2>4. v = w
    BY <1>2, <1>8, <2>3 DEF GoesAway, Live
  <2> QED BY <2>1, <2>4
<1>10. focus' = new
  BY <1>2, <1>9
<1> DEFINE X == Sharing(Rows, wss)
           Y == Sharing(rows, wss)
<1>11. w \in X /\ ClosedUnderTrees(window_info, X) /\ u \in X
  BY <1>9, SharingIsClosed
<1>12. Y = X \ {w}
  BY DEF Sharing
<1> HIDE DEF X, Y, wss, rows
<1>13. ClosedUnderTrees(info, Y)
  BY <1>1, <1>3, <1>11, <1>12 DEF ClosedUnderTrees, Live
<1>14. parent \in Y \cup {NoWindow}
  BY <1>3, <1>6, <1>11, <1>12 DEF ClosedUnderTrees, parent, Live
<1>15. removed.mru \in Seq(Windows) /\ IsInjective(removed.mru)
       /\ Range(removed.mru) = Range(focus.mru) \ {w}
  BY <1>1, <1>4, EraseProperties
<1>16. ~Hopeless(removed, info, visible, Y)
  <2> SUFFICES ASSUME Hopeless(removed, info, visible, Y) PROVE FALSE
    OBVIOUS
  <2>1. {u} \subseteq visible \cap Y /\ u \in Range(removed.mru)
    BY <1>7, <1>9, <1>11, <1>12, <1>15
  <2>2. \A x \in {u} \cap DOMAIN info : info[x].state \notin HiddenStates
    BY <1>8, <2>1
  <2>3. Range(removed.mru) \cap {u} = {}
    BY <1>4, <1>5, <2>1, <2>2, NoHopeless
  <2> QED BY <2>1, <2>3
<1>17. Lands(removed, info, visible, Y, new)
  BY <1>1, <1>4, <1>5, <1>6, <1>7, <1>13, <1>14, <1>16, RefocusStays DEF new, Y
<1>18. PICK x \in visible \cap Y : focus'.mru = Push(removed.mru, x)
  BY <1>10, <1>17 DEF Lands, Goes, Pushes
<1>19. active' = x
  BY <1>1, <1>7, <1>15, <1>18, LandedIsActive
<1> QED BY <1>9, <1>12, <1>18, <1>19 DEF X, wss

LEMMA NextStays ==
    ASSUME Inv, Inv', Acyclic(window_info), Acyclic(window_info'), TreesTogether, PlainTrees,
           [Next]_vars
    PROVE  Stays
\* An operation that opens a window at most.
<1>1. ASSUME Live \subseteq Live', \A x \in Live : window_info'[x].state = window_info[x].state
      PROVE  Stays
  BY <1>1, NobodyGoes DEF Stays
<1>2. CASE \E a \in Apps, w \in Windows, type \in Types, state \in States,
             parent \in Live \cup {NoWindow} : add_surface(a, w, type, state, parent)
  <2>1. PICK w \in Windows : /\ w \notin Live
                             /\ \E added : window_info' = WithWindow(window_info, w, added)
    BY <1>2 DEF add_surface
  <2>2. \A x \in Live : window_info[x] \in WindowInfos
    BY WindowTables DEF InfoOK, Live
  <2>3. PICK added : window_info' = WithWindow(window_info, w, added)
    BY <2>1
  <2>4. /\ Live \subseteq DOMAIN window_info'
        /\ \A x \in Live : \/ window_info'[x] = window_info[x]
                           \/ window_info'[x] = [window_info[x] EXCEPT !.children = Append(@, w)]
    BY <2>1, <2>3 DEF WithWindow, Live
  <2>5. \A x \in Live : window_info'[x].state = window_info[x].state
    BY <2>2, <2>4 DEF WindowInfos
  <2> QED BY <1>1, <2>4, <2>5 DEF Live
<1>3. CASE \E w \in Live, type \in TypeRequests \cup {Unset}, state \in States \cup {Unset} :
             \E parent \in NewParents(w) : modify_surface(w, type, state, parent)
  BY <1>3, ModifySurfaceStays
<1>4. CASE \E w \in Live, first \in FirstSessions :
             remove_surface(w, first) \/ force_close(w, first)
  BY <1>4, RemoveWindowStays, Zenon DEF remove_surface, force_close
<1>5. CASE window_info' = window_info
  BY <1>1, <1>5 DEF Live
<1> QED BY <1>2, <1>3, <1>4, <1>5
        DEF Next, vars, add_session, remove_session, frame_posted, handle_window_ready,
            select_window, next_application, focus_next_within_application,
            focus_prev_within_application, within_application, create_workspace,
            add_tree_to_workspace, remove_tree_from_workspace,
            move_workspace_content_to_workspace, ChangeRows, release_workspace, destroy_workspace

\* As long as clients give no window a new parent, the focus stays among the
\* workspaces of the active window that is closed, hidden or minimized, if any
\* visible window of the MRU list is in one of them: refocus() and set_state()
\* try those before others, the parent is in the same workspaces, and so is
\* any dialog or parent a selection is redirected to.
THEOREM FocusStaysAtHome ==
    ASSUME PlainTrees
    PROVE  Spec => FocusStaysInWorkspace
<1>1. ASSUME Inv, Inv', TreesInv, TreesInv', TreesTogether, [Next]_vars PROVE Stays
  <2>1. Acyclic(window_info) /\ Acyclic(window_info')
    BY <1>1 DEF TreesInv, PlainTrees
  <2> QED BY <1>1, <2>1, NextStays
<1>2. Stays <=>
        \A w \in Live :
            LET wss == workspaces_containing(Rows, w) IN
            GoesAway(w) /\ ((Range(focus.mru) \cap VisibleSurfaces(window_info)) \ {w})
                                \cap Sharing(Rows, wss) # {}
            => active' \in Sharing(Rows, wss)
  BY DEF Stays, shown
<1>3. Spec => []TreesTogether
  BY WorkspacesHoldTrees
<1> HIDE DEF Stays
<1> QED BY <1>1, <1>2, <1>3, Invariance, TreesAreAcyclic, PTL
        DEF Spec, FocusStaysInWorkspace
=============================================================================
