---------------------- MODULE TilingWindowManager_proofs ----------------------
(***************************************************************************)
(* The displays and the tiles of the tiling policy, for any applications,  *)
(* windows and configurations.                                             *)
(***************************************************************************)
EXTENDS TilingWindowManager, WindowGeometry_proofs

\* How often a rectangle is in a collection, and how many of the outputs at the
\* positions in S have it as their area.
Times(rs, r) == Cardinality({i \in DOMAIN rs : rs[i] = r})

With(outs, S, r) == Cardinality({i \in S : outs[i].area = r})

One(x, r) == IF x = r THEN 1 ELSE 0

LEMMA TimesType ==
    ASSUME NEW T, NEW rs \in Seq(T), NEW r
    PROVE  IsFiniteSet({i \in DOMAIN rs : rs[i] = r}) /\ Times(rs, r) \in Nat
<1> DEFINE at == {i \in DOMAIN rs : rs[i] = r}
           n == Len(rs)
<1>1. at \in SUBSET (1..n) /\ n \in Nat
  OBVIOUS
<1>2. IsFiniteSet(1..n)
  BY <1>1, FS_Interval
<1> HIDE DEF at, n
<1>3. IsFiniteSet(at) /\ Cardinality(at) \in Nat
  BY <1>1, <1>2, FS_Subset, FS_CardinalityType
<1> QED BY <1>3 DEF at, Times

LEMMA AppendTimes ==
    ASSUME NEW T, NEW rs \in Seq(T), NEW x \in T, NEW r
    PROVE  Times(Append(rs, x), r) = Times(rs, r) + One(x, r)
<1> DEFINE new == Append(rs, x)
           n == Len(rs)
           at == {i \in DOMAIN rs : rs[i] = r}
           now == {i \in DOMAIN new : new[i] = r}
<1>1. /\ n \in Nat /\ DOMAIN rs = 1..n
      /\ DOMAIN new = 1..(n + 1) /\ new[n + 1] = x
      /\ \A i \in 1..n : new[i] = rs[i]
  BY AppendProperties
<1> HIDE DEF new, n
<1>2. CASE x = r
  <2>1. now = at \cup {n + 1} /\ n + 1 \notin at
    BY <1>1, <1>2
  <2> HIDE DEF at, now
  <2>2. IsFiniteSet(at) /\ Cardinality(at) \in Nat
    BY TimesType DEF at, Times
  <2>3. Cardinality(now) = Cardinality(at) + 1
    BY <2>1, <2>2, FS_AddElement
  <2> QED BY <1>2, <2>3 DEF at, now, new, Times, One
<1>3. CASE x # r
  <2>1. now = at
    BY <1>1, <1>3
  <2>2. Cardinality(at) \in Nat
    BY TimesType DEF Times
  <2>3. Times(new, r) = Cardinality(now) /\ Times(rs, r) = Cardinality(at)
    BY DEF Times
  <2> HIDE DEF at, now
  <2> QED BY <1>3, <2>1, <2>2, <2>3 DEF new, One
<1> QED BY <1>2, <1>3

\* remove() takes one away if there is one.
LEMMA RemoveTimes ==
    ASSUME NEW T, NEW rs \in Seq(T), NEW x, NEW r
    PROVE  /\ RemoveRect(rs, x) \in Seq(T)
           /\ Times(rs, x) # 0 => Times(RemoveRect(rs, x), r) = Times(rs, r) - One(x, r)
<1> DEFINE at == {i \in DOMAIN rs : rs[i] = x}
           n == Len(rs)
           first == LeastOf(at)
           new == SubSeq(rs, 1, first - 1) \o SubSeq(rs, first + 1, n)
<1>1. n \in Nat /\ DOMAIN rs = 1..n /\ (\A i \in 1..n : rs[i] \in T) /\ at \subseteq 1..n
  OBVIOUS
<1>2. CASE at = {}
  <2>1. RemoveRect(rs, x) = rs
    BY <1>2 DEF RemoveRect
  <2>2. Times(rs, x) = 0
    BY <1>2, FS_EmptySet DEF Times
  <2> QED BY <2>1, <2>2
<1>3. CASE at # {}
  <2>1. first \in at /\ first \in 1..n
    <3> HIDE DEF at, n
    <3> QED BY <1>1, <1>3, LeastPosition
  <2>2. RemoveRect(rs, x) = new
    BY <1>3 DEF RemoveRect
  <2> HIDE DEF first
  <2>3. rs[first] = x
    BY <2>1
  <2> HIDE DEF at, n
  <2> DEFINE a == SubSeq(rs, 1, first - 1)
             b == SubSeq(rs, first + 1, n)
  <2>4. /\ a \in Seq(T) /\ Len(a) = first - 1 /\ \A i \in 1..(first - 1) : a[i] = rs[i]
        /\ b \in Seq(T) /\ Len(b) = n - first
        /\ \A i \in 1..(n - first) : b[i] = rs[i + first]
    <3>1. 1 \in 1..(n + 1) /\ first - 1 \in 0..n /\ first + 1 \in 1..(n + 1) /\ n \in first..n
      BY <1>1, <2>1
    <3> HIDE DEF a, b
    <3>2. /\ a \in Seq(T) /\ Len(a) = first - 1
          /\ \A i \in 1..(first - 1) : a[i] = rs[1 + i - 1]
      BY <1>1, <2>1, <3>1, SubSeqProperties DEF a, n
    <3>3. /\ b \in Seq(T) /\ Len(b) = n - (first + 1) + 1
          /\ \A i \in 1..(n - (first + 1) + 1) : b[i] = rs[first + 1 + i - 1]
      <4>1. \A i \in (first + 1)..n : rs[i] \in T
        BY <1>1, <2>1
      <4>2. first + 1 \in Int /\ n \in Int
        BY <1>1, <2>1
      <4>3. /\ b \in Seq(T) /\ Len(b) = IF first + 1 <= n THEN n - (first + 1) + 1 ELSE 0
            /\ \A i \in 1..(n - (first + 1) + 1) : b[i] = rs[first + 1 + i - 1]
        BY <4>1, <4>2, SubSeqProperties DEF b
      <4> QED BY <1>1, <2>1, <4>3
    <3> QED BY <1>1, <2>1, <3>2, <3>3
  <2> HIDE DEF a, b
  <2>5. /\ new \in Seq(T) /\ Len(new) = n - 1
        /\ \A i \in 1..(n - 1) : new[i] = IF i < first THEN rs[i] ELSE rs[i + 1]
    <3>1. new = a \o b
      BY DEF a, b
    <3>2. new \in Seq(T) /\ Len(new) = n - 1
      BY <1>1, <2>1, <2>4, <3>1
    <3>3. \A i \in 1..(n - 1) : new[i] = IF i <= Len(a) THEN a[i] ELSE b[i - Len(a)]
      <4>1. /\ Len(new) = Len(a) + Len(b)
            /\ \A i \in 1..(Len(a) + Len(b)) :
                    new[i] = IF i <= Len(a) THEN a[i] ELSE b[i - Len(a)]
        <5> HIDE DEF new
        <5> QED BY <2>4, <3>1, ConcatProperties
      <4> HIDE DEF new
      <4> QED BY <3>2, <4>1
    <3> HIDE DEF new
    <3>4. ASSUME NEW i \in 1..(n - 1) PROVE new[i] = IF i < first THEN rs[i] ELSE rs[i + 1]
      <4>1. CASE i < first
        <5>1. i \in 1..(first - 1) /\ i <= Len(a)
          BY <1>1, <2>1, <2>4, <4>1
        <5> QED BY <2>4, <3>3, <4>1, <5>1
      <4>2. CASE ~(i < first)
        <5>1. /\ i - (first - 1) \in 1..(n - first) /\ ~(i <= Len(a))
              /\ i - (first - 1) + first = i + 1
          BY <1>1, <2>1, <2>4, <4>2
        <5> QED BY <2>4, <3>3, <4>2, <5>1
      <4> QED BY <4>1, <4>2
    <3> QED BY <3>2, <3>4
  <2> HIDE DEF new
  <2> DEFINE was == {i \in DOMAIN rs : rs[i] = r}
             now == {i \in DOMAIN new : new[i] = r}
             h == [i \in now |-> IF i < first THEN i ELSE i + 1]
  <2>6. DOMAIN new = 1..(n - 1)
    BY <2>5
  <2>7. h \in Bijection(now, was \ {first})
    <3>1. \A i \in now : h[i] \in was \ {first}
      BY <1>1, <2>1, <2>5, <2>6
    <3>2. \A i, j \in now : h[i] = h[j] => i = j
      BY <1>1, <2>1, <2>6
    <3>3. ASSUME NEW y \in was \ {first} PROVE \E i \in now : h[i] = y
      <4>1. CASE y < first
        <5>1. y \in 1..(n - 1) /\ new[y] = rs[y]
          BY <1>1, <2>1, <2>5, <4>1
        <5> QED BY <2>6, <4>1, <5>1
      <4>2. CASE ~(y < first)
        <5>1. y - 1 \in 1..(n - 1) /\ ~(y - 1 < first) /\ y - 1 + 1 = y
          BY <1>1, <2>1, <4>2
        <5>2. new[y - 1] = rs[y]
          BY <2>5, <5>1
        <5> QED BY <2>6, <5>1, <5>2
      <4> QED BY <4>1, <4>2
    <3>4. h \in [now -> was \ {first}]
      BY <3>1
    <3> HIDE DEF h, now, was
    <3> QED BY <3>2, <3>3, <3>4 DEF Bijection, Injection, Surjection, IsInjective
  <2>8. IsFiniteSet(now) /\ IsFiniteSet(was) /\ Cardinality(was) \in Nat
    BY <2>5, TimesType DEF Times
  <2>9. first \in was <=> x = r
    BY <1>1, <2>1, <2>3
  <2> HIDE DEF h, now, was
  <2>10. Cardinality(now) = Cardinality(was \ {first})
    <3>1. ExistsBijection(now, was \ {first})
      BY <2>7 DEF ExistsBijection
    <3> QED BY <2>8, <3>1, FS_Bijection
  <2>11. Cardinality(was \ {first}) = IF first \in was THEN Cardinality(was) - 1 ELSE Cardinality(was)
    BY <2>8, FS_RemoveElement
  <2>12. Times(new, r) = Times(rs, r) - One(x, r)
    BY <2>8, <2>9, <2>10, <2>11 DEF Times, now, was, One
  <2> QED BY <2>2, <2>5, <2>12
<1> QED BY <1>2, <1>3

LEMMA WithType ==
    ASSUME NEW outs, NEW S, IsFiniteSet(S), NEW r
    PROVE  IsFiniteSet({i \in S : outs[i].area = r}) /\ With(outs, S, r) \in Nat
<1> DEFINE at == {i \in S : outs[i].area = r}
<1>1. at \in SUBSET S
  OBVIOUS
<1> HIDE DEF at
<1>2. IsFiniteSet(at) /\ Cardinality(at) \in Nat
  BY <1>1, FS_Subset, FS_CardinalityType
<1> QED BY <1>2 DEF at, With

\* With one more position there is one more of its area.
LEMMA WithAnother ==
    ASSUME NEW outs, NEW S, IsFiniteSet(S), NEW i, i \notin S, NEW r
    PROVE  With(outs, S \cup {i}, r) = With(outs, S, r) + One(outs[i].area, r)
<1> DEFINE at == {j \in S : outs[j].area = r}
           now == {j \in S \cup {i} : outs[j].area = r}
<1>1. IsFiniteSet(at) /\ Cardinality(at) \in Nat
  <2>1. IsFiniteSet(at)
    <3>1. at \in SUBSET S
      OBVIOUS
    <3> HIDE DEF at
    <3> QED BY <3>1, FS_Subset
  <2>2. With(outs, S, r) \in Nat
    BY WithType, Zenon
  <2>3. With(outs, S, r) = Cardinality(at)
    BY DEF With
  <2> HIDE DEF at
  <2> QED BY <2>1, <2>2, <2>3
<1>2. CASE outs[i].area = r
  <2>1. now = at \cup {i} /\ i \notin at
    BY <1>2
  <2> HIDE DEF at, now
  <2>2. Cardinality(now) = Cardinality(at) + 1
    BY <1>1, <2>1, FS_AddElement
  <2> QED BY <1>2, <2>2 DEF at, now, With, One
<1>3. CASE outs[i].area # r
  <2>1. now = at
    BY <1>3
  <2>2. With(outs, S \cup {i}, r) = Cardinality(now) /\ With(outs, S, r) = Cardinality(at)
    BY DEF With
  <2> HIDE DEF at, now
  <2> QED BY <1>1, <1>3, <2>1, <2>2 DEF One
<1> QED BY <1>2, <1>3

\* The connected outputs of a configuration.
LEMMA ConnectedProperties ==
    ASSUME NEW outs \in Seq(Outputs)
    PROVE  LET C == {i \in DOMAIN outs : outs[i].connected}
               kept == Connected(outs)
           IN  /\ kept \in Seq(Outputs) /\ C \subseteq 1..Len(outs)
               /\ \A j \in DOMAIN kept : \E i \in C : kept[j] = outs[i]
               /\ \A i \in C : \E j \in DOMAIN kept : kept[j] = outs[i]
               /\ (\A i, j \in DOMAIN outs : outs[i].id = outs[j].id => i = j)
                    => \A i, j \in DOMAIN kept : kept[i].id = kept[j].id => i = j
               /\ \A r : With(kept, DOMAIN kept, r) = With(outs, C, r)
<1> DEFINE C == {i \in DOMAIN outs : outs[i].connected}
           kept == Connected(outs)
           n == Len(outs)
<1>1. C \subseteq 1..n /\ n \in Nat /\ DOMAIN outs = 1..n
  OBVIOUS
<1>2. kept = Remaining(outs, C)
  BY DEF Connected
<1> HIDE DEF kept, C
<1>3. kept \in Seq(Outputs)
  BY <1>1, <1>2, RemainingProperties
<1>4. PICK h : Picks(h, kept, outs, C)
  BY <1>1, <1>2, RemainingProperties
<1>5. DOMAIN kept = 1..Len(kept) /\ Len(kept) \in Nat
  BY <1>3
<1>6. /\ \A j \in DOMAIN kept : h[j] \in C /\ kept[j] = outs[h[j]]
      /\ \A i, j \in DOMAIN kept : h[i] = h[j] => i = j
      /\ \A i \in C : \E j \in DOMAIN kept : h[j] = i
  BY <1>4, <1>5 DEF Picks
<1>7. ASSUME NEW r PROVE With(kept, DOMAIN kept, r) = With(outs, C, r)
  <2> DEFINE now == {j \in DOMAIN kept : kept[j].area = r}
             was == {i \in C : outs[i].area = r}
             g == [j \in now |-> h[j]]
  <2>1. g \in Bijection(now, was)
    <3>1. \A j \in now : g[j] \in was
      BY <1>6
    <3>2. \A i, j \in now : g[i] = g[j] => i = j
      BY <1>6
    <3>3. \A i \in was : \E j \in now : g[j] = i
      BY <1>6
    <3>4. g \in [now -> was]
      BY <3>1
    <3> HIDE DEF g, now, was
    <3> QED BY <3>2, <3>3, <3>4 DEF Bijection, Injection, Surjection, IsInjective
  <2>2. IsFiniteSet(now)
    <3>1. IsFiniteSet(1..Len(kept))
      BY <1>5, FS_Interval
    <3>2. now \in SUBSET (1..Len(kept))
      BY <1>5
    <3> HIDE DEF now
    <3> QED BY <3>1, <3>2, FS_Subset
  <2> HIDE DEF now, was, g
  <2>3. ExistsBijection(now, was)
    BY <2>1 DEF ExistsBijection
  <2>4. Cardinality(was) = Cardinality(now)
    BY <2>2, <2>3, FS_Bijection
  <2> QED BY <2>4 DEF now, was, With
<1>8. ASSUME \A i, j \in DOMAIN outs : outs[i].id = outs[j].id => i = j,
             NEW i \in DOMAIN kept, NEW j \in DOMAIN kept, kept[i].id = kept[j].id
      PROVE  i = j
  <2>1. h[i] \in DOMAIN outs /\ h[j] \in DOMAIN outs /\ outs[h[i]].id = outs[h[j]].id
    BY <1>1, <1>6, <1>8
  <2>2. h[i] = h[j]
    BY <1>8, <2>1
  <2> QED BY <1>6, <2>2
<1>9. \A j \in DOMAIN kept : \E i \in C : kept[j] = outs[i]
  BY <1>6
<1>10. \A i \in C : \E j \in DOMAIN kept : kept[j] = outs[i]
  BY <1>6
<1> QED BY <1>1, <1>3, <1>7, <1>8, <1>9, <1>10 DEF C, kept

\* The same areas as often are the same extents.
LEMMA SameExtents ==
    ASSUME NEW a \in Seq(Rects), NEW b \in Seq(Outputs),
           \A r : Times(a, r) = With(b, DOMAIN b, r)
    PROVE  ExtentsOf([i \in DOMAIN a |-> [area |-> a[i]]]) = ExtentsOf(b)
<1> DEFINE c == [i \in DOMAIN a |-> [area |-> a[i]]]
           Row(r) == [area |-> r, times |-> Times(a, r)]
<1>1. /\ DOMAIN a = 1..Len(a) /\ Len(a) \in Nat /\ DOMAIN c = DOMAIN a
      /\ DOMAIN b = 1..Len(b) /\ Len(b) \in Nat
      /\ \A i \in DOMAIN a : c[i].area = a[i]
  OBVIOUS
<1>2. \A r : Cardinality({j \in DOMAIN c : c[j].area = r}) = Times(a, r)
  <2> SUFFICES ASSUME NEW r PROVE Cardinality({j \in DOMAIN c : c[j].area = r}) = Times(a, r)
    OBVIOUS
  <2>1. {j \in DOMAIN c : c[j].area = r} = {j \in DOMAIN a : a[j] = r}
    BY <1>1
  <2> QED BY <2>1 DEF Times
<1> HIDE DEF c
<1>3. ExtentsOf(c) = {Row(a[i]) : i \in DOMAIN a}
  <2> DEFINE Entry(i) == [area |-> c[i].area,
                          times |-> Cardinality({j \in DOMAIN c : c[j].area = c[i].area})]
  <2>1. ExtentsOf(c) = {Entry(i) : i \in DOMAIN c}
    BY DEF ExtentsOf
  <2>2. \A i \in DOMAIN a : Entry(i) = Row(a[i])
    BY <1>1, <1>2
  <2> HIDE DEF Entry, Row
  <2> QED BY <1>1, <2>1, <2>2
<1>4. ExtentsOf(b) = {Row(b[i].area) : i \in DOMAIN b}
  BY DEF ExtentsOf, With
<1> IsFiniteSet(DOMAIN b)
  <2>1. IsFiniteSet(1..Len(b))
    BY <1>1, FS_Interval
  <2> QED BY <1>1, <2>1
<1>5. ASSUME NEW i \in DOMAIN a PROVE \E j \in DOMAIN b : b[j].area = a[i]
  <2> DEFINE r == a[i]
             at == {j \in DOMAIN a : a[j] = r}
             bt == {j \in DOMAIN b : b[j].area = r}
  <2>1. at # {} /\ IsFiniteSet(at)
    BY <1>5, TimesType
  <2>2. Cardinality(at) = Cardinality(bt)
    BY DEF Times, With
  <2>3. IsFiniteSet(bt)
    BY WithType
  <2>4. bt # {}
    <3> HIDE DEF at, bt
    <3> QED BY <2>1, <2>2, <2>3, FS_EmptySet
  <2> QED BY <2>4
<1>6. ASSUME NEW j \in DOMAIN b PROVE \E i \in DOMAIN a : b[j].area = a[i]
  <2> DEFINE r == b[j].area
             at == {i \in DOMAIN a : a[i] = r}
             bt == {i \in DOMAIN b : b[i].area = r}
  <2>1. bt # {}
    BY <1>6
  <2>2. Cardinality(at) = Cardinality(bt)
    BY DEF Times, With
  <2>3. IsFiniteSet(bt) /\ IsFiniteSet(at)
    BY WithType, TimesType
  <2>4. at # {}
    <3> HIDE DEF at, bt
    <3> QED BY <2>1, <2>2, <2>3, FS_EmptySet
  <2> QED BY <2>4
<1>7. \A row : row \in ExtentsOf(c) <=> row \in ExtentsOf(b)
  <2> HIDE DEF Row
  <2> QED BY <1>3, <1>4, <1>5, <1>6
<1>8. ExtentsOf(c) = ExtentsOf(b)
  BY <1>7 DEF ExtentsOf
<1> QED BY <1>8 DEF c


-----------------------------------------------------------------------------
(* The displays.  What the policy has been told of so far is in            *)
(* live_displays: the areas of the connected outputs of the new            *)
(* configuration that have been told, and those of the old one that have   *)
(* neither been replaced nor deleted.                                      *)

ToldNew == {i \in DOMAIN config : i < step /\ config[i].connected}

StillOld == {j \in DOMAIN applied :
                /\ j + Len(config) >= step
                /\ \A i \in ToldNew : config[i].id # applied[j].id}

MonitorOK ==
    /\ config \in Configs
    /\ applied \in Seq(Outputs)
    /\ \A j \in DOMAIN applied :
            applied[j].connected /\ \E c \in Configs : \E i \in DOMAIN c : applied[j] = c[i]
    /\ \A i, j \in DOMAIN applied : applied[i].id = applied[j].id => i = j
    /\ step \in 0..(Len(config) + Len(applied) + 1)

DisplaysOK ==
    /\ displays \in Seq(Rects)
    /\ live_displays \in Seq(Rects)
    /\ \A r : Times(live_displays, r) = With(config, ToldNew, r) + With(applied, StillOld, r)
    /\ \A r : Times(displays, r) = With(applied, DOMAIN applied, r)
    /\ ~dirty_displays => displays = live_displays

display_vars == <<applied, config, step, displays, live_displays, dirty_displays>>

\* Two outputs that cannot be seen count as equivalent whatever their areas
\* (equivalent_display_area()): the displays are right where an output stays
\* where it is while it is off.
OffAreasFixed ==
    \A c, d \in Configs : \A i \in DOMAIN c, j \in DOMAIN d :
        /\ c[i].id = d[j].id
        /\ c[i].connected /\ d[j].connected /\ ~c[i].on /\ ~d[j].on
        => c[i].area = d[j].area

LEMMA ConfigsType ==
    ASSUME MonitorOK
    PROVE  /\ config \in Seq(Outputs) /\ Len(config) \in Nat /\ DOMAIN config = 1..Len(config)
           /\ applied \in Seq(Outputs) /\ Len(applied) \in Nat /\ DOMAIN applied = 1..Len(applied)
           /\ \A i, j \in DOMAIN config : config[i].id = config[j].id => i = j
           /\ step \in Nat
           /\ IsFiniteSet(ToldNew) /\ IsFiniteSet(StillOld)
<1>1. /\ config \in Seq(Outputs) /\ applied \in Seq(Outputs)
      /\ \A i, j \in DOMAIN config : config[i].id = config[j].id => i = j
  BY ConfigsAssumption DEF MonitorOK
<1>2. /\ Len(config) \in Nat /\ DOMAIN config = 1..Len(config)
      /\ Len(applied) \in Nat /\ DOMAIN applied = 1..Len(applied)
  BY <1>1
<1>3. step \in Nat
  BY <1>2 DEF MonitorOK
<1>4. IsFiniteSet(1..Len(config)) /\ IsFiniteSet(1..Len(applied))
  BY <1>2, FS_Interval
<1>5. ToldNew \in SUBSET (1..Len(config)) /\ StillOld \in SUBSET (1..Len(applied))
  BY <1>2 DEF ToldNew, StillOld
<1>6. IsFiniteSet(ToldNew) /\ IsFiniteSet(StillOld)
  BY <1>4, <1>5, FS_Subset
<1> QED BY <1>1, <1>2, <1>3, <1>6

\* When nothing is being told, live_displays are the applied outputs'.
LEMMA NothingTold ==
    ASSUME MonitorOK, step <= 1
    PROVE  ToldNew = {} /\ StillOld = DOMAIN applied
<1>1. ToldNew = {}
  BY ConfigsType DEF ToldNew
<1>2. \A j \in DOMAIN applied : j + Len(config) >= step
  BY ConfigsType
<1> QED BY <1>1, <1>2 DEF StillOld


\* Where there is one more to count, there is one.
LEMMA WithMember ==
    ASSUME NEW outs, NEW S, IsFiniteSet(S), NEW i, i \in S
    PROVE  With(outs, S, outs[i].area) # 0
<1> DEFINE r == outs[i].area
           at == {j \in S : outs[j].area = r}
<1>1. at \in SUBSET S /\ i \in at
  OBVIOUS
<1>2. With(outs, S, r) = Cardinality(at)
  BY DEF With
<1> HIDE DEF at, r
<1>3. IsFiniteSet(at)
  BY <1>1, FS_Subset
<1>4. at # {}
  BY <1>1
<1>5. Cardinality(at) # 0
  BY <1>3, <1>4, FS_EmptySet
<1> QED BY <1>2, <1>5 DEF r

LEMMA NewTold ==
    ASSUME OffAreasFixed, MonitorOK, DisplaysOK, OutputAdvised, step <= Len(config)
    PROVE  /\ live_displays' \in Seq(Rects)
           /\ \A r : Times(live_displays, r)' = With(config, ToldNew, r)' + With(applied, StillOld, r)'
<1> DEFINE o == config[step]
           n == Len(config)
           P == ToldNew
           Q == StillOld
<1>1. /\ step \in 1..n /\ step' = step + 1 /\ applied' = applied /\ config' = config
      /\ live_displays' = Heard(live_displays, ToldOfNew(o))
  BY DEF OutputAdvised, NextOutput, Telling, Told
<1>2. /\ DOMAIN config = 1..n /\ n \in Nat /\ DOMAIN applied = 1..Len(applied) /\ Len(applied) \in Nat
      /\ IsFiniteSet(P) /\ IsFiniteSet(Q)
      /\ \A i, j \in DOMAIN config : config[i].id = config[j].id => i = j
      /\ \A i, j \in DOMAIN applied : applied[i].id = applied[j].id => i = j
      /\ live_displays \in Seq(Rects)
      /\ \A r : Times(live_displays, r) = With(config, P, r) + With(applied, Q, r)
  BY ConfigsType DEF MonitorOK, DisplaysOK
<1>3. o \in Outputs /\ o.area \in Rects
  <2>1. o \in Outputs
    BY <1>1, <1>2, ConfigsType
  <2> QED BY <2>1 DEF Outputs
<1>4. \A r : /\ With(config, ToldNew, r)' = With(config, ToldNew', r)
             /\ With(applied, StillOld, r)' = With(applied, StillOld', r)
             /\ Times(live_displays, r)' = Times(live_displays', r)
  BY <1>1 DEF With, Times
<1>5. /\ StillOld' = {j \in DOMAIN applied : \A i \in ToldNew' : config[i].id # applied[j].id}
      /\ Q = {j \in DOMAIN applied : \A i \in P : config[i].id # applied[j].id}
  <2>1. \A j \in DOMAIN applied : j + n >= step /\ j + n >= step + 1
    BY <1>1, <1>2
  <2> QED BY <1>1, <2>1 DEF StillOld
<1>6. step \notin P
  BY <1>1, <1>2 DEF ToldNew
<1>7. CASE ~o.connected
  <2>1. ToldNew' = P
    <3>1. \A i \in DOMAIN config : i < step + 1 /\ config[i].connected <=> i < step /\ config[i].connected
      BY <1>1, <1>2, <1>7
    <3> QED BY <1>1, <3>1 DEF ToldNew
  <2>2. StillOld' = Q
    BY <1>5, <2>1
  <2>3. live_displays' = live_displays
    BY <1>1, <1>7 DEF ToldOfNew, Heard
  <2> HIDE DEF P, Q
  <2> QED BY <1>2, <1>4, <2>1, <2>2, <2>3
<1>8. CASE o.connected
  <2>1. ToldNew' = P \cup {step}
    <3>1. \A i \in DOMAIN config : i < step + 1 /\ config[i].connected
                <=> (i < step /\ config[i].connected) \/ i = step
      BY <1>1, <1>2, <1>8
    <3>2. step \in DOMAIN config
      BY <1>1, <1>2
    <3> QED BY <1>1, <3>1, <3>2 DEF ToldNew
  <2>2. \A r : With(config, ToldNew', r) = With(config, P, r) + One(o.area, r)
    BY <1>2, <1>6, <2>1, WithAnother
  <2>3. \A r : With(config, P, r) \in Nat /\ With(applied, Q, r) \in Nat
    BY <1>2, WithType
  <2>4. CASE Find(applied, o.id) = {}
    <3>1. \A j \in DOMAIN applied : applied[j].id # o.id
      BY <2>4 DEF Find
    <3>2. StillOld' = Q
      BY <1>5, <2>1, <3>1
    <3>3. live_displays' = Append(live_displays, o.area)
      BY <1>1, <1>8, <2>4 DEF ToldOfNew, Heard, advise_output_create
    <3>4. /\ live_displays' \in Seq(Rects)
          /\ \A r : Times(live_displays', r) = Times(live_displays, r) + One(o.area, r)
      BY <1>2, <1>3, <3>3, AppendTimes
    <3> HIDE DEF P, Q, o
    <3>5. ASSUME NEW r
          PROVE  Times(live_displays', r) = With(config, ToldNew', r) + With(applied, StillOld', r)
      <4>1. One(o.area, r) \in Nat
        BY DEF One
      <4> QED BY <1>2, <2>2, <2>3, <3>2, <3>4, <4>1
    <3> QED BY <1>4, <3>4, <3>5
  <2>5. CASE Find(applied, o.id) # {}
    <3> DEFINE was == CHOOSE x \in Find(applied, o.id) : TRUE
    <3>1. was \in Find(applied, o.id)
      BY <2>5
    <3>2. PICK k \in DOMAIN applied : was = applied[k] /\ applied[k].id = o.id
      BY <3>1 DEF Find
    <3>3. k \in Q /\ k \notin StillOld'
      <4>1. \A i \in P : config[i].id # o.id
        BY <1>1, <1>2, <1>6 DEF ToldNew
      <4> QED BY <1>5, <2>1, <3>2, <4>1
    <3>4. Q = StillOld' \cup {k}
      <4>1. \A j \in DOMAIN applied : j = k \/ applied[j].id # o.id
        BY <1>2, <3>2
      <4> QED BY <1>5, <2>1, <3>2, <3>3, <4>1
    <3>5. IsFiniteSet(StillOld')
      <4>1. StillOld' \in SUBSET Q
        BY <3>4
      <4> HIDE DEF Q
      <4> QED BY <1>2, <4>1, FS_Subset
    <3>6. \A r : /\ With(applied, Q, r) = With(applied, StillOld', r) + One(was.area, r)
                 /\ With(applied, StillOld', r) \in Nat
      <4> HIDE DEF Q, was
      <4> DEFINE now == StillOld'
      <4> HIDE DEF now
      <4>1. k \notin now /\ IsFiniteSet(now) /\ Q = now \cup {k} /\ was = applied[k]
        BY <3>2, <3>3, <3>4, <3>5 DEF now
      <4>2. \A r : With(applied, now \cup {k}, r) = With(applied, now, r) + One(applied[k].area, r)
        BY <4>1, WithAnother
      <4>3. \A r : With(applied, now, r) \in Nat
        BY <4>1, WithType
      <4> QED BY <4>1, <4>2, <4>3 DEF now
    <3>7. CASE equivalent_display_area(o, was)
      <4>1. o.area = was.area
        <5>1. CASE o.on /\ was.on
          BY <3>7, <5>1 DEF equivalent_display_area
        <5>2. CASE ~(o.on /\ was.on)
          <6>1. o.on = was.on
            BY <3>7, <5>2 DEF equivalent_display_area
          <6>2. was.connected /\ \E c \in Configs : \E i \in DOMAIN c : was = c[i]
            <7>1. applied[k].connected /\ \E c \in Configs : \E i \in DOMAIN c : applied[k] = c[i]
              BY <3>2 DEF MonitorOK
            <7> HIDE DEF was
            <7> QED BY <3>2, <7>1
          <6>3. PICK c \in Configs : \E i \in DOMAIN c : was = c[i]
            BY <6>2
          <6>4. PICK i \in DOMAIN c : was = c[i]
            BY <6>3
          <6>5. config \in Configs /\ step \in DOMAIN config
            BY <1>1, <1>2 DEF MonitorOK
          <6>6. o.id = was.id /\ ~o.on /\ ~was.on
            BY <3>2, <5>2, <6>1
          <6> HIDE DEF was
          <6> QED BY <1>8, <6>2, <6>4, <6>5, <6>6 DEF OffAreasFixed
        <5> QED BY <5>1, <5>2
      <4>2. live_displays' = live_displays
        BY <1>1, <1>8, <2>5, <3>7 DEF ToldOfNew, Heard
      <4> HIDE DEF P, Q, o, was
      <4>3. ASSUME NEW r
            PROVE  Times(live_displays', r) = With(config, ToldNew', r) + With(applied, StillOld', r)
        <5>1. One(o.area, r) \in Nat
          BY DEF One
        <5> QED BY <1>2, <2>2, <2>3, <3>6, <4>1, <4>2, <5>1
      <4> QED BY <1>2, <1>4, <4>2, <4>3
    <3>8. CASE ~equivalent_display_area(o, was)
      <4> DEFINE left == RemoveRect(live_displays, was.area)
      <4>1. live_displays' = Append(left, o.area)
        BY <1>1, <1>8, <2>5, <3>8 DEF ToldOfNew, Heard, advise_output_update
      <4>2. Times(live_displays, was.area) # 0
        <5>1. With(applied, Q, was.area) # 0
          BY <1>2, <3>2, <3>3, WithMember
        <5> HIDE DEF P, Q, o, was
        <5> QED BY <1>2, <2>3, <5>1
      <4> HIDE DEF P, Q, o, was
      <4>3. left \in Seq(Rects) /\ \A r : Times(left, r) = Times(live_displays, r) - One(was.area, r)
        BY <1>2, <4>2, RemoveTimes
      <4> HIDE DEF left
      <4>4. /\ live_displays' \in Seq(Rects)
            /\ \A r : Times(live_displays', r) = Times(left, r) + One(o.area, r)
        BY <1>3, <4>1, <4>3, AppendTimes
      <4>5. ASSUME NEW r
            PROVE  Times(live_displays', r) = With(config, ToldNew', r) + With(applied, StillOld', r)
        <5>1. One(o.area, r) \in Nat /\ One(was.area, r) \in Nat
          BY DEF One
        <5> QED BY <1>2, <2>2, <2>3, <3>6, <4>3, <4>4, <5>1
      <4> QED BY <1>4, <4>4, <4>5
    <3> QED BY <3>7, <3>8
  <2> QED BY <2>4, <2>5
<1> QED BY <1>7, <1>8


LEMMA OldTold ==
    ASSUME MonitorOK, DisplaysOK, OutputAdvised, step > Len(config)
    PROVE  /\ live_displays' \in Seq(Rects)
           /\ \A r : Times(live_displays, r)' = With(config, ToldNew, r)' + With(applied, StillOld, r)'
<1> DEFINE n == Len(config)
           k == step - n
           o == applied[k]
           P == ToldNew
           Q == StillOld
           C == {i \in DOMAIN config : config[i].connected}
<1>1. /\ step' = step + 1 /\ applied' = applied /\ config' = config
      /\ live_displays' = Heard(live_displays, ToldOfOld(o))
      /\ step \in 1..(n + Len(applied))
  <2>1. n \in Nat /\ step \in Nat
    BY ConfigsType
  <2>2. ~(step <= n)
    BY <2>1
  <2> QED BY <2>2 DEF OutputAdvised, NextOutput, Telling, Told
<1>2. /\ DOMAIN config = 1..n /\ n \in Nat /\ DOMAIN applied = 1..Len(applied) /\ Len(applied) \in Nat
      /\ IsFiniteSet(P) /\ IsFiniteSet(Q)
      /\ live_displays \in Seq(Rects)
      /\ \A r : Times(live_displays, r) = With(config, P, r) + With(applied, Q, r)
      /\ \A i, j \in DOMAIN applied : applied[i].id = applied[j].id => i = j
  BY ConfigsType DEF MonitorOK, DisplaysOK
<1>3. k \in DOMAIN applied /\ k + n = step
  BY <1>1, <1>2
<1>4. \A r : /\ With(config, ToldNew, r)' = With(config, ToldNew', r)
             /\ With(applied, StillOld, r)' = With(applied, StillOld', r)
             /\ Times(live_displays, r)' = Times(live_displays', r)
  BY <1>1 DEF With, Times
<1>5. P = C /\ ToldNew' = C
  <2>1. \A i \in DOMAIN config : i < step /\ i < step + 1
    BY <1>1, <1>2
  <2> QED BY <1>1, <2>1 DEF ToldNew
<1>6. \A r : With(config, P, r) \in Nat
  BY <1>2, WithType
<1>7. /\ Q = {j \in DOMAIN applied : j >= k /\ \A i \in C : config[i].id # applied[j].id}
      /\ StillOld' = {j \in DOMAIN applied : j >= k + 1 /\ \A i \in C : config[i].id # applied[j].id}
  <2>1. \A j \in DOMAIN applied : /\ j + n >= step <=> j >= k
                                  /\ j + n >= step + 1 <=> j >= k + 1
    BY <1>1, <1>2
  <2> HIDE DEF k, C
  <2> QED BY <1>1, <1>5, <2>1 DEF StillOld
<1>8. /\ \A x \in Find(Connected(config), o.id) : \E i \in C : config[i].id = o.id
      /\ \A i \in C : config[i].id = o.id => config[i] \in Find(Connected(config), o.id)
  <2> DEFINE kept == Connected(config)
  <2>1. /\ \A j \in DOMAIN kept : \E i \in C : kept[j] = config[i]
        /\ \A i \in C : \E j \in DOMAIN kept : kept[j] = config[i]
    BY ConfigsType, ConnectedProperties
  <2> HIDE DEF kept, C
  <2>2. Find(kept, o.id) = {kept[j] : j \in {i \in DOMAIN kept : kept[i].id = o.id}}
    BY DEF Find
  <2>3. \A x \in Find(kept, o.id) : \E i \in C : config[i].id = o.id
    BY <2>1, <2>2
  <2>4. \A i \in C : config[i].id = o.id => config[i] \in Find(kept, o.id)
    BY <2>1, <2>2
  <2> QED BY <2>3, <2>4 DEF kept
<1>9. CASE Find(Connected(config), o.id) # {}
  <2>1. k \notin Q
    BY <1>7, <1>8, <1>9
  <2>2. StillOld' = Q
    <3>1. \A j \in DOMAIN applied : j >= k + 1 <=> j >= k /\ j # k
      BY <1>2, <1>3
    <3> HIDE DEF k, C
    <3> QED BY <1>7, <2>1, <3>1
  <2>3. live_displays' = live_displays
    BY <1>1, <1>9 DEF ToldOfOld, Heard
  <2> HIDE DEF P, Q, C
  <2> QED BY <1>2, <1>4, <1>5, <2>2, <2>3
<1>10. CASE Find(Connected(config), o.id) = {}
  <2>1. \A i \in C : config[i].id # o.id
    BY <1>8, <1>10
  <2>2. k \in Q /\ k \notin StillOld'
    BY <1>2, <1>3, <1>7, <2>1
  <2>3. Q = StillOld' \cup {k}
    <3>1. \A j \in DOMAIN applied : j >= k <=> j >= k + 1 \/ j = k
      BY <1>2, <1>3
    <3> HIDE DEF k, C
    <3> QED BY <1>7, <2>2, <3>1
  <2>4. IsFiniteSet(StillOld')
    <3>1. StillOld' \in SUBSET Q
      BY <2>3
    <3> HIDE DEF Q
    <3> QED BY <1>2, <3>1, FS_Subset
  <2>5. live_displays' = RemoveRect(live_displays, o.area)
    BY <1>1, <1>10 DEF ToldOfOld, Heard, advise_output_delete
  <2>6. With(applied, Q, o.area) # 0
    <3> HIDE DEF k, Q
    <3> QED BY <1>2, <2>2, WithMember
  <2> HIDE DEF P, Q, C, k
  <2>7. \A r : /\ With(applied, Q, r) = With(applied, StillOld', r) + One(o.area, r)
               /\ With(applied, StillOld', r) \in Nat
               /\ With(applied, Q, r) \in Nat
    <3> DEFINE now == StillOld'
    <3> HIDE DEF now
    <3>1. k \notin now /\ IsFiniteSet(now) /\ Q = now \cup {k}
      BY <2>2, <2>3, <2>4 DEF now
    <3>2. \A r : With(applied, now \cup {k}, r) = With(applied, now, r) + One(applied[k].area, r)
      BY <3>1, WithAnother
    <3>3. \A r : With(applied, now, r) \in Nat
      BY <3>1, WithType
    <3>4. \A r : With(applied, Q, r) \in Nat
      BY <1>2, WithType
    <3> QED BY <3>1, <3>2, <3>3, <3>4 DEF now
  <2>8. Times(live_displays, o.area) # 0
    <3> HIDE DEF o
    <3> QED BY <1>2, <1>6, <2>6, <2>7
  <2>9. /\ live_displays' \in Seq(Rects)
        /\ \A r : Times(live_displays', r) = Times(live_displays, r) - One(o.area, r)
    BY <1>2, <2>5, <2>8, RemoveTimes
  <2>10. ASSUME NEW r
         PROVE  Times(live_displays', r) = With(config, ToldNew', r) + With(applied, StillOld', r)
    <3>1. One(o.area, r) \in Nat
      BY DEF One
    <3> HIDE DEF o
    <3> QED BY <1>2, <1>5, <1>6, <2>7, <2>9, <3>1
  <2> QED BY <1>4, <2>9, <2>10
<1> QED BY <1>9, <1>10


LEMMA FirstConnected ==
    /\ Connected(FirstConfig) \in Seq(Outputs)
    /\ \A j \in DOMAIN Connected(FirstConfig) :
            /\ Connected(FirstConfig)[j].connected
            /\ \E c \in Configs : \E i \in DOMAIN c : Connected(FirstConfig)[j] = c[i]
    /\ \A i, j \in DOMAIN Connected(FirstConfig) :
            Connected(FirstConfig)[i].id = Connected(FirstConfig)[j].id => i = j
<1> DEFINE first == Connected(FirstConfig)
           C == {i \in DOMAIN FirstConfig : FirstConfig[i].connected}
<1>1. /\ FirstConfig \in Configs /\ FirstConfig \in Seq(Outputs)
      /\ \A i, j \in DOMAIN FirstConfig : FirstConfig[i].id = FirstConfig[j].id => i = j
  BY ConfigsAssumption, TilingAssumption
<1>2. /\ first \in Seq(Outputs)
      /\ \A j \in DOMAIN first : \E i \in C : first[j] = FirstConfig[i]
      /\ \A i, j \in DOMAIN first : first[i].id = first[j].id => i = j
  BY <1>1, ConnectedProperties
<1> HIDE DEF first
<1>3. \A j \in DOMAIN first : first[j].connected /\ \E c \in Configs : \E i \in DOMAIN c : first[j] = c[i]
  BY <1>1, <1>2
<1> QED BY <1>2, <1>3 DEF first

LEMMA MonitorInit ==
    ASSUME Init
    PROVE  MonitorOK
<1> DEFINE first == Connected(FirstConfig)
<1>1. applied = first /\ config = FirstConfig /\ step = 0
  BY DEF Init
<1>2. /\ first \in Seq(Outputs)
      /\ \A j \in DOMAIN first : first[j].connected /\ \E c \in Configs : \E i \in DOMAIN c : first[j] = c[i]
      /\ \A i, j \in DOMAIN first : first[i].id = first[j].id => i = j
  BY FirstConnected
<1> HIDE DEF first
<1>3. FirstConfig \in Configs /\ FirstConfig \in Seq(Outputs)
  BY ConfigsAssumption, TilingAssumption
<1>4. 0 \in 0..(Len(FirstConfig) + Len(first) + 1)
  BY <1>2, <1>3
<1> QED BY <1>1, <1>2, <1>3, <1>4 DEF MonitorOK

\* Clients and users do not touch the displays.
LEMMA RequestsKeep ==
    ASSUME Client \/ Use
    PROVE  UNCHANGED display_vars
<1> DEFINE Requested == \E d, dirty : Request(d, dirty)
<1>1. advise_new_app => Requested
  BY Zenon DEF advise_new_app
<1>2. advise_delete_app => Requested
  BY Zenon DEF advise_delete_app
<1>3. ASSUME add_surface PROVE Requested
  <2>1. PICK a \in Known(desk), params \in Creations, w \in Windows \ Live(desk), ctx \in Contexts(desk) :
          \E p \in IF params.parent THEN {x \in Live(desk) : AppOf(desk, x) = a} ELSE {NoWindow} :
              LET chosen == NewSurface([desk EXCEPT !.windows = Own(desk, a)], params, p, ctx)
                  built  == Built(desk, w, place_new_window(desk, a, chosen, p), p)
                  d      == [built EXCEPT !.info[w] = Assign(Assign(@, "app", a), "ready", FALSE)]
              IN  Request(advise_new_window(d, w), FALSE)
    BY <1>3, Zenon DEF add_surface
  <2> QED BY <2>1, Zenon
<1>4. handle_window_ready => Requested
  BY Zenon DEF handle_window_ready
<1>5. remove_surface => Requested
  BY Zenon DEF remove_surface
<1>6. select => Requested
  BY Zenon DEF select
<1>7. handle_modify_window => Requested
  BY Zenon DEF handle_modify_window
<1>8. drag => Requested
  BY Zenon DEF drag
<1>9. resize => Requested
  BY Zenon DEF resize
<1>10. ASSUME NEW state, toggle(state) PROVE Requested
  BY <1>10, Zenon DEF toggle
<1>11. Requested
  BY <1>1, <1>2, <1>3, <1>4, <1>5, <1>6, <1>7, <1>8, <1>9, <1>10
     DEF Client, Use, handle_touch_event, handle_keyboard_event
<1>12. Requested => UNCHANGED display_vars
  BY DEF Request, monitor_vars, display_vars
<1> QED BY <1>11, <1>12

LEMMA MonitorStep ==
    ASSUME MonitorOK, [Next]_vars
    PROVE  MonitorOK'
<1>1. CASE UNCHANGED <<applied, config, step>>
  BY <1>1 DEF MonitorOK
<1>2. CASE Client \/ Use
  BY <1>1, <1>2, RequestsKeep DEF display_vars
<1>3. CASE Reconfigured
  <2>1. step' = 1 /\ config' \in Configs /\ UNCHANGED applied
    BY <1>3 DEF Reconfigured, configuration_applied
  <2>2. config' \in Seq(Outputs)
    BY <2>1, ConfigsAssumption
  <2>3. 1 \in 0..(Len(config') + Len(applied) + 1)
    BY <2>2 DEF MonitorOK
  <2> QED BY <2>1, <2>3 DEF MonitorOK
<1>4. CASE OutputAdvised
  <2>1. /\ step' = step + 1 /\ step \in 1..(Len(config) + Len(applied))
        /\ UNCHANGED <<applied, config>>
    BY <1>4 DEF OutputAdvised, NextOutput, Telling
  <2>2. step + 1 \in 0..(Len(config) + Len(applied) + 1)
    BY <2>1, ConfigsType
  <2> QED BY <2>1, <2>2 DEF MonitorOK
<1>5. CASE advise_output_end
  <2> DEFINE now == Connected(config)
             C == {i \in DOMAIN config : config[i].connected}
  <2>1. step' = 0 /\ applied' = now /\ config' = config
    BY <1>5 DEF advise_output_end, Applied
  <2>2. /\ config \in Configs /\ config \in Seq(Outputs)
        /\ \A i, j \in DOMAIN config : config[i].id = config[j].id => i = j
    BY ConfigsType DEF MonitorOK
  <2>3. /\ now \in Seq(Outputs)
        /\ \A j \in DOMAIN now : \E i \in C : now[j] = config[i]
        /\ \A i, j \in DOMAIN now : now[i].id = now[j].id => i = j
    BY <2>2, ConnectedProperties
  <2> HIDE DEF now
  <2>4. \A j \in DOMAIN now : now[j].connected /\ \E c \in Configs : \E i \in DOMAIN c : now[j] = c[i]
    BY <2>2, <2>3
  <2>5. 0 \in 0..(Len(config) + Len(now) + 1)
    BY <2>2, <2>3
  <2> HIDE DEF C
  <2> QED BY <2>1, <2>2, <2>3, <2>4, <2>5 DEF MonitorOK
<1>6. CASE DisplaysReplaced
  BY <1>1, <1>6 DEF DisplaysReplaced, monitor_vars
<1>7. CASE UNCHANGED vars
  BY <1>1, <1>7 DEF vars
<1> QED BY <1>2, <1>3, <1>4, <1>5, <1>6, <1>7 DEF Next, OutputsAdvised

LEMMA DisplaysInit ==
    ASSUME Init
    PROVE  DisplaysOK
<1> DEFINE first == Connected(FirstConfig)
           areas == [i \in DOMAIN first |-> first[i].area]
<1>1. /\ applied = first /\ config = FirstConfig /\ step = 0
      /\ displays = areas /\ live_displays = areas /\ dirty_displays = FALSE
  BY DEF Init
<1>3. first \in Seq(Outputs)
  BY FirstConnected
<1> HIDE DEF first
<1>4. /\ DOMAIN first = 1..Len(first) /\ Len(first) \in Nat
      /\ \A i \in DOMAIN first : first[i].area \in Rects
  <2>1. DOMAIN first = 1..Len(first) /\ Len(first) \in Nat
    BY <1>3
  <2>2. \A i \in DOMAIN first : first[i] \in Outputs
    BY <1>3, <2>1
  <2> QED BY <2>1, <2>2 DEF Outputs
<1>5. /\ areas \in Seq(Rects) /\ DOMAIN areas = DOMAIN first
      /\ \A i \in DOMAIN first : areas[i] = first[i].area
  BY <1>4
<1>6. MonitorOK
  BY MonitorInit
<1>7. \A r : Times(areas, r) = With(first, DOMAIN first, r)
  <2> SUFFICES ASSUME NEW r PROVE Times(areas, r) = With(first, DOMAIN first, r)
    OBVIOUS
  <2>1. {i \in DOMAIN areas : areas[i] = r} = {i \in DOMAIN first : first[i].area = r}
    BY <1>5
  <2> QED BY <2>1 DEF Times, With
<1>8. ToldNew = {} /\ StillOld = DOMAIN first
  BY <1>1, <1>6, NothingTold
<1>9. \A r : With(config, {}, r) = 0 /\ With(first, DOMAIN first, r) \in Nat
  <2>1. \A r : {i \in {} : config[i].area = r} = {}
    OBVIOUS
  <2>2. Cardinality({}) = 0
    BY FS_EmptySet
  <2>3. IsFiniteSet(DOMAIN first)
    <3>1. IsFiniteSet(1..Len(first))
      BY <1>4, FS_Interval
    <3> QED BY <1>4, <3>1
  <2>4. \A r : With(first, DOMAIN first, r) \in Nat
    BY <2>3, WithType
  <2> QED BY <2>1, <2>2, <2>4 DEF With
<1> HIDE DEF areas
<1>10. DisplaysOK
  BY <1>1, <1>5, <1>7, <1>8, <1>9 DEF DisplaysOK
<1> QED BY <1>10

\* A configuration has been told as a whole.
LEMMA AllTold ==
    ASSUME MonitorOK, DisplaysOK, advise_output_end
    PROVE  DisplaysOK'
<1> DEFINE n == Len(config)
           now == Connected(config)
           C == {i \in DOMAIN config : config[i].connected}
<1>1. /\ step = n + Len(applied) + 1 /\ step' = 0
      /\ applied' = now /\ config' = config
      /\ displays' = live_displays /\ live_displays' = live_displays /\ dirty_displays' = FALSE
  BY DEF advise_output_end, Applied, Ending, DisplaysOK
<1>2. /\ DOMAIN config = 1..n /\ n \in Nat /\ DOMAIN applied = 1..Len(applied) /\ Len(applied) \in Nat
      /\ config \in Seq(Outputs) /\ config \in Configs
      /\ \A i, j \in DOMAIN config : config[i].id = config[j].id => i = j
      /\ live_displays \in Seq(Rects)
      /\ \A r : Times(live_displays, r) = With(config, ToldNew, r) + With(applied, StillOld, r)
  BY ConfigsType DEF MonitorOK, DisplaysOK
<1>3. ToldNew = C
  <2>1. \A i \in DOMAIN config : i < step
    BY <1>1, <1>2
  <2> QED BY <2>1 DEF ToldNew
<1>4. StillOld = {}
  <2>1. \A j \in DOMAIN applied : ~(j + n >= step)
    BY <1>1, <1>2
  <2> QED BY <2>1 DEF StillOld
<1>5. /\ now \in Seq(Outputs) /\ C \subseteq 1..n
      /\ \A j \in DOMAIN now : \E i \in C : now[j] = config[i]
      /\ \A i, j \in DOMAIN now : now[i].id = now[j].id => i = j
      /\ \A r : With(now, DOMAIN now, r) = With(config, C, r)
  BY <1>2, ConnectedProperties
<1> HIDE DEF now
<1>7. \A r : With(config, {}, r) = 0 /\ With(applied, {}, r) = 0
  <2>1. \A r : {i \in {} : config[i].area = r} = {} /\ {i \in {} : applied[i].area = r} = {}
    OBVIOUS
  <2>2. Cardinality({}) = 0
    BY FS_EmptySet
  <2> QED BY <2>1, <2>2 DEF With
<1>8. \A r : With(now, DOMAIN now, r) \in Nat
  <2>1. IsFiniteSet(1..Len(now)) /\ DOMAIN now = 1..Len(now)
    BY <1>5, FS_Interval
  <2> QED BY <2>1, WithType
<1>9. \A r : Times(live_displays, r) = With(now, DOMAIN now, r)
  <2> HIDE DEF C
  <2> QED BY <1>2, <1>3, <1>4, <1>5, <1>7, <1>8
<1>10. ToldNew' = {} /\ StillOld' = DOMAIN now
  <2>1. n + 1 > 0 /\ \A i \in DOMAIN config : ~(i < 0)
    BY <1>2
  <2>2. \A j \in DOMAIN now : j + n >= 0
    BY <1>2, <1>5
  <2>3. ToldNew' = {}
    BY <1>1, <2>1 DEF ToldNew
  <2> QED BY <1>1, <2>2, <2>3 DEF StillOld
<1>11. DisplaysOK'
  <2>1. \A r : /\ With(config, ToldNew, r)' = 0
               /\ With(applied, StillOld, r)' = With(now, DOMAIN now, r)
               /\ Times(live_displays, r)' = Times(live_displays, r)
               /\ Times(displays, r)' = Times(live_displays, r)
               /\ With(applied, DOMAIN applied, r)' = With(now, DOMAIN now, r)
    <3>1. \A r : With(config, ToldNew, r)' = With(config, {}, r)
      BY <1>1, <1>10 DEF With
    <3>2. \A r : With(applied, StillOld, r)' = With(now, DOMAIN now, r)
      BY <1>1, <1>10 DEF With
    <3> QED BY <1>1, <1>7, <3>1, <3>2 DEF With, Times
  <2> QED BY <1>1, <1>2, <1>8, <1>9, <2>1 DEF DisplaysOK
<1> QED BY <1>11

LEMMA DisplaysStep ==
    ASSUME OffAreasFixed, MonitorOK, DisplaysOK, [Next]_vars
    PROVE  DisplaysOK'
<1>1. CASE UNCHANGED display_vars
  <2> USE <1>1 DEF display_vars
  <2>1. ToldNew' = ToldNew /\ StillOld' = StillOld
    BY DEF ToldNew, StillOld
  <2>2. \A r : /\ With(config, ToldNew, r)' = With(config, ToldNew, r)
               /\ With(applied, StillOld, r)' = With(applied, StillOld, r)
               /\ With(applied, DOMAIN applied, r)' = With(applied, DOMAIN applied, r)
               /\ Times(live_displays, r)' = Times(live_displays, r)
               /\ Times(displays, r)' = Times(displays, r)
    BY <2>1 DEF With, Times
  <2> QED BY <2>2 DEF DisplaysOK
<1>2. CASE Client \/ Use
  BY <1>1, <1>2, RequestsKeep
<1>3. CASE Reconfigured
  <2>1. /\ step = 0 /\ step' = 1 /\ config' \in Configs /\ UNCHANGED applied
        /\ UNCHANGED <<displays, live_displays, dirty_displays>>
    BY <1>3 DEF Reconfigured, configuration_applied
  <2>3. ToldNew = {} /\ StillOld = DOMAIN applied
    BY <2>1, NothingTold
  <2>4. ToldNew' = {} /\ StillOld' = DOMAIN applied
    <3>1. \A i \in DOMAIN config' : ~(i < 1)
      BY <2>1, ConfigsAssumption
    <3>2. ToldNew' = {}
      BY <2>1, <3>1 DEF ToldNew
    <3>3. \A j \in DOMAIN applied : j + Len(config') >= 1
      <4>1. Len(config') \in Nat
        BY <2>1, ConfigsAssumption
      <4> QED BY <4>1, ConfigsType
    <3> QED BY <2>1, <3>2, <3>3 DEF StillOld
  <2>5. \A r : /\ With(config, ToldNew, r)' = With(config, ToldNew, r)
               /\ With(applied, StillOld, r)' = With(applied, StillOld, r)
               /\ With(applied, DOMAIN applied, r)' = With(applied, DOMAIN applied, r)
               /\ Times(live_displays, r)' = Times(live_displays, r)
               /\ Times(displays, r)' = Times(displays, r)
    <3>1. \A r : {i \in {} : config[i].area = r} = {} /\ {i \in {} : config'[i].area = r} = {}
      OBVIOUS
    <3>2. \A r : With(config, ToldNew, r)' = With(config, ToldNew, r)
      BY <2>3, <2>4, <3>1 DEF With
    <3> QED BY <2>1, <2>3, <2>4, <3>2 DEF With, Times
  <2> QED BY <2>1, <2>5 DEF DisplaysOK
<1>4. CASE OutputAdvised
  <2>1. /\ step' = step + 1 /\ step \in 1..(Len(config) + Len(applied))
        /\ UNCHANGED <<applied, config, displays>>
    BY <1>4 DEF OutputAdvised, NextOutput, Telling
  <2>2. /\ live_displays' \in Seq(Rects)
        /\ \A r : Times(live_displays, r)' = With(config, ToldNew, r)' + With(applied, StillOld, r)'
    <3>1. step <= Len(config) \/ step > Len(config)
      BY ConfigsType
    <3> QED BY <1>4, <3>1, NewTold, OldTold
  <2>4. ~dirty_displays' => live_displays' = live_displays /\ ~dirty_displays
    BY <1>4 DEF OutputAdvised, Heard
  <2>5. \A r : /\ With(applied, DOMAIN applied, r)' = With(applied, DOMAIN applied, r)
               /\ Times(displays, r)' = Times(displays, r)
    BY <2>1 DEF With, Times
  <2> QED BY <2>1, <2>2, <2>4, <2>5 DEF DisplaysOK
<1>5. CASE advise_output_end
  BY <1>5, AllTold
<1>6. CASE DisplaysReplaced
  BY <1>1, <1>6 DEF DisplaysReplaced, monitor_vars, display_vars
<1>7. CASE UNCHANGED vars
  BY <1>1, <1>7 DEF vars, monitor_vars, tiling_vars, display_vars
<1> QED BY <1>2, <1>3, <1>4, <1>5, <1>6, <1>7 DEF Next, OutputsAdvised

LEMMA WholeDisplays ==
    ASSUME MonitorOK, DisplaysOK
    PROVE  DisplaysWhole
<1>1. displays \in Seq(Rects) /\ applied \in Seq(Outputs)
  BY DEF MonitorOK, DisplaysOK
<1>2. \A r : Times(displays, r) = With(applied, DOMAIN applied, r)
  BY DEF DisplaysOK
<1> QED BY <1>1, <1>2, SameExtents DEF DisplaysWhole

\* Where an output that is off stays where it is, the displays the tiles are
\* made from are those of the configuration that was told last as a whole
\* (advise_output_create(), _update(), _delete(), _end() and the order in which
\* ActiveOutputsMonitor calls them).
THEOREM TilingDisplaysWhole == OffAreasFixed => (Spec => []DisplaysWhole)
<1> SUFFICES ASSUME OffAreasFixed PROVE Spec => []DisplaysWhole
  OBVIOUS
<1>1. Init => MonitorOK /\ DisplaysOK
  BY MonitorInit, DisplaysInit
<1>2. MonitorOK /\ DisplaysOK /\ [Next]_vars => MonitorOK' /\ DisplaysOK'
  BY MonitorStep, DisplaysStep
<1>3. MonitorOK /\ DisplaysOK => DisplaysWhole
  BY WholeDisplays
<1> QED BY <1>1, <1>2, <1>3, PTL DEF Spec


-----------------------------------------------------------------------------
(* The tiles.                                                              *)

\* The part of an extent of h from the i-th of r to the next.
LEMMA PartsInOrder ==
    ASSUME NEW h \in Nat, NEW r \in Nat, r > 0, NEW i \in Nat, NEW j \in Nat, i < j, j <= r
    PROVE  /\ (h * i) \div r \in Nat /\ h \div r \in Nat
           /\ (h * i) \div r + h \div r <= (h * j) \div r
           /\ (h * j) \div r <= h
<1>1. /\ h * i \in Nat /\ h * j \in Nat /\ h * r \in Nat
      /\ h * i + h <= h * j /\ h * j <= h * r
  <2>1. h * i \in Nat /\ h * j \in Nat /\ h * r \in Nat
    OBVIOUS
  <2>2. h * i + h <= h * j
    <3> DEFINE k == j - i - 1
    <3>1. k \in Nat /\ j = i + 1 + k
      OBVIOUS
    <3> HIDE DEF k
    <3>2. h * j = h * i + h + h * k /\ h * k \in Nat
      BY <3>1
    <3> QED BY <2>1, <3>2
  <2>3. h * j <= h * r
    <3> DEFINE k == r - j
    <3>1. k \in Nat /\ r = j + k
      OBVIOUS
    <3> HIDE DEF k
    <3>2. h * r = h * j + h * k /\ h * k \in Nat
      BY <3>1
    <3> QED BY <2>1, <3>2
  <2> QED BY <2>1, <2>2, <2>3
<1>2. \A a, b \in Nat : /\ a \div r \in Nat
                        /\ a <= b => a \div r <= b \div r
                        /\ a \div r + b \div r <= (a + b) \div r
  OBVIOUS
<1>3. (h * r) \div r = h
  OBVIOUS
<1> DEFINE a == h * i
           b == h * j
           c == h * r
<1> HIDE DEF a, b, c
<1>4. /\ a \in Nat /\ b \in Nat /\ c \in Nat /\ a + h <= b /\ b <= c /\ c \div r = h
  BY <1>1, <1>3 DEF a, b, c
<1>5. /\ a \div r \in Nat /\ h \div r \in Nat /\ a \div r + h \div r <= (a + h) \div r
      /\ (a + h) \div r \in Nat /\ (a + h) \div r <= b \div r
      /\ b \div r \in Nat /\ b \div r <= c \div r
  BY <1>2, <1>4, SMTT(20)
<1> QED BY <1>4, <1>5 DEF a, b

\* The tiles are inside the total and no two share a spot.
LEMMA TilesApart ==
    ASSUME NEW n \in Nat, NEW total \in [width : Nat, height : Nat],
           NEW i \in 1..n, NEW j \in 1..n
    PROVE  /\ Contains(Rect(Origin, total), TileAt(i - 1, n, total))
           /\ i # j => ~overlaps(TileAt(i - 1, n, total), TileAt(j - 1, n, total))
<1> DEFINE W == total.width
           H == total.height
           a == TileAt(i - 1, n, total)
           b == TileAt(j - 1, n, total)
<1>1. W \in Nat /\ H \in Nat
  OBVIOUS
<1>2. ASSUME NEW w \in Nat
      PROVE  (w * 0) \div 1 = 0 /\ (w * 1) \div 1 = w /\ (w * 0) \div 2 = 0 /\ (w * 2) \div 2 = w
             /\ (w * 1) \div 2 \in Nat /\ (w * 1) \div 2 <= w
             /\ w \div 2 \in Nat /\ w \div 2 + w \div 2 <= w
  OBVIOUS
<1>3. CASE n = 1
  <2>1. i = 1 /\ j = 1
    BY <1>3
  <2>2. a = Rect(Point(0, 0), Size(W, H))
    BY <1>1, <1>2, <1>3, <2>1 DEF TileAt, Rect, Point, Size
  <2> HIDE DEF a
  <2> QED BY <1>1, <2>1, <2>2 DEF a, Contains, bottom_right, Plus, Span, Rect, Point, Size, Origin
<1>4. CASE n = 2
  <2> DEFINE m == (W * 1) \div 2
  <2>1. m \in Nat /\ m <= W
    BY <1>1, <1>2
  <2>2. ASSUME NEW k \in 1..n
        PROVE  TileAt(k - 1, n, total) = IF k = 1 THEN Rect(Point(0, 0), Size(m, H))
                                         ELSE Rect(Point(m, 0), Size(W - m, H))
    <3>1. k = 1 \/ k = 2
      BY <1>4
    <3>2. CASE k = 1
      BY <1>1, <1>2, <1>4, <3>2 DEF TileAt, Rect, Point, Size
    <3>3. CASE k = 2
      BY <1>1, <1>2, <1>4, <3>3 DEF TileAt, Rect, Point, Size
    <3> QED BY <3>1, <3>2, <3>3
  <2> HIDE DEF m, a, b
  <2>3. (i = 1 \/ i = 2) /\ (j = 1 \/ j = 2)
    BY <1>4
  <2>4. /\ a = IF i = 1 THEN Rect(Point(0, 0), Size(m, H)) ELSE Rect(Point(m, 0), Size(W - m, H))
        /\ b = IF j = 1 THEN Rect(Point(0, 0), Size(m, H)) ELSE Rect(Point(m, 0), Size(W - m, H))
    BY <2>2 DEF a, b
  <2>5. Contains(Rect(Origin, total), a)
    BY <1>1, <2>1, <2>3, <2>4 DEF Contains, bottom_right, Plus, Span, Rect, Point, Size, Origin
  <2>6. i # j => ~overlaps(a, b)
    BY <1>1, <2>1, <2>3, <2>4 DEF overlaps, bottom_right, Plus, Span, Rect, Point, Size
  <2> QED BY <2>5, <2>6 DEF a, b
<1>5. CASE n >= 3
  <2> DEFINE half == W \div 2
             rows == n - 1
             row == H \div rows
             y(k) == (H * (k - 2)) \div rows
  <2>1. /\ half \in Nat /\ half + half <= W /\ rows \in Nat /\ rows > 0
        /\ row \in Nat
    <3>1. rows \in Nat /\ rows > 0
      BY <1>5
    <3>2. \A h \in Nat : h \div rows \in Nat
      BY <3>1
    <3> QED BY <1>1, <1>2, <3>1, <3>2
  <2>2. ASSUME NEW k \in 1..n
        PROVE  TileAt(k - 1, n, total) = IF k = 1 THEN Rect(Origin, Size(half, H))
                                         ELSE Rect(Point(half, y(k)), Size(half, row))
    <3>1. k - 1 - 1 = k - 2 /\ ~(n < 3) /\ (k = 1 <=> k - 1 = 0) /\ (k # 1 <=> k - 1 > 0)
      BY <1>5
    <3>2. CASE k = 1
      BY <1>5, <3>1, <3>2 DEF TileAt
    <3>3. CASE k # 1
      BY <1>5, <3>1, <3>3 DEF TileAt
    <3> QED BY <3>2, <3>3
  <2>3. ASSUME NEW k \in 2..n
        PROVE  y(k) \in Nat /\ y(k) + row <= H /\ \A l \in 2..n : k < l => y(k) + row <= y(l)
    <3>1. k - 2 \in Nat /\ k - 1 \in Nat /\ k - 2 < k - 1 /\ k - 1 <= rows
      BY <1>5
    <3>2. y(k) \in Nat /\ y(k) + row <= (H * (k - 1)) \div rows /\ (H * (k - 1)) \div rows <= H
      BY <1>1, <2>1, <3>1, PartsInOrder
    <3>3. (H * (k - 1)) \div rows \in Int
      <4>1. \A h \in Nat : h \div rows \in Nat
        BY <2>1
      <4>2. H * (k - 1) \in Nat
        BY <1>1, <3>1
      <4> QED BY <4>1, <4>2
    <3>4. ASSUME NEW l \in 2..n, k < l PROVE y(k) + row <= y(l)
      <4>1. l - 2 \in Nat /\ k - 2 < l - 2 /\ l - 2 <= rows
        BY <1>5, <3>4
      <4> QED BY <1>1, <2>1, <3>1, <4>1, PartsInOrder
    <3>5. y(k) + row <= H
      <4> DEFINE u == y(k)
                 v == (H * (k - 1)) \div rows
      <4> HIDE DEF u, v, row
      <4>1. u \in Nat /\ u + row <= v /\ v <= H /\ v \in Int
        BY <3>2, <3>3 DEF u, v
      <4>2. u + row <= H
        BY <1>1, <2>1, <4>1
      <4> QED BY <4>2 DEF u
    <3> QED BY <3>2, <3>4, <3>5
  <2> HIDE DEF a, b, half, row, y
  <2>4. /\ a = IF i = 1 THEN Rect(Origin, Size(half, H)) ELSE Rect(Point(half, y(i)), Size(half, row))
        /\ b = IF j = 1 THEN Rect(Origin, Size(half, H)) ELSE Rect(Point(half, y(j)), Size(half, row))
    BY <2>2 DEF a, b
  <2>5. /\ i # 1 => i \in 2..n
        /\ j # 1 => j \in 2..n
        /\ i # j => i < j \/ j < i
    BY <1>5
  <2>6. Contains(Rect(Origin, total), a)
    <3>1. CASE i = 1
      BY <1>1, <2>1, <2>4, <3>1 DEF Contains, bottom_right, Plus, Span, Rect, Point, Size, Origin
    <3>2. CASE i # 1
      <4>1. y(i) \in Nat /\ y(i) + row <= H
        BY <2>3, <2>5, <3>2
      <4> QED BY <1>1, <2>1, <2>4, <3>2, <4>1
          DEF Contains, bottom_right, Plus, Span, Rect, Point, Size, Origin
    <3> QED BY <3>1, <3>2
  <2>7. ASSUME i # j PROVE ~overlaps(a, b)
    <3>1. CASE i = 1
      <4>1. j # 1 /\ y(j) \in Nat
        BY <2>3, <2>5, <2>7, <3>1
      <4> QED BY <2>1, <2>4, <3>1, <4>1 DEF overlaps, bottom_right, Plus, Span, Rect, Point, Size, Origin
    <3>2. CASE j = 1
      <4>1. i # 1 /\ y(i) \in Nat
        BY <2>3, <2>5, <2>7, <3>2
      <4> QED BY <2>1, <2>4, <3>2, <4>1 DEF overlaps, bottom_right, Plus, Span, Rect, Point, Size, Origin
    <3>3. CASE i # 1 /\ j # 1
      <4>1. /\ y(i) \in Nat /\ y(j) \in Nat
            /\ y(i) + row <= y(j) \/ y(j) + row <= y(i)
        BY <2>3, <2>5, <2>7, <3>3
      <4> QED BY <2>1, <2>4, <3>3, <4>1 DEF overlaps, bottom_right, Plus, Span, Rect, Point, Size
    <3> QED BY <3>1, <3>2, <3>3
  <2> QED BY <2>6, <2>7 DEF a, b
<1> QED BY <1>3, <1>4, <1>5


\* What the properties on tiles need of a desk.
DeskFields == {"windows", "info", "rect", "fullscreen", "tile", "old_tile", "tiles"}

InfoOK(info, known) == "app" \in DOMAIN info /\ info.app \in known

DeskOK(d) ==
    /\ DOMAIN d = DeskFields
    /\ Live(d) \subseteq Windows
    /\ \A w \in Live(d) : InfoOK(d.info[w], Known(d))
    /\ \A w \in Live(d) : \E i \in DOMAIN d.windows : d.windows[i] = w
    /\ d.windows \in Seq(Windows)
    /\ d.tiles \in Seq(Known(d))
    /\ \A i, j \in DOMAIN d.tiles : d.tiles[i] = d.tiles[j] => i = j
    /\ IsFiniteSet(d.fullscreen)

\* The changes of windows leave the tiles alone.
KeepsTiles(d, e) ==
    /\ DOMAIN e = DOMAIN d
    /\ e.tile = d.tile /\ e.tiles = d.tiles /\ e.windows = d.windows
    /\ DOMAIN e.info = DOMAIN d.info
    /\ \A w \in DOMAIN d.info : "app" \in DOMAIN d.info[w] =>
            "app" \in DOMAIN e.info[w] /\ e.info[w].app = d.info[w].app
    /\ IsFiniteSet(d.fullscreen) => IsFiniteSet(e.fullscreen)

LEMMA KeepsAgain ==
    ASSUME NEW d, NEW e, NEW f, KeepsTiles(d, e), KeepsTiles(e, f)
    PROVE  KeepsTiles(d, f)
BY DEF KeepsTiles

LEMMA KeepsDesk ==
    ASSUME NEW d, NEW e, DeskOK(d), KeepsTiles(d, e)
    PROVE  DeskOK(e)
BY DEF KeepsTiles, DeskOK, Live, Known, InfoOK

LEMMA MoveKeeps ==
    ASSUME NEW d, DOMAIN d = DeskFields, NEW w, NEW movement
    PROVE  KeepsTiles(d, move_tree(d, w, movement))
<1>1. \E rects : move_tree(d, w, movement) = [d EXCEPT !.rect = rects]
  BY Zenon DEF move_tree
<1>2. PICK rects : move_tree(d, w, movement) = [d EXCEPT !.rect = rects]
  BY <1>1
<1> QED BY <1>2 DEF KeepsTiles, DeskFields

LEMMA PlaceKeeps ==
    ASSUME NEW d, DOMAIN d = DeskFields, NEW w, NEW r
    PROVE  KeepsTiles(d, place_and_size(d, w, r))
<1> DEFINE sized == [d EXCEPT !.rect[w].size = r.size]
           movement == Minus(r.top_left, d.rect[w].top_left)
<1>1. KeepsTiles(d, sized) /\ DOMAIN sized = DeskFields
  BY DEF KeepsTiles, DeskFields
<1>2. place_and_size(d, w, r) = move_tree(sized, w, movement)
  BY DEF place_and_size
<1> HIDE DEF sized, movement
<1>3. KeepsTiles(sized, move_tree(sized, w, movement))
  BY <1>1, MoveKeeps
<1> QED BY <1>1, <1>2, <1>3, KeepsAgain

LEMMA StateKeeps ==
    ASSUME NEW d, DOMAIN d = DeskFields, NEW w, NEW state
    PROVE  KeepsTiles(d, set_state(d, w, state))
<1> DEFINE e == set_state(d, w, state)
<1>1. e = [d EXCEPT !.info[w].state = state,
                    !.fullscreen = IF state = "fullscreen" THEN @ \cup {w} ELSE @ \ {w}]
  BY DEF set_state
<1>2. /\ DOMAIN e = DOMAIN d /\ e.tile = d.tile /\ e.tiles = d.tiles /\ e.windows = d.windows
      /\ e.info = [d.info EXCEPT ![w].state = state]
      /\ e.fullscreen = d.fullscreen \cup {w} \/ e.fullscreen = d.fullscreen \ {w}
  BY <1>1 DEF DeskFields
<1> HIDE DEF e
<1>3. IsFiniteSet(d.fullscreen) => IsFiniteSet(e.fullscreen)
  BY <1>2, FS_AddElement, FS_RemoveElement
<1> QED BY <1>2, <1>3 DEF KeepsTiles, e

LEMMA ModifyKeeps ==
    ASSUME NEW d, DOMAIN d = DeskFields, NEW w, NEW mods, NEW ctx
    PROVE  KeepsTiles(d, modify_window(d, w, mods, ctx))
<1> DEFINE copied == CopySet(d.info[w], Only(mods, CopiedFields))
           next == Remember(copied, d.rect[w], mods)
           begun == [d EXCEPT !.info[w] = next]
           sized == Resized(begun, w, mods)
           placed == PlacedByHints(sized, w, mods, ctx)
<1>1. "app" \in DOMAIN d.info[w] => "app" \in DOMAIN next /\ next.app = d.info[w].app
  <2> SUFFICES ASSUME "app" \in DOMAIN d.info[w]
               PROVE  "app" \in DOMAIN next /\ next.app = d.info[w].app
    OBVIOUS
  <2>1. "app" \notin DOMAIN Only(mods, CopiedFields)
    BY DEF Only, CopiedFields, Limits
  <2>2. "app" \in DOMAIN copied /\ copied.app = d.info[w].app
    BY <2>1 DEF CopySet, value_or, is_set
  <2> HIDE DEF copied
  <2> QED BY <2>2 DEF Remember
<1> HIDE DEF next
<1>2. /\ DOMAIN begun = DOMAIN d /\ begun.tile = d.tile /\ begun.tiles = d.tiles
      /\ begun.windows = d.windows /\ begun.info = [d.info EXCEPT ![w] = next]
      /\ begun.fullscreen = d.fullscreen
  BY DEF DeskFields
<1> HIDE DEF begun
<1>3. KeepsTiles(d, begun)
  BY <1>1, <1>2 DEF KeepsTiles
<1>4. KeepsTiles(begun, sized)
  <2>1. KeepsTiles(begun, begun)
    BY DEF KeepsTiles
  <2>2. \A r : KeepsTiles(begun, place_and_size(begun, w, r))
    BY <1>2, PlaceKeeps
  <2> QED BY <2>1, <2>2 DEF Resized
<1> HIDE DEF sized
<1>5. DOMAIN sized = DeskFields
  BY <1>2, <1>4 DEF KeepsTiles
<1>6. KeepsTiles(sized, placed)
  <2>1. KeepsTiles(sized, sized)
    BY DEF KeepsTiles
  <2>2. \A r : KeepsTiles(sized, place_and_size(sized, w, r))
    BY <1>5, PlaceKeeps
  <2> QED BY <2>1, <2>2 DEF PlacedByHints
<1> HIDE DEF placed
<1>7. DOMAIN placed = DeskFields
  BY <1>5, <1>6 DEF KeepsTiles
<1>8. KeepsTiles(placed, WithState(placed, w, mods))
  <2>1. KeepsTiles(placed, placed)
    BY DEF KeepsTiles
  <2> QED BY <1>7, <2>1, StateKeeps DEF WithState
<1>9. modify_window(d, w, mods, ctx) = WithState(placed, w, mods)
  BY DEF modify_window, placed, sized, begun, next
<1> QED BY <1>3, <1>4, <1>6, <1>8, <1>9, KeepsAgain


LEMMA RefitKeeps ==
    ASSUME NEW d, DOMAIN d = DeskFields, IsFiniteSet(d.fullscreen), NEW outs,
           NEW e \in Refitted(d, outs)
    PROVE  KeepsTiles(d, e)
<1> DEFINE m == Cardinality(d.fullscreen)
<1>0. PICK order \in Orders(d) : \E fit : Fitting(d, outs, order, fit, e)
  BY FitsOneByOne
<1>1. PICK fit : Fitting(d, outs, order, fit, e)
  BY <1>0
<1>2. m \in Nat
  BY FS_CardinalityType
<1>3. fit[0] = d /\ fit[m] = e /\ \A k \in 1..m : fit[k] = Refit(fit[k - 1], outs, order[k])
  BY <1>1 DEF Fitting
<1> HIDE DEF m
<1> DEFINE G == {k \in 0..m : KeepsTiles(d, fit[k])}
<1>4. 0 \in G
  BY <1>2, <1>3 DEF KeepsTiles
<1>5. ASSUME NEW k \in 0..m, k < m, k \in G PROVE k + 1 \in G
  <2> DEFINE was == fit[k]
             r == fullscreen_rect_for(outs, was.info[order[k + 1]], was.rect[order[k + 1]])
  <2>1. k + 1 \in 0..m /\ k + 1 \in 1..m /\ k + 1 - 1 = k
    BY <1>2, <1>5
  <2>2. fit[k + 1] = Refit(was, outs, order[k + 1])
    BY <1>3, <2>1
  <2>3. fit[k + 1] = place_and_size(was, order[k + 1], r)
    BY <2>2 DEF Refit
  <2>4. KeepsTiles(d, was) /\ DOMAIN was = DeskFields
    BY <1>5 DEF KeepsTiles
  <2> HIDE DEF was, r
  <2>5. KeepsTiles(was, fit[k + 1])
    BY <2>3, <2>4, PlaceKeeps
  <2>6. KeepsTiles(d, fit[k + 1])
    BY <2>4, <2>5, KeepsAgain
  <2> QED BY <2>1, <2>6
<1>6. KeepsTiles(d, fit[m])
  <2> HIDE DEF G
  <2>1. 0..m \subseteq G
    BY <1>2, <1>4, <1>5, Reaches
  <2> QED BY <1>2, <2>1 DEF G
<1> QED BY <1>3, <1>6


\* The tiles are those of the order and the areas.
TilesRight(d, areas) ==
    \A i \in DOMAIN d.tiles :
        d.tile[d.tiles[i]] = TileAt(i - 1, Len(d.tiles), bounding_rectangle(areas).size)

LEMMA KeepsRight ==
    ASSUME NEW d, NEW e, NEW areas, KeepsTiles(d, e), TilesRight(d, areas)
    PROVE  TilesRight(e, areas)
BY DEF KeepsTiles, TilesRight

\* update_tiles() step by step: the tiles are laid out, and then the windows
\* follow, one after the other.
Laid(d, areas) ==
    LET total == bounding_rectangle(areas).size
        At(a) == TileAt((CHOOSE i \in DOMAIN d.tiles : d.tiles[i] = a) - 1, Len(d.tiles), total)
    IN  [d EXCEPT
            !.old_tile = [a \in Known(d) |-> IF a \in Tiled(d) THEN d.tile[a] ELSE @[a]],
            !.tile     = [a \in Known(d) |-> IF a \in Tiled(d) THEN At(a) ELSE @[a]]]

Follows(e, w) ==
    IF w \notin TopLevel(e) THEN e
    ELSE update_surface(e, w, e.old_tile[AppOf(e, w)], e.tile[AppOf(e, w)])

Updating(d, areas, f) ==
    /\ f[0] = Laid(d, areas) /\ f[Len(d.windows)] = update_tiles(d, areas)
    /\ \A k \in 1..Len(d.windows) : f[k] = Follows(f[k - 1], d.windows[k])

LEMMA UpdatesOneByOne ==
    ASSUME NEW d, d.windows \in Seq(Windows), NEW areas, d.tiles # <<>>, areas # <<>>
    PROVE  \E f : Updating(d, areas, f)
<1> DEFINE m == Len(d.windows)
           total == bounding_rectangle(areas).size
           At(a) == TileAt((CHOOSE i \in DOMAIN d.tiles : d.tiles[i] = a) - 1, Len(d.tiles), total)
           Ordered == {d.tiles[i] : i \in DOMAIN d.tiles}
           laid == [d EXCEPT
                      !.old_tile = [a \in Known(d) |-> IF a \in Ordered THEN d.tile[a] ELSE @[a]],
                      !.tile     = [a \in Known(d) |-> IF a \in Ordered THEN At(a) ELSE @[a]]]
           Update(e, w) == IF w \notin TopLevel(e) THEN e
                           ELSE update_surface(e, w, e.old_tile[AppOf(e, w)], e.tile[AppOf(e, w)])
           Next1(g, i) == IF i = 0 THEN laid ELSE Update(g[i - 1], d.windows[i])
           All(g) == g = [i \in 0..m |-> Next1(g, i)]
           updated == CHOOSE g : All(g)
<1>1. update_tiles(d, areas) = updated[m]
  BY Zenon DEF update_tiles
<1>2. m \in Nat
  OBVIOUS
<1>3. laid = Laid(d, areas)
  BY Zenon DEF Laid, Tiled
<1> HIDE DEF laid, Update
<1> DEFINE Eq(g, k) == g = [i \in 0..k |-> g[i]] /\ \A i \in 0..k : g[i] = Next1(g, i)
           K == {k \in 0..m : \E g : Eq(g, k)}
<1>4. 0 \in K
  <2> DEFINE g == [i \in 0..0 |-> laid]
  <2>1. Eq(g, 0)
    OBVIOUS
  <2> HIDE DEF Eq
  <2> QED BY <1>2, <2>1
<1>5. ASSUME NEW k \in 0..m, k < m, k \in K PROVE k + 1 \in K
  <2>1. PICK g : Eq(g, k)
    BY <1>5
  <2> DEFINE new == Update(g[k], d.windows[k + 1])
             f == [i \in 0..(k + 1) |-> IF i = k + 1 THEN new ELSE g[i]]
  <2>2. k \in 0..k /\ k + 1 \in 0..(k + 1) /\ k + 1 \in 0..m /\ k + 1 # 0 /\ k + 1 - 1 = k
    BY <1>2, <1>5
  <2>3. \A i \in 0..k : i \in 0..(k + 1) /\ i # k + 1 /\ (i # 0 => i - 1 \in 0..k)
    BY <1>5
  <2> HIDE DEF new
  <2>4. f = [i \in 0..(k + 1) |-> f[i]] /\ f[k + 1] = new /\ \A i \in 0..k : f[i] = g[i]
    BY <2>2, <2>3
  <2> HIDE DEF f
  <2>5. \A i \in 0..(k + 1) : f[i] = Next1(f, i)
    <3> SUFFICES ASSUME NEW i \in 0..(k + 1) PROVE f[i] = Next1(f, i)
      OBVIOUS
    <3>1. CASE i = k + 1
      <4>1. f[k] = g[k]
        BY <2>2, <2>4
      <4> QED BY <2>2, <2>4, <3>1, <4>1 DEF new
    <3>2. CASE i \in 0..k
      <4>1. f[i] = g[i] /\ (i # 0 => f[i - 1] = g[i - 1])
        BY <2>3, <2>4, <3>2
      <4>2. g[i] = Next1(g, i)
        BY <2>1, <3>2
      <4> QED BY <4>1, <4>2
    <3> QED BY <1>5, <3>1, <3>2
  <2>6. Eq(f, k + 1)
    BY <2>4, <2>5
  <2> HIDE DEF Eq
  <2> QED BY <2>2, <2>6
<1>6. m \in K
  <2> HIDE DEF K
  <2>1. 0..m \subseteq K
    BY <1>2, <1>4, <1>5, Reaches
  <2> QED BY <1>2, <2>1
<1>7. All(updated)
  <2>1. PICK g : Eq(g, m)
    BY <1>6
  <2>2. All(g)
    BY <2>1
  <2> HIDE DEF All
  <2> QED BY <2>2
<1> HIDE DEF updated
<1>8. \A i \in 0..m : updated[i] = Next1(updated, i)
  BY <1>7
<1>9. updated[0] = laid /\ \A k \in 1..m : updated[k] = Update(updated[k - 1], d.windows[k])
  <2>1. 0 \in 0..m /\ \A k \in 1..m : k \in 0..m /\ k # 0
    BY <1>2
  <2> QED BY <1>8, <2>1
<1>10. \A e, w : Update(e, w) = Follows(e, w)
  BY Zenon DEF Update, Follows
<1> QED BY <1>1, <1>3, <1>9, <1>10 DEF Updating

LEMMA LaidKeeps ==
    ASSUME NEW d, DeskOK(d), NEW areas
    PROVE  LET laid == Laid(d, areas)
               total == bounding_rectangle(areas).size
           IN  /\ DeskOK(laid) /\ TilesRight(laid, areas) /\ Known(laid) = Known(d)
               /\ laid.windows = d.windows /\ laid.info = d.info /\ laid.rect = d.rect
               /\ laid.fullscreen = d.fullscreen /\ laid.tiles = d.tiles
               /\ \A a \in Known(d) \ Tiled(d) : laid.tile[a] = d.tile[a]
               /\ \A a \in Tiled(d) : laid.old_tile[a] = d.tile[a]
<1> DEFINE total == bounding_rectangle(areas).size
           At(a) == TileAt((CHOOSE i \in DOMAIN d.tiles : d.tiles[i] = a) - 1, Len(d.tiles), total)
           olds == [a \in Known(d) |-> IF a \in Tiled(d) THEN d.tile[a] ELSE d.old_tile[a]]
           news == [a \in Known(d) |-> IF a \in Tiled(d) THEN At(a) ELSE d.tile[a]]
           laid == Laid(d, areas)
<1>1. /\ DOMAIN d = DeskFields /\ d.windows \in Seq(Windows)
      /\ d.tiles \in Seq(Known(d))
      /\ \A i \in DOMAIN d.tiles : d.tiles[i] \in Known(d)
      /\ \A i, j \in DOMAIN d.tiles : d.tiles[i] = d.tiles[j] => i = j
  BY DEF DeskOK
<1>2. ASSUME NEW i \in DOMAIN d.tiles
      PROVE  news[d.tiles[i]] = TileAt(i - 1, Len(d.tiles), total)
  <2>1. (CHOOSE j \in DOMAIN d.tiles : d.tiles[j] = d.tiles[i]) = i
    BY <1>1
  <2>2. d.tiles[i] \in Tiled(d) /\ d.tiles[i] \in Known(d)
    BY <1>1 DEF Tiled
  <2> HIDE DEF At
  <2>3. news[d.tiles[i]] = At(d.tiles[i])
    BY <2>2
  <2> QED BY <2>1, <2>3 DEF At
<1>3. /\ DOMAIN news = Known(d)
      /\ \A a \in Known(d) \ Tiled(d) : news[a] = d.tile[a]
      /\ \A a \in Tiled(d) : olds[a] = d.tile[a]
  BY <1>1 DEF Tiled
<1>4. laid = [d EXCEPT !.old_tile = olds, !.tile = news]
  BY Zenon DEF Laid
<1> HIDE DEF olds, news, laid
<1>5. /\ DOMAIN laid = DeskFields /\ laid.tile = news /\ laid.tiles = d.tiles /\ laid.windows = d.windows
      /\ laid.info = d.info /\ laid.rect = d.rect /\ laid.fullscreen = d.fullscreen
      /\ laid.old_tile = olds
  BY <1>1, <1>4 DEF DeskFields
<1>6. Known(laid) = Known(d) /\ Live(laid) = Live(d)
  BY <1>3, <1>5 DEF Known, Live
<1>7. DeskOK(laid)
  BY <1>5, <1>6 DEF DeskOK
<1>8. TilesRight(laid, areas)
  <2> HIDE DEF total
  <2>1. \A i \in DOMAIN laid.tiles : laid.tile[laid.tiles[i]] = TileAt(i - 1, Len(laid.tiles), total)
    BY <1>2, <1>5
  <2> QED BY <2>1 DEF TilesRight, total
<1> QED BY <1>3, <1>5, <1>6, <1>7, <1>8 DEF laid

LEMMA FollowsKeeps ==
    ASSUME NEW d, DOMAIN d = DeskFields, NEW w
    PROVE  KeepsTiles(d, Follows(d, w))
<1>1. KeepsTiles(d, d)
  BY DEF KeepsTiles
<1>2. \A mods : KeepsTiles(d, modify_window(d, w, mods, NoContext))
  BY ModifyKeeps
<1>3. \A old, new : KeepsTiles(d, update_surface(d, w, old, new))
  BY <1>2, Zenon DEF update_surface
<1> QED BY <1>1, <1>3 DEF Follows

LEMMA LaidOut ==
    ASSUME NEW d, DeskOK(d), NEW areas
    PROVE  /\ DeskOK(update_tiles(d, areas))
           /\ areas # <<>> => TilesRight(update_tiles(d, areas), areas)
<1>1. CASE d.tiles = <<>> \/ areas = <<>>
  <2>1. update_tiles(d, areas) = d
    BY <1>1, Zenon DEF update_tiles
  <2>2. d.tiles = <<>> => TilesRight(d, areas)
    BY DEF TilesRight
  <2> QED BY <1>1, <2>1, <2>2
<1>2. CASE ~(d.tiles = <<>> \/ areas = <<>>)
  <2> DEFINE m == Len(d.windows)
             laid == Laid(d, areas)
  <2>1. d.windows \in Seq(Windows) /\ m \in Nat
    BY DEF DeskOK
  <2>2. PICK f : Updating(d, areas, f)
    BY <1>2, <2>1, UpdatesOneByOne
  <2>3. /\ f[0] = laid /\ f[m] = update_tiles(d, areas)
        /\ \A k \in 1..m : f[k] = Follows(f[k - 1], d.windows[k])
    BY <2>2 DEF Updating
  <2>4. DeskOK(laid) /\ TilesRight(laid, areas)
    BY LaidKeeps
  <2> HIDE DEF laid, m
  <2> DEFINE G == {k \in 0..m : KeepsTiles(laid, f[k])}
  <2>5. 0 \in G
    BY <2>1, <2>3 DEF KeepsTiles
  <2>6. ASSUME NEW k \in 0..m, k < m, k \in G PROVE k + 1 \in G
    <3>1. k + 1 \in 0..m /\ k + 1 \in 1..m /\ k + 1 - 1 = k
      BY <2>1, <2>6
    <3>2. f[k + 1] = Follows(f[k], d.windows[k + 1])
      BY <2>3, <3>1
    <3>3. KeepsTiles(laid, f[k]) /\ DOMAIN f[k] = DeskFields
      BY <2>4, <2>6 DEF KeepsTiles, DeskOK
    <3>4. KeepsTiles(f[k], f[k + 1])
      BY <3>2, <3>3, FollowsKeeps
    <3>5. KeepsTiles(laid, f[k + 1])
      BY <3>3, <3>4, KeepsAgain
    <3> QED BY <3>1, <3>5
  <2>7. KeepsTiles(laid, f[m])
    <3> HIDE DEF G
    <3>1. 0..m \subseteq G
      BY <2>1, <2>5, <2>6, Reaches
    <3> QED BY <2>1, <3>1 DEF G
  <2> QED BY <2>3, <2>4, <2>7, KeepsDesk, KeepsRight
<1> QED BY <1>1, <1>2


LEMMA WithoutProperties ==
    ASSUME NEW T, NEW s \in Seq(T), NEW a, \A i, j \in DOMAIN s : s[i] = s[j] => i = j
    PROVE  /\ without(s, a) \in Seq(T \ {a})
           /\ \A i, j \in DOMAIN without(s, a) : without(s, a)[i] = without(s, a)[j] => i = j
<1> DEFINE S == {i \in DOMAIN s : s[i] # a}
           r == without(s, a)
           m == Len(r)
<1>1. S \subseteq 1..Len(s) /\ DOMAIN s = 1..Len(s)
  OBVIOUS
<1>2. r = Remaining(s, S)
  BY DEF without
<1>3. \A i \in S : s[i] # a /\ i \in DOMAIN s
  OBVIOUS
<1> HIDE DEF r, S
<1>4. r \in Seq(T)
  BY <1>1, <1>2, RemainingProperties
<1>5. PICK h : Picks(h, r, s, S)
  BY <1>1, <1>2, RemainingProperties
<1>6. m \in Nat /\ DOMAIN r = 1..m /\ \A i \in 1..m : r[i] \in T
  BY <1>4
<1>7. \A i \in 1..m : h[i] \in S /\ r[i] = s[h[i]]
  BY <1>5 DEF Picks
<1>8. \A i, j \in 1..m : h[i] = h[j] => i = j
  BY <1>5 DEF Picks
<1>9. \A i \in 1..m : r[i] \in T \ {a}
  BY <1>3, <1>6, <1>7
<1>10. r \in Seq(T \ {a})
  <2>1. r = [i \in 1..m |-> r[i]]
    BY <1>4
  <2> HIDE DEF m
  <2>2. [i \in 1..m |-> r[i]] \in Seq(T \ {a})
    BY <1>6, <1>9
  <2> QED BY <2>1, <2>2
<1>11. \A i, j \in 1..m : r[i] = r[j] => i = j
  BY <1>3, <1>7, <1>8
<1> QED BY <1>6, <1>10, <1>11 DEF r

LEMMA PushDesk ==
    ASSUME NEW d, DeskOK(d), NEW a \in Known(d)
    PROVE  DeskOK(push(d, a))
<1> DEFINE r == without(d.tiles, a)
           now == <<a>> \o r
           e == push(d, a)
<1>1. d.tiles \in Seq(Known(d)) /\ \A i, j \in DOMAIN d.tiles : d.tiles[i] = d.tiles[j] => i = j
  BY DEF DeskOK
<1>2. r \in Seq(Known(d) \ {a}) /\ \A i, j \in DOMAIN r : r[i] = r[j] => i = j
  BY <1>1, WithoutProperties
<1> HIDE DEF r
<1>3. /\ Len(r) \in Nat /\ DOMAIN r = 1..Len(r) /\ \A i \in 1..Len(r) : r[i] \in Known(d) \ {a}
      /\ r \in Seq(Known(d))
  BY <1>2
<1>4. /\ now \in Seq(Known(d)) /\ Len(now) = 1 + Len(r)
      /\ now[1] = a /\ \A i \in 2..(1 + Len(r)) : now[i] = r[i - 1]
  <2>1. <<a>> \in Seq(Known(d)) /\ Len(<<a>>) = 1 /\ <<a>>[1] = a
    OBVIOUS
  <2> DEFINE one == <<a>>
  <2>2. one \in Seq(Known(d)) /\ Len(one) = 1 /\ one[1] = a
    BY <2>1
  <2> HIDE DEF one
  <2>3. /\ one \o r \in Seq(Known(d)) /\ Len(one \o r) = 1 + Len(r)
        /\ \A i \in 1..(1 + Len(r)) : (one \o r)[i] = IF i <= 1 THEN one[i] ELSE r[i - 1]
    BY <1>3, <2>2, ConcatProperties
  <2>4. now = one \o r
    BY DEF one
  <2> HIDE DEF now
  <2>5. 1 \in 1..(1 + Len(r)) /\ 1 <= 1 /\ \A i \in 2..(1 + Len(r)) : i \in 1..(1 + Len(r)) /\ ~(i <= 1)
    BY <1>3
  <2> QED BY <2>2, <2>3, <2>4, <2>5
<1> HIDE DEF now
<1>5. \A i, j \in DOMAIN now : now[i] = now[j] => i = j
  <2> SUFFICES ASSUME NEW i \in DOMAIN now, NEW j \in DOMAIN now, now[i] = now[j] PROVE i = j
    OBVIOUS
  <2>1. DOMAIN now = 1..(1 + Len(r))
    BY <1>3, <1>4
  <2>2. \A k \in DOMAIN now : k = 1 \/ (k \in 2..(1 + Len(r)) /\ k - 1 \in 1..Len(r))
    BY <1>3, <2>1
  <2>3. CASE i = 1 \/ j = 1
    <3>1. \A k \in DOMAIN now : k # 1 => now[k] # a
      BY <1>3, <1>4, <2>2
    <3> QED BY <1>4, <2>3, <3>1
  <2>4. CASE i # 1 /\ j # 1
    <3>1. i - 1 \in DOMAIN r /\ j - 1 \in DOMAIN r /\ r[i - 1] = r[j - 1]
      BY <1>3, <1>4, <2>2, <2>4
    <3>2. i - 1 = j - 1
      BY <1>2, <3>1
    <3> QED BY <1>3, <2>1, <3>2
  <2> QED BY <2>3, <2>4
<1>6. /\ DOMAIN e = DOMAIN d /\ e.tiles = now /\ e.tile = d.tile /\ e.windows = d.windows
      /\ e.info = d.info /\ e.fullscreen = d.fullscreen
  BY DEF DeskOK, DeskFields, push, now, r
<1> HIDE DEF e
<1>7. Known(e) = Known(d) /\ Live(e) = Live(d)
  BY <1>6 DEF Known, Live
<1>8. DeskOK(e)
  BY <1>4, <1>5, <1>6, <1>7 DEF DeskOK
<1> QED BY <1>8 DEF e

LEMMA GainedDesk ==
    ASSUME NEW d, DeskOK(d), NEW f \in Live(d) \cup {NoWindow}
    PROVE  DeskOK(gained(d, f))
<1>1. CASE f = NoWindow
  BY <1>1 DEF gained
<1>2. CASE f # NoWindow
  <2>1. AppOf(d, f) \in Known(d)
    BY <1>2 DEF DeskOK, InfoOK, AppOf
  <2> QED BY <1>2, <2>1, PushDesk DEF gained
<1> QED BY <1>1, <1>2

Drops(d, e, w) ==
    /\ e.windows \in Seq(Windows)
    /\ \E h : Picks(h, e.windows, d.windows, {i \in DOMAIN d.windows : d.windows[i] # w})
    /\ Live(e) = Live(d) \ {w} /\ e.rect = [x \in Live(e) |-> d.rect[x]]
    /\ \A x \in Live(e) : "parent" \in DOMAIN d.info[x] => "parent" \in DOMAIN e.info[x]
    /\ \A x \in Live(e) : "app" \in DOMAIN d.info[x] => e.info[x].app = d.info[x].app
    /\ e.fullscreen = d.fullscreen \ {w}

LEMMA RemovedDesk ==
    ASSUME NEW d, DeskOK(d), NEW w
    PROVE  /\ DeskOK(Removed(d, w)) /\ Live(Removed(d, w)) \subseteq Live(d)
           /\ Removed(d, w).tile = d.tile /\ Removed(d, w).tiles = d.tiles
           /\ Drops(d, Removed(d, w), w)
<1> DEFINE others == Live(d) \ {w}
           S == {i \in DOMAIN d.windows : d.windows[i] # w}
           left == Remaining(d.windows, S)
           infos == [x \in others |-> [d.info[x] EXCEPT !.parent = IF @ = w THEN NoWindow ELSE @]]
           e == Removed(d, w)
<1>1. DOMAIN d = DeskFields =>
        /\ DOMAIN e = DOMAIN d /\ e.tiles = d.tiles /\ e.tile = d.tile /\ e.windows = left
        /\ e.info = infos /\ e.fullscreen = d.fullscreen \ {w}
        /\ e.rect = [x \in others |-> d.rect[x]]
  <2> SUFFICES ASSUME DOMAIN d = DeskFields
               PROVE  /\ DOMAIN e = DOMAIN d /\ e.tiles = d.tiles /\ e.tile = d.tile /\ e.windows = left
                      /\ e.info = infos /\ e.fullscreen = d.fullscreen \ {w}
                      /\ e.rect = [x \in others |-> d.rect[x]]
    OBVIOUS
  <2>1. DOMAIN e = DOMAIN d
    BY DEF Removed
  <2>2. e.tiles = d.tiles /\ e.tile = d.tile
    BY DEF Removed, DeskFields
  <2>3. e.windows = left
    BY DEF Removed, DeskFields
  <2>4. e.info = infos
    BY DEF Removed, DeskFields
  <2>5. e.fullscreen = d.fullscreen \ {w}
    BY DEF Removed, DeskFields
  <2>6. e.rect = [x \in others |-> d.rect[x]]
    BY DEF Removed, DeskFields
  <2> QED BY <2>1, <2>2, <2>3, <2>4, <2>5, <2>6
<1>2. /\ DOMAIN d = DeskFields /\ d.windows \in Seq(Windows) /\ Live(d) \subseteq Windows
      /\ \A x \in Live(d) : InfoOK(d.info[x], Known(d))
      /\ \A x \in Live(d) : \E i \in DOMAIN d.windows : d.windows[i] = x
      /\ IsFiniteSet(d.fullscreen)
  BY DEF DeskOK
<1> HIDE DEF e
<1>3. S \subseteq 1..Len(d.windows) /\ S \subseteq DOMAIN d.windows
  BY <1>2
<1>4. /\ DOMAIN infos = others
      /\ \A x \in others : InfoOK(infos[x], Known(d))
      /\ \A x \in others : "parent" \in DOMAIN d.info[x] => "parent" \in DOMAIN infos[x]
      /\ \A x \in others : "app" \in DOMAIN d.info[x] => infos[x].app = d.info[x].app
  <2>1. \A x \in others : InfoOK(d.info[x], Known(d))
    BY <1>2
  <2> HIDE DEF others
  <2> QED BY <2>1 DEF InfoOK
<1> HIDE DEF infos, left, S
<1>5. /\ DOMAIN e = DOMAIN d /\ e.tiles = d.tiles /\ e.tile = d.tile /\ e.windows = left
      /\ e.info = infos /\ e.fullscreen = d.fullscreen \ {w}
      /\ e.rect = [x \in others |-> d.rect[x]]
  BY <1>1, <1>2
<1>6. Known(e) = Known(d) /\ Live(e) = others
  BY <1>4, <1>5 DEF Known, Live
<1>7. left \in Seq(Windows)
  BY <1>2, <1>3, RemainingProperties DEF left
<1>8. PICK h : Picks(h, left, d.windows, S)
  BY <1>2, <1>3, RemainingProperties DEF left
<1>9. ASSUME NEW x \in others PROVE \E i \in DOMAIN left : left[i] = x
  <2>1. PICK i \in DOMAIN d.windows : d.windows[i] = x
    BY <1>2
  <2>2. i \in S
    BY <2>1 DEF S
  <2>3. PICK j \in 1..Len(left) : h[j] = i
    BY <1>8, <2>2 DEF Picks
  <2>4. left[j] = x
    BY <1>8, <2>1, <2>3 DEF Picks
  <2>5. j \in DOMAIN left
    BY <1>7, <2>3
  <2> QED BY <2>4, <2>5
<1>10. IsFiniteSet(e.fullscreen)
  <2>1. IsFiniteSet(d.fullscreen \ {w})
    BY <1>2, FS_RemoveElement
  <2> QED BY <1>5, <2>1
<1>11. others \subseteq Windows
  BY <1>2
<1>12. DeskOK(e)
  <2> HIDE DEF others
  <2> QED BY <1>2, <1>4, <1>5, <1>6, <1>7, <1>9, <1>10, <1>11 DEF DeskOK
<1>13. Drops(d, e, w)
  <2>1. Live(e) = Live(d) \ {w} /\ e.rect = [x \in Live(e) |-> d.rect[x]]
    BY <1>5, <1>6
  <2> HIDE DEF others
  <2>2. e.windows \in Seq(Windows) /\ Picks(h, e.windows, d.windows, S)
    BY <1>5, <1>7, <1>8
  <2>3. \A x \in Live(e) : /\ "parent" \in DOMAIN d.info[x] => "parent" \in DOMAIN e.info[x]
                           /\ "app" \in DOMAIN d.info[x] => e.info[x].app = d.info[x].app
    BY <1>4, <1>5, <1>6
  <2> QED BY <1>5, <2>1, <2>2, <2>3 DEF Drops, S
<1> QED BY <1>5, <1>6, <1>12, <1>13 DEF e

LEMMA ErasedDesk ==
    ASSUME NEW d, DeskOK(d), NEW a \in Known(d), Own(d, a) = <<>>, NEW e,
           e = [erase(d, a) EXCEPT !.tile = [b \in Known(d) \ {a} |-> @[b]],
                                   !.old_tile = [b \in Known(d) \ {a} |-> @[b]]]
    PROVE  DeskOK(e)
<1> DEFINE r == without(d.tiles, a)
           S == {i \in DOMAIN d.windows : AppOf(d, d.windows[i]) = a}
<1>1. /\ DOMAIN d = DeskFields /\ d.windows \in Seq(Windows)
      /\ d.tiles \in Seq(Known(d)) /\ \A i, j \in DOMAIN d.tiles : d.tiles[i] = d.tiles[j] => i = j
  BY DEF DeskOK
<1>2. r \in Seq(Known(d) \ {a}) /\ \A i, j \in DOMAIN r : r[i] = r[j] => i = j
  BY <1>1, WithoutProperties
<1> HIDE DEF r
<1>3. /\ DOMAIN e = DOMAIN d /\ e.tiles = r /\ DOMAIN e.tile = Known(d) \ {a} /\ e.windows = d.windows
      /\ e.info = d.info /\ e.fullscreen = d.fullscreen
  BY <1>1 DEF DeskFields, erase, r
<1>4. S = {}
  <2>1. S \subseteq 1..Len(d.windows)
    BY <1>1
  <2>2. Own(d, a) = Remaining(d.windows, S)
    BY DEF Own
  <2> HIDE DEF S
  <2>3. \E h : Picks(h, <<>>, d.windows, S)
    BY <1>1, <2>1, <2>2, RemainingProperties
  <2>4. PICK h : Picks(h, <<>>, d.windows, S)
    BY <2>3
  <2>5. 1..Len(<<>>) = {}
    OBVIOUS
  <2> QED BY <2>4, <2>5 DEF Picks
<1>5. ASSUME NEW w \in Live(d) PROVE InfoOK(d.info[w], Known(d) \ {a})
  <2>1. PICK i \in DOMAIN d.windows : d.windows[i] = w
    BY DEF DeskOK
  <2>2. AppOf(d, w) # a
    BY <1>4, <2>1
  <2> QED BY <2>2 DEF DeskOK, InfoOK, AppOf
<1>6. Known(e) = Known(d) \ {a} /\ Live(e) = Live(d)
  BY <1>3 DEF Known, Live
<1>7. /\ Live(d) \subseteq Windows /\ d.windows \in Seq(Windows) /\ IsFiniteSet(d.fullscreen)
      /\ \A w \in Live(d) : \E i \in DOMAIN d.windows : d.windows[i] = w
  BY DEF DeskOK
<1>8. /\ Live(e) \subseteq Windows /\ e.windows \in Seq(Windows) /\ IsFiniteSet(e.fullscreen)
      /\ \A w \in Live(e) : \E i \in DOMAIN e.windows : e.windows[i] = w
  BY <1>3, <1>6, <1>7
<1>9. /\ DOMAIN e = DeskFields /\ e.tiles \in Seq(Known(e))
      /\ \A w \in Live(e) : InfoOK(e.info[w], Known(e))
      /\ \A i, j \in DOMAIN e.tiles : e.tiles[i] = e.tiles[j] => i = j
  <2>1. DOMAIN e = DeskFields
    BY <1>1, <1>3
  <2>2. e.tiles \in Seq(Known(e))
    BY <1>2, <1>3, <1>6
  <2>3. \A w \in Live(e) : InfoOK(e.info[w], Known(e))
    BY <1>3, <1>5, <1>6
  <2>4. \A i, j \in DOMAIN e.tiles : e.tiles[i] = e.tiles[j] => i = j
    BY <1>2, <1>3
  <2> QED BY <2>1, <2>2, <2>3, <2>4
<1> QED BY <1>8, <1>9 DEF DeskOK

WithApp(d, a, guess) == [d EXCEPT !.tile = Assign(@, a, guess), !.old_tile = Assign(@, a, NoArea)]

LEMMA NewAppDesk ==
    ASSUME NEW d, DeskOK(d), NEW a, a \notin Known(d), NEW guess, NEW areas
    PROVE  /\ DeskOK(WithApp(d, a, guess))
           /\ TilesRight(d, areas) => TilesRight(WithApp(d, a, guess), areas)
<1> DEFINE e == WithApp(d, a, guess)
<1>1. DOMAIN d = DeskFields /\ d.tiles \in Seq(Known(d))
  BY DEF DeskOK
<1>2. /\ DOMAIN e = DOMAIN d /\ e.tiles = d.tiles /\ e.tile = Assign(d.tile, a, guess)
      /\ e.windows = d.windows /\ e.info = d.info /\ e.fullscreen = d.fullscreen
  BY <1>1 DEF DeskFields, WithApp
<1> HIDE DEF e
<1>3. /\ DOMAIN e.tile = Known(d) \cup {a}
      /\ \A b \in Known(d) : e.tile[b] = d.tile[b]
  BY <1>2 DEF Assign, Known
<1>4. Known(e) = Known(d) \cup {a} /\ Live(e) = Live(d)
  BY <1>2, <1>3 DEF Known, Live
<1>5. d.tiles \in Seq(Known(d) \cup {a}) /\ \A i \in DOMAIN d.tiles : d.tiles[i] \in Known(d)
  BY <1>1
<1>6. \A w \in Live(d) : InfoOK(d.info[w], Known(d) \cup {a})
  BY DEF DeskOK, InfoOK
<1>7. DeskOK(e)
  <2>1. /\ Live(d) \subseteq Windows /\ d.windows \in Seq(Windows) /\ IsFiniteSet(d.fullscreen)
        /\ \A w \in Live(d) : \E i \in DOMAIN d.windows : d.windows[i] = w
        /\ \A i, j \in DOMAIN d.tiles : d.tiles[i] = d.tiles[j] => i = j
    BY DEF DeskOK
  <2>2. /\ Live(e) \subseteq Windows /\ e.windows \in Seq(Windows) /\ IsFiniteSet(e.fullscreen)
        /\ \A w \in Live(e) : \E i \in DOMAIN e.windows : e.windows[i] = w
        /\ \A i, j \in DOMAIN e.tiles : e.tiles[i] = e.tiles[j] => i = j
    BY <1>2, <1>4, <2>1
  <2>3. /\ DOMAIN e = DeskFields /\ e.tiles \in Seq(Known(e))
        /\ \A w \in Live(e) : InfoOK(e.info[w], Known(e))
    BY <1>1, <1>2, <1>4, <1>5, <1>6
  <2> QED BY <2>2, <2>3 DEF DeskOK
<1>8. TilesRight(d, areas) => TilesRight(e, areas)
  BY <1>2, <1>3, <1>5 DEF TilesRight
<1> QED BY <1>7, <1>8 DEF e


\* A window is built for an application.
WithWindow(d, w, spec, p, a) ==
    [Built(d, w, spec, p) EXCEPT !.info[w] = Assign(Assign(@, "app", a), "ready", FALSE)]

Adds(d, e, w) ==
    /\ e.windows = Append(d.windows, w) /\ Live(e) = Live(d) \cup {w}
    /\ "parent" \in DOMAIN e.info[w] /\ \A x \in Live(d) : e.info[x] = d.info[x]
    /\ \E r : e.rect = Assign(d.rect, w, r)
    /\ e.fullscreen = d.fullscreen \/ e.fullscreen = d.fullscreen \cup {w}

LEMMA BuiltDesk ==
    ASSUME NEW d, DeskOK(d), NEW w \in Windows \ Live(d), NEW a \in Known(d), NEW spec, NEW p
    PROVE  /\ DeskOK(WithWindow(d, w, spec, p, a))
           /\ WithWindow(d, w, spec, p, a).tile = d.tile
           /\ WithWindow(d, w, spec, p, a).tiles = d.tiles
           /\ Adds(d, WithWindow(d, w, spec, p, a), w)
<1> DEFINE e == WithWindow(d, w, spec, p, a)
           built == Built(d, w, spec, p)
           info == Assign(BuiltInfo(spec), "parent", p)
           final == Assign(Assign(built.info[w], "app", a), "ready", FALSE)
<1>1. /\ DOMAIN d = DeskFields /\ d.windows \in Seq(Windows) /\ Live(d) \subseteq Windows
      /\ \A x \in Live(d) : InfoOK(d.info[x], Known(d))
      /\ \A x \in Live(d) : \E i \in DOMAIN d.windows : d.windows[i] = x
      /\ IsFiniteSet(d.fullscreen)
      /\ d.tiles \in Seq(Known(d)) /\ \A i, j \in DOMAIN d.tiles : d.tiles[i] = d.tiles[j] => i = j
  BY DEF DeskOK
<1>2. /\ DOMAIN built = DeskFields /\ built.tile = d.tile /\ built.tiles = d.tiles
      /\ built.windows = Append(d.windows, w) /\ built.info = Assign(d.info, w, info)
      /\ built.fullscreen = d.fullscreen \/ built.fullscreen = d.fullscreen \cup {w}
      /\ built.rect = Assign(d.rect, w, Rect(spec.top_left, spec.size))
  <2>1. DOMAIN built = DeskFields
    BY <1>1 DEF Built
  <2>2. built.tile = d.tile /\ built.tiles = d.tiles
    BY <1>1 DEF Built, DeskFields
  <2>3. built.windows = Append(d.windows, w)
    BY <1>1 DEF Built, DeskFields
  <2>4. built.info = Assign(d.info, w, info)
    BY <1>1, Zenon DEF Built, DeskFields
  <2>5. built.fullscreen = d.fullscreen \/ built.fullscreen = d.fullscreen \cup {w}
    BY <1>1 DEF Built, DeskFields
  <2>6. built.rect = Assign(d.rect, w, Rect(spec.top_left, spec.size))
    BY <1>1, Zenon DEF Built, DeskFields
  <2> QED BY <2>1, <2>2, <2>3, <2>4, <2>5, <2>6
<1>3. e = [built EXCEPT !.info[w] = final]
  BY DEF WithWindow
<1>4. InfoOK(final, Known(d)) /\ "parent" \in DOMAIN final
  <2>1. InfoOK(final, Known(d))
    BY DEF InfoOK, Assign
  <2>2. w \in DOMAIN built.info /\ built.info[w] = info
    <3> HIDE DEF built, info
    <3> QED BY <1>2 DEF Assign
  <2>3. "parent" \in DOMAIN info
    BY DEF Assign
  <2> HIDE DEF built, info
  <2> QED BY <2>1, <2>2, <2>3 DEF Assign
<1> HIDE DEF built, final, info, e
<1>5. /\ DOMAIN e = DeskFields /\ e.tile = d.tile /\ e.tiles = d.tiles
      /\ e.windows = Append(d.windows, w) /\ e.info = [built.info EXCEPT ![w] = final]
      /\ e.fullscreen = built.fullscreen /\ e.rect = built.rect
  BY <1>2, <1>3 DEF DeskFields
<1>6. /\ DOMAIN e.info = Live(d) \cup {w} /\ e.info[w] = final
      /\ \A x \in Live(d) : e.info[x] = d.info[x]
  <2>1. /\ DOMAIN built.info = Live(d) \cup {w}
        /\ \A x \in Live(d) : built.info[x] = d.info[x]
    BY <1>2 DEF Assign, Live
  <2> QED BY <1>5, <2>1
<1>7. Known(e) = Known(d) /\ Live(e) = Live(d) \cup {w}
  BY <1>5, <1>6 DEF Known, Live
<1>8. /\ e.windows \in Seq(Windows)
      /\ \A x \in Live(e) : \E i \in DOMAIN e.windows : e.windows[i] = x
  <2> DEFINE n == Len(d.windows)
  <2>1. /\ n \in Nat /\ DOMAIN d.windows = 1..n
        /\ Append(d.windows, w) \in Seq(Windows) /\ DOMAIN Append(d.windows, w) = 1..(n + 1)
        /\ Append(d.windows, w)[n + 1] = w
        /\ \A i \in 1..n : Append(d.windows, w)[i] = d.windows[i]
    BY <1>1, AppendProperties
  <2> HIDE DEF n
  <2>2. n + 1 \in 1..(n + 1) /\ \A i \in 1..n : i \in 1..(n + 1)
    BY <2>1
  <2> DEFINE all == Append(d.windows, w)
  <2> HIDE DEF all
  <2>3. /\ all \in Seq(Windows) /\ DOMAIN all = 1..(n + 1) /\ all[n + 1] = w
        /\ \A i \in 1..n : all[i] = d.windows[i]
    BY <2>1 DEF all
  <2>4. \A x \in Live(d) \cup {w} : \E i \in DOMAIN all : all[i] = x
    <3>1. \E i \in DOMAIN all : all[i] = w
      BY <2>2, <2>3
    <3>2. ASSUME NEW x \in Live(d) PROVE \E i \in DOMAIN all : all[i] = x
      <4>1. PICK i \in 1..n : d.windows[i] = x
        BY <1>1, <2>1
      <4> QED BY <2>2, <2>3, <4>1
    <3> QED BY <3>1, <3>2
  <2>5. e.windows = all
    BY <1>5 DEF all
  <2>6. e.windows \in Seq(Windows)
    BY <2>3, <2>5
  <2>7. \A x \in Live(e) : \E i \in DOMAIN all : all[i] = x
    BY <1>7, <2>4
  <2>8. \A x \in Live(e) : \E i \in DOMAIN e.windows : e.windows[i] = x
    BY <2>5, <2>7, Zenon
  <2> QED BY <2>6, <2>8
<1>9. IsFiniteSet(e.fullscreen)
  <2>1. IsFiniteSet(d.fullscreen \cup {w})
    BY <1>1, FS_AddElement
  <2> QED BY <1>1, <1>2, <1>5, <2>1
<1>10. /\ Live(e) \subseteq Windows
       /\ \A x \in Live(e) : InfoOK(e.info[x], Known(e))
  BY <1>1, <1>4, <1>6, <1>7
<1>11. /\ DOMAIN e = DeskFields /\ e.tiles \in Seq(Known(e))
       /\ \A i, j \in DOMAIN e.tiles : e.tiles[i] = e.tiles[j] => i = j
  BY <1>1, <1>5, <1>7
<1>12. DeskOK(e)
  BY <1>8, <1>9, <1>10, <1>11 DEF DeskOK
<1>13. Adds(d, e, w)
  <2>1. \E r : e.rect = Assign(d.rect, w, r)
    BY <1>2, <1>5
  <2> QED BY <1>2, <1>4, <1>5, <1>6, <1>7, <2>1 DEF Adds
<1> QED BY <1>5, <1>12, <1>13 DEF e

TilesOK ==
    /\ DeskOK(desk)
    /\ displays \in Seq(Rects)
    /\ live_displays \in Seq(Rects)
    /\ displays # <<>> => TilesRight(desk, displays)

LEMMA RequestTiles ==
    ASSUME TilesOK, NEW d, NEW dirty, Request(d, dirty), DeskOK(d),
           ~dirty => (displays # <<>> => TilesRight(d, displays))
    PROVE  TilesOK'
<1>1. UNCHANGED <<displays, live_displays>>
  BY DEF Request
<1>2. CASE dirty
  <2>1. desk' = update_tiles(d, displays)
    BY <1>2 DEF Request, request_end
  <2>2. DeskOK(desk') /\ (displays # <<>> => TilesRight(desk', displays))
    BY <2>1, LaidOut
  <2> QED BY <1>1, <2>2 DEF TilesOK
<1>3. CASE ~dirty
  <2>1. desk' = d
    BY <1>3 DEF Request
  <2> QED BY <1>1, <1>3, <2>1 DEF TilesOK
<1> QED BY <1>2, <1>3


LEMMA ClientTiles ==
    ASSUME TilesOK, Client
    PROVE  TilesOK'
<1> USE DEF TilesOK
<1>1. CASE advise_new_app
  <2> DEFINE all == bounding_rectangle(displays)
             guess == IF desk.tiles = <<>> THEN all
                      ELSE [all EXCEPT !.size.width = Half(Span(all.size)).x]
  <2>1. PICK a \in Apps \ Known(desk) :
            Request([desk EXCEPT !.tile = Assign(@, a, guess), !.old_tile = Assign(@, a, NoArea)], FALSE)
    BY <1>1, Zenon DEF advise_new_app
  <2> HIDE DEF guess
  <2> DEFINE e == WithApp(desk, a, guess)
  <2>2. Request(e, FALSE)
    BY <2>1, Zenon DEF WithApp
  <2>3. DeskOK(e) /\ (TilesRight(desk, displays) => TilesRight(e, displays))
    BY NewAppDesk
  <2> HIDE DEF e
  <2> QED BY <2>2, <2>3, RequestTiles
<1>2. CASE advise_delete_app
  <2> DEFINE e(a) == [erase(desk, a) EXCEPT !.tile = [b \in Known(desk) \ {a} |-> @[b]],
                                            !.old_tile = [b \in Known(desk) \ {a} |-> @[b]]]
  <2>1. PICK a \in Known(desk) : Own(desk, a) = <<>> /\ Request(e(a), TRUE)
    BY <1>2, Zenon DEF advise_delete_app
  <2>2. DeskOK(e(a))
    BY <2>1, ErasedDesk
  <2> HIDE DEF e
  <2> QED BY <2>1, <2>2, RequestTiles
<1>3. CASE add_surface
  <2>1. PICK a \in Known(desk), params \in Creations, w \in Windows \ Live(desk), ctx \in Contexts(desk) :
          \E p \in IF params.parent THEN {x \in Live(desk) : AppOf(desk, x) = a} ELSE {NoWindow} :
              LET chosen == NewSurface([desk EXCEPT !.windows = Own(desk, a)], params, p, ctx)
                  built  == Built(desk, w, place_new_window(desk, a, chosen, p), p)
                  d      == [built EXCEPT !.info[w] = Assign(Assign(@, "app", a), "ready", FALSE)]
              IN  Request(advise_new_window(d, w), FALSE)
    BY <1>3, Zenon DEF add_surface
  <2>2. \E spec, p : Request(advise_new_window(WithWindow(desk, w, spec, p, a), w), FALSE)
    BY <2>1, Zenon DEF WithWindow
  <2>3. PICK spec, p : Request(advise_new_window(WithWindow(desk, w, spec, p, a), w), FALSE)
    BY <2>2
  <2> DEFINE e == WithWindow(desk, w, spec, p, a)
             f == advise_new_window(e, w)
  <2>4. DeskOK(e) /\ e.tile = desk.tile /\ e.tiles = desk.tiles
    BY BuiltDesk
  <2>5. Request(f, FALSE)
    BY <2>3
  <2> HIDE DEF e
  <2>6. KeepsTiles(e, f)
    <3>1. KeepsTiles(e, e)
      BY DEF KeepsTiles
    <3>2. \A mods : KeepsTiles(e, modify_window(e, w, mods, NoContext))
      BY <2>4, ModifyKeeps DEF DeskOK
    <3>3. f = e \/ \E mods : f = modify_window(e, w, mods, NoContext)
      BY Zenon DEF advise_new_window
    <3> QED BY <3>1, <3>2, <3>3
  <2> HIDE DEF f
  <2>7. DeskOK(f) /\ (TilesRight(desk, displays) => TilesRight(f, displays))
    <3>1. TilesRight(desk, displays) => TilesRight(e, displays)
      BY <2>4 DEF TilesRight
    <3> QED BY <2>4, <2>6, <3>1, KeepsDesk, KeepsRight
  <2> QED BY <2>5, <2>7, RequestTiles
<1>4. CASE handle_window_ready
  <2> DEFINE d(w) == [desk EXCEPT !.info[w].ready = TRUE]
  <2>1. PICK w \in Live(desk) :
            \E f \in IF can_be_active(desk.info[w].type) THEN Selected(desk, w) \cup {NoWindow}
                     ELSE {NoWindow} :
                Request(push(gained(d(w), f), AppOf(d(w), w)), TRUE)
    BY <1>4, Zenon DEF handle_window_ready
  <2>2. \E f \in Selected(desk, w) \cup {NoWindow} : Request(push(gained(d(w), f), AppOf(d(w), w)), TRUE)
    BY <2>1, Zenon
  <2>3. PICK f \in Selected(desk, w) \cup {NoWindow} : Request(push(gained(d(w), f), AppOf(d(w), w)), TRUE)
    BY <2>2
  <2> DEFINE e == d(w)
             g == gained(e, f)
  <2>4. KeepsTiles(desk, e)
    BY DEF KeepsTiles, DeskOK, DeskFields
  <2>5. f \in Live(desk) \cup {NoWindow} /\ Live(e) = Live(desk)
    BY <2>4 DEF Selected, Focusable, KeepsTiles, Live
  <2>6. Request(push(g, AppOf(e, w)), TRUE)
    BY <2>3
  <2> HIDE DEF d, e
  <2>7. DeskOK(e)
    BY <2>4, KeepsDesk
  <2>8. DeskOK(g)
    BY <2>5, <2>7, GainedDesk
  <2>9. Known(g) = Known(e)
    BY <2>7 DEF DeskOK, DeskFields, gained, push, Known
  <2>10. AppOf(e, w) \in Known(e)
    BY <2>5, <2>7 DEF DeskOK, InfoOK, AppOf
  <2> HIDE DEF g
  <2>11. DeskOK(push(g, AppOf(e, w)))
    BY <2>8, <2>9, <2>10, PushDesk
  <2> QED BY <2>6, <2>11, RequestTiles
<1>5. CASE remove_surface
  <2>1. PICK w \in Live(desk) : \E f \in Focusable(Removed(desk, w)) \cup {NoWindow} :
                                    Request(gained(Removed(desk, w), f), f # NoWindow)
    BY <1>5, Zenon DEF remove_surface
  <2>2. PICK f \in Focusable(Removed(desk, w)) \cup {NoWindow} :
                                    Request(gained(Removed(desk, w), f), f # NoWindow)
    BY <2>1
  <2> DEFINE d == Removed(desk, w)
             g == gained(d, f)
  <2>3. DeskOK(d) /\ d.tile = desk.tile /\ d.tiles = desk.tiles
    BY RemovedDesk
  <2>4. Request(g, f # NoWindow) /\ f \in Live(d) \cup {NoWindow}
    BY <2>2 DEF Focusable
  <2> HIDE DEF d
  <2>5. DeskOK(g)
    BY <2>3, <2>4, GainedDesk
  <2>6. f = NoWindow => (TilesRight(desk, displays) => TilesRight(g, displays))
    BY <2>3 DEF gained, TilesRight
  <2> HIDE DEF g
  <2> QED BY <2>4, <2>5, <2>6, RequestTiles
<1>6. CASE select
  <2>1. PICK f \in Focusable(desk) : Request(gained(desk, f), TRUE)
    BY <1>6 DEF select
  <2>2. f \in Live(desk) \cup {NoWindow}
    BY DEF Focusable
  <2> QED BY <2>1, <2>2, GainedDesk, RequestTiles
<1> QED BY <1>1, <1>2, <1>3, <1>4, <1>5, <1>6 DEF Client

LEMMA UseTiles ==
    ASSUME TilesOK, Use
    PROVE  TilesOK'
<1> USE DEF TilesOK
<1>1. ASSUME NEW w, NEW mods, NEW ctx, NEW f \in Live(desk) \cup {NoWindow},
             Request(gained(modify_window(desk, w, mods, ctx), f), TRUE)
                \/ Request(gained(modify_window(desk, w, mods, ctx), f), f # NoWindow)
      PROVE  TilesOK'
  <2> DEFINE d == modify_window(desk, w, mods, ctx)
             g == gained(d, f)
  <2>1. KeepsTiles(desk, d)
    BY ModifyKeeps DEF DeskOK
  <2>2. Request(g, TRUE) \/ Request(g, f # NoWindow)
    BY <1>1
  <2> HIDE DEF d
  <2>3. DeskOK(d) /\ (TilesRight(desk, displays) => TilesRight(d, displays))
    BY <2>1, KeepsDesk, KeepsRight
  <2>4. f \in Live(d) \cup {NoWindow}
    BY <2>1 DEF KeepsTiles, Live
  <2>5. DeskOK(g)
    BY <2>3, <2>4, GainedDesk
  <2>6. f = NoWindow => (TilesRight(d, displays) => TilesRight(g, displays))
    BY DEF gained
  <2> HIDE DEF g
  <2> QED BY <2>2, <2>3, <2>5, <2>6, RequestTiles
<1>2. CASE handle_modify_window
  <2>1. PICK w \in Live(desk), request \in Requests : \E ctx \in ContextsOf(desk, request) :
          LET asked == from_modification(request)
              mods  == constrain_size_and_place(
                          place_and_size_for_state(outputs, asked, desk.info[w], desk.rect[w]),
                          desk.rect[w], desk.tile[AppOf(desk, w)])
              d     == modify_window(desk, w, Consume(mods, "output_id"), ctx)
              hides == value_or(asked, "state", "restored") \in HiddenStates
          IN  /\ size_accepted(asked)
              /\ \E f \in IF hides THEN Focusable(d) \cup {NoWindow} ELSE {NoWindow} :
                      Request(gained(d, f), f # NoWindow)
    BY <1>2, Zenon DEF handle_modify_window
  <2>2. \E mods, ctx : \E f \in Focusable(modify_window(desk, w, mods, ctx)) \cup {NoWindow} :
            Request(gained(modify_window(desk, w, mods, ctx), f), f # NoWindow)
    BY <2>1, Zenon
  <2>3. PICK mods, ctx : \E f \in Focusable(modify_window(desk, w, mods, ctx)) \cup {NoWindow} :
            Request(gained(modify_window(desk, w, mods, ctx), f), f # NoWindow)
    BY <2>2
  <2> DEFINE d == modify_window(desk, w, mods, ctx)
  <2>4. Live(d) = Live(desk)
    <3>1. KeepsTiles(desk, d)
      BY ModifyKeeps DEF DeskOK
    <3> HIDE DEF d
    <3> QED BY <3>1 DEF KeepsTiles, Live
  <2>5. PICK f \in Live(desk) \cup {NoWindow} : Request(gained(d, f), f # NoWindow)
    <3>1. PICK f \in Focusable(d) \cup {NoWindow} : Request(gained(d, f), f # NoWindow)
      BY <2>3
    <3> HIDE DEF d
    <3>2. f \in Live(desk) \cup {NoWindow}
      BY <2>4 DEF Focusable
    <3> QED BY <3>1, <3>2
  <2> QED BY <1>1, <2>5
<1>3. CASE drag
  <2>1. \E mods : \E w \in Focusable(desk) :
            Request(gained(modify_window(desk, w, mods, NoContext), w), TRUE)
    BY <1>3, Zenon DEF drag
  <2>2. PICK mods : \E w \in Focusable(desk) :
            Request(gained(modify_window(desk, w, mods, NoContext), w), TRUE)
    BY <2>1
  <2>3. PICK w \in Focusable(desk) : Request(gained(modify_window(desk, w, mods, NoContext), w), TRUE)
    BY <2>2
  <2>4. w \in Live(desk) \cup {NoWindow}
    BY DEF Focusable
  <2> QED BY <1>1, <2>3, <2>4
<1>4. CASE resize
  <2>1. \E size : \E w \in Focusable(desk) :
            Request(gained([desk EXCEPT !.rect[w].size = size], w), TRUE)
    BY <1>4, Zenon DEF resize
  <2>2. PICK size : \E w \in Focusable(desk) :
            Request(gained([desk EXCEPT !.rect[w].size = size], w), TRUE)
    BY <2>1
  <2>3. PICK w \in Focusable(desk) : Request(gained([desk EXCEPT !.rect[w].size = size], w), TRUE)
    BY <2>2
  <2> DEFINE d == [desk EXCEPT !.rect[w].size = size]
  <2>4. KeepsTiles(desk, d) /\ w \in Live(desk)
    BY DEF KeepsTiles, DeskOK, DeskFields, Focusable
  <2>5. Request(gained(d, w), TRUE)
    BY <2>3
  <2> HIDE DEF d
  <2>6. DeskOK(d) /\ w \in Live(d)
    BY <2>4, KeepsDesk DEF KeepsTiles, Live
  <2>7. DeskOK(gained(d, w))
    BY <2>6, GainedDesk
  <2> QED BY <2>5, <2>7, RequestTiles
<1>5. ASSUME NEW state, toggle(state) PROVE TilesOK'
  <2>1. \E w, mods : Request(modify_window(desk, w, mods, NoContext), FALSE)
    BY <1>5, Zenon DEF toggle
  <2>2. PICK w, mods : Request(modify_window(desk, w, mods, NoContext), FALSE)
    BY <2>1
  <2> DEFINE d == modify_window(desk, w, mods, NoContext)
  <2>3. KeepsTiles(desk, d)
    BY ModifyKeeps DEF DeskOK
  <2>4. Request(d, FALSE)
    BY <2>2
  <2> HIDE DEF d
  <2>5. DeskOK(d) /\ (TilesRight(desk, displays) => TilesRight(d, displays))
    BY <2>3, KeepsDesk, KeepsRight
  <2> QED BY <2>4, <2>5, RequestTiles
<1>6. CASE select
  BY <1>6, ClientTiles DEF Client
<1> QED BY <1>2, <1>3, <1>4, <1>5, <1>6 DEF Use, handle_touch_event, handle_keyboard_event

LEMMA HeardType ==
    ASSUME MonitorOK, live_displays \in Seq(Rects), Telling
    PROVE  Heard(live_displays, Told) \in Seq(Rects)
<1>1. /\ config \in Seq(Outputs) /\ Len(config) \in Nat /\ applied \in Seq(Outputs) /\ Len(applied) \in Nat
      /\ step \in 1..(Len(config) + Len(applied))
  BY ConfigsType DEF Telling
<1>2. /\ step <= Len(config) => config[step] \in Outputs
      /\ ~(step <= Len(config)) => applied[step - Len(config)] \in Outputs
  BY <1>1
<1>3. \A o \in Outputs : o.area \in Rects
  BY DEF Outputs
<1>4. \A r : RemoveRect(live_displays, r) \in Seq(Rects)
  BY RemoveTimes
<1>5. ASSUME NEW o \in Outputs PROVE Heard(live_displays, ToldOfNew(o)) \in Seq(Rects)
  <2>1. /\ Append(live_displays, o.area) \in Seq(Rects)
        /\ \A r : Append(RemoveRect(live_displays, r), o.area) \in Seq(Rects)
    BY <1>3, <1>4
  <2>2. \/ ToldOfNew(o).call = "none"
        \/ ToldOfNew(o).call = "create" /\ ToldOfNew(o).output = o
        \/ ToldOfNew(o).call = "update" /\ ToldOfNew(o).output = o
    BY DEF ToldOfNew
  <2> QED BY <2>1, <2>2 DEF Heard, advise_output_create, advise_output_update
<1>6. ASSUME NEW o PROVE Heard(live_displays, ToldOfOld(o)) \in Seq(Rects)
  <2>1. ToldOfOld(o).call = "none" \/ ToldOfOld(o).call = "delete"
    BY DEF ToldOfOld
  <2> QED BY <1>4, <2>1 DEF Heard, advise_output_delete
<1>7. Told = IF step <= Len(config) THEN ToldOfNew(config[step])
             ELSE ToldOfOld(applied[step - Len(config)])
  BY DEF Told
<1> QED BY <1>2, <1>5, <1>6, <1>7

LEMMA TilesInit ==
    ASSUME Init
    PROVE  TilesOK
<1> DEFINE first == Connected(FirstConfig)
           areas == [i \in DOMAIN first |-> first[i].area]
<1>1. displays = areas /\ live_displays = areas
  BY DEF Init
<1>2. desk = [windows |-> <<>>, info |-> NothingSet, rect |-> NothingSet,
              fullscreen |-> {}, tile |-> NothingSet, old_tile |-> NothingSet, tiles |-> <<>>]
  BY DEF Init
<1>3. first \in Seq(Outputs)
  BY FirstConnected
<1> HIDE DEF first
<1>4. /\ DOMAIN first = 1..Len(first) /\ Len(first) \in Nat
      /\ \A i \in DOMAIN first : first[i].area \in Rects
  <2>1. DOMAIN first = 1..Len(first) /\ Len(first) \in Nat /\ \A i \in DOMAIN first : first[i] \in Outputs
    BY <1>3
  <2> QED BY <2>1 DEF Outputs
<1>5. areas \in Seq(Rects)
  BY <1>4
<1> HIDE DEF areas
<1>6. DeskOK(desk)
  <2>1. /\ DOMAIN desk = DeskFields /\ desk.windows = <<>> /\ desk.tiles = <<>>
        /\ desk.info = NothingSet /\ desk.fullscreen = {}
    BY <1>2 DEF DeskFields
  <2>2. Live(desk) = {}
    BY <2>1 DEF Live, NothingSet
  <2>3. IsFiniteSet(desk.fullscreen)
    BY <2>1, FS_EmptySet
  <2> QED BY <2>1, <2>2, <2>3 DEF DeskOK
<1>7. TilesRight(desk, displays)
  BY <1>2 DEF TilesRight
<1> QED BY <1>1, <1>5, <1>6, <1>7 DEF TilesOK

LEMMA TilesStep ==
    ASSUME MonitorOK, TilesOK, [Next]_vars
    PROVE  TilesOK'
<1>1. CASE Client
  BY <1>1, ClientTiles
<1>2. CASE Use
  BY <1>2, UseTiles
<1>3. CASE Reconfigured
  BY <1>3 DEF Reconfigured, TilesOK
<1>4. CASE OutputAdvised
  <2>1. /\ live_displays' = Heard(live_displays, Told) /\ Telling
        /\ UNCHANGED <<desk, displays>>
    BY <1>4 DEF OutputAdvised, NextOutput
  <2>2. live_displays' \in Seq(Rects)
    BY <2>1, HeardType DEF TilesOK
  <2> QED BY <2>1, <2>2 DEF TilesOK
<1>5. CASE advise_output_end
  <2>1. /\ displays' = IF dirty_displays THEN live_displays ELSE displays
        /\ desk' = IF dirty_displays THEN update_tiles(desk, live_displays) ELSE desk
        /\ live_displays' = live_displays
    BY <1>5 DEF advise_output_end
  <2>2. /\ DeskOK(update_tiles(desk, live_displays))
        /\ live_displays # <<>> => TilesRight(update_tiles(desk, live_displays), live_displays)
    BY LaidOut DEF TilesOK
  <2> QED BY <2>1, <2>2 DEF TilesOK
<1>6. CASE DisplaysReplaced
  <2>1. \E now : desk' \in Refitted(desk, now)
    BY <1>6, Zenon DEF DisplaysReplaced
  <2>2. PICK now : desk' \in Refitted(desk, now)
    BY <2>1
  <2>3. UNCHANGED <<displays, live_displays>>
    BY <1>6, Zenon DEF DisplaysReplaced
  <2>4. KeepsTiles(desk, desk')
    BY <2>2, RefitKeeps DEF TilesOK, DeskOK
  <2>5. DeskOK(desk') /\ (TilesRight(desk, displays) => TilesRight(desk', displays))
    BY <2>4, KeepsDesk, KeepsRight DEF TilesOK
  <2> QED BY <2>3, <2>5 DEF TilesOK
<1>7. CASE UNCHANGED vars
  BY <1>7 DEF vars, tiling_vars, TilesOK
<1> QED BY <1>1, <1>2, <1>3, <1>4, <1>5, <1>6, <1>7 DEF Next, OutputsAdvised

LEMMA CurrentTiles ==
    ASSUME TilesOK
    PROVE  TilesCurrent
<1> DEFINE total == bounding_rectangle(displays).size
           n == Len(desk.tiles)
<1> SUFFICES ASSUME displays # <<>>, NEW i \in DOMAIN desk.tiles, NEW j \in DOMAIN desk.tiles
             PROVE  /\ desk.tile[desk.tiles[i]] = TileAt(i - 1, n, total)
                    /\ Contains(Rect(Origin, total), desk.tile[desk.tiles[i]])
                    /\ i # j => ~overlaps(desk.tile[desk.tiles[i]], desk.tile[desk.tiles[j]])
  BY Zenon DEF TilesCurrent
<1>1. /\ desk.tile[desk.tiles[i]] = TileAt(i - 1, n, total)
      /\ desk.tile[desk.tiles[j]] = TileAt(j - 1, n, total)
  BY DEF TilesOK, TilesRight
<1>2. total \in [width : Nat, height : Nat]
  BY Bounding DEF TilesOK, Rects
<1>3. n \in Nat /\ i \in 1..n /\ j \in 1..n
  BY DEF TilesOK, DeskOK
<1> HIDE DEF total, n
<1>4. /\ Contains(Rect(Origin, total), TileAt(i - 1, n, total))
      /\ i # j => ~overlaps(TileAt(i - 1, n, total), TileAt(j - 1, n, total))
  BY <1>2, <1>3, TilesApart
<1> QED BY <1>1, <1>4

\* The tiles that count are always those of the present order and displays, no
\* two share a spot, and none leaves the displays' bounding size, whatever
\* part of a configuration has been told (update_tiles(), and that everything
\* that changes the order makes the tiles dirty).
THEOREM TilingTilesCurrent == Spec => []TilesCurrent
<1>1. Init => MonitorOK /\ TilesOK
  BY MonitorInit, TilesInit
<1>2. MonitorOK /\ TilesOK /\ [Next]_vars => MonitorOK' /\ TilesOK'
  BY MonitorStep, TilesStep
<1>3. TilesOK => TilesCurrent
  BY CurrentTiles
<1> QED BY <1>1, <1>2, <1>3, PTL DEF Spec

-----------------------------------------------------------------------------
(* A window that fills its tile.                                           *)

\* A tree's move leaves the other windows without a parent alone.
LEMMA MoveTop ==
    ASSUME NEW d, "rect" \in DOMAIN d, IsFiniteSet(Live(d)), Live(d) \subseteq Windows,
           NEW w \in Windows, NEW m, NEW x \in TopLevel(d)
    PROVE  move_tree(d, w, m).rect[x] =
             IF x = w THEN [d.rect[x] EXCEPT !.top_left = Plus(@, m)] ELSE d.rect[x]
<1> DEFINE n == Cardinality(Live(d))
           root == [c \in {w} |-> [d.rect[c] EXCEPT !.top_left = Plus(@, m)]]
           By(was, c) == Minus(was[c].top_left, d.rect[c].top_left)
           From(was) == {y \in DOMAIN was : By(was, y) # Origin}
           Inherit(was) == [c \in UNION {children(d, y) : y \in From(was)} |->
                        confirm_inherited_move(d, c, By(was, d.info[c].parent))]
           Next1(g, i) == IF i = 0 THEN root ELSE Inherit(g[i - 1])
           All(g) == g = [i \in 0..n |-> Next1(g, i)]
           moved == CHOOSE g : All(g)
           At(g, c) == {i \in DOMAIN g : c \in DOMAIN g[i]}
           Get(g, c) == IF At(g, c) = {} THEN d.rect[c] ELSE g[CHOOSE i \in At(g, c) : TRUE][c]
<1>1. n \in Nat
  BY FS_CardinalityType
<1>2. move_tree(d, w, m) = [d EXCEPT !.rect = [c \in Live(d) |-> Get(moved, c)]]
  BY Zenon DEF move_tree
<1>3. x \in Live(d) /\ d.info[x].parent = NoWindow /\ NoWindow \notin Windows /\ NoWindow \notin Live(d)
  BY GeometryAssumption DEF TopLevel
<1>4. move_tree(d, w, m).rect[x] = Get(moved, x)
  <2> HIDE DEF Get
  <2> QED BY <1>2, <1>3
<1> HIDE DEF n
<1> DEFINE Eq(g, k) == g = [i \in 0..k |-> g[i]] /\ \A i \in 0..k : g[i] = Next1(g, i)
           K == {k \in 0..n : \E g : Eq(g, k)}
<1>5. \A was : DOMAIN Inherit(was) = UNION {children(d, y) : y \in From(was)}
  OBVIOUS
<1> HIDE DEF Inherit
<1>6. 0 \in K
  <2> DEFINE g == [i \in 0..0 |-> root]
  <2>1. Eq(g, 0)
    OBVIOUS
  <2> HIDE DEF Eq
  <2> QED BY <1>1, <2>1
<1>7. ASSUME NEW k \in 0..n, k < n, k \in K PROVE k + 1 \in K
  <2>1. PICK g : Eq(g, k)
    BY <1>7
  <2> DEFINE new == Inherit(g[k])
             f == [i \in 0..(k + 1) |-> IF i = k + 1 THEN new ELSE g[i]]
  <2>2. k \in 0..k /\ k + 1 \in 0..(k + 1) /\ k + 1 \in 0..n /\ k + 1 # 0 /\ k + 1 - 1 = k
    BY <1>1, <1>7
  <2>3. \A i \in 0..k : i \in 0..(k + 1) /\ i # k + 1 /\ (i # 0 => i - 1 \in 0..k)
    BY <1>7
  <2> HIDE DEF new, root
  <2>4. f = [i \in 0..(k + 1) |-> f[i]] /\ f[k + 1] = new /\ \A i \in 0..k : f[i] = g[i]
    BY <2>2, <2>3
  <2> HIDE DEF f
  <2>5. \A i \in 0..(k + 1) : f[i] = Next1(f, i)
    <3> SUFFICES ASSUME NEW i \in 0..(k + 1) PROVE f[i] = Next1(f, i)
      OBVIOUS
    <3>1. CASE i = k + 1
      <4>1. f[k] = g[k]
        BY <2>2, <2>4
      <4> QED BY <2>2, <2>4, <3>1, <4>1 DEF new
    <3>2. CASE i \in 0..k
      <4>1. f[i] = g[i] /\ (i # 0 => f[i - 1] = g[i - 1])
        BY <2>3, <2>4, <3>2
      <4>2. g[i] = Next1(g, i)
        BY <2>1, <3>2
      <4> QED BY <4>1, <4>2
    <3> QED BY <1>7, <3>1, <3>2
  <2>6. Eq(f, k + 1)
    BY <2>4, <2>5
  <2> HIDE DEF Eq
  <2> QED BY <2>2, <2>6
<1>8. n \in K
  <2> HIDE DEF K
  <2>1. 0..n \subseteq K
    BY <1>1, <1>6, <1>7, Reaches
  <2> QED BY <1>1, <2>1
<1>9. All(moved)
  <2>1. PICK g : Eq(g, n)
    BY <1>8
  <2>2. All(g)
    BY <2>1
  <2> HIDE DEF All
  <2> QED BY <2>2
<1> HIDE DEF moved
<1>10. DOMAIN moved = 0..n /\ \A i \in 0..n : moved[i] = Next1(moved, i)
  <2> HIDE DEF root
  <2> QED BY <1>9
<1>11. 0 \in 0..n /\ moved[0] = root /\ DOMAIN moved[0] = {w}
  <2>1. DOMAIN root = {w}
    OBVIOUS
  <2> HIDE DEF root
  <2> QED BY <1>1, <1>10, <2>1
<1>12. ASSUME NEW i \in 0..n, i # 0
       PROVE  DOMAIN moved[i] = UNION {children(d, y) : y \in From(moved[i - 1])}
  <2> HIDE DEF root, From
  <2> QED BY <1>5, <1>10, <1>12
<1>13. ASSUME NEW i \in 0..n PROVE NoWindow \notin DOMAIN moved[i]
  <2>1. CASE i = 0
    BY <1>3, <1>11, <2>1
  <2>2. CASE i # 0
    <3>1. DOMAIN moved[i] \subseteq Live(d)
      BY <1>12, <2>2 DEF children
    <3> QED BY <1>3, <3>1
  <2> QED BY <2>1, <2>2
<1>14. ASSUME NEW i \in 0..n, i # 0 PROVE x \notin DOMAIN moved[i]
  <2> SUFFICES ASSUME x \in DOMAIN moved[i] PROVE FALSE
    OBVIOUS
  <2>1. i - 1 \in 0..n
    BY <1>1, <1>14
  <2>2. PICK y \in From(moved[i - 1]) : x \in children(d, y)
    BY <1>12, <1>14
  <2>3. y \in DOMAIN moved[i - 1] /\ y = NoWindow
    BY <1>3, <2>2 DEF children
  <2> QED BY <1>13, <2>1, <2>3
<1>15. At(moved, x) = IF x = w THEN {0} ELSE {}
  <2> HIDE DEF root
  <2> QED BY <1>10, <1>11, <1>14
<1> HIDE DEF At
<1>16. x # w => Get(moved, x) = d.rect[x]
  BY <1>15
<1>17. x = w => Get(moved, x) = root[x]
  <2>1. x = w => (CHOOSE i \in At(moved, x) : TRUE) = 0
    BY <1>15
  <2> HIDE DEF root
  <2> QED BY <1>11, <1>15, <2>1
<1> HIDE DEF Get
<1> QED BY <1>4, <1>16, <1>17

\* What the property needs of a desk besides: every window is listed once.
Listed(d) ==
    /\ \A i \in DOMAIN d.windows : d.windows[i] \in Live(d)
    /\ \A i, j \in DOMAIN d.windows : d.windows[i] = d.windows[j] => i = j
    /\ DOMAIN d.rect = Live(d)
    /\ \A w \in Live(d) : "parent" \in DOMAIN d.info[w]
    /\ d.fullscreen \subseteq Windows
    /\ \A a \in Known(d) : d.tile[a] \in AnyRect

DeskListed(d) == DeskOK(d) /\ Listed(d)

\* Of the windows without a parent only w changes, and no tile does.
Rests(d, e, w) ==
    /\ Live(e) = Live(d) /\ e.windows = d.windows /\ e.tiles = d.tiles
    /\ e.tile = d.tile /\ e.old_tile = d.old_tile
    /\ \A x \in Live(d) : AppOf(e, x) = AppOf(d, x) /\ e.info[x].parent = d.info[x].parent
    /\ \A x \in TopLevel(d) \ {w} : e.rect[x] = d.rect[x]

LEMMA LiveFinite ==
    ASSUME NEW d, DeskOK(d)
    PROVE  IsFiniteSet(Live(d))
<1> DEFINE n == Len(d.windows)
           T == {d.windows[i] : i \in 1..n}
           f == [i \in 1..n |-> d.windows[i]]
<1>1. n \in Nat /\ DOMAIN d.windows = 1..n
  BY DEF DeskOK
<1>2. Live(d) \subseteq T
  BY <1>1 DEF DeskOK
<1> HIDE DEF n
<1>3. f \in Surjection(1..n, T)
  BY DEF Surjection
<1>4. IsFiniteSet(1..n)
  BY <1>1, FS_Interval
<1> HIDE DEF f, T
<1> QED BY <1>2, <1>3, <1>4, FS_Surjection, FS_Subset

LEMMA RestsListed ==
    ASSUME NEW d, DeskListed(d), NEW e, KeepsTiles(d, e), DOMAIN e.rect = DOMAIN e.info,
           e.fullscreen \subseteq Windows, \A w \in Live(d) : "parent" \in DOMAIN e.info[w]
    PROVE  DeskListed(e)
<1>1. DeskOK(e)
  BY KeepsDesk DEF DeskListed
<1>2. Live(e) = Live(d) /\ Known(e) = Known(d)
  BY DEF KeepsTiles, Live, Known
<1>3. Listed(e)
  BY <1>2 DEF KeepsTiles, Listed, DeskListed, Live
<1> QED BY <1>1, <1>3 DEF DeskListed

LEMMA RestsAgain ==
    ASSUME NEW d, NEW e, NEW f, NEW w, Rests(d, e, w), Rests(e, f, w)
    PROVE  Rests(d, f, w)
<1>1. TopLevel(e) = TopLevel(d)
  BY DEF Rests, TopLevel
<1> QED BY <1>1 DEF Rests

LEMMA AppKept ==
    ASSUME NEW d, DeskOK(d), NEW e, KeepsTiles(d, e), NEW x \in Live(d)
    PROVE  AppOf(e, x) = AppOf(d, x)
BY DEF DeskOK, InfoOK, KeepsTiles, AppOf, Live

LEMMA MoveShape ==
    ASSUME NEW d, NEW w, NEW m
    PROVE  \E rects : move_tree(d, w, m) = [d EXCEPT !.rect = rects] /\ DOMAIN rects = Live(d)
<1>1. \E g : move_tree(d, w, m) = [d EXCEPT !.rect = [x \in Live(d) |->
                LET n == {i \in DOMAIN g : x \in DOMAIN g[i]}
                IN  IF n = {} THEN d.rect[x] ELSE g[CHOOSE i \in n : TRUE][x]]]
  BY Zenon DEF move_tree
<1> QED BY <1>1

LEMMA PlaceRests ==
    ASSUME NEW d, DeskListed(d), NEW w \in Windows, NEW r
    PROVE  LET e == place_and_size(d, w, r)
           IN  /\ DeskListed(e) /\ Rests(d, e, w)
               /\ w \in TopLevel(d) /\ d.rect[w] \in AnyRect /\ r \in AnyRect => e.rect[w] = r
<1> DEFINE sized == [d EXCEPT !.rect[w].size = r.size]
           m == Minus(r.top_left, d.rect[w].top_left)
           e == place_and_size(d, w, r)
<1>1. DOMAIN d = DeskFields /\ DOMAIN d.rect = Live(d) /\ Live(d) \subseteq Windows
  BY DEF DeskListed, DeskOK, Listed
<1>2. KeepsTiles(d, e)
  BY <1>1, PlaceKeeps
<1>3. e = move_tree(sized, w, m)
  BY DEF place_and_size
<1>4. /\ DOMAIN sized = DeskFields /\ sized.windows = d.windows /\ sized.tiles = d.tiles
      /\ sized.tile = d.tile /\ sized.old_tile = d.old_tile /\ sized.info = d.info
      /\ sized.fullscreen = d.fullscreen /\ sized.rect = [d.rect EXCEPT ![w].size = r.size]
  BY <1>1 DEF DeskFields
<1>5. Live(sized) = Live(d) /\ TopLevel(sized) = TopLevel(d)
  BY <1>4 DEF Live, TopLevel
<1> HIDE DEF sized
<1>6. PICK rects : e = [sized EXCEPT !.rect = rects] /\ DOMAIN rects = Live(d)
  BY <1>3, <1>5, MoveShape
<1>7. /\ e.windows = d.windows /\ e.tiles = d.tiles /\ e.tile = d.tile /\ e.old_tile = d.old_tile
      /\ e.info = d.info /\ e.fullscreen = d.fullscreen /\ DOMAIN e.rect = Live(d)
  BY <1>4, <1>6 DEF DeskFields
<1>8. IsFiniteSet(Live(sized)) /\ Live(sized) \subseteq Windows
  BY <1>1, <1>5, LiveFinite DEF DeskListed
<1>9. \A x \in TopLevel(d) :
        e.rect[x] = IF x = w THEN [sized.rect[x] EXCEPT !.top_left = Plus(@, m)] ELSE sized.rect[x]
  <2>1. "rect" \in DOMAIN sized
    BY <1>4 DEF DeskFields
  <2> HIDE DEF m
  <2>2. \A x \in TopLevel(sized) : move_tree(sized, w, m).rect[x] =
            IF x = w THEN [sized.rect[x] EXCEPT !.top_left = Plus(@, m)] ELSE sized.rect[x]
    BY <1>8, <2>1, MoveTop
  <2> HIDE DEF e
  <2> QED BY <1>3, <1>5, <2>2
<1>10. \A x \in TopLevel(d) \ {w} : e.rect[x] = d.rect[x]
  BY <1>1, <1>4, <1>9 DEF TopLevel
<1> HIDE DEF e
<1>11. DeskListed(e)
  BY <1>2, <1>7, RestsListed DEF DeskListed, Listed, Live
<1>12. Rests(d, e, w)
  BY <1>7, <1>10 DEF Rests, Live, AppOf
<1>13. ASSUME w \in TopLevel(d), d.rect[w] \in AnyRect, r \in AnyRect PROVE e.rect[w] = r
  <2> DEFINE now == d.rect[w]
             grown == [now EXCEPT !.size = r.size]
  <2>1. /\ now.top_left \in Points /\ r.top_left \in Points
        /\ now = Rect(now.top_left, now.size) /\ r = Rect(r.top_left, r.size)
    BY <1>13, RectType
  <2>2. sized.rect[w] = grown
    BY <1>1, <1>4, <1>13 DEF TopLevel
  <2>3. e.rect[w] = [grown EXCEPT !.top_left = Plus(@, m)]
    BY <1>9, <1>13, <2>2
  <2>4. Plus(now.top_left, Minus(r.top_left, now.top_left)) = r.top_left
    BY <2>1, PointSums
  <2>5. grown = Rect(now.top_left, r.size)
    BY <2>1 DEF Rect
  <2> HIDE DEF grown
  <2>6. [grown EXCEPT !.top_left = Plus(@, m)] = Rect(Plus(now.top_left, m), r.size)
    BY <2>5 DEF Rect
  <2> QED BY <2>1, <2>3, <2>4, <2>6
<1> QED BY <1>11, <1>12, <1>13 DEF e

LEMMA StateRests ==
    ASSUME NEW d, DeskListed(d), NEW w \in Windows, NEW state
    PROVE  LET e == set_state(d, w, state)
           IN  DeskListed(e) /\ Rests(d, e, w) /\ e.rect = d.rect
<1> DEFINE e == set_state(d, w, state)
<1>1. DOMAIN d = DeskFields /\ DOMAIN d.rect = Live(d)
  BY DEF DeskListed, DeskOK, Listed
<1>2. KeepsTiles(d, e)
  BY <1>1, StateKeeps
<1>3. e = [d EXCEPT !.info[w].state = state,
                    !.fullscreen = IF state = "fullscreen" THEN @ \cup {w} ELSE @ \ {w}]
  BY DEF set_state
<1>4. /\ e.windows = d.windows /\ e.tiles = d.tiles /\ e.tile = d.tile /\ e.old_tile = d.old_tile
      /\ e.rect = d.rect /\ e.info = [d.info EXCEPT ![w].state = state]
      /\ e.fullscreen = d.fullscreen \cup {w} \/ e.fullscreen = d.fullscreen \ {w}
  BY <1>1, <1>3 DEF DeskFields
<1> HIDE DEF e
<1>5. \A x \in Live(d) : "parent" \in DOMAIN e.info[x] /\ e.info[x].parent = d.info[x].parent
  BY <1>4 DEF DeskListed, Listed, Live
<1>6. DeskListed(e)
  BY <1>1, <1>2, <1>4, <1>5, RestsListed DEF DeskListed, Listed, Live
<1>7. Rests(d, e, w)
  BY <1>1, <1>2, <1>4, <1>5, AppKept DEF Rests, Live, DeskListed
<1> QED BY <1>4, <1>6, <1>7 DEF e

LEMMA ModifyRests ==
    ASSUME NEW d, DeskListed(d), NEW w \in Windows, NEW mods, NEW ctx
    PROVE  LET e == modify_window(d, w, mods, ctx)
           IN  /\ DeskListed(e) /\ Rests(d, e, w)
               /\ /\ DOMAIN mods = {"top_left", "size"} /\ Rect(mods.top_left, mods.size) \in AnyRect
                  /\ w \in TopLevel(d) /\ d.rect[w] \in AnyRect
                  => e.rect[w] = Rect(mods.top_left, mods.size)
<1> DEFINE copied == CopySet(d.info[w], Only(mods, CopiedFields))
           next == Remember(copied, d.rect[w], mods)
           begun == [d EXCEPT !.info[w] = next]
           sized == Resized(begun, w, mods)
           placed == PlacedByHints(sized, w, mods, ctx)
           e == modify_window(d, w, mods, ctx)
           goal == Rect(mods.top_left, mods.size)
           whole == /\ DOMAIN mods = {"top_left", "size"} /\ goal \in AnyRect
                    /\ w \in TopLevel(d) /\ d.rect[w] \in AnyRect
<1>1. DOMAIN d = DeskFields /\ DOMAIN d.rect = Live(d)
  BY DEF DeskListed, DeskOK, Listed
<1>2. \A f \in {"app", "parent"} :
        f \in DOMAIN d.info[w] => f \in DOMAIN next /\ next[f] = d.info[w][f]
  <2> SUFFICES ASSUME NEW f \in {"app", "parent"}, f \in DOMAIN d.info[w]
               PROVE  f \in DOMAIN next /\ next[f] = d.info[w][f]
    OBVIOUS
  <2>1. f \notin DOMAIN Only(mods, CopiedFields) /\ f # "restore_rect"
    BY DEF Only, CopiedFields, Limits
  <2>2. f \in DOMAIN copied /\ copied[f] = d.info[w][f]
    BY <2>1 DEF CopySet, value_or, is_set
  <2> HIDE DEF copied
  <2> QED BY <2>1, <2>2 DEF Remember
<1> HIDE DEF next
<1>3. /\ DOMAIN begun = DOMAIN d /\ begun.tile = d.tile /\ begun.tiles = d.tiles
      /\ begun.windows = d.windows /\ begun.info = [d.info EXCEPT ![w] = next]
      /\ begun.fullscreen = d.fullscreen /\ begun.old_tile = d.old_tile /\ begun.rect = d.rect
  BY <1>1 DEF DeskFields
<1> HIDE DEF begun
<1>4. KeepsTiles(d, begun)
  BY <1>2, <1>3 DEF KeepsTiles
<1>5. \A x \in Live(d) : "parent" \in DOMAIN begun.info[x] /\ begun.info[x].parent = d.info[x].parent
  BY <1>2, <1>3 DEF DeskListed, Listed, Live
<1>6. DeskListed(begun)
  BY <1>1, <1>3, <1>4, <1>5, RestsListed DEF DeskListed, Listed, Live
<1>7. Rests(d, begun, w)
  BY <1>1, <1>3, <1>4, <1>5, AppKept DEF Rests, Live, DeskListed
<1>8. /\ \A f : DeskListed(f) => Rests(f, f, w)
      /\ \A f, r : DeskListed(f) => DeskListed(place_and_size(f, w, r)) /\ Rests(f, place_and_size(f, w, r), w)
  BY PlaceRests DEF Rests
<1>9. DeskListed(sized) /\ Rests(begun, sized, w)
  BY <1>6, <1>8 DEF Resized
<1>10. whole => sized.rect[w] = goal
  <2> SUFFICES ASSUME whole PROVE sized.rect[w] = goal
    OBVIOUS
  <2>1. is_set(mods, "size") /\ is_set(mods, "top_left")
    BY DEF is_set
  <2>2. sized = place_and_size(begun, w, goal)
    BY <2>1 DEF Resized, value_or
  <2>3. w \in TopLevel(begun) /\ begun.rect[w] \in AnyRect
    BY <1>3, <1>7 DEF Rests, TopLevel
  <2> HIDE DEF sized, goal
  <2>4. goal \in AnyRect
    BY DEF goal
  <2> QED BY <1>6, <2>2, <2>3, <2>4, PlaceRests
<1> HIDE DEF sized, goal
<1>11. DeskListed(placed) /\ Rests(sized, placed, w)
  BY <1>8, <1>9 DEF PlacedByHints
<1>12. whole => placed = sized
  BY DEF PlacedByHints, is_set
<1> HIDE DEF placed
<1>13. e = WithState(placed, w, mods)
  BY DEF modify_window, placed, sized, begun, next
<1>14. DeskListed(e) /\ Rests(placed, e, w) /\ (whole => e = placed)
  <2> HIDE DEF e
  <2>1. is_set(mods, "state") => ~whole
    BY DEF is_set
  <2>2. is_set(mods, "state") => e = set_state(placed, w, mods.state)
    BY <1>13 DEF WithState
  <2>3. ~is_set(mods, "state") => e = placed
    BY <1>13 DEF WithState
  <2> HIDE DEF whole
  <2> QED BY <1>8, <1>11, <2>1, <2>2, <2>3, StateRests
<1> HIDE DEF e
<1>15. Rests(d, e, w)
  BY <1>7, <1>9, <1>11, <1>14, RestsAgain
<1>16. whole => e.rect[w] = goal
  BY <1>10, <1>12, <1>14
<1> QED BY <1>14, <1>15, <1>16 DEF e, goal

\* A window that fills its tile follows it.
LEMMA FollowsFills ==
    ASSUME NEW d, DeskListed(d), NEW w \in Windows
    PROVE  LET e == Follows(d, w)
               old == d.old_tile[AppOf(d, w)]
               new == d.tile[AppOf(d, w)]
           IN  /\ DeskListed(e) /\ Rests(d, e, w)
               /\ w \in TopLevel(d) /\ d.rect[w] = old /\ old \in AnyRect => e.rect[w] = new
<1> DEFINE e == Follows(d, w)
           old == d.old_tile[AppOf(d, w)]
           new == d.tile[AppOf(d, w)]
<1>1. CASE w \notin TopLevel(d)
  BY <1>1 DEF Follows, Rests
<1>2. CASE w \in TopLevel(d)
  <2> DEFINE now == d.rect[w]
             offset == Minus(now.top_left, old.top_left)
             scaled == Size(IF now.size.width = old.size.width THEN new.size.width
                            ELSE now.size.width,
                            IF now.size.height = old.size.height THEN new.size.height
                            ELSE now.size.height)
             left == Size(new.size.width - offset.x, new.size.height - offset.y)
             mods == [top_left |-> Plus(new.top_left, offset), size |-> Smaller(left, scaled)]
  <2>1. e = modify_window(d, w, mods, NoContext)
    BY <1>2, Zenon DEF Follows, update_surface
  <2>2. new \in AnyRect
    BY <1>2 DEF DeskListed, Listed, DeskOK, InfoOK, AppOf, TopLevel
  <2>3. DOMAIN mods = {"top_left", "size"}
    OBVIOUS
  <2>4. ASSUME now = old, old \in AnyRect PROVE Rect(mods.top_left, mods.size) = new
    <3> HIDE DEF old, new, now
    <3>1. /\ old.top_left \in Points /\ new.top_left \in Points
          /\ new.size \in Sizes /\ new = Rect(new.top_left, new.size)
          /\ new.size.width \in Int /\ new.size.height \in Int
          /\ new.size = Size(new.size.width, new.size.height)
      BY <2>2, <2>4, RectType
    <3>2. offset = Origin /\ Plus(new.top_left, Origin) = new.top_left
      BY <2>4, <3>1, PointSums
    <3>3. offset.x = 0 /\ offset.y = 0
      BY <3>2 DEF Origin, Point
    <3>4. scaled = new.size
      BY <2>4, <3>1
    <3>5. left = new.size
      BY <3>1, <3>3
    <3> HIDE DEF offset, scaled, left
    <3>6. Smaller(new.size, new.size) = new.size
      BY <3>1 DEF Smaller, Min2
    <3> QED BY <3>1, <3>2, <3>4, <3>5, <3>6
  <2>5. /\ DeskListed(e) /\ Rests(d, e, w)
        /\ Rect(mods.top_left, mods.size) \in AnyRect /\ now \in AnyRect
                => e.rect[w] = Rect(mods.top_left, mods.size)
    <3> HIDE DEF mods
    <3> QED BY <1>2, <2>1, <2>3, ModifyRests
  <2> HIDE DEF mods
  <2>6. now = old /\ old \in AnyRect => e.rect[w] = new
    BY <2>2, <2>4, <2>5
  <2> QED BY <1>2, <2>5, <2>6
<1> QED BY <1>1, <1>2

\* TileAt() makes rectangles.
LEMMA TileType ==
    ASSUME NEW n \in Nat, NEW i \in 1..n, NEW total \in [width : Nat, height : Nat]
    PROVE  TileAt(i - 1, n, total) \in AnyRect
<1> DEFINE k == i - 1
<1>1. k \in Nat /\ k < n /\ total.width \in Nat /\ total.height \in Nat
  OBVIOUS
<1>2. \A a \in Nat, b \in Nat : b > 0 => a \div b \in Int
  OBVIOUS
<1>3. /\ total.width * k \in Nat /\ total.width * (k + 1) \in Nat
      /\ k # 0 => total.height * (k - 1) \in Nat
  BY <1>1
<1> HIDE DEF k
<1>4. ASSUME NEW x \in Int, NEW y \in Int, NEW w \in Int, NEW h \in Int
       PROVE  Rect(Point(x, y), Size(w, h)) \in AnyRect
  <2>1. Point(x, y) \in Points /\ Size(w, h) \in Sizes
    BY RectType
  <2> QED BY <2>1, RectType
<1>5. CASE n < 3
  <2>1. TileAt(k, n, total) =
            Rect(Point((total.width * k) \div n, 0),
                 Size((total.width * (k + 1)) \div n - (total.width * k) \div n, total.height))
    BY <1>5 DEF TileAt
  <2>2. (total.width * k) \div n \in Int /\ (total.width * (k + 1)) \div n \in Int
    BY <1>1, <1>2, <1>3
  <2>3. (total.width * (k + 1)) \div n - (total.width * k) \div n \in Int
    BY <2>2
  <2>4. TileAt(k, n, total) \in AnyRect
    BY <1>1, <1>4, <2>1, <2>2, <2>3
  <2> QED BY <2>4 DEF k
<1>6. CASE n >= 3 /\ k = 0
  <2>1. TileAt(k, n, total) = Rect(Origin, Size(total.width \div 2, total.height))
    BY <1>1, <1>6 DEF TileAt
  <2>2. total.width \div 2 \in Int /\ Origin \in Points
    BY <1>1, RectType DEF Origin
  <2> QED BY <1>1, <2>1, <2>2, RectType DEF k
<1>7. CASE n >= 3 /\ k # 0
  <2>1. TileAt(k, n, total) =
            Rect(Point(total.width \div 2, (total.height * (k - 1)) \div (n - 1)),
                 Size(total.width \div 2, total.height \div (n - 1)))
    BY <1>1, <1>7 DEF TileAt
  <2>2. n - 1 \in Nat /\ n - 1 > 0
    BY <1>7
  <2>3. /\ total.width \div 2 \in Int /\ (total.height * (k - 1)) \div (n - 1) \in Int
        /\ total.height \div (n - 1) \in Int
    BY <1>1, <1>2, <1>3, <1>7, <2>2
  <2>4. TileAt(k, n, total) \in AnyRect
    BY <1>4, <2>1, <2>3
  <2> QED BY <2>4 DEF k
<1> QED BY <1>1, <1>5, <1>6, <1>7

\* So does every window when the tiles are laid out.
LEMMA LaidFills ==
    ASSUME NEW d, DeskListed(d), NEW areas \in Seq(Rects)
    PROVE  LET e == update_tiles(d, areas)
           IN  /\ DeskListed(e) /\ TopLevel(e) = TopLevel(d) /\ Tiled(e) = Tiled(d)
               /\ \A w \in TopLevel(d) :
                    AppOf(d, w) \in Tiled(d) /\ d.rect[w] = d.tile[AppOf(d, w)]
                        => e.rect[w] = e.tile[AppOf(d, w)]
<1> DEFINE e == update_tiles(d, areas)
<1>1. CASE d.tiles = <<>> \/ areas = <<>>
  <2>1. e = d
    BY <1>1, Zenon DEF update_tiles
  <2> QED BY <2>1
<1>2. CASE ~(d.tiles = <<>> \/ areas = <<>>)
  <2> DEFINE m == Len(d.windows)
             laid == Laid(d, areas)
             total == bounding_rectangle(areas).size
  <2>1. /\ d.windows \in Seq(Windows) /\ m \in Nat /\ DOMAIN d.windows = 1..m /\ DeskOK(d)
        /\ \A w \in Live(d) : \E i \in 1..m : d.windows[i] = w
        /\ \A i, j \in 1..m : d.windows[i] = d.windows[j] => i = j
        /\ \A i \in 1..m : d.windows[i] \in Windows
    BY DEF DeskListed, Listed, DeskOK
  <2>2. PICK f : Updating(d, areas, f)
    BY <1>2, <2>1, UpdatesOneByOne
  <2>3. /\ f[0] = laid /\ f[m] = e
        /\ \A k \in 1..m : f[k] = Follows(f[k - 1], d.windows[k])
    BY <2>2 DEF Updating
  <2>4. /\ DeskOK(laid) /\ TilesRight(laid, areas) /\ Known(laid) = Known(d)
        /\ laid.windows = d.windows /\ laid.info = d.info /\ laid.rect = d.rect
        /\ laid.fullscreen = d.fullscreen /\ laid.tiles = d.tiles
        /\ \A a \in Known(d) \ Tiled(d) : laid.tile[a] = d.tile[a]
        /\ \A a \in Tiled(d) : laid.old_tile[a] = d.tile[a]
    BY <2>1, LaidKeeps
  <2>5. total \in [width : Nat, height : Nat]
    BY <1>2, Bounding DEF Rects
  <2> HIDE DEF e, laid, total
  <2>6. \A a \in Known(laid) : laid.tile[a] \in AnyRect
    <3>1. ASSUME NEW i \in DOMAIN laid.tiles PROVE laid.tile[laid.tiles[i]] \in AnyRect
      <4>1. Len(laid.tiles) \in Nat /\ i \in 1..Len(laid.tiles)
        BY <2>4 DEF DeskOK
      <4>2. TileAt(i - 1, Len(laid.tiles), total) \in AnyRect
        BY <2>5, <4>1, TileType
      <4> QED BY <2>4, <4>2 DEF TilesRight, total
    <3>2. \A a \in Tiled(d) : \E i \in DOMAIN laid.tiles : laid.tiles[i] = a
      BY <2>4 DEF Tiled
    <3>3. \A a \in Known(d) : d.tile[a] \in AnyRect
      BY DEF DeskListed, Listed
    <3> QED BY <2>4, <3>1, <3>2, <3>3
  <2>7. DeskListed(laid) /\ Live(laid) = Live(d) /\ TopLevel(laid) = TopLevel(d)
    BY <2>4, <2>6 DEF DeskListed, Listed, Live, TopLevel
  <2> DEFINE Unmoved(g, k) == \A i \in 1..m : d.windows[i] \in TopLevel(d) /\ i > k
                                => g.rect[d.windows[i]] = d.rect[d.windows[i]]
             Snug(g, k) == \A i \in 1..m :
                LET w == d.windows[i]
                    a == AppOf(d, w)
                IN  /\ w \in TopLevel(d) /\ i <= k /\ a \in Tiled(d) /\ d.rect[w] = d.tile[a]
                    => g.rect[w] = laid.tile[a]
             Same(g) == /\ DeskListed(g) /\ Live(g) = Live(d) /\ g.windows = d.windows
                        /\ g.tiles = d.tiles /\ g.tile = laid.tile /\ g.old_tile = laid.old_tile
                        /\ \A x \in Live(d) : /\ AppOf(g, x) = AppOf(d, x)
                                              /\ g.info[x].parent = d.info[x].parent
             G == {k \in 0..m : Same(f[k]) /\ Unmoved(f[k], k) /\ Snug(f[k], k)}
  <2>8. 0 \in G
    <3>1. Same(laid)
      BY <2>4, <2>7 DEF AppOf
    <3>2. Unmoved(laid, 0)
      BY <2>4
    <3>3. \A i \in 1..m : ~(i <= 0)
      OBVIOUS
    <3>4. Snug(laid, 0)
      BY <3>3
    <3> QED BY <2>1, <2>3, <3>1, <3>2, <3>4
  <2>9. ASSUME NEW k \in 0..m, k < m, k \in G PROVE k + 1 \in G
    <3> DEFINE was == f[k]
               now == f[k + 1]
               w == d.windows[k + 1]
               a == AppOf(d, w)
    <3>1. k + 1 \in 0..m /\ k + 1 \in 1..m /\ k + 1 - 1 = k /\ k \in Nat
      BY <2>1, <2>9
    <3>2. now = Follows(was, w) /\ w \in Windows
      BY <2>1, <2>3, <3>1, SMTT(20)
    <3>3. Same(was) /\ Unmoved(was, k) /\ Snug(was, k)
      BY <2>9
    <3>4. TopLevel(was) = TopLevel(d)
      BY <3>3 DEF TopLevel
    <3> HIDE DEF was, now
    <3>5. /\ DeskListed(now) /\ Rests(was, now, w)
          /\ w \in TopLevel(was) /\ was.rect[w] = was.old_tile[AppOf(was, w)]
             /\ was.old_tile[AppOf(was, w)] \in AnyRect
             => now.rect[w] = was.tile[AppOf(was, w)]
      BY <3>2, <3>3, FollowsFills
    <3>6. Same(now)
      BY <3>3, <3>5 DEF Rests
    <3>7. \A i \in 1..m : i # k + 1 => d.windows[i] # w
      BY <2>1, <3>1
    <3> HIDE DEF w
    <3>8. \A i \in 1..m : i # k + 1 /\ d.windows[i] \in TopLevel(d)
                            => now.rect[d.windows[i]] = was.rect[d.windows[i]]
      BY <3>4, <3>5, <3>7 DEF Rests
    <3>9. Unmoved(now, k + 1)
      <4>1. \A i \in 1..m : i > k + 1 => i > k /\ i # k + 1
        BY <3>1
      <4> QED BY <3>3, <3>8, <4>1
    <3>10. Snug(now, k + 1)
      <4>1. ASSUME w \in TopLevel(d), a \in Tiled(d), d.rect[w] = d.tile[a]
            PROVE  now.rect[w] = laid.tile[a]
        <5>1. was.rect[w] = d.rect[w]
          <6>1. k + 1 > k
            BY <3>1
          <6> QED BY <3>1, <3>3, <4>1, <6>1 DEF w
        <5>2. AppOf(was, w) = a /\ was.old_tile[a] = d.tile[a] /\ was.tile[a] = laid.tile[a]
          BY <2>4, <3>3, <4>1 DEF TopLevel
        <5>3. d.tile[a] \in AnyRect
          <6>1. a \in Known(d)
            BY <2>1, <4>1 DEF DeskOK, Tiled
          <6> QED BY <6>1 DEF DeskListed, Listed
        <5> HIDE DEF a
        <5> QED BY <3>4, <3>5, <4>1, <5>1, <5>2, <5>3
      <4> SUFFICES ASSUME NEW i \in 1..m, d.windows[i] \in TopLevel(d), i <= k + 1,
                          AppOf(d, d.windows[i]) \in Tiled(d),
                          d.rect[d.windows[i]] = d.tile[AppOf(d, d.windows[i])]
                   PROVE  now.rect[d.windows[i]] = laid.tile[AppOf(d, d.windows[i])]
        OBVIOUS
      <4>2. CASE i = k + 1
        BY <4>1, <4>2 DEF w
      <4>3. CASE i # k + 1
        <5>1. i <= k
          BY <3>1, <4>3
        <5> QED BY <3>3, <3>8, <4>3, <5>1
      <4> QED BY <4>2, <4>3
    <3> HIDE DEF Same, Unmoved, Snug
    <3> QED BY <3>1, <3>6, <3>9, <3>10 DEF now
  <2>10. Same(e) /\ Snug(e, m)
    <3> HIDE DEF G
    <3>1. 0..m \subseteq G
      BY <2>1, <2>8, <2>9, Reaches
    <3>2. m \in G
      BY <2>1, <3>1
    <3> QED BY <2>3, <3>2 DEF G
  <2>11. Tiled(e) = Tiled(d) /\ TopLevel(e) = TopLevel(d)
    BY <2>10 DEF Tiled, TopLevel
  <2>12. ASSUME NEW w \in TopLevel(d), AppOf(d, w) \in Tiled(d), d.rect[w] = d.tile[AppOf(d, w)]
         PROVE  e.rect[w] = e.tile[AppOf(d, w)]
    <3>1. PICK i \in 1..m : d.windows[i] = w
      BY <2>1 DEF TopLevel
    <3>2. i <= m
      BY <2>1
    <3> QED BY <2>10, <2>12, <3>1, <3>2
  <2> QED BY <2>10, <2>11, <2>12 DEF e
<1> QED BY <1>1, <1>2

LEMMA RefitRests ==
    ASSUME NEW d, DeskListed(d), NEW outs, NEW e \in Refitted(d, outs)
    PROVE  /\ DeskListed(e) /\ KeepsTiles(d, e) /\ TopLevel(e) = TopLevel(d)
           /\ \A x \in TopLevel(d) \ d.fullscreen : e.rect[x] = d.rect[x]
<1> DEFINE m == Cardinality(d.fullscreen)
<1>1. IsFiniteSet(d.fullscreen) /\ DOMAIN d = DeskFields /\ d.fullscreen \subseteq Windows
  BY DEF DeskListed, DeskOK, Listed
<1>2. PICK order \in Orders(d) : \E fit : Fitting(d, outs, order, fit, e)
  BY <1>1, FitsOneByOne
<1>3. PICK fit : Fitting(d, outs, order, fit, e)
  BY <1>2
<1>4. m \in Nat
  BY <1>1, FS_CardinalityType
<1>5. fit[0] = d /\ fit[m] = e /\ \A k \in 1..m : fit[k] = Refit(fit[k - 1], outs, order[k])
  BY <1>3 DEF Fitting
<1>6. \A k \in 1..m : order[k] \in d.fullscreen
  BY <1>2 DEF Orders
<1> HIDE DEF m
<1> DEFINE G == {k \in 0..m : /\ DeskListed(fit[k]) /\ TopLevel(fit[k]) = TopLevel(d)
                              /\ \A x \in TopLevel(d) \ d.fullscreen : fit[k].rect[x] = d.rect[x]}
<1>7. 0 \in G
  BY <1>4, <1>5
<1>8. ASSUME NEW k \in 0..m, k < m, k \in G PROVE k + 1 \in G
  <2> DEFINE was == fit[k]
             now == fit[k + 1]
             w == order[k + 1]
             r == fullscreen_rect_for(outs, was.info[w], was.rect[w])
  <2>1. k + 1 \in 0..m /\ k + 1 \in 1..m /\ k + 1 - 1 = k
    BY <1>4, <1>8
  <2>2. now = Refit(was, outs, w) /\ w \in d.fullscreen /\ w \in Windows
    BY <1>1, <1>5, <1>6, <2>1
  <2>3. now = place_and_size(was, w, r)
    BY <2>2 DEF Refit
  <2>4. /\ DeskListed(was) /\ TopLevel(was) = TopLevel(d)
        /\ \A x \in TopLevel(d) \ d.fullscreen : was.rect[x] = d.rect[x]
    BY <1>8
  <2> HIDE DEF was, now, w, r
  <2>5. DeskListed(now) /\ Rests(was, now, w)
    BY <2>2, <2>3, <2>4, PlaceRests
  <2>6. TopLevel(now) = TopLevel(d)
    BY <2>4, <2>5 DEF Rests, TopLevel
  <2>7. \A x \in TopLevel(d) \ d.fullscreen : now.rect[x] = d.rect[x]
    BY <2>2, <2>4, <2>5 DEF Rests
  <2> QED BY <2>1, <2>5, <2>6, <2>7 DEF now
<1>9. m \in G
  <2> HIDE DEF G
  <2>1. 0..m \subseteq G
    BY <1>4, <1>7, <1>8, Reaches
  <2> QED BY <1>4, <2>1
<1>10. KeepsTiles(d, e)
  BY <1>1, RefitKeeps
<1> QED BY <1>5, <1>9, <1>10

-----------------------------------------------------------------------------
(* The requests.                                                           *)

\* From d to e the windows without a parent stay where they are, and so does
\* the tile of their application if it is one of its own afterwards.
Stays(d, e) ==
    \A w \in TopLevel(d) \cap TopLevel(e) :
        /\ AppOf(e, w) = AppOf(d, w)
        /\ AppOf(d, w) \in Tiled(e) =>
                e.rect[w] = d.rect[w] /\ e.tile[AppOf(d, w)] = d.tile[AppOf(d, w)]

LEMMA PushListed ==
    ASSUME NEW d, DeskListed(d), NEW a \in Known(d)
    PROVE  LET e == push(d, a)
           IN  /\ DeskListed(e) /\ TopLevel(e) = TopLevel(d) /\ Known(e) = Known(d)
               /\ e.info = d.info /\ e.rect = d.rect /\ e.tile = d.tile
<1> DEFINE e == push(d, a)
<1>1. DeskOK(e)
  BY PushDesk DEF DeskListed
<1>2. /\ e.windows = d.windows /\ e.info = d.info /\ e.rect = d.rect /\ e.tile = d.tile
      /\ e.fullscreen = d.fullscreen
  BY DEF DeskListed, DeskOK, DeskFields, push
<1> HIDE DEF e
<1>3. Live(e) = Live(d) /\ Known(e) = Known(d) /\ TopLevel(e) = TopLevel(d)
  BY <1>2 DEF Live, Known, TopLevel
<1>4. Listed(e)
  BY <1>2, <1>3 DEF DeskListed, Listed
<1> QED BY <1>1, <1>2, <1>3, <1>4 DEF DeskListed, e

LEMMA GainedListed ==
    ASSUME NEW d, DeskListed(d), NEW f \in Live(d) \cup {NoWindow}
    PROVE  LET e == gained(d, f)
           IN  /\ DeskListed(e) /\ TopLevel(e) = TopLevel(d) /\ Known(e) = Known(d)
               /\ e.info = d.info /\ e.rect = d.rect /\ e.tile = d.tile
<1>1. CASE f = NoWindow
  BY <1>1 DEF gained
<1>2. CASE f # NoWindow
  <2>1. AppOf(d, f) \in Known(d)
    BY <1>2 DEF DeskListed, DeskOK, InfoOK, AppOf
  <2>2. gained(d, f) = push(d, AppOf(d, f))
    BY <1>2 DEF gained
  <2> QED BY <2>1, <2>2, PushListed
<1> QED BY <1>1, <1>2

LEMMA BuiltListed ==
    ASSUME NEW d, DeskListed(d), NEW w \in Windows \ Live(d), NEW e, DeskOK(e), e.tile = d.tile,
           e.tiles = d.tiles, Adds(d, e, w)
    PROVE  DeskListed(e) /\ Stays(d, e)
<1> DEFINE n == Len(d.windows)
<1>1. /\ d.windows \in Seq(Windows) /\ n \in Nat /\ DOMAIN d.windows = 1..n
      /\ DOMAIN e.windows = 1..(n + 1) /\ e.windows[n + 1] = w
      /\ \A i \in 1..n : e.windows[i] = d.windows[i]
  BY AppendProperties DEF DeskListed, DeskOK, Adds
<1> HIDE DEF n
<1>2. \A i \in 1..(n + 1) : i = n + 1 \/ i \in 1..n
  BY <1>1
<1>3. /\ \A i \in 1..n : d.windows[i] \in Live(d)
      /\ \A i, j \in 1..n : d.windows[i] = d.windows[j] => i = j
  BY <1>1 DEF DeskListed, Listed
<1>4. Live(e) = Live(d) \cup {w}
  BY DEF Adds
<1>5. \A i \in DOMAIN e.windows : e.windows[i] \in Live(e)
  BY <1>1, <1>2, <1>3, <1>4
<1>6. \A i, j \in DOMAIN e.windows : e.windows[i] = e.windows[j] => i = j
  BY <1>1, <1>2, <1>3
<1>7. /\ DOMAIN e.rect = Live(e)
      /\ \A x \in Live(d) : e.rect[x] = d.rect[x]
  <2>1. PICK r : e.rect = Assign(d.rect, w, r)
    BY DEF Adds
  <2>2. DOMAIN d.rect = Live(d)
    BY DEF DeskListed, Listed
  <2> QED BY <1>4, <2>1, <2>2 DEF Assign
<1>8. \A x \in Live(e) : "parent" \in DOMAIN e.info[x]
  BY DEF Adds, DeskListed, Listed
<1>9. e.fullscreen \subseteq Windows /\ \A a \in Known(e) : e.tile[a] \in AnyRect
  BY DEF Adds, DeskListed, Listed, Known
<1>10. DeskListed(e)
  BY <1>5, <1>6, <1>7, <1>8, <1>9 DEF DeskListed, Listed
<1>11. Stays(d, e)
  BY <1>7 DEF Stays, Adds, TopLevel, AppOf
<1> QED BY <1>10, <1>11

LEMMA RemovedListed ==
    ASSUME NEW d, DeskListed(d), NEW w, NEW e, DeskOK(e), e.tile = d.tile,
           e.tiles = d.tiles, Drops(d, e, w)
    PROVE  DeskListed(e) /\ Stays(d, e)
<1> DEFINE S == {i \in DOMAIN d.windows : d.windows[i] # w}
           n == Len(e.windows)
<1>1. n \in Nat /\ DOMAIN e.windows = 1..n
  BY DEF Drops
<1>2. PICK h : Picks(h, e.windows, d.windows, S)
  BY DEF Drops
<1> HIDE DEF n
<1>3. /\ \A i \in 1..n : h[i] \in S /\ e.windows[i] = d.windows[h[i]]
      /\ \A i, j \in 1..n : h[i] = h[j] => i = j
  BY <1>2 DEF Picks, n
<1>4. Live(e) = Live(d) \ {w} /\ e.rect = [x \in Live(e) |-> d.rect[x]]
  BY DEF Drops
<1>5. \A i \in S : d.windows[i] \in Live(e) /\ i \in DOMAIN d.windows
  BY <1>4 DEF DeskListed, Listed
<1>6. \A i, j \in DOMAIN d.windows : d.windows[i] = d.windows[j] => i = j
  BY DEF DeskListed, Listed
<1> HIDE DEF S
<1>7. \A i \in DOMAIN e.windows : e.windows[i] \in Live(e)
  BY <1>1, <1>3, <1>5
<1>8. \A i, j \in DOMAIN e.windows : e.windows[i] = e.windows[j] => i = j
  BY <1>1, <1>3, <1>5, <1>6
<1>9. DOMAIN e.rect = Live(e) /\ \A x \in Live(e) : "parent" \in DOMAIN e.info[x]
  BY <1>4 DEF Drops, DeskListed, Listed
<1>10. e.fullscreen \subseteq Windows /\ \A a \in Known(e) : e.tile[a] \in AnyRect
  BY DEF Drops, DeskListed, Listed, Known
<1>11. DeskListed(e)
  BY <1>7, <1>8, <1>9, <1>10 DEF DeskListed, Listed
<1>12. \A x \in Live(e) : x \in Live(d) /\ AppOf(e, x) = AppOf(d, x) /\ e.rect[x] = d.rect[x]
  BY <1>4 DEF Drops, DeskListed, DeskOK, InfoOK, AppOf
<1>13. Stays(d, e)
  BY <1>12 DEF Stays, TopLevel
<1> QED BY <1>11, <1>13

\* What FillsTile says of a step that changes no windows.
StepFills ==
    \A w \in TopLevel(desk) \cap TopLevel(desk') :
        LET a == AppOf(desk, w)
        IN  /\ a \in Tiled(desk') /\ w \notin desk.fullscreen
            /\ desk.rect[w] = desk.tile[a]
            => desk'.rect[w] = desk'.tile[a]

LEMMA SameFills ==
    ASSUME Listed(desk), UNCHANGED desk
    PROVE  Listed(desk)' /\ StepFills
<1>1. Listed(desk')
  OBVIOUS
<1>2. StepFills
  BY DEF StepFills
<1> QED BY <1>1, <1>2

\* A request that lays out the tiles or none.
LEMMA RequestFills ==
    ASSUME TilesOK, NEW d, NEW dirty, Request(d, dirty), DeskListed(d)
    PROVE  Listed(desk)' /\ (Stays(desk, d) => StepFills)
<1>1. CASE dirty
  <2>1. desk' = update_tiles(d, displays)
    BY <1>1 DEF Request, request_end
  <2>2. /\ DeskListed(desk') /\ TopLevel(desk') = TopLevel(d) /\ Tiled(desk') = Tiled(d)
        /\ \A w \in TopLevel(d) :
             AppOf(d, w) \in Tiled(d) /\ d.rect[w] = d.tile[AppOf(d, w)]
                 => desk'.rect[w] = desk'.tile[AppOf(d, w)]
    BY <2>1, LaidFills DEF TilesOK
  <2>3. Listed(desk')
    BY <2>2 DEF DeskListed
  <2>4. Stays(desk, d) => StepFills
    BY <2>2 DEF Stays, StepFills
  <2> QED BY <2>3, <2>4
<1>2. CASE ~dirty
  <2>1. desk' = d
    BY <1>2 DEF Request
  <2>2. Listed(desk')
    BY <2>1 DEF DeskListed
  <2>3. Stays(desk, d) => StepFills
    BY <2>1 DEF Stays, StepFills
  <2> QED BY <2>2, <2>3
<1> QED BY <1>1, <1>2

LEMMA GuessType ==
    ASSUME NEW areas \in Seq(Rects), NEW none
    PROVE  LET all == bounding_rectangle(areas)
           IN  (IF none THEN all ELSE [all EXCEPT !.size.width = Half(Span(all.size)).x]) \in AnyRect
<1> DEFINE all == bounding_rectangle(areas)
           half == Half(Span(all.size)).x
<1>1. all \in AnyRect
  <2>1. areas = <<>> => all = NoArea
    BY DEF bounding_rectangle
  <2>2. Origin \in Points /\ Size(0, 0) \in Sizes
    BY RectType DEF Origin
  <2>3. NoArea \in AnyRect
    BY <2>2, RectType DEF NoArea
  <2>4. areas # <<>> => all \in Rects
    BY Bounding
  <2> QED BY <2>1, <2>3, <2>4, RectType
<1> HIDE DEF all
<1>2. /\ all.top_left \in Points /\ all.size.width \in Int /\ all.size.height \in Int
      /\ all = Rect(all.top_left, all.size) /\ all.size = Size(all.size.width, all.size.height)
  BY <1>1, RectType
<1>3. half \in Int
  <2>1. half = Quot(all.size.width, 2)
    BY DEF Half, Span, Point
  <2> QED BY <1>2, <2>1, Fractions
<1> HIDE DEF half
<1>4. [all EXCEPT !.size.width = half] = Rect(all.top_left, Size(half, all.size.height))
  BY <1>2 DEF Rect, Size
<1>5. Size(half, all.size.height) \in Sizes
  BY <1>2, <1>3, RectType
<1>6. [all EXCEPT !.size.width = half] \in AnyRect
  BY <1>2, <1>4, <1>5, RectType
<1> QED BY <1>1, <1>6 DEF all, half

LEMMA ClientFills ==
    ASSUME TilesOK, Listed(desk), Client
    PROVE  Listed(desk)' /\ StepFills
<1>0. DeskListed(desk) /\ DOMAIN desk = DeskFields /\ Live(desk) \subseteq Windows
  BY DEF DeskListed, DeskOK, TilesOK
<1>1. CASE advise_new_app
  <2> DEFINE all == bounding_rectangle(displays)
             guess == IF desk.tiles = <<>> THEN all
                      ELSE [all EXCEPT !.size.width = Half(Span(all.size)).x]
  <2>1. PICK a \in Apps \ Known(desk) :
            Request([desk EXCEPT !.tile = Assign(@, a, guess), !.old_tile = Assign(@, a, NoArea)], FALSE)
    BY <1>1, Zenon DEF advise_new_app
  <2>2. guess \in AnyRect
    BY GuessType DEF TilesOK
  <2> HIDE DEF guess
  <2> DEFINE e == WithApp(desk, a, guess)
  <2>3. Request(e, FALSE)
    BY <2>1, Zenon DEF WithApp
  <2>4. DeskOK(e)
    BY NewAppDesk DEF TilesOK
  <2>5. /\ e.windows = desk.windows /\ e.info = desk.info /\ e.rect = desk.rect /\ e.tiles = desk.tiles
        /\ e.fullscreen = desk.fullscreen /\ e.tile = Assign(desk.tile, a, guess)
    BY <1>0 DEF DeskFields, WithApp
  <2> HIDE DEF e
  <2>6. /\ Known(e) = Known(desk) \cup {a} /\ e.tile[a] = guess
        /\ \A b \in Known(desk) : e.tile[b] = desk.tile[b]
    BY <2>5 DEF Assign, Known
  <2>7. Live(e) = Live(desk) /\ TopLevel(e) = TopLevel(desk)
    BY <2>5 DEF Live, TopLevel
  <2>8. DeskListed(e)
    BY <2>2, <2>4, <2>5, <2>6, <2>7 DEF DeskListed, Listed
  <2>9. Stays(desk, e)
    <3>1. \A w \in TopLevel(desk) : AppOf(desk, w) \in Known(desk)
      BY <1>0 DEF DeskListed, DeskOK, InfoOK, AppOf, TopLevel
    <3> QED BY <2>5, <2>6, <3>1 DEF Stays, AppOf
  <2> QED BY <2>3, <2>8, <2>9, RequestFills
<1>2. CASE advise_delete_app
  <2> DEFINE e(a) == [erase(desk, a) EXCEPT !.tile = [b \in Known(desk) \ {a} |-> @[b]],
                                            !.old_tile = [b \in Known(desk) \ {a} |-> @[b]]]
  <2>1. PICK a \in Known(desk) : Own(desk, a) = <<>> /\ Request(e(a), TRUE)
    BY <1>2, Zenon DEF advise_delete_app
  <2> DEFINE d == e(a)
  <2>2. DeskOK(d)
    BY <2>1, ErasedDesk DEF TilesOK
  <2>3. /\ d.windows = desk.windows /\ d.info = desk.info /\ d.rect = desk.rect
        /\ d.fullscreen = desk.fullscreen /\ d.tile = [b \in Known(desk) \ {a} |-> desk.tile[b]]
    BY <1>0 DEF DeskFields, erase
  <2>4. Request(d, TRUE)
    BY <2>1
  <2> HIDE DEF e, d
  <2>5. Live(d) = Live(desk) /\ TopLevel(d) = TopLevel(desk) /\ Known(d) = Known(desk) \ {a}
    BY <2>3 DEF Live, TopLevel, Known
  <2>6. DeskListed(d)
    BY <1>0, <2>2, <2>3, <2>5 DEF DeskListed, Listed
  <2>7. Stays(desk, d)
    <3>1. Tiled(d) \subseteq Known(d)
      BY <2>2 DEF DeskOK, Tiled
    <3> QED BY <2>3, <2>5, <3>1 DEF Stays, AppOf
  <2> QED BY <2>4, <2>6, <2>7, RequestFills
<1>3. CASE add_surface
  <2>1. PICK a \in Known(desk), params \in Creations, w \in Windows \ Live(desk), ctx \in Contexts(desk) :
          \E p \in IF params.parent THEN {x \in Live(desk) : AppOf(desk, x) = a} ELSE {NoWindow} :
              LET chosen == NewSurface([desk EXCEPT !.windows = Own(desk, a)], params, p, ctx)
                  built  == Built(desk, w, place_new_window(desk, a, chosen, p), p)
                  d      == [built EXCEPT !.info[w] = Assign(Assign(@, "app", a), "ready", FALSE)]
              IN  Request(advise_new_window(d, w), FALSE)
    BY <1>3, Zenon DEF add_surface
  <2>2. \E spec, p : Request(advise_new_window(WithWindow(desk, w, spec, p, a), w), FALSE)
    BY <2>1, Zenon DEF WithWindow
  <2>3. PICK spec, p : Request(advise_new_window(WithWindow(desk, w, spec, p, a), w), FALSE)
    BY <2>2
  <2> DEFINE e == WithWindow(desk, w, spec, p, a)
             f == advise_new_window(e, w)
  <2>4. DeskOK(e) /\ e.tile = desk.tile /\ e.tiles = desk.tiles /\ Adds(desk, e, w)
    BY BuiltDesk DEF TilesOK
  <2>5. Request(f, FALSE)
    BY <2>3
  <2> HIDE DEF e
  <2>6. DeskListed(e) /\ Stays(desk, e)
    BY <1>0, <2>4, BuiltListed
  <2>7. DeskListed(f) /\ Rests(e, f, w)
    <3>1. Rests(e, e, w)
      BY DEF Rests
    <3>2. f = e \/ \E mods : f = modify_window(e, w, mods, NoContext)
      BY Zenon DEF advise_new_window
    <3> QED BY <2>6, <3>1, <3>2, ModifyRests
  <2> HIDE DEF f
  <2>8. Stays(desk, f)
    <3>1. w \notin TopLevel(desk)
      BY DEF TopLevel
    <3>2. TopLevel(f) = TopLevel(e) /\ Tiled(f) = Tiled(e)
      BY <2>7 DEF Rests, TopLevel, Tiled
    <3>3. \A x \in TopLevel(desk) \cap TopLevel(e) :
            x \in Live(e) /\ AppOf(f, x) = AppOf(e, x) /\ f.rect[x] = e.rect[x] /\ f.tile = e.tile
      BY <2>7, <3>1 DEF Rests, TopLevel
    <3> QED BY <2>6, <3>2, <3>3 DEF Stays
  <2> QED BY <2>5, <2>7, <2>8, RequestFills
<1>4. CASE handle_window_ready
  <2> DEFINE d(w) == [desk EXCEPT !.info[w].ready = TRUE]
  <2>1. PICK w \in Live(desk) :
            \E f \in IF can_be_active(desk.info[w].type) THEN Selected(desk, w) \cup {NoWindow}
                     ELSE {NoWindow} :
                Request(push(gained(d(w), f), AppOf(d(w), w)), TRUE)
    BY <1>4, Zenon DEF handle_window_ready
  <2>2. \E f \in Selected(desk, w) \cup {NoWindow} : Request(push(gained(d(w), f), AppOf(d(w), w)), TRUE)
    BY <2>1, Zenon
  <2>3. PICK f \in Selected(desk, w) \cup {NoWindow} : Request(push(gained(d(w), f), AppOf(d(w), w)), TRUE)
    BY <2>2
  <2> DEFINE e == d(w)
             g == gained(e, f)
             h == push(g, AppOf(e, w))
  <2>4. KeepsTiles(desk, e)
    BY <1>0 DEF KeepsTiles, DeskFields
  <2>5. /\ e.rect = desk.rect /\ e.fullscreen = desk.fullscreen
        /\ e.info = [desk.info EXCEPT ![w].ready = TRUE] /\ e.tile = desk.tile
    BY <1>0 DEF DeskFields
  <2>6. f \in Live(desk) \cup {NoWindow} /\ Live(e) = Live(desk)
    BY <2>4 DEF Selected, Focusable, KeepsTiles, Live
  <2>7. Request(h, TRUE)
    BY <2>3
  <2> HIDE DEF d, e
  <2>8. \A x \in Live(desk) : "parent" \in DOMAIN e.info[x] /\ e.info[x].parent = desk.info[x].parent
    BY <1>0, <2>5 DEF DeskListed, Listed, Live
  <2>9. DeskListed(e)
    BY <1>0, <2>4, <2>5, <2>6, <2>8, RestsListed DEF DeskListed, Listed, Live
  <2>10. TopLevel(e) = TopLevel(desk)
    BY <2>6, <2>8 DEF TopLevel
  <2>11. /\ DeskListed(g) /\ TopLevel(g) = TopLevel(e) /\ Known(g) = Known(e)
         /\ g.info = e.info /\ g.rect = e.rect /\ g.tile = e.tile
    BY <2>6, <2>9, GainedListed
  <2>12. AppOf(e, w) \in Known(e)
    BY <2>6, <2>9 DEF DeskListed, DeskOK, InfoOK, AppOf
  <2> HIDE DEF g
  <2>13. /\ DeskListed(h) /\ TopLevel(h) = TopLevel(g)
         /\ h.info = g.info /\ h.rect = g.rect /\ h.tile = g.tile
    BY <2>11, <2>12, PushListed
  <2> HIDE DEF h
  <2>14. Stays(desk, h)
    <3>1. \A x \in TopLevel(desk) : AppOf(e, x) = AppOf(desk, x)
      BY <1>0, <2>4, AppKept DEF DeskListed, TopLevel
    <3>2. \A x : AppOf(h, x) = AppOf(e, x)
      BY <2>11, <2>13 DEF AppOf
    <3> QED BY <2>5, <2>11, <2>13, <3>1, <3>2 DEF Stays
  <2> QED BY <2>7, <2>13, <2>14, RequestFills
<1>5. CASE remove_surface
  <2>1. PICK w \in Live(desk) : \E f \in Focusable(Removed(desk, w)) \cup {NoWindow} :
                                    Request(gained(Removed(desk, w), f), f # NoWindow)
    BY <1>5, Zenon DEF remove_surface
  <2>2. PICK f \in Focusable(Removed(desk, w)) \cup {NoWindow} :
                                    Request(gained(Removed(desk, w), f), f # NoWindow)
    BY <2>1
  <2> DEFINE d == Removed(desk, w)
             g == gained(d, f)
  <2>3. DeskOK(d) /\ d.tile = desk.tile /\ d.tiles = desk.tiles /\ Drops(desk, d, w)
    BY RemovedDesk DEF TilesOK
  <2>4. Request(g, f # NoWindow) /\ f \in Live(d) \cup {NoWindow}
    BY <2>2 DEF Focusable
  <2> HIDE DEF d
  <2>5. DeskListed(d) /\ Stays(desk, d)
    BY <1>0, <2>3, RemovedListed
  <2>6. /\ DeskListed(g) /\ TopLevel(g) = TopLevel(d)
        /\ g.info = d.info /\ g.rect = d.rect /\ g.tile = d.tile
    BY <2>4, <2>5, GainedListed
  <2> HIDE DEF g
  <2>7. \A x \in Live(d) : AppOf(d, x) = AppOf(desk, x) /\ d.rect[x] = desk.rect[x]
    BY <1>0, <2>3 DEF Drops, DeskListed, DeskOK, InfoOK, AppOf
  <2>8. \A x : AppOf(g, x) = AppOf(d, x)
    BY <2>6 DEF AppOf
  <2>9. Stays(desk, g)
    BY <2>3, <2>6, <2>7, <2>8 DEF Stays, TopLevel
  <2> QED BY <2>4, <2>6, <2>9, RequestFills
<1>6. CASE select
  <2>1. PICK f \in Focusable(desk) : Request(gained(desk, f), TRUE)
    BY <1>6 DEF select
  <2>2. f \in Live(desk) \cup {NoWindow}
    BY DEF Focusable
  <2> DEFINE g == gained(desk, f)
  <2>3. /\ DeskListed(g) /\ TopLevel(g) = TopLevel(desk)
        /\ g.info = desk.info /\ g.rect = desk.rect /\ g.tile = desk.tile
    BY <1>0, <2>2, GainedListed
  <2>4. Request(g, TRUE)
    BY <2>1
  <2> HIDE DEF g
  <2>5. Stays(desk, g)
    BY <2>3 DEF Stays, AppOf
  <2> QED BY <2>3, <2>4, <2>5, RequestFills
<1> QED BY <1>1, <1>2, <1>3, <1>4, <1>5, <1>6 DEF Client

LEMMA UseListed ==
    ASSUME TilesOK, Listed(desk), Use
    PROVE  Listed(desk)'
<1>0. DeskListed(desk) /\ DOMAIN desk = DeskFields /\ Live(desk) \subseteq Windows
  BY DEF DeskListed, DeskOK, TilesOK
<1>1. ASSUME NEW d, DeskListed(d), Live(d) = Live(desk), NEW f \in Live(desk) \cup {NoWindow},
             NEW dirty, Request(gained(d, f), dirty)
      PROVE  Listed(desk)'
  <2> DEFINE g == gained(d, f)
  <2>1. DeskListed(g)
    BY <1>1, GainedListed
  <2> QED BY <1>1, <2>1, RequestFills
<1>2. ASSUME NEW w \in Windows, NEW mods, NEW ctx
      PROVE  LET d == modify_window(desk, w, mods, ctx)
             IN  DeskListed(d) /\ Live(d) = Live(desk)
  BY <1>0, ModifyRests DEF Rests
<1>3. CASE handle_modify_window
  <2>1. PICK w \in Live(desk), request \in Requests : \E ctx \in ContextsOf(desk, request) :
          LET asked == from_modification(request)
              mods  == constrain_size_and_place(
                          place_and_size_for_state(outputs, asked, desk.info[w], desk.rect[w]),
                          desk.rect[w], desk.tile[AppOf(desk, w)])
              d     == modify_window(desk, w, Consume(mods, "output_id"), ctx)
              hides == value_or(asked, "state", "restored") \in HiddenStates
          IN  /\ size_accepted(asked)
              /\ \E f \in IF hides THEN Focusable(d) \cup {NoWindow} ELSE {NoWindow} :
                      Request(gained(d, f), f # NoWindow)
    BY <1>3, Zenon DEF handle_modify_window
  <2>2. \E mods, ctx : \E f \in Focusable(modify_window(desk, w, mods, ctx)) \cup {NoWindow} :
            Request(gained(modify_window(desk, w, mods, ctx), f), f # NoWindow)
    BY <2>1, Zenon
  <2>3. PICK mods, ctx : \E f \in Focusable(modify_window(desk, w, mods, ctx)) \cup {NoWindow} :
            Request(gained(modify_window(desk, w, mods, ctx), f), f # NoWindow)
    BY <2>2
  <2> DEFINE d == modify_window(desk, w, mods, ctx)
  <2>4. DeskListed(d) /\ Live(d) = Live(desk)
    BY <1>0, <1>2
  <2>5. PICK f \in Focusable(d) \cup {NoWindow} : Request(gained(d, f), f # NoWindow)
    BY <2>3
  <2> HIDE DEF d
  <2>6. f \in Live(desk) \cup {NoWindow}
    BY <2>4 DEF Focusable
  <2> QED BY <1>1, <2>4, <2>5, <2>6
<1>4. CASE drag
  <2>1. \E mods : \E w \in Focusable(desk) :
            Request(gained(modify_window(desk, w, mods, NoContext), w), TRUE)
    BY <1>4, Zenon DEF drag
  <2>2. PICK mods : \E w \in Focusable(desk) :
            Request(gained(modify_window(desk, w, mods, NoContext), w), TRUE)
    BY <2>1
  <2>3. PICK w \in Focusable(desk) : Request(gained(modify_window(desk, w, mods, NoContext), w), TRUE)
    BY <2>2
  <2> DEFINE d == modify_window(desk, w, mods, NoContext)
  <2>4. w \in Live(desk) /\ w \in Windows
    BY <1>0 DEF Focusable
  <2>5. DeskListed(d) /\ Live(d) = Live(desk)
    BY <1>2, <2>4
  <2>6. Request(gained(d, w), TRUE)
    BY <2>3
  <2> HIDE DEF d
  <2> QED BY <1>1, <2>4, <2>5, <2>6
<1>5. CASE resize
  <2>1. \E size : \E w \in Focusable(desk) :
            Request(gained([desk EXCEPT !.rect[w].size = size], w), TRUE)
    BY <1>5, Zenon DEF resize
  <2>2. PICK size : \E w \in Focusable(desk) :
            Request(gained([desk EXCEPT !.rect[w].size = size], w), TRUE)
    BY <2>1
  <2>3. PICK w \in Focusable(desk) : Request(gained([desk EXCEPT !.rect[w].size = size], w), TRUE)
    BY <2>2
  <2> DEFINE d == [desk EXCEPT !.rect[w].size = size]
  <2>4. KeepsTiles(desk, d) /\ w \in Live(desk)
    BY <1>0 DEF KeepsTiles, DeskFields, Focusable
  <2>5. d.info = desk.info /\ DOMAIN d.rect = DOMAIN desk.rect /\ d.fullscreen = desk.fullscreen
    BY <1>0 DEF DeskFields
  <2>6. Request(gained(d, w), TRUE)
    BY <2>3
  <2> HIDE DEF d
  <2>7. DeskListed(d)
    BY <1>0, <2>4, <2>5, RestsListed DEF DeskListed, Listed, Live
  <2>8. Live(d) = Live(desk)
    BY <2>5 DEF Live
  <2> QED BY <1>1, <2>4, <2>6, <2>7, <2>8
<1>6. ASSUME NEW state, toggle(state) PROVE Listed(desk)'
  <2>1. PICK w \in Focusable(desk) : \E mods : Request(modify_window(desk, w, mods, NoContext), FALSE)
    BY <1>6, Zenon DEF toggle
  <2>2. PICK mods : Request(modify_window(desk, w, mods, NoContext), FALSE)
    BY <2>1
  <2>3. w \in Windows
    BY <1>0 DEF Focusable
  <2> QED BY <1>2, <2>2, <2>3, RequestFills
<1>7. CASE select
  BY <1>7, ClientFills DEF Client
<1> QED BY <1>3, <1>4, <1>5, <1>6, <1>7 DEF Use, handle_touch_event, handle_keyboard_event

LEMMA OutputsFill ==
    ASSUME TilesOK, Listed(desk), OutputsAdvised
    PROVE  Listed(desk)' /\ StepFills
<1>0. DeskListed(desk)
  BY DEF DeskListed, TilesOK
<1>1. CASE OutputAdvised
  BY <1>1, SameFills DEF OutputAdvised
<1>2. CASE advise_output_end
  <2>1. desk' = IF dirty_displays THEN update_tiles(desk, live_displays) ELSE desk
    BY <1>2 DEF advise_output_end
  <2>2. CASE dirty_displays
    <3>1. /\ DeskListed(desk') /\ TopLevel(desk') = TopLevel(desk) /\ Tiled(desk') = Tiled(desk)
          /\ \A w \in TopLevel(desk) :
               AppOf(desk, w) \in Tiled(desk) /\ desk.rect[w] = desk.tile[AppOf(desk, w)]
                   => desk'.rect[w] = desk'.tile[AppOf(desk, w)]
      BY <1>0, <2>1, <2>2, LaidFills DEF TilesOK
    <3>2. Listed(desk')
      BY <3>1 DEF DeskListed
    <3>3. StepFills
      BY <3>1 DEF StepFills
    <3> QED BY <3>2, <3>3
  <2>3. CASE ~dirty_displays
    BY <2>1, <2>3, SameFills
  <2> QED BY <2>2, <2>3
<1>3. CASE DisplaysReplaced
  <2>1. \E now : desk' \in Refitted(desk, now)
    BY <1>3, Zenon DEF DisplaysReplaced
  <2>2. PICK now : desk' \in Refitted(desk, now)
    BY <2>1
  <2>3. /\ DeskListed(desk') /\ KeepsTiles(desk, desk') /\ TopLevel(desk') = TopLevel(desk)
        /\ \A x \in TopLevel(desk) \ desk.fullscreen : desk'.rect[x] = desk.rect[x]
    BY <1>0, <2>2, RefitRests
  <2>4. Listed(desk')
    BY <2>3 DEF DeskListed
  <2>5. StepFills
    BY <2>3 DEF StepFills, KeepsTiles
  <2> QED BY <2>4, <2>5
<1> QED BY <1>1, <1>2, <1>3 DEF OutputsAdvised

LEMMA FillsInit ==
    ASSUME Init
    PROVE  Listed(desk) /\ uses \in Nat
<1>1. /\ desk.windows = <<>> /\ desk.info = NothingSet /\ desk.rect = NothingSet
      /\ desk.fullscreen = {} /\ desk.tile = NothingSet /\ uses = 0
  BY DEF Init
<1>2. DOMAIN NothingSet = {}
  BY DEF NothingSet
<1> QED BY <1>1, <1>2 DEF Listed, Live, Known

LEMMA FillsStep ==
    ASSUME TilesOK, Listed(desk), uses \in Nat, [Next]_vars
    PROVE  /\ Listed(desk)' /\ uses' \in Nat
           /\ uses' = uses => StepFills
<1>1. CASE Client /\ UNCHANGED uses
  BY <1>1, ClientFills
<1>2. CASE Use /\ uses' = uses + 1
  BY <1>2, UseListed
<1>3. CASE Reconfigured
  BY <1>3, SameFills DEF Reconfigured
<1>4. CASE OutputsAdvised
  <2>1. uses' = uses
    <3>1. OutputAdvised \/ advise_output_end => uses' = uses
      BY DEF OutputAdvised, advise_output_end
    <3>2. DisplaysReplaced => uses' = uses
      BY Zenon DEF DisplaysReplaced
    <3> QED BY <1>4, <3>1, <3>2 DEF OutputsAdvised
  <2> QED BY <1>4, <2>1, OutputsFill
<1>5. CASE UNCHANGED vars
  BY <1>5, SameFills DEF vars, tiling_vars
<1> QED BY <1>1, <1>2, <1>3, <1>4, <1>5 DEF Next

\* A window without a parent that fills the tile of its application fills the
\* next one, whatever lays out the tiles again - a window's first frame or its
\* end, a change of the focus, an application that ends, another configuration -
\* and wherever it is in the client's list (update_surfaces(), old_tile).
THEOREM TilingFillsTile == Spec => FillsTile
<1> DEFINE Snug == \A w \in TopLevel(desk) \cap TopLevel(desk') :
                LET a == AppOf(desk, w)
                IN  /\ a \in Tiled(desk') /\ w \notin desk.fullscreen
                    /\ desk.rect[w] = desk.tile[a] /\ uses' = uses
                    => desk'.rect[w] = desk'.tile[a]
           Desks == MonitorOK /\ TilesOK /\ Listed(desk) /\ uses \in Nat
<1>1. Init => Desks
  BY MonitorInit, TilesInit, FillsInit
<1>2. Desks /\ [Next]_vars => Desks'
  BY MonitorStep, TilesStep, FillsStep
<1>3. Desks /\ [Next]_vars => [Snug]_vars
  BY FillsStep DEF StepFills
<1> HIDE DEF Desks
<1> QED BY <1>1, <1>2, <1>3, PTL DEF Spec, FillsTile
=============================================================================
