------------------------ MODULE WindowGeometry_proofs ------------------------
(***************************************************************************)
(* What the operators of the windows' geometry compute, for any rectangles,*)
(* windows and trees of windows: facts the proofs about the policies cite. *)
(***************************************************************************)
EXTENDS WindowGeometry, TLAPS, SequenceTheorems, FiniteSetTheorems, WellFoundedInduction

\* What holds at 0, and with a number below m of the next, holds up to m.
LEMMA Reaches ==
    ASSUME NEW m \in Nat, NEW S, 0 \in S, \A n \in 0..m : n < m /\ n \in S => n + 1 \in S
    PROVE  0..m \subseteq S
<1> DEFINE R == {ss \in Nat \X Nat : ss[1] < ss[2]}
           T == (0..m) \ S
<1> SUFFICES ASSUME T # {} PROVE FALSE
  OBVIOUS
<1>1. T \subseteq Nat
  OBVIOUS
<1>2. IsWellFoundedOn(R, Nat)
  BY NatLessThanWellFounded DEF OpToRel
<1>3. PICK t \in T : \A u \in T : <<u, t>> \notin R
  <2> HIDE DEF R, T
  <2> QED BY <1>1, <1>2, WFMin
<1>4. t \in 0..m /\ t \notin S /\ t # 0
  BY <1>3
<1>5. t - 1 \in 0..m /\ t - 1 < m /\ t - 1 + 1 = t
  BY <1>4
<1>6. <<t - 1, t>> \in R
  BY <1>5, <1>4
<1>7. t - 1 \in S
  BY <1>3, <1>6, <1>5
<1> QED BY <1>4, <1>5, <1>7

\* The values of a list of whole numbers have a least and a greatest.
LEMMA ExtremesExist ==
    ASSUME NEW n \in Nat, NEW f \in [1..(n + 1) -> Int],
           NEW S, \A v : v \in S <=> \E i \in 1..(n + 1) : v = f[i]
    PROVE  /\ LeastOf(S) \in S /\ \A v \in S : LeastOf(S) <= v
           /\ GreatestOf(S) \in S /\ \A v \in S : GreatestOf(S) >= v
<1> DEFINE K == {k \in 0..n : \E i, j \in 1..(k + 1) :
                    \A h \in 1..(k + 1) : f[i] <= f[h] /\ f[j] >= f[h]}
<1>1. 0 \in K
  <2>1. 1..(0 + 1) = {1} /\ 1 \in 1..(n + 1)
    OBVIOUS
  <2>2. f[1] \in Int
    BY <2>1
  <2> QED BY <2>1, <2>2
<1>2. ASSUME NEW k \in 0..n, k < n, k \in K PROVE k + 1 \in K
  <2>1. PICK i \in 1..(k + 1), j \in 1..(k + 1) :
            \A h \in 1..(k + 1) : f[i] <= f[h] /\ f[j] >= f[h]
    BY <1>2
  <2> DEFINE m == k + 1 + 1
             a == IF f[m] < f[i] THEN m ELSE i
             b == IF f[m] > f[j] THEN m ELSE j
  <2>2. /\ m \in 1..(n + 1) /\ i \in 1..(n + 1) /\ j \in 1..(n + 1) /\ k + 1 \in 0..n
        /\ \A h \in 1..m : h \in 1..(n + 1) /\ (h \in 1..(k + 1) \/ h = m)
    BY <1>2
  <2>3. \A h \in 1..m : f[a] <= f[h] /\ f[b] >= f[h]
    <3> SUFFICES ASSUME NEW h \in 1..m PROVE f[a] <= f[h] /\ f[b] >= f[h]
      OBVIOUS
    <3>1. f[m] \in Int /\ f[i] \in Int /\ f[j] \in Int /\ f[h] \in Int
      BY <2>2
    <3>2. h = m \/ (f[i] <= f[h] /\ f[j] >= f[h])
      BY <2>1, <2>2
    <3>3. /\ f[a] = IF f[m] < f[i] THEN f[m] ELSE f[i]
          /\ f[b] = IF f[m] > f[j] THEN f[m] ELSE f[j]
      OBVIOUS
    <3> HIDE DEF a, b, m
    <3>4. f[a] <= f[m] /\ f[a] <= f[i] /\ f[a] \in Int
      BY <3>1, <3>3
    <3>5. f[b] >= f[m] /\ f[b] >= f[j] /\ f[b] \in Int
      BY <3>1, <3>3
    <3>6. CASE h = m
      BY <3>4, <3>5, <3>6
    <3>7. CASE f[i] <= f[h] /\ f[j] >= f[h]
      BY <3>1, <3>4, <3>5, <3>7
    <3> QED BY <3>2, <3>6, <3>7
  <2>4. a \in 1..m /\ b \in 1..m
    BY <1>2
  <2> QED BY <2>2, <2>3, <2>4
<1>3. n \in K
  <2> HIDE DEF K
  <2>1. 0..n \subseteq K
    BY <1>1, <1>2, Reaches
  <2> QED BY <2>1
<1>4. PICK i \in 1..(n + 1), j \in 1..(n + 1) :
            \A h \in 1..(n + 1) : f[i] <= f[h] /\ f[j] >= f[h]
  BY <1>3
<1>5. f[i] \in S /\ \A v \in S : f[i] <= v
  BY <1>4
<1>6. f[j] \in S /\ \A v \in S : f[j] >= v
  BY <1>4
<1> QED BY <1>5, <1>6, Zenon DEF LeastOf, GreatestOf

\* A set of positions has a first one.
LEMMA LeastPosition ==
    ASSUME NEW n \in Nat, NEW S, S \subseteq 1..n, S # {}
    PROVE  LeastOf(S) \in S /\ \A i \in S : LeastOf(S) <= i
<1> DEFINE R == {ss \in Nat \X Nat : ss[1] < ss[2]}
<1>1. S \subseteq Nat
  OBVIOUS
<1>2. IsWellFoundedOn(R, Nat)
  BY NatLessThanWellFounded DEF OpToRel
<1>3. PICK i \in S : \A j \in S : <<j, i>> \notin R
  <2> HIDE DEF R
  <2> QED BY <1>1, <1>2, WFMin
<1>4. ASSUME NEW j \in S PROVE i <= j
  <2>1. <<j, i>> \notin R /\ i \in Nat /\ j \in Nat
    BY <1>3, <1>1
  <2> QED BY <2>1
<1> QED BY <1>4, Zenon DEF LeastOf

-----------------------------------------------------------------------------
(* Vectors.                                                                *)

\* kept is what s has at the positions in S: h says where its elements come
\* from.
Picks(h, kept, s, S) ==
    /\ h \in [1..Len(kept) -> S]
    /\ \A i, j \in 1..Len(kept) : h[i] = h[j] => i = j
    /\ \A x \in S : \E i \in 1..Len(kept) : h[i] = x
    /\ \A i \in 1..Len(kept) : kept[i] = s[h[i]]

LEMMA RemainingProperties ==
    ASSUME NEW T, NEW s \in Seq(T), NEW S, S \subseteq 1..Len(s)
    PROVE  /\ Remaining(s, S) \in Seq(T)
           /\ \E h : Picks(h, Remaining(s, S), s, S)
<1> DEFINE n == Len(s)
           Next1(g, i) == IF i = 0 THEN <<>>
                          ELSE IF i \in S THEN Append(g[i - 1], s[i]) ELSE g[i - 1]
           Eq(g, k) == g \in [0..k -> Seq(T)] /\ \A i \in 0..k : g[i] = Next1(g, i)
           K == {k \in 0..n : \E g : Eq(g, k)}
<1>1. n \in Nat /\ \A i \in 1..n : s[i] \in T
  OBVIOUS
<1>2. 0 \in K
  <2> DEFINE g == [i \in 0..0 |-> <<>>]
  <2>1. Eq(g, 0)
    BY EmptySeq
  <2> HIDE DEF Eq
  <2> QED BY <1>1, <2>1
<1>3. ASSUME NEW k \in 0..n, k < n, k \in K PROVE k + 1 \in K
  <2>1. PICK g : Eq(g, k)
    BY <1>3
  <2> DEFINE new == IF k + 1 \in S THEN Append(g[k], s[k + 1]) ELSE g[k]
             f == [i \in 0..(k + 1) |-> IF i = k + 1 THEN new ELSE g[i]]
  <2>2. k \in 0..k /\ k + 1 \in 1..n /\ k + 1 \in 0..n /\ k + 1 # 0 /\ k + 1 - 1 = k
    BY <1>1, <1>3
  <2>3. new \in Seq(T)
    <3>1. g[k] \in Seq(T) /\ s[k + 1] \in T
      BY <1>1, <2>1, <2>2
    <3> QED BY <3>1
  <2>4. ASSUME NEW i \in 0..k
        PROVE  i \in 0..(k + 1) /\ i # k + 1 /\ (i # 0 => i - 1 \in 0..k)
    BY <1>3
  <2>5. f \in [0..(k + 1) -> Seq(T)]
    <3>1. \A i \in 0..(k + 1) : i = k + 1 \/ i \in 0..k
      BY <1>3
    <3> HIDE DEF new
    <3> QED BY <2>1, <2>3, <3>1
  <2>6. \A i \in 0..(k + 1) : f[i] = Next1(f, i)
    <3> SUFFICES ASSUME NEW i \in 0..(k + 1) PROVE f[i] = Next1(f, i)
      OBVIOUS
    <3>1. CASE i = k + 1
      <4>1. f[k] = g[k] /\ f[k + 1] = new
        BY <2>2, <2>4
      <4>2. Next1(f, k + 1) = IF k + 1 \in S THEN Append(f[k], s[k + 1]) ELSE f[k]
        <5> HIDE DEF f
        <5> QED BY <2>2
      <4> QED BY <3>1, <4>1, <4>2
    <3>2. CASE i \in 0..k
      <4>1. f[i] = g[i] /\ (i # 0 => f[i - 1] = g[i - 1])
        BY <2>4, <3>2
      <4>2. g[i] = Next1(g, i)
        BY <2>1, <3>2
      <4> HIDE DEF f
      <4> QED BY <4>1, <4>2
    <3> QED BY <1>3, <3>1, <3>2
  <2>7. Eq(f, k + 1)
    BY <2>5, <2>6
  <2> HIDE DEF Eq, f
  <2> QED BY <2>2, <2>7
<1>4. n \in K
  <2> HIDE DEF K
  <2>1. 0..n \subseteq K
    BY <1>1, <1>2, <1>3, Reaches
  <2> QED BY <1>1, <2>1
<1> DEFINE Kept(g) == g = [i \in 0..n |-> Next1(g, i)]
           kept == CHOOSE g : Kept(g)
<1>5. Kept(kept)
  <2>1. PICK g : Eq(g, n)
    BY <1>4
  <2>2. Kept(g)
    BY <2>1
  <2> HIDE DEF Kept
  <2> QED BY <2>2
<1>6. Remaining(s, S) = kept[n]
  BY DEF Remaining
<1> HIDE DEF kept
<1> DEFINE Good(k) == kept[k] \in Seq(T) /\ \E h : Picks(h, kept[k], s, S \cap (1..k))
           G == {k \in 0..n : Good(k)}
<1>7. 0 \in G
  <2>1. kept[0] = <<>>
    BY <1>1, <1>5
  <2> DEFINE h == [i \in 1..0 |-> 0]
  <2>2. Picks(h, kept[0], s, S \cap (1..0))
    <3>1. S \cap (1..0) = {} /\ 1..0 = {} /\ Len(<<>>) = 0
      OBVIOUS
    <3> QED BY <2>1, <3>1 DEF Picks
  <2>3. kept[0] \in Seq(T) /\ 0 \in 0..n
    BY <1>1, <2>1, EmptySeq
  <2> HIDE DEF h
  <2> QED BY <2>2, <2>3
<1>8. ASSUME NEW k \in 0..n, k < n, k \in G PROVE k + 1 \in G
  <2>1. PICK h : kept[k] \in Seq(T) /\ Picks(h, kept[k], s, S \cap (1..k))
    BY <1>8
  <2> DEFINE m == k + 1
             old == kept[k]
             len == Len(old)
  <2>2. k \in 0..n /\ m \in 1..n /\ m \in 0..n /\ m # 0 /\ m - 1 = k
    BY <1>1, <1>8
  <2>3. kept[m] = IF m \in S THEN Append(old, s[m]) ELSE old
    <3> HIDE DEF m
    <3> QED BY <1>5, <2>2
  <2>4. old \in Seq(T) /\ len \in Nat /\ Picks(h, old, s, S \cap (1..k))
    BY <2>1
  <2>5. \A x : x \in S \cap (1..m) <=> x \in S \cap (1..k) \/ (m \in S /\ x = m)
    BY <1>8
  <2>6. CASE m \notin S
    <3>1. S \cap (1..m) = S \cap (1..k)
      BY <2>5, <2>6
    <3>2. kept[m] = old
      BY <2>3, <2>6
    <3> QED BY <2>2, <2>4, <3>1, <3>2
  <2>7. CASE m \in S
    <3> DEFINE new == Append(old, s[m])
               f == [i \in 1..(len + 1) |-> IF i = len + 1 THEN m ELSE h[i]]
    <3>1. /\ new \in Seq(T) /\ Len(new) = len + 1 /\ new[len + 1] = s[m]
          /\ \A i \in 1..len : new[i] = old[i]
      <4> HIDE DEF m, old
      <4>1. s[m] \in T /\ old \in Seq(T)
        BY <1>1, <2>2, <2>4
      <4> QED BY <2>4, <4>1, AppendProperties
    <3>2. \A i \in 1..len : h[i] \in S \cap (1..k) /\ h[i] # m /\ i \in 1..(len + 1) /\ i # len + 1
      <4>1. h \in [1..len -> S \cap (1..k)]
        BY <2>4 DEF Picks
      <4> HIDE DEF len
      <4> QED BY <1>8, <2>4, <4>1
    <3>3. /\ f[len + 1] = m /\ len + 1 \in 1..(len + 1)
          /\ \A i \in 1..len : f[i] = h[i]
          /\ \A i \in 1..(len + 1) : i = len + 1 \/ i \in 1..len
      BY <2>4, <3>2
    <3>4. f \in [1..(len + 1) -> S \cap (1..m)]
      BY <2>5, <2>7, <3>2, <3>3
    <3> HIDE DEF f, new
    <3>5. Picks(f, new, s, S \cap (1..m))
      <4>1. \A i, j \in 1..(len + 1) : f[i] = f[j] => i = j
        BY <2>4, <3>2, <3>3 DEF Picks
      <4>2. \A x \in S \cap (1..m) : \E i \in 1..(len + 1) : f[i] = x
        <5> SUFFICES ASSUME NEW x \in S \cap (1..m) PROVE \E i \in 1..(len + 1) : f[i] = x
          OBVIOUS
        <5>1. CASE x = m
          BY <3>3, <5>1
        <5>2. CASE x \in S \cap (1..k)
          <6>1. PICK i \in 1..len : h[i] = x
            BY <2>4, <5>2 DEF Picks
          <6> QED BY <3>2, <3>3, <6>1
        <5> QED BY <2>5, <5>1, <5>2
      <4>3. \A i \in 1..(len + 1) : new[i] = s[f[i]]
        <5> SUFFICES ASSUME NEW i \in 1..(len + 1) PROVE new[i] = s[f[i]]
          OBVIOUS
        <5>1. CASE i = len + 1
          BY <3>1, <3>3, <5>1
        <5>2. CASE i \in 1..len
          <6>1. old[i] = s[h[i]]
            BY <2>4, <5>2 DEF Picks
          <6> QED BY <3>1, <3>3, <5>2, <6>1
        <5> QED BY <3>3, <5>1, <5>2
      <4> QED BY <3>1, <3>4, <4>1, <4>2, <4>3 DEF Picks
    <3>6. kept[m] = new
      BY <2>3, <2>7 DEF new
    <3> QED BY <2>2, <3>1, <3>5, <3>6
  <2> QED BY <2>6, <2>7
<1>9. n \in G
  <2> HIDE DEF G
  <2>1. 0..n \subseteq G
    BY <1>1, <1>7, <1>8, Reaches
  <2> QED BY <1>1, <2>1
<1>10. S \cap (1..n) = S
  OBVIOUS
<1> QED BY <1>6, <1>9, <1>10

-----------------------------------------------------------------------------
(* Rectangles.                                                             *)

LEMMA CornerTypes ==
    ASSUME NEW r \in Rects
    PROVE  /\ r.top_left.x \in Int /\ r.top_left.y \in Int
           /\ bottom_right(r).x \in Int /\ bottom_right(r).x >= r.top_left.x
           /\ bottom_right(r).y \in Int /\ bottom_right(r).y >= r.top_left.y
<1> DEFINE p == r.top_left
           s == r.size
<1>1. p \in [x : Int, y : Int] /\ s \in [width : Nat, height : Nat]
  BY DEF Rects
<1>2. bottom_right(r).x = p.x + s.width /\ bottom_right(r).y = p.y + s.height
  BY DEF bottom_right, Plus, Span, Point
<1> HIDE DEF p, s
<1>3. p.x \in Int /\ p.y \in Int /\ s.width \in Nat /\ s.height \in Nat
  BY <1>1
<1>4. p.x + s.width >= p.x /\ p.y + s.height >= p.y
  BY <1>3
<1> QED BY <1>2, <1>3, <1>4 DEF p

\* The bounding rectangle holds all of them.
LEMMA Bounding ==
    ASSUME NEW areas \in Seq(Rects), areas # <<>>
    PROVE  /\ bounding_rectangle(areas) \in Rects
           /\ \A i \in DOMAIN areas : Contains(bounding_rectangle(areas), areas[i])
<1> DEFINE n == Len(areas) - 1
           all == {areas[i] : i \in DOMAIN areas}
           f == [i \in 1..(n + 1) |-> areas[i].top_left.x]
           g == [i \in 1..(n + 1) |-> areas[i].top_left.y]
           fr == [i \in 1..(n + 1) |-> bottom_right(areas[i]).x]
           gr == [i \in 1..(n + 1) |-> bottom_right(areas[i]).y]
           xs == {r.top_left.x : r \in all}
           ys == {r.top_left.y : r \in all}
           xr == {bottom_right(r).x : r \in all}
           yr == {bottom_right(r).y : r \in all}
           left == LeastOf(xs)
           top == LeastOf(ys)
           right == GreatestOf(xr)
           bottom == GreatestOf(yr)
<1>1. n \in Nat /\ DOMAIN areas = 1..(n + 1) /\ 1 \in 1..(n + 1)
  BY EmptySeq
<1>2. \A i \in 1..(n + 1) :
          /\ areas[i].top_left.x \in Int /\ areas[i].top_left.y \in Int
          /\ bottom_right(areas[i]).x \in Int /\ bottom_right(areas[i]).x >= areas[i].top_left.x
          /\ bottom_right(areas[i]).y \in Int /\ bottom_right(areas[i]).y >= areas[i].top_left.y
  <2>1. \A i \in 1..(n + 1) : areas[i] \in Rects
    BY <1>1
  <2> QED BY <2>1, CornerTypes
<1>3. /\ f \in [1..(n + 1) -> Int] /\ g \in [1..(n + 1) -> Int]
      /\ fr \in [1..(n + 1) -> Int] /\ gr \in [1..(n + 1) -> Int]
  BY <1>2
<1>4. /\ \A v : v \in xs <=> \E i \in 1..(n + 1) : v = f[i]
      /\ \A v : v \in ys <=> \E i \in 1..(n + 1) : v = g[i]
      /\ \A v : v \in xr <=> \E i \in 1..(n + 1) : v = fr[i]
      /\ \A v : v \in yr <=> \E i \in 1..(n + 1) : v = gr[i]
  BY <1>1
<1>5. bounding_rectangle(areas) = Rect(Point(left, top), Size(right - left, bottom - top))
  BY DEF bounding_rectangle
<1>6. \A i \in 1..(n + 1) :
          /\ f[i] = areas[i].top_left.x /\ g[i] = areas[i].top_left.y
          /\ fr[i] = bottom_right(areas[i]).x /\ gr[i] = bottom_right(areas[i]).y
  OBVIOUS
<1> HIDE DEF n, all, f, g, fr, gr, xs, ys, xr, yr
<1>7. left \in Int /\ \A i \in 1..(n + 1) : left <= f[i]
  <2>1. f \in [1..(n + 1) -> Int]
    BY <1>3
  <2>2. \A v : v \in xs <=> \E i \in 1..(n + 1) : v = f[i]
    BY <1>4
  <2>3. left \in xs /\ \A v \in xs : left <= v
    BY <1>1, <2>1, <2>2, ExtremesExist
  <2> QED BY <2>1, <2>2, <2>3
<1>8. top \in Int /\ \A i \in 1..(n + 1) : top <= g[i]
  <2>1. g \in [1..(n + 1) -> Int]
    BY <1>3
  <2>2. \A v : v \in ys <=> \E i \in 1..(n + 1) : v = g[i]
    BY <1>4
  <2>3. top \in ys /\ \A v \in ys : top <= v
    BY <1>1, <2>1, <2>2, ExtremesExist
  <2> QED BY <2>1, <2>2, <2>3
<1>9. right \in Int /\ \A i \in 1..(n + 1) : right >= fr[i]
  <2>1. fr \in [1..(n + 1) -> Int]
    BY <1>3
  <2>2. \A v : v \in xr <=> \E i \in 1..(n + 1) : v = fr[i]
    BY <1>4
  <2>3. right \in xr /\ \A v \in xr : right >= v
    BY <1>1, <2>1, <2>2, ExtremesExist
  <2> QED BY <2>1, <2>2, <2>3
<1>10. bottom \in Int /\ \A i \in 1..(n + 1) : bottom >= gr[i]
  <2>1. gr \in [1..(n + 1) -> Int]
    BY <1>3
  <2>2. \A v : v \in yr <=> \E i \in 1..(n + 1) : v = gr[i]
    BY <1>4
  <2>3. bottom \in yr /\ \A v \in yr : bottom >= v
    BY <1>1, <2>1, <2>2, ExtremesExist
  <2> QED BY <2>1, <2>2, <2>3
<1> HIDE DEF left, top, right, bottom
<1>11. \A i \in 1..(n + 1) : /\ left <= areas[i].top_left.x /\ bottom_right(areas[i]).x <= right
                             /\ top <= areas[i].top_left.y /\ bottom_right(areas[i]).y <= bottom
  BY <1>2, <1>6, <1>7, <1>8, <1>9, <1>10
<1>12. right - left \in Nat /\ bottom - top \in Nat
  <2>1. /\ left <= f[1] /\ f[1] <= fr[1] /\ fr[1] <= right
        /\ f[1] \in Int /\ fr[1] \in Int
    BY <1>1, <1>2, <1>6, <1>7, <1>9
  <2>2. /\ top <= g[1] /\ g[1] <= gr[1] /\ gr[1] <= bottom
        /\ g[1] \in Int /\ gr[1] \in Int
    BY <1>1, <1>2, <1>6, <1>8, <1>10
  <2>3. left \in Int /\ right \in Int /\ top \in Int /\ bottom \in Int
    BY <1>7, <1>8, <1>9, <1>10
  <2> QED BY <2>1, <2>2, <2>3
<1> DEFINE r == bounding_rectangle(areas)
<1>13. /\ r.top_left.x = left /\ r.top_left.y = top
       /\ bottom_right(r).x = right /\ bottom_right(r).y = bottom
  BY <1>5, <1>7, <1>8, <1>9, <1>10 DEF Rect, Point, Size, bottom_right, Plus, Span
<1>14. r \in Rects
  BY <1>5, <1>7, <1>8, <1>12 DEF Rect, Point, Size, Rects
<1>15. \A i \in DOMAIN areas : Contains(r, areas[i])
  BY <1>1, <1>2, <1>7, <1>8, <1>9, <1>10, <1>11, <1>13 DEF Contains
<1> QED BY <1>14, <1>15

-----------------------------------------------------------------------------
(* Numbers and sizes.                                                      *)

\* A window may be cut to less than nothing.
AnyRect == [top_left : Points, size : Sizes]

LEMMA RectType ==
    /\ \A r \in AnyRect : /\ r.top_left \in Points /\ r.size \in Sizes
                          /\ r.top_left.x \in Int /\ r.top_left.y \in Int
                          /\ r.size.width \in Int /\ r.size.height \in Int
                          /\ r = Rect(r.top_left, r.size)
    /\ \A p \in Points, s \in Sizes : /\ Rect(p, s) \in AnyRect
                                      /\ Rect(p, s).top_left = p /\ Rect(p, s).size = s
    /\ \A x, y \in Int : /\ Point(x, y) \in Points /\ Size(x, y) \in Sizes
                         /\ Point(x, y).x = x /\ Point(x, y).y = y
                         /\ Size(x, y).width = x /\ Size(x, y).height = y
    /\ \A p \in Points : p.x \in Int /\ p.y \in Int /\ p = Point(p.x, p.y)
    /\ \A s \in Sizes : s.width \in Int /\ s.height \in Int /\ s = Size(s.width, s.height)
    /\ Rects \subseteq AnyRect
<1>1. \A p \in Points : p.x \in Int /\ p.y \in Int /\ p = Point(p.x, p.y)
  BY DEF Points, Point
<1>2. \A s \in Sizes : s.width \in Int /\ s.height \in Int /\ s = Size(s.width, s.height)
  BY DEF Sizes, Size
<1>3. \A r \in AnyRect : r.top_left \in Points /\ r.size \in Sizes /\ r = Rect(r.top_left, r.size)
  BY DEF AnyRect, Rect
<1>4. \A p \in Points, s \in Sizes : /\ Rect(p, s) \in AnyRect
                                     /\ Rect(p, s).top_left = p /\ Rect(p, s).size = s
  BY DEF AnyRect, Rect
<1>5. \A x, y \in Int : /\ Point(x, y) \in Points /\ Size(x, y) \in Sizes
                        /\ Point(x, y).x = x /\ Point(x, y).y = y
                        /\ Size(x, y).width = x /\ Size(x, y).height = y
  BY DEF Points, Sizes, Point, Size
<1>6. Rects \subseteq AnyRect
  BY DEF Rects, AnyRect, Points, Sizes
<1> QED BY <1>1, <1>2, <1>3, <1>4, <1>5, <1>6

LEMMA PointSums ==
    ASSUME NEW p \in Points, NEW q \in Points
    PROVE  /\ Plus(p, q) \in Points /\ Minus(p, q) \in Points
           /\ Plus(p, q).x = p.x + q.x /\ Plus(p, q).y = p.y + q.y
           /\ Minus(p, q).x = p.x - q.x /\ Minus(p, q).y = p.y - q.y
           /\ Plus(q, Minus(p, q)) = p /\ Minus(Plus(p, q), p) = q
           /\ Minus(p, p) = Origin /\ Plus(p, Origin) = p
<1>1. p.x \in Int /\ p.y \in Int /\ q.x \in Int /\ q.y \in Int
  BY DEF Points
<1>2. p = Point(p.x, p.y) /\ q = Point(q.x, q.y)
  BY DEF Points, Point
<1> DEFINE a == p.x
           b == p.y
           c == q.x
           e == q.y
<1> HIDE DEF a, b, c, e
<1>3. /\ a \in Int /\ b \in Int /\ c \in Int /\ e \in Int
      /\ p = Point(a, b) /\ q = Point(c, e)
  BY <1>1, <1>2 DEF a, b, c, e
<1>4. /\ c + (a - c) = a /\ e + (b - e) = b /\ (a + c) - a = c /\ (b + e) - b = e
      /\ a - a = 0 /\ b - b = 0 /\ a + 0 = a /\ b + 0 = b
      /\ a + c \in Int /\ b + e \in Int /\ a - c \in Int /\ b - e \in Int
  BY <1>3
<1>5. Plus(p, q) = Point(a + c, b + e) /\ Minus(p, q) = Point(a - c, b - e)
  BY <1>3 DEF Plus, Minus, Point
<1>6. /\ Plus(q, Minus(p, q)) = Point(c + (a - c), e + (b - e))
      /\ Minus(Plus(p, q), p) = Point((a + c) - a, (b + e) - b)
      /\ Minus(p, p) = Point(a - a, b - b) /\ Plus(p, Origin) = Point(a + 0, b + 0)
  BY <1>3, <1>5 DEF Plus, Minus, Point, Origin
<1>7. Plus(p, q) \in Points /\ Minus(p, q) \in Points
  BY <1>4, <1>5 DEF Points, Point
<1>8. /\ Plus(p, q).x = a + c /\ Plus(p, q).y = b + e
      /\ Minus(p, q).x = a - c /\ Minus(p, q).y = b - e
  BY <1>5 DEF Point
<1> QED BY <1>3, <1>4, <1>6, <1>7, <1>8 DEF Origin, a, b, c, e

LEMMA QuotType ==
    ASSUME NEW a \in Int, NEW b \in Nat, b > 0
    PROVE  Quot(a, b) \in Int /\ (a >= 0 => Quot(a, b) \in Nat)
BY DEF Quot

\* Halves, and a third of what is left over.
LEMMA Fractions ==
    ASSUME NEW n \in Int
    PROVE  /\ Quot(n, 2) \in Int /\ Quot(n, 6) \in Int
           /\ n >= 0 => /\ 0 <= Quot(n, 2) /\ 2 * Quot(n, 2) <= n
                        /\ 0 <= Quot(n, 6) /\ Quot(n, 6) <= Quot(n, 2)
           /\ n < 0 => /\ Quot(n, 2) <= 0 /\ n <= 2 * Quot(n, 2)
                       /\ Quot(n, 6) <= 0 /\ Quot(n, 2) <= Quot(n, 6)
BY DEF Quot

-----------------------------------------------------------------------------
(* The size limits.                                                        *)

Ratios == [width : Nat, height : Nat]

\* The limits of a window that make sense.  Nothing in the code makes sure
\* that a client's do.
SoundLimits(spec) ==
    /\ \A f \in {"min_width", "min_height", "max_width", "max_height"} :
            is_set(spec, f) => spec[f] \in Nat
    /\ \A f \in {"width_inc", "height_inc"} : is_set(spec, f) => spec[f] \in Nat \ {0}
    /\ \A f \in {"min_aspect", "max_aspect"} :
            is_set(spec, f) => /\ spec[f] \in Ratios
                               /\ spec[f].width > 0 /\ spec[f].height > 0

InfoLimits(info) ==
    /\ Limits \cup {"min_aspect", "max_aspect"} \subseteq DOMAIN info
    /\ info.min_width \in Nat /\ info.min_height \in Nat
    /\ info.max_width \in Nat /\ info.max_height \in Nat
    /\ info.width_inc \in Nat \ {0} /\ info.height_inc \in Nat \ {0}
    /\ info.min_aspect \in Ratios /\ info.min_aspect.height > 0
    /\ info.max_aspect \in Ratios /\ info.max_aspect.width > 0

LEMMA SteppedType ==
    ASSUME NEW lo \in Nat, NEW hi \in Nat, NEW inc \in Nat, inc > 0, NEW n \in Int
    PROVE  Stepped(lo, inc, Clamp(lo, hi, n)) \in Nat
<1> DEFINE m == Clamp(lo, hi, n)
<1>1. m \in Nat /\ (m < lo => m = hi)
  BY DEF Clamp
<1> HIDE DEF m
<1> DEFINE y == Quot(2 * (m - lo) + inc, 2)
           q == Quot(y, inc)
<1>2. y \in Int /\ y >= m - lo
  BY <1>1 DEF Quot
<1> HIDE DEF y
<1>3. q \in Int /\ (y >= 0 => q >= 0 /\ inc * q >= 0) /\ (y < 0 => inc * q >= y)
  <2>1. CASE y >= 0
    <3>1. q = y \div inc
      BY <1>2, <2>1 DEF Quot
    <3>2. q \in Nat
      BY <1>2, <2>1, <3>1
    <3> QED BY <1>2, <2>1, <3>2
  <2>2. CASE y < 0
    <3> DEFINE z == (-y) \div inc
    <3>1. -y \in Nat /\ q = -z
      BY <1>2, <2>2 DEF Quot
    <3>2. z \in Nat /\ inc * z <= -y
      BY <3>1
    <3> HIDE DEF z
    <3>3. inc * (-z) = -(inc * z) /\ inc * z \in Nat
      BY <3>2
    <3> QED BY <1>2, <2>2, <3>1, <3>2, <3>3
  <2> QED BY <1>2, <2>1, <2>2
<1> HIDE DEF q
<1> DEFINE p == inc * q
<1>4. p \in Int
  BY <1>3
<1>5. y >= 0 => p >= 0
  BY <1>3
<1>6. y < 0 => p >= y
  BY <1>3
<1> HIDE DEF p
<1>7. lo + p \in Nat
  BY <1>1, <1>2, <1>4, <1>5, <1>6
<1>8. Stepped(lo, inc, m) = IF (m - lo) % inc = 0 THEN m ELSE lo + p
  BY DEF Stepped, p, q, y
<1> QED BY <1>1, <1>7, <1>8 DEF m

\* A quotient rounded up.
LEMMA RoundUpType ==
    ASSUME NEW a \in Nat, a > 0, NEW b \in Nat, b > 0
    PROVE  RoundUp(a, b) \in Nat /\ \A c \in Nat : a <= c * b => RoundUp(a, b) <= c
<1> DEFINE q == (a + b - 1) \div b
<1>1. RoundUp(a, b) = q
  BY DEF RoundUp, Quot
<1>2. q \in Nat /\ b * q <= a + b - 1
  OBVIOUS
<1> HIDE DEF q
<1>3. ASSUME NEW c \in Nat, a <= c * b PROVE q <= c
  <2> SUFFICES ASSUME q > c PROVE FALSE
    BY <1>2
  <2> DEFINE k == q - c - 1
  <2>1. k \in Nat /\ q = c + 1 + k
    BY <1>2
  <2> HIDE DEF k
  <2>2. b * q = c * b + b + b * k /\ b * k \in Nat /\ c * b \in Nat
    BY <2>1
  <2> QED BY <1>2, <1>3, <2>2
<1> QED BY <1>1, <1>2, <1>3

NatSizes == [width : Nat, height : Nat]

LEMMA Products ==
    ASSUME NEW a \in Nat, NEW b \in Nat
    PROVE  a * b \in Nat /\ a * b = b * a /\ (a > 0 /\ b > 0 => a * b > 0)
OBVIOUS

LEMMA AtLeastType ==
    ASSUME NEW ratio \in Ratios, ratio.height > 0, NEW s \in NatSizes
    PROVE  AtLeast(ratio, s) \in NatSizes
<1> DEFINE rw == ratio.width
           rh == ratio.height
           w  == s.width
           h  == s.height
           hr == h * rw
           wr == w * rh
           error == hr - wr
           wider == RoundUp(error, rh)
           lower == RoundUp(error, rw)
<1>1. rw \in Nat /\ rh \in Nat /\ rh > 0 /\ w \in Nat /\ h \in Nat /\ s = Size(w, h)
  BY DEF Ratios, NatSizes, Size
<1> HIDE DEF rw, rh, w, h
<1>2. hr \in Nat /\ wr \in Nat /\ (rw = 0 => hr = 0)
  BY <1>1
<1>3. AtLeast(ratio, s) =
        IF error <= 0 THEN s
        ELSE IF wider < lower THEN Size(w + wider, h) ELSE Size(w, h - lower)
  BY <1>1 DEF AtLeast, rw, rh, w, h, Size
<1> HIDE DEF wider, lower
<1>4. ASSUME error > 0
      PROVE  wider \in Nat /\ lower \in Nat /\ h - lower \in Nat
  <2>1. error \in Nat /\ error <= hr
    BY <1>2, <1>4
  <2>2. rw > 0
    <3>1. rw # 0
      BY <1>2, <1>4
    <3> QED BY <1>1, <3>1
  <2> HIDE DEF error
  <2>3. wider \in Nat
    BY <1>1, <1>4, <2>1, RoundUpType DEF wider
  <2>4. lower \in Nat /\ lower <= h
    BY <1>1, <1>4, <2>1, <2>2, RoundUpType DEF lower
  <2> QED BY <1>1, <2>3, <2>4
<1>5. error \in Int
  BY <1>2
<1> HIDE DEF error
<1>6. CASE error <= 0
  BY <1>3, <1>6
<1>7. CASE error > 0
  <2>1. AtLeast(ratio, s) = IF wider < lower THEN Size(w + wider, h) ELSE Size(w, h - lower)
    BY <1>3, <1>5, <1>7
  <2> QED BY <1>1, <1>4, <1>7, <2>1 DEF NatSizes, Size
<1> QED BY <1>5, <1>6, <1>7

LEMMA AtMostType ==
    ASSUME NEW ratio \in Ratios, ratio.width > 0, NEW s \in NatSizes
    PROVE  AtMost(ratio, s) \in NatSizes
<1> DEFINE rw == ratio.width
           rh == ratio.height
           w  == s.width
           h  == s.height
           hr == h * rw
           wr == w * rh
           error == wr - hr
           narrower == RoundUp(error, rh)
           higher == RoundUp(error, rw)
<1>1. rw \in Nat /\ rh \in Nat /\ rw > 0 /\ w \in Nat /\ h \in Nat /\ s = Size(w, h)
  BY DEF Ratios, NatSizes, Size
<1> HIDE DEF rw, rh, w, h
<1>2. hr \in Nat /\ wr \in Nat /\ (rh = 0 => wr = 0)
  BY <1>1
<1>3. AtMost(ratio, s) =
        IF error <= 0 THEN s
        ELSE IF narrower < higher THEN Size(w - narrower, h) ELSE Size(w, h + higher)
  BY <1>1 DEF AtMost, rw, rh, w, h, Size
<1> HIDE DEF narrower, higher
<1>4. ASSUME error > 0
      PROVE  higher \in Nat /\ narrower \in Nat /\ w - narrower \in Nat
  <2>1. error \in Nat /\ error <= wr
    BY <1>2, <1>4
  <2>2. rh > 0
    <3>1. rh # 0
      BY <1>2, <1>4
    <3> QED BY <1>1, <3>1
  <2> HIDE DEF error
  <2>3. higher \in Nat
    BY <1>1, <1>4, <2>1, RoundUpType DEF higher
  <2>4. narrower \in Nat /\ narrower <= w
    BY <1>1, <1>4, <2>1, <2>2, RoundUpType DEF narrower
  <2> QED BY <1>1, <2>3, <2>4
<1>5. error \in Int
  BY <1>2
<1> HIDE DEF error
<1>6. CASE error <= 0
  BY <1>3, <1>6
<1>7. CASE error > 0
  <2>1. AtMost(ratio, s) = IF narrower < higher THEN Size(w - narrower, h) ELSE Size(w, h + higher)
    BY <1>3, <1>5, <1>7
  <2> QED BY <1>1, <1>4, <1>7, <2>1 DEF NatSizes, Size
<1> QED BY <1>5, <1>6, <1>7

\* Sound limits make a size of any that is asked for.
LEMMA WithinLimitsType ==
    ASSUME NEW info, InfoLimits(info), NEW s \in Sizes
    PROVE  WithinLimits(info, s) \in NatSizes
<1> DEFINE clamped == Size(Clamp(info.min_width, info.max_width, s.width),
                           Clamp(info.min_height, info.max_height, s.height))
           stepped == Size(Stepped(info.min_width, info.width_inc, clamped.width),
                           Stepped(info.min_height, info.height_inc, clamped.height))
<1>1. s.width \in Int /\ s.height \in Int
  BY DEF Sizes
<1>2. stepped = Size(Stepped(info.min_width, info.width_inc,
                             Clamp(info.min_width, info.max_width, s.width)),
                     Stepped(info.min_height, info.height_inc,
                             Clamp(info.min_height, info.max_height, s.height)))
  BY DEF Size
<1>3. /\ Stepped(info.min_width, info.width_inc,
                 Clamp(info.min_width, info.max_width, s.width)) \in Nat
      /\ Stepped(info.min_height, info.height_inc,
                 Clamp(info.min_height, info.max_height, s.height)) \in Nat
  <2>1. /\ info.min_width \in Nat /\ info.max_width \in Nat
        /\ info.width_inc \in Nat /\ info.width_inc > 0
    BY DEF InfoLimits
  <2>2. /\ info.min_height \in Nat /\ info.max_height \in Nat
        /\ info.height_inc \in Nat /\ info.height_inc > 0
    BY DEF InfoLimits
  <2> QED BY <1>1, <2>1, <2>2, SteppedType
<1>4. stepped \in NatSizes
  BY <1>2, <1>3 DEF NatSizes, Size
<1>5. WithinLimits(info, s) = AtMost(info.max_aspect, AtLeast(info.min_aspect, stepped))
  BY DEF WithinLimits
<1> HIDE DEF stepped
<1>6. AtLeast(info.min_aspect, stepped) \in NatSizes
  BY <1>4, AtLeastType DEF InfoLimits
<1> QED BY <1>5, <1>6, AtMostType DEF InfoLimits

\* Along an axis the state leaves no freedom in, the window stays as it is.
LEMMA ConstrainedType ==
    ASSUME NEW info, InfoLimits(info), NEW now \in AnyRect, NEW asked \in AnyRect
    PROVE  constrain_resize(info, now, asked) \in AnyRect
<1> DEFINE size == WithinLimits(info, asked.size)
           sw == size.width - asked.size.width
           sh == size.height - asked.size.height
           x == IF asked.top_left.x # now.top_left.x THEN asked.top_left.x + sw ELSE asked.top_left.x
           y == IF asked.top_left.y # now.top_left.y THEN asked.top_left.y + sh ELSE asked.top_left.y
           free == Free(info.state)
           px == IF "x" \in free THEN x ELSE now.top_left.x
           py == IF "y" \in free THEN y ELSE now.top_left.y
           pw == IF "x" \in free THEN size.width ELSE now.size.width
           ph == IF "y" \in free THEN size.height ELSE now.size.height
<1>1. constrain_resize(info, now, asked) = Rect(Point(px, py), Size(pw, ph))
  BY Zenon DEF constrain_resize
<1>2. size \in NatSizes
  BY WithinLimitsType, RectType
<1>3. size.width \in Int /\ size.height \in Int
  BY <1>2 DEF NatSizes
<1>4. /\ asked.top_left.x \in Int /\ asked.top_left.y \in Int
      /\ asked.size.width \in Int /\ asked.size.height \in Int
      /\ now.top_left.x \in Int /\ now.top_left.y \in Int
      /\ now.size.width \in Int /\ now.size.height \in Int
  BY RectType
<1> HIDE DEF size, free
<1>5. sw \in Int /\ sh \in Int
  BY <1>3, <1>4
<1> HIDE DEF sw, sh
<1>6. px \in Int /\ py \in Int /\ pw \in Int /\ ph \in Int
  BY <1>3, <1>4, <1>5
<1> HIDE DEF px, py, pw, ph
<1> QED BY <1>1, <1>6, RectType

-----------------------------------------------------------------------------
(* Placing a window next to part of another.                               *)

LEMMA GravityType ==
    \A g \in Gravities : /\ Compass[g].x \in {-1, 0, 1} /\ Compass[g].y \in {-1, 0, 1}
                         /\ flip_x(g) \in Gravities /\ flip_y(g) \in Gravities
                         /\ antipodes(g) \in Gravities
<1>1. Gravities = {"northwest", "north", "northeast", "west", "center", "east",
                   "southwest", "south", "southeast"}
  BY DEF Gravities, Compass
<1>2. /\ Compass["northwest"] = Point(-1, -1) /\ Compass["north"] = Point(0, -1)
      /\ Compass["northeast"] = Point(1, -1) /\ Compass["west"] = Point(-1, 0)
      /\ Compass["center"] = Point(0, 0) /\ Compass["east"] = Point(1, 0)
      /\ Compass["southwest"] = Point(-1, 1) /\ Compass["south"] = Point(0, 1)
      /\ Compass["southeast"] = Point(1, 1)
  BY DEF Compass
<1>3. \A x, y \in {-1, 0, 1} : \E g \in Gravities : Compass[g] = Point(x, y)
  BY <1>1, <1>2
<1>4. \A x, y \in {-1, 0, 1} : Gravity(Point(x, y)) \in Gravities
  <2> SUFFICES ASSUME NEW x \in {-1, 0, 1}, NEW y \in {-1, 0, 1}
               PROVE  Gravity(Point(x, y)) \in Gravities
    OBVIOUS
  <2>1. \E g \in Gravities : Compass[g] = Point(x, y)
    BY <1>3
  <2> QED BY <2>1, Zenon DEF Gravity
<1>5. \A g \in Gravities : Compass[g].x \in {-1, 0, 1} /\ Compass[g].y \in {-1, 0, 1}
  BY <1>1, <1>2 DEF Point
<1>6. \A n \in {-1, 0, 1} : -n \in {-1, 0, 1}
  OBVIOUS
<1> QED BY <1>4, <1>5, <1>6 DEF flip_x, flip_y, antipodes

LEMMA EdgePointType ==
    ASSUME NEW n \in Int, NEW side \in {-1, 0, 1}
    PROVE  EdgePoint(n, side) \in Int
<1>1. side = -1 \/ side = 0 \/ side = 1
  OBVIOUS
<1>2. Quot(n, 2) \in Int
  BY QuotType
<1> QED BY <1>1, <1>2 DEF EdgePoint

LEMMA AnchorType ==
    ASSUME NEW g \in Gravities
    PROVE  /\ \A r \in AnyRect : anchor_for(r, g) \in Points
           /\ \A s \in Sizes : offset_for(s, g) \in Points
<1>1. Compass[g].x \in {-1, 0, 1} /\ Compass[g].y \in {-1, 0, 1}
  BY GravityType
<1>2. ASSUME NEW r \in AnyRect PROVE anchor_for(r, g) \in Points
  <2>1. r.top_left \in Points /\ r.size.width \in Int /\ r.size.height \in Int
    BY RectType
  <2>2. /\ EdgePoint(r.size.width, Compass[g].x) \in Int
        /\ EdgePoint(r.size.height, Compass[g].y) \in Int
    BY <1>1, <2>1, EdgePointType
  <2>3. Point(EdgePoint(r.size.width, Compass[g].x),
              EdgePoint(r.size.height, Compass[g].y)) \in Points
    BY <2>2, RectType
  <2> QED BY <2>1, <2>3, PointSums DEF anchor_for
<1>3. ASSUME NEW s \in Sizes PROVE offset_for(s, g) \in Points
  <2>1. s.width \in Int /\ s.height \in Int
    BY RectType
  <2>2. EdgePoint(s.width, Compass[g].x) \in Int /\ EdgePoint(s.height, Compass[g].y) \in Int
    BY <1>1, <2>1, EdgePointType
  <2>3. -EdgePoint(s.width, Compass[g].x) \in Int /\ -EdgePoint(s.height, Compass[g].y) \in Int
    BY <2>2
  <2> QED BY <2>3, RectType DEF offset_for
<1> QED BY <1>2, <1>3

LEMMA CornersType ==
    ASSUME NEW r \in AnyRect
    PROVE  /\ bottom_right(r).x = r.top_left.x + r.size.width
           /\ bottom_right(r).y = r.top_left.y + r.size.height
           /\ top_right(r).x = r.top_left.x + r.size.width
           /\ bottom_left(r).y = r.top_left.y + r.size.height
           /\ bottom_right(r).x \in Int /\ bottom_right(r).y \in Int
<1>1. /\ r.top_left.x \in Int /\ r.top_left.y \in Int
      /\ r.size.width \in Int /\ r.size.height \in Int
  BY RectType
<1>2. /\ bottom_right(r).x = r.top_left.x + r.size.width
      /\ bottom_right(r).y = r.top_left.y + r.size.height
  BY DEF bottom_right, Plus, Span, Point
<1>3. /\ top_right(r).x = r.top_left.x + r.size.width
      /\ bottom_left(r).y = r.top_left.y + r.size.height
  BY DEF top_right, bottom_left, Point
<1> QED BY <1>1, <1>2, <1>3

LEMMA NearestType ==
    ASSUME NEW r \in AnyRect, NEW p \in Points
    PROVE  constrain_to(r, p) \in Points
<1> DEFINE Within(lo, hi, n) == LET m == IF n < lo THEN lo ELSE n IN IF m > hi THEN hi ELSE m
           x == Within(r.top_left.x, bottom_right(r).x, p.x)
           y == Within(r.top_left.y, bottom_right(r).y, p.y)
<1>1. constrain_to(r, p) = Point(x, y)
  BY DEF constrain_to
<1>2. \A lo, hi, n \in Int : Within(lo, hi, n) \in Int
  OBVIOUS
<1>3. /\ r.top_left.x \in Int /\ r.top_left.y \in Int /\ p.x \in Int /\ p.y \in Int
      /\ bottom_right(r).x \in Int /\ bottom_right(r).y \in Int
  BY CornersType, RectType
<1> HIDE DEF Within
<1>4. x \in Int /\ y \in Int
  BY <1>2, <1>3
<1> HIDE DEF x, y
<1> QED BY <1>1, <1>4, RectType

\* The placement part of a specification is complete.
Placeable(params) ==
    /\ params.aux_rect \in AnyRect
    /\ params.window_placement_gravity \in Gravities
    /\ params.aux_rect_placement_gravity \in Gravities
    /\ is_set(params, "aux_rect_placement_offset") => params.aux_rect_placement_offset \in Points

LEMMA CandidateType ==
    ASSUME NEW parent \in AnyRect, NEW params, Placeable(params), NEW size \in Sizes,
           NEW g \in Gravities, NEW flips
    PROVE  Candidate(parent, params, size, g, flips) \in AnyRect
           /\ Candidate(parent, params, size, g, flips).size = size
<1> DEFINE fx(x) == IF "flip_x" \in flips THEN flip_x(x) ELSE x
           fy(x) == IF "flip_y" \in flips THEN flip_y(x) ELSE x
           mx(d) == IF "flip_x" \in flips THEN mirror_x(d) ELSE d
           my(d) == IF "flip_y" \in flips THEN mirror_y(d) ELSE d
           offset == value_or(params, "aux_rect_placement_offset", Origin)
           aux == Rect(Plus(params.aux_rect.top_left, parent.top_left), params.aux_rect.size)
           at  == constrain_to(parent, Plus(anchor_for(aux, fx(fy(g))), mx(my(offset))))
           by  == offset_for(size, fx(fy(params.window_placement_gravity)))
<1>1. Candidate(parent, params, size, g, flips) = Rect(Plus(at, by), size)
  BY DEF Candidate
<1>2. \A x \in Gravities : fx(fy(x)) \in Gravities
  BY GravityType
<1>3. \A d \in Points : mirror_x(d) \in Points /\ mirror_y(d) \in Points
  <2> SUFFICES ASSUME NEW d \in Points PROVE mirror_x(d) \in Points /\ mirror_y(d) \in Points
    OBVIOUS
  <2>1. d.x \in Int /\ d.y \in Int /\ -d.x \in Int /\ -d.y \in Int
    BY RectType
  <2> QED BY <2>1, RectType DEF mirror_x, mirror_y
<1>4. \A d \in Points : mx(my(d)) \in Points
  BY <1>3
<1>5. offset \in Points
  <2>1. Origin \in Points
    BY DEF Origin, Point, Points
  <2> QED BY <2>1 DEF Placeable, value_or
<1>6. aux \in AnyRect
  <2>1. /\ params.aux_rect.top_left \in Points /\ params.aux_rect.size \in Sizes
        /\ parent.top_left \in Points
    BY RectType DEF Placeable
  <2>2. Plus(params.aux_rect.top_left, parent.top_left) \in Points
    BY <2>1, PointSums
  <2> QED BY <2>1, <2>2, RectType
<1> HIDE DEF offset, aux
<1>7. fx(fy(g)) \in Gravities /\ mx(my(offset)) \in Points
  BY <1>2, <1>4, <1>5
<1>8. fx(fy(params.window_placement_gravity)) \in Gravities
  BY <1>2 DEF Placeable
<1> HIDE DEF fx, fy, mx, my
<1>9. at \in Points
  <2>1. anchor_for(aux, fx(fy(g))) \in Points
    BY <1>6, <1>7, AnchorType
  <2>2. Plus(anchor_for(aux, fx(fy(g))), mx(my(offset))) \in Points
    BY <1>7, <2>1, PointSums
  <2> QED BY <2>2, NearestType
<1>10. by \in Points
  BY <1>8, AnchorType
<1> HIDE DEF at, by
<1>11. Plus(at, by) \in Points
  BY <1>9, <1>10, PointSums
<1> QED BY <1>1, <1>11, RectType

\* A rectangle that fits and may slide both ways ends up inside.
LEMMA SlideType ==
    ASSUME NEW display \in AnyRect, NEW r \in AnyRect, NEW hints
    PROVE  /\ Slide(display, hints, r) \in AnyRect /\ Slide(display, hints, r).size = r.size
           /\ /\ {"slide_x", "slide_y"} \subseteq hints
              /\ r.size.width <= display.size.width /\ r.size.height <= display.size.height
              => Contains(display, Slide(display, hints, r))
<1> DEFINE Moved(lo, hi, at, len) ==
                IF at < lo THEN lo ELSE IF at + len > hi THEN hi - len ELSE at
           x == IF "slide_x" \in hints
                THEN Moved(display.top_left.x, top_right(display).x, r.top_left.x, r.size.width)
                ELSE r.top_left.x
           y == IF "slide_y" \in hints
                THEN Moved(display.top_left.y, bottom_left(display).y, r.top_left.y, r.size.height)
                ELSE r.top_left.y
           slid == Slide(display, hints, r)
<1>1. /\ r.top_left.x \in Int /\ r.top_left.y \in Int
      /\ r.size.width \in Int /\ r.size.height \in Int /\ r.size \in Sizes
      /\ display.top_left.x \in Int /\ display.top_left.y \in Int
      /\ display.size.width \in Int /\ display.size.height \in Int
  BY RectType
<1>2. /\ top_right(display).x = display.top_left.x + display.size.width
      /\ bottom_left(display).y = display.top_left.y + display.size.height
  BY CornersType
<1>3. slid = Rect(Point(x, y), r.size)
  BY DEF Slide
<1>4. x \in Int /\ y \in Int
  BY <1>1, <1>2
<1>5. /\ "slide_x" \in hints /\ r.size.width <= display.size.width
            => x >= display.top_left.x /\ x + r.size.width <= top_right(display).x
      /\ "slide_y" \in hints /\ r.size.height <= display.size.height
            => y >= display.top_left.y /\ y + r.size.height <= bottom_left(display).y
  BY <1>1, <1>2
<1> HIDE DEF x, y, slid
<1>6. slid \in AnyRect /\ slid.size = r.size /\ slid.top_left.x = x /\ slid.top_left.y = y
  <2>1. Point(x, y) \in Points /\ Point(x, y).x = x /\ Point(x, y).y = y
    BY <1>4, RectType
  <2>2. \A p \in Points : /\ Rect(p, r.size) \in AnyRect
                           /\ Rect(p, r.size).top_left = p /\ Rect(p, r.size).size = r.size
    BY RectType
  <2>3. slid \in AnyRect /\ slid.top_left = Point(x, y) /\ slid.size = r.size
    BY <1>3, <2>1, <2>2
  <2> QED BY <2>1, <2>3
<1>7. /\ bottom_right(slid).x = x + r.size.width /\ bottom_right(slid).y = y + r.size.height
      /\ bottom_right(display).x = top_right(display).x
      /\ bottom_right(display).y = bottom_left(display).y
  BY <1>2, <1>6, CornersType
<1>8. /\ {"slide_x", "slide_y"} \subseteq hints
      /\ r.size.width <= display.size.width /\ r.size.height <= display.size.height
      => Contains(display, slid)
  BY <1>5, <1>6, <1>7 DEF Contains
<1> QED BY <1>6, <1>8 DEF slid

LEMMA CutType ==
    ASSUME NEW display \in AnyRect, NEW r \in AnyRect, NEW hints
    PROVE  Cut(display, hints, r) \in AnyRect
<1> DEFINE left   == display.top_left.x - r.top_left.x
           right  == bottom_right(r).x - top_right(display).x
           top    == display.top_left.y - r.top_left.y
           bottom == bottom_right(r).y - bottom_left(display).y
           Over(hint, n) == IF hint \in hints /\ n > 0 THEN n ELSE 0
           dx == Over("resize_x", left)
           dy == Over("resize_y", top)
           ex == Over("resize_x", right)
           ey == Over("resize_y", bottom)
<1>1. Cut(display, hints, r) = Rect(Plus(r.top_left, Point(dx, dy)),
                                    Size(r.size.width - dx - ex, r.size.height - dy - ey))
  BY DEF Cut
<1>2. /\ r.top_left.x \in Int /\ r.top_left.y \in Int /\ r.top_left \in Points
      /\ r.size.width \in Int /\ r.size.height \in Int
      /\ display.top_left.x \in Int /\ display.top_left.y \in Int
      /\ display.size.width \in Int /\ display.size.height \in Int
  BY RectType
<1>3. left \in Int /\ right \in Int /\ top \in Int /\ bottom \in Int
  BY <1>2, CornersType
<1> HIDE DEF left, right, top, bottom
<1>4. dx \in Int /\ dy \in Int /\ ex \in Int /\ ey \in Int
  BY <1>3
<1> HIDE DEF dx, dy, ex, ey
<1>5. Plus(r.top_left, Point(dx, dy)) \in Points
  BY <1>2, <1>4, RectType, PointSums
<1>6. Size(r.size.width - dx - ex, r.size.height - dy - ey) \in Sizes
  <2>1. r.size.width - dx - ex \in Int /\ r.size.height - dy - ey \in Int
    BY <1>2, <1>4
  <2> QED BY <2>1, RectType
<1> QED BY <1>1, <1>5, <1>6, RectType

LEMMA GravitiesTried ==
    ASSUME NEW params, Placeable(params)
    PROVE  /\ rect_gravities(params) \in Seq(Gravities)
           /\ Len(rect_gravities(params)) \in {1, 2}
           /\ rect_gravities(params)[1] = params.aux_rect_placement_gravity
<1> DEFINE g == params.aux_rect_placement_gravity
<1>1. g \in Gravities /\ antipodes(g) \in Gravities
  BY GravityType DEF Placeable
<1>2. rect_gravities(params) = <<g, antipodes(g)>> \/ rect_gravities(params) = <<g>>
  BY DEF rect_gravities
<1> HIDE DEF g
<1> QED BY <1>1, <1>2 DEF g

LEMMA FlipsProperties ==
    ASSUME NEW hints
    PROVE  \E T : FlipsTried(hints) \in Seq(T) /\ Len(FlipsTried(hints)) > 0
<1> DEFINE all == <<{}, {"flip_x"}, {"flip_y"}, {"flip_x", "flip_y"}>>
           S == {i \in DOMAIN all : all[i] \subseteq hints}
           T == {{}, {"flip_x"}, {"flip_y"}, {"flip_x", "flip_y"}}
<1>1. all \in Seq(T) /\ Len(all) = 4 /\ DOMAIN all = 1..4 /\ all[1] = {}
  OBVIOUS
<1> HIDE DEF all, T
<1>2. S \subseteq 1..Len(all) /\ 1 \in S
  BY <1>1
<1>3. FlipsTried(hints) = Remaining(all, S)
  BY DEF FlipsTried, all
<1> HIDE DEF S
<1>4. Remaining(all, S) \in Seq(T) /\ \E h : Picks(h, Remaining(all, S), all, S)
  BY <1>1, <1>2, RemainingProperties
<1>5. Len(Remaining(all, S)) > 0
  <2>1. PICK h : Picks(h, Remaining(all, S), all, S)
    BY <1>4
  <2>2. \E i \in 1..Len(Remaining(all, S)) : h[i] = 1
    BY <1>2, <2>1 DEF Picks
  <2>3. Len(Remaining(all, S)) \in Nat
    BY <1>4
  <2> QED BY <2>2, <2>3
<1> QED BY <1>3, <1>4, <1>5

\* Where place_relative() looks: the first candidate has the size wanted, and
\* the first gravity's is among those slid.
LEMMA TriedProperties ==
    ASSUME NEW display \in AnyRect, NEW parent \in AnyRect,
           NEW params, Placeable(params), NEW size \in Sizes
    PROVE  LET t == Tried(display, parent, params, size)
               g == params.aux_rect_placement_gravity
           IN  /\ t \in Seq(AnyRect) /\ t # <<>> /\ t[1].size = size
               /\ \E i \in DOMAIN t :
                    t[i] = Slide(display, params.placement_hints,
                                 Candidate(parent, params, size, g, {}))
<1> DEFINE hints == params.placement_hints
           gs    == rect_gravities(params)
           flips == FlipsTried(hints)
           Lf    == Len(flips)
           At(k) == Candidate(parent, params, size, gs[((k - 1) \div Lf) + 1],
                              flips[((k - 1) % Lf) + 1])
           flipped == [k \in 1..(Len(gs) * Lf) |-> At(k)]
           slid    == [i \in DOMAIN gs |->
                         Slide(display, hints, Candidate(parent, params, size, gs[i], {}))]
           Next1(c, i) == LET before == IF i = 1 THEN size ELSE c[i - 1].size
                          IN  Cut(display, hints, Candidate(parent, params, before, gs[i], {}))
           Eq(c) == c = [i \in DOMAIN gs |-> Next1(c, i)]
           cut == CHOOSE c : Eq(c)
           last == [i \in DOMAIN gs |-> cut[i]]
           t == Tried(display, parent, params, size)
<1>1. /\ gs \in Seq(Gravities) /\ Len(gs) \in {1, 2} /\ DOMAIN gs = 1..Len(gs)
      /\ gs[1] = params.aux_rect_placement_gravity
      /\ \A i \in 1..Len(gs) : gs[i] \in Gravities
  BY GravitiesTried
<1>2. Lf \in Nat /\ Lf > 0
  BY FlipsProperties
<1>3. t = flipped \o slid \o last
  BY DEF Tried
<1> HIDE DEF gs, flips, Lf, t, last, cut, hints
<1>4. \A f : \A s \in Sizes, i \in 1..Len(gs) :
            /\ Candidate(parent, params, s, gs[i], f) \in AnyRect
            /\ Candidate(parent, params, s, gs[i], f).size = s
  BY <1>1, CandidateType
<1>5. /\ flipped \in Seq(AnyRect) /\ Len(flipped) = Len(gs) * Lf /\ Len(flipped) > 0
      /\ flipped[1].size = size
  <2> DEFINE m == Len(gs) * Lf
  <2>1. m \in Nat /\ m > 0 /\ m <= 2 * Lf /\ (Len(gs) = 1 => m = Lf)
    BY <1>1, <1>2
  <2> HIDE DEF m
  <2>2. ASSUME NEW k \in 1..m PROVE At(k) \in AnyRect /\ At(k).size = size
    <3> DEFINE a == (k - 1) \div Lf
    <3>1. a \in Nat /\ a * Lf <= k - 1
      BY <1>2
    <3>2. a + 1 \in 1..Len(gs)
      <4>1. CASE Len(gs) = 1
        BY <1>2, <2>1, <3>1, <4>1
      <4>2. CASE Len(gs) = 2
        BY <1>2, <2>1, <3>1, <4>2
      <4> QED BY <1>1, <4>1, <4>2
    <3> QED BY <1>4, <3>2
  <2> HIDE DEF At
  <2>3. flipped = [k \in 1..m |-> At(k)]
    BY DEF m
  <2> HIDE DEF flipped
  <2>4. flipped \in Seq(AnyRect) /\ Len(flipped) = m /\ flipped[1] = At(1)
    BY <2>1, <2>2, <2>3
  <2> QED BY <2>1, <2>2, <2>4 DEF m
<1>6. slid \in Seq(AnyRect) /\ Len(slid) = Len(gs)
  <2>1. \A i \in 1..Len(gs) :
            Slide(display, hints, Candidate(parent, params, size, gs[i], {})) \in AnyRect
    BY <1>4, SlideType
  <2> QED BY <1>1, <2>1
<1>7. last \in Seq(AnyRect)
  <2> DEFINE c1 == Cut(display, hints, Candidate(parent, params, size, gs[1], {}))
             c2 == Cut(display, hints, Candidate(parent, params, c1.size, gs[2], {}))
             c  == [i \in DOMAIN gs |-> IF i = 1 THEN c1 ELSE c2]
  <2>1. Eq(c)
    <3>1. c = [i \in DOMAIN gs |-> c[i]]
      OBVIOUS
    <3>2. ASSUME NEW i \in DOMAIN gs PROVE c[i] = Next1(c, i)
      <4>1. CASE i = 1
        BY <1>1, <4>1
      <4>2. CASE i # 1
        <5>1. i = 2 /\ i - 1 = 1 /\ 1 \in DOMAIN gs
          BY <1>1, <4>2
        <5> HIDE DEF c1
        <5>2. c[i] = c2 /\ c[1] = c1
          BY <5>1
        <5> QED BY <5>1, <5>2
      <4> QED BY <4>1, <4>2
    <3> HIDE DEF c, Next1
    <3> QED BY <3>1, <3>2
  <2> HIDE DEF Eq, c
  <2>2. Eq(cut)
    BY <2>1 DEF cut
  <2>3. DOMAIN cut = DOMAIN gs /\ \A i \in DOMAIN gs : cut[i] = Next1(cut, i)
    BY <2>2 DEF Eq
  <2>4. \A s \in Sizes, i \in DOMAIN gs :
            Cut(display, hints, Candidate(parent, params, s, gs[i], {})) \in AnyRect
    BY <1>1, <1>4, CutType
  <2>5. 1 \in DOMAIN gs /\ cut[1] \in AnyRect /\ cut[1].size \in Sizes
    <3>1. 1 \in DOMAIN gs
      BY <1>1
    <3> QED BY <2>3, <2>4, <3>1, RectType
  <2>6. \A i \in DOMAIN gs : cut[i] \in AnyRect
    <3> SUFFICES ASSUME NEW i \in DOMAIN gs, i # 1 PROVE cut[i] \in AnyRect
      BY <2>5
    <3>1. i - 1 = 1
      BY <1>1
    <3> QED BY <2>3, <2>4, <2>5, <3>1
  <2> QED BY <1>1, <2>6 DEF last
<1> HIDE DEF flipped
<1>8. slid[1] = Slide(display, hints,
                      Candidate(parent, params, size, params.aux_rect_placement_gravity, {}))
  BY <1>1
<1> HIDE DEF slid
<1>9. /\ flipped \o slid \in Seq(AnyRect) /\ Len(flipped \o slid) = Len(flipped) + Len(slid)
      /\ \A i \in 1..(Len(flipped) + Len(slid)) : (flipped \o slid)[i] =
                    IF i <= Len(flipped) THEN flipped[i] ELSE slid[i - Len(flipped)]
  BY <1>5, <1>6, ConcatProperties
<1> DEFINE u == flipped \o slid
<1> HIDE DEF u
<1>10. /\ u \o last \in Seq(AnyRect) /\ Len(u \o last) = Len(u) + Len(last)
       /\ \A i \in 1..(Len(u) + Len(last)) : (u \o last)[i] =
                    IF i <= Len(u) THEN u[i] ELSE last[i - Len(u)]
  BY <1>7, <1>9, ConcatProperties DEF u
<1> DEFINE n == Len(flipped)
           k == Len(slid)
           l == Len(last)
<1>11. n \in Nat /\ k \in Nat /\ l \in Nat /\ n > 0 /\ k > 0
  BY <1>1, <1>5, <1>6, <1>7
<1>12. /\ t = u \o last /\ t \in Seq(AnyRect) /\ Len(t) = n + k + l
       /\ \A i \in 1..(n + k) : t[i] = IF i <= n THEN flipped[i] ELSE slid[i - n]
  <2>1. t = u \o last
    BY <1>3 DEF u
  <2>2. Len(u) = n + k /\ \A i \in 1..(n + k) : u[i] = IF i <= n THEN flipped[i] ELSE slid[i - n]
    BY <1>9 DEF u
  <2>3. \A i \in 1..(n + k) : i \in 1..(n + k + l) /\ i <= n + k
    BY <1>11
  <2> HIDE DEF n, k, l
  <2>4. Len(last) = l
    BY DEF l
  <2> QED BY <1>10, <2>1, <2>2, <2>3, <2>4
<1> HIDE DEF n, k, l
<1>13. t[1] = flipped[1] /\ t[n + 1] = slid[1] /\ n + 1 \in DOMAIN t /\ t # <<>>
  <2>1. 1 \in 1..(n + k) /\ 1 <= n /\ n + 1 \in 1..(n + k) /\ ~(n + 1 <= n) /\ n + 1 - n = 1
        /\ n + 1 \in 1..(n + k + l)
    BY <1>11
  <2>2. DOMAIN t = 1..(n + k + l)
    BY <1>12
  <2>3. t # <<>>
    <3>1. Len(t) # 0
      BY <1>11, <1>12
    <3> QED BY <3>1
  <2>4. t[1] = flipped[1]
    BY <1>12, <2>1
  <2>5. t[n + 1] = slid[1]
    <3> DEFINE m == n + 1
    <3>1. m \in 1..(n + k) /\ ~(m <= n) /\ m - n = 1
      BY <1>11
    <3> HIDE DEF m
    <3>2. t[m] = slid[m - n]
      BY <1>12, <3>1
    <3> QED BY <3>1, <3>2 DEF m
  <2> QED BY <2>1, <2>2, <2>3, <2>4, <2>5
<1> QED BY <1>5, <1>8, <1>12, <1>13 DEF t, hints

\* place_relative() answers a rectangle, and one inside the display if what it
\* answers would fit there and may slide both ways.
LEMMA RelativeType ==
    ASSUME NEW display \in AnyRect, NEW parent \in AnyRect,
           NEW params, Placeable(params), NEW default \in Sizes,
           is_set(params, "size") => params.size \in Sizes
    PROVE  LET r == place_relative(display, parent, params, default)
           IN  /\ r \in AnyRect
               /\ /\ {"slide_x", "slide_y"} \subseteq params.placement_hints
                  /\ r.size.width <= display.size.width /\ r.size.height <= display.size.height
                  => Contains(display, r)
<1> DEFINE size == value_or(params, "size", default)
           t == Tried(display, parent, params, size)
           fits == {i \in DOMAIN t : Contains(display, t[i])}
           r == place_relative(display, parent, params, default)
           c == Candidate(parent, params, size, params.aux_rect_placement_gravity, {})
<1>1. size \in Sizes
  BY DEF value_or
<1> HIDE DEF size
<1>2. /\ t \in Seq(AnyRect) /\ t # <<>> /\ t[1].size = size
      /\ \E i \in DOMAIN t : t[i] = Slide(display, params.placement_hints, c)
  BY <1>1, TriedProperties
<1>3. r = IF fits = {} THEN t[1] ELSE t[CHOOSE i \in fits : \A j \in fits : i <= j]
  BY DEF place_relative, FirstInside, size
<1> HIDE DEF t, r
<1>4. 1 \in DOMAIN t /\ DOMAIN t = 1..Len(t) /\ Len(t) \in Nat /\ \A i \in DOMAIN t : t[i] \in AnyRect
  BY <1>2, EmptySeq
<1>5. CASE fits = {}
  <2>1. r = t[1]
    BY <1>3, <1>5
  <2>2. ASSUME {"slide_x", "slide_y"} \subseteq params.placement_hints,
               r.size.width <= display.size.width, r.size.height <= display.size.height
        PROVE  FALSE
    <3>1. c \in AnyRect /\ c.size = size
      BY <1>1, CandidateType DEF Placeable
    <3> HIDE DEF c
    <3>2. Contains(display, Slide(display, params.placement_hints, c))
      BY <1>2, <2>1, <2>2, <3>1, SlideType
    <3> QED BY <1>2, <1>5, <3>2
  <2> QED BY <1>4, <2>1, <2>2 DEF r
<1>6. CASE fits # {}
  <2>1. fits \subseteq 1..Len(t)
    BY <1>4
  <2>2. LeastOf(fits) \in fits
    <3> HIDE DEF fits
    <3> QED BY <1>4, <1>6, <2>1, LeastPosition
  <2>3. LeastOf(fits) = CHOOSE i \in fits : \A j \in fits : i <= j
    BY DEF LeastOf
  <2>4. r = t[LeastOf(fits)]
    BY <1>3, <1>6, <2>3
  <2>5. LeastOf(fits) \in DOMAIN t /\ Contains(display, t[LeastOf(fits)])
    BY <2>2
  <2> QED BY <1>4, <2>4, <2>5 DEF r
<1> QED BY <1>5, <1>6

-----------------------------------------------------------------------------
(* Displays.                                                               *)

LEMMA OfTwo ==
    ASSUME NEW a \in Int, NEW b \in Int
    PROVE  LeastOf({a, b}) \in Int /\ GreatestOf({a, b}) \in Int
<1>1. \E n \in {a, b} : \A m \in {a, b} : n <= m
  BY a <= b \/ b <= a, a <= a, b <= b
<1>2. \E n \in {a, b} : \A m \in {a, b} : n >= m
  BY a >= b \/ b >= a, a >= a, b >= b
<1>3. LeastOf({a, b}) \in {a, b}
  BY <1>1, Zenon DEF LeastOf
<1>4. GreatestOf({a, b}) \in {a, b}
  BY <1>2, Zenon DEF GreatestOf
<1> QED BY <1>3, <1>4

LEMMA OverlapType ==
    ASSUME NEW a \in AnyRect, NEW b \in AnyRect
    PROVE  overlap_area(a, b) \in Int
<1> DEFINE xl == LeastOf({bottom_right(a).x, bottom_right(b).x})
           xg == GreatestOf({a.top_left.x, b.top_left.x})
           yl == LeastOf({bottom_right(a).y, bottom_right(b).y})
           yg == GreatestOf({a.top_left.y, b.top_left.y})
<1>1. /\ a.top_left.x \in Int /\ a.top_left.y \in Int
      /\ b.top_left.x \in Int /\ b.top_left.y \in Int
      /\ bottom_right(a).x \in Int /\ bottom_right(a).y \in Int
      /\ bottom_right(b).x \in Int /\ bottom_right(b).y \in Int
  BY RectType, CornersType
<1>2. xl \in Int /\ xg \in Int /\ yl \in Int /\ yg \in Int
  BY <1>1, OfTwo
<1>3. overlap_area(a, b) = IF ~overlaps(a, b) THEN 0 ELSE (xl - xg) * (yl - yg)
  BY DEF overlap_area
<1> HIDE DEF xl, xg, yl, yg
<1>4. (xl - xg) * (yl - yg) \in Int
  BY <1>2
<1> QED BY <1>3, <1>4

LEMMA MostOverlappedIsOne ==
    ASSUME NEW areas \in Seq(Rects), areas # <<>>, NEW r \in AnyRect
    PROVE  \E i \in DOMAIN areas : MostOverlapped(areas, r) = areas[i]
<1> DEFINE n == Len(areas) - 1
           f == [i \in 1..(n + 1) |-> overlap_area(areas[i], r)]
           S == {f[i] : i \in 1..(n + 1)}
           best == {i \in DOMAIN areas :
                        \A j \in DOMAIN areas : overlap_area(areas[i], r) >= overlap_area(areas[j], r)}
<1>1. n \in Nat /\ DOMAIN areas = 1..(n + 1) /\ n + 1 = Len(areas)
  BY EmptySeq
<1>2. \A i \in 1..(n + 1) : overlap_area(areas[i], r) \in Int
  <2>1. \A i \in 1..(n + 1) : areas[i] \in AnyRect
    BY <1>1, RectType
  <2> QED BY <2>1, OverlapType
<1>3. f \in [1..(n + 1) -> Int] /\ \A i \in 1..(n + 1) : f[i] = overlap_area(areas[i], r)
  BY <1>2
<1> HIDE DEF f, n
<1>4. \A v : v \in S <=> \E i \in 1..(n + 1) : v = f[i]
  OBVIOUS
<1>5. GreatestOf(S) \in S /\ \A v \in S : GreatestOf(S) >= v
  <2>1. f \in [1..(n + 1) -> Int]
    BY <1>3
  <2> HIDE DEF S
  <2> QED BY <1>1, <1>4, <2>1, ExtremesExist
<1>6. PICK i \in 1..(n + 1) : GreatestOf(S) = f[i]
  BY <1>5
<1>7. \A j \in 1..(n + 1) : f[i] >= f[j]
  BY <1>5, <1>6
<1>8. i \in best
  BY <1>1, <1>3, <1>7
<1> HIDE DEF S
<1>9. best \subseteq 1..Len(areas) /\ best # {} /\ Len(areas) \in Nat
  BY <1>1, <1>8
<1> HIDE DEF best
<1>10. LeastOf(best) \in best
  BY <1>9, LeastPosition
<1>11. MostOverlapped(areas, r) = areas[LeastOf(best)]
  BY DEF MostOverlapped, best
<1> QED BY <1>9, <1>10, <1>11 DEF best

LEMMA AreasType ==
    ASSUME NEW Ids, NEW outs \in Seq([id : Ids, area : Rects])
    PROVE  /\ Areas(outs) \in Seq(Rects)
           /\ DOMAIN Areas(outs) = DOMAIN outs /\ DOMAIN outs = 1..Len(outs)
           /\ \A i \in DOMAIN outs : Areas(outs)[i] = outs[i].area /\ outs[i].area \in Rects
           /\ Areas(outs) = <<>> <=> outs = <<>>
<1> DEFINE T == [id : Ids, area : Rects]
<1>1. DOMAIN outs = 1..Len(outs) /\ Len(outs) \in Nat /\ \A i \in DOMAIN outs : outs[i].area \in Rects
  <2>1. \A o \in T : o.area \in Rects
    OBVIOUS
  <2>2. outs \in Seq(T)
    OBVIOUS
  <2> HIDE DEF T
  <2>3. DOMAIN outs = 1..Len(outs) /\ Len(outs) \in Nat /\ \A i \in DOMAIN outs : outs[i] \in T
    BY <2>2
  <2> QED BY <2>1, <2>3
<1>2. /\ Areas(outs) \in Seq(Rects) /\ DOMAIN Areas(outs) = DOMAIN outs
      /\ Len(Areas(outs)) = Len(outs)
      /\ \A i \in DOMAIN outs : Areas(outs)[i] = outs[i].area
  BY <1>1 DEF Areas
<1>3. Areas(outs) = <<>> <=> outs = <<>>
  BY <1>2, EmptySeq
<1> QED BY <1>1, <1>2, <1>3

LEMMA ActiveDisplayType ==
    ASSUME NEW Ids, NEW outs \in Seq([id : Ids, area : Rects]), NEW cursor,
           NEW focus, focus = <<>> \/ (focus # <<>> /\ focus[1] \in AnyRect)
    PROVE  /\ active_display(outs, focus, cursor) \in Rects
           /\ outs # <<>> => \E i \in DOMAIN outs :
                                active_display(outs, focus, cursor) = outs[i].area
<1> DEFINE areas == Areas(outs)
           under == {i \in DOMAIN areas : Holds(areas[i], cursor)}
           result == active_display(outs, focus, cursor)
<1>1. /\ areas \in Seq(Rects) /\ DOMAIN areas = DOMAIN outs /\ DOMAIN outs = 1..Len(outs)
      /\ \A i \in DOMAIN outs : areas[i] = outs[i].area /\ outs[i].area \in Rects
      /\ areas = <<>> <=> outs = <<>>
  BY AreasType
<1>2. result = IF areas = <<>> THEN NoArea
               ELSE IF focus # <<>> THEN MostOverlapped(areas, focus[1])
               ELSE IF under # {} THEN areas[LeastOf(under)]
               ELSE areas[1]
  BY DEF active_display, LeastOf
<1> HIDE DEF areas, result
<1>3. CASE areas = <<>>
  <2>1. NoArea \in Rects
    BY DEF NoArea, Rects, Rect, Size, Origin, Point
  <2> QED BY <1>1, <1>2, <1>3, <2>1 DEF result
<1>4. CASE areas # <<>>
  <2>1. \E i \in DOMAIN areas : result = areas[i]
    <3>1. CASE focus # <<>>
      <4>1. \E i \in DOMAIN areas : MostOverlapped(areas, focus[1]) = areas[i]
        BY <1>1, <1>4, <3>1, MostOverlappedIsOne
      <4> QED BY <1>2, <1>4, <3>1, <4>1
    <3>2. CASE focus = <<>> /\ under # {}
      <4>1. under \subseteq 1..Len(outs) /\ Len(outs) \in Nat
        BY <1>1
      <4>2. LeastOf(under) \in under
        <5> HIDE DEF under
        <5> QED BY <3>2, <4>1, LeastPosition
      <4>3. LeastOf(under) \in DOMAIN areas
        BY <4>2
      <4> QED BY <1>2, <1>4, <3>2, <4>3
    <3>3. CASE focus = <<>> /\ under = {}
      <4>1. 1 \in DOMAIN areas
        BY <1>1, <1>4, EmptySeq
      <4>2. result = areas[1]
        BY <1>2, <1>4, <3>3
      <4> QED BY <4>1, <4>2
    <3> QED BY <3>1, <3>2, <3>3
  <2> QED BY <1>1, <1>4, <2>1 DEF result
<1> QED BY <1>3, <1>4

\* The rectangle is that of an output, of the window's own if it is connected.
Covers(outs, info, r) ==
    outs # <<>> =>
        \E i \in DOMAIN outs :
            /\ r = outs[i].area
            /\ \A j \in DOMAIN outs :
                is_set(info, "output_id") /\ outs[j].id = info.output_id
                    => outs[i].id = info.output_id

\* A fullscreen window's rectangle is the area of its own output if that is
\* connected, and of some output if there is any.
LEMMA FullscreenRect ==
    ASSUME NEW Ids, NEW outs \in Seq([id : Ids, area : Rects]),
           NEW info, NEW now \in AnyRect
    PROVE  LET r == fullscreen_rect_for(outs, info, now)
           IN  r \in AnyRect /\ Covers(outs, info, r)
<1> DEFINE r == fullscreen_rect_for(outs, info, now)
           mine == \E i \in DOMAIN outs : is_set(info, "output_id") /\ outs[i].id = info.output_id
<1>1. /\ Areas(outs) \in Seq(Rects) /\ DOMAIN Areas(outs) = DOMAIN outs
      /\ \A i \in DOMAIN outs : Areas(outs)[i] = outs[i].area /\ outs[i].area \in AnyRect
      /\ Areas(outs) = <<>> <=> outs = <<>>
  <2>1. Rects \subseteq AnyRect
    BY RectType
  <2> QED BY <2>1, AreasType
<1>2. CASE mine
  <2> DEFINE at == CHOOSE i \in DOMAIN outs : outs[i].id = info.output_id
  <2>1. at \in DOMAIN outs /\ outs[at].id = info.output_id
    BY <1>2
  <2>2. r = outs[at].area
    BY <1>2 DEF fullscreen_rect_for, place_in_output
  <2> HIDE DEF at
  <2> QED BY <1>1, <2>1, <2>2 DEF Covers
<1>3. CASE ~mine
  <2>1. r = IF Areas(outs) = <<>> THEN now ELSE MostOverlapped(Areas(outs), now)
    BY <1>3 DEF fullscreen_rect_for, size_to_output
  <2>2. CASE outs = <<>>
    BY <1>1, <2>1, <2>2 DEF Covers
  <2>3. CASE outs # <<>>
    <3>1. PICK i \in DOMAIN Areas(outs) : MostOverlapped(Areas(outs), now) = Areas(outs)[i]
      BY <1>1, <2>3, MostOverlappedIsOne
    <3>2. i \in DOMAIN outs /\ r = outs[i].area
      BY <1>1, <2>1, <2>3, <3>1
    <3>3. \A j \in DOMAIN outs :
            is_set(info, "output_id") /\ outs[j].id = info.output_id => outs[i].id = info.output_id
      BY <1>3
    <3> HIDE DEF r, mine
    <3> QED BY <1>1, <3>2, <3>3 DEF r, Covers
  <2> QED BY <2>2, <2>3
<1> QED BY <1>2, <1>3

LEMMA AllAreas ==
    ASSUME NEW Ids, NEW outs \in Seq([id : Ids, area : Rects])
    PROVE  /\ bounding_rectangle(Areas(outs)) \in Rects
           /\ \A i \in DOMAIN outs : Contains(bounding_rectangle(Areas(outs)), outs[i].area)
<1>1. /\ Areas(outs) \in Seq(Rects) /\ DOMAIN Areas(outs) = DOMAIN outs
      /\ \A i \in DOMAIN outs : Areas(outs)[i] = outs[i].area
      /\ Areas(outs) = <<>> <=> outs = <<>>
  BY AreasType
<1>2. CASE outs = <<>>
  <2>1. NoArea \in Rects
    BY DEF NoArea, Rects, Rect, Size, Origin, Point
  <2>2. bounding_rectangle(Areas(outs)) = NoArea /\ DOMAIN outs = {}
    BY <1>1, <1>2 DEF bounding_rectangle
  <2> QED BY <2>1, <2>2
<1>3. CASE outs # <<>>
  BY <1>1, <1>3, Bounding
<1> QED BY <1>2, <1>3

-----------------------------------------------------------------------------
(* The rectangles that go with the states.                                 *)

Sound(spec) == WellTyped(spec) /\ SoundLimits(spec)

\* With a place and a size filled in.
LEMMA AssignSound ==
    ASSUME NEW mods, Sound(mods), NEW p \in Points, NEW s \in Sizes
    PROVE  LET m == Assign(Assign(mods, "top_left", p), "size", s)
           IN  /\ Sound(m) /\ m.top_left = p /\ m.size = s
               /\ DOMAIN m = DOMAIN mods \cup {"top_left", "size"}
               /\ \A f \in DOMAIN mods : f \notin {"top_left", "size"} => m[f] = mods[f]
<1> DEFINE m == Assign(Assign(mods, "top_left", p), "size", s)
<1>1. /\ DOMAIN m = DOMAIN mods \cup {"top_left", "size"} /\ m.top_left = p /\ m.size = s
      /\ \A f \in DOMAIN mods : f \notin {"top_left", "size"} => m[f] = mods[f]
  BY DEF Assign
<1> HIDE DEF m
<1>2. WellTyped(m)
  <2>1. WellTyped(mods)
    BY DEF Sound
  <2>2. \A f : f \notin {"top_left", "size"} =>
            (is_set(m, f) <=> is_set(mods, f)) /\ (is_set(m, f) => m[f] = mods[f])
    BY <1>1 DEF is_set
  <2>3. is_set(m, "state") => m.state \in WindowStates
    BY <2>1, <2>2 DEF WellTyped
  <2>4. \A f \in {"min_width", "min_height", "max_width", "max_height", "width_inc", "height_inc"} :
            is_set(m, f) => m[f] \in Int
    BY <2>1, <2>2 DEF WellTyped
  <2>5. \A f \in {"min_aspect", "max_aspect"} : is_set(m, f) => m[f] \in Sizes
    BY <2>1, <2>2 DEF WellTyped
  <2>6. is_set(m, "aux_rect_placement_offset") => m.aux_rect_placement_offset \in Points
    BY <2>1, <2>2 DEF WellTyped
  <2>7. is_set(m, "placement_hints") =>
            {"aux_rect", "window_placement_gravity", "aux_rect_placement_gravity"} \subseteq DOMAIN m
    BY <1>1, <2>1, <2>2 DEF WellTyped
  <2>8. is_set(m, "placement_hints") =>
            /\ m.aux_rect = mods.aux_rect
            /\ m.window_placement_gravity = mods.window_placement_gravity
            /\ m.aux_rect_placement_gravity = mods.aux_rect_placement_gravity
    BY <2>2, <2>7 DEF is_set
  <2>9. is_set(m, "placement_hints") =>
            /\ m.aux_rect \in [top_left : Points, size : Sizes]
            /\ {m.window_placement_gravity, m.aux_rect_placement_gravity} \subseteq Gravities
    BY <2>1, <2>2, <2>8 DEF WellTyped
  <2> QED BY <1>1, <2>3, <2>4, <2>5, <2>6, <2>7, <2>9 DEF WellTyped
<1>3. SoundLimits(m)
  BY <1>1 DEF Sound, SoundLimits, is_set
<1> QED BY <1>1, <1>2, <1>3 DEF Sound, m

LEMMA RestoreType ==
    ASSUME NEW info, info.restore_rect \in AnyRect, NEW now \in AnyRect
    PROVE  RestoreRect(info, now) \in AnyRect
<1> DEFINE free == IF info.state = "hidden" THEN {"x", "y"} ELSE Free(info.state)
           old  == info.restore_rect
           x == IF "x" \in free THEN now.top_left.x ELSE old.top_left.x
           y == IF "y" \in free THEN now.top_left.y ELSE old.top_left.y
           w == IF "x" \in free THEN now.size.width ELSE old.size.width
           h == IF "y" \in free THEN now.size.height ELSE old.size.height
<1>1. RestoreRect(info, now) = Rect(Point(x, y), Size(w, h))
  BY DEF RestoreRect
<1> HIDE DEF free
<1>2. x \in Int /\ y \in Int /\ w \in Int /\ h \in Int
  BY RectType
<1> HIDE DEF x, y, w, h
<1>3. Point(x, y) \in Points /\ Size(w, h) \in Sizes
  BY <1>2, RectType
<1> QED BY <1>1, <1>3, RectType

LEMMA RectForStateType ==
    ASSUME NEW state \in WindowStates, state \notin HiddenStates \cup {"fullscreen"},
           NEW restore \in AnyRect, NEW area \in AnyRect
    PROVE  RectForState(state, restore, area) \in AnyRect
<1>1. state = "restored" \/ state = "maximized" \/ state = "horizmaximized" \/ state = "vertmaximized"
  BY DEF WindowStates, HiddenStates
<1>2. /\ restore.top_left.x \in Int /\ restore.top_left.y \in Int
      /\ restore.size.width \in Int /\ restore.size.height \in Int
      /\ area.top_left.x \in Int /\ area.top_left.y \in Int
      /\ area.size.width \in Int /\ area.size.height \in Int
  BY RectType
<1>3. /\ Point(area.top_left.x, restore.top_left.y) \in Points
      /\ Size(area.size.width, restore.size.height) \in Sizes
      /\ Point(restore.top_left.x, area.top_left.y) \in Points
      /\ Size(restore.size.width, area.size.height) \in Sizes
  BY <1>2, RectType
<1>4. /\ Rect(Point(area.top_left.x, restore.top_left.y),
              Size(area.size.width, restore.size.height)) \in AnyRect
      /\ Rect(Point(restore.top_left.x, area.top_left.y),
              Size(restore.size.width, area.size.height)) \in AnyRect
  BY <1>3, RectType
<1> QED BY <1>1, <1>4 DEF RectForState

\* A request gives a place and a size, those of a rectangle.
Fills(mods, r) ==
    is_set(mods, "size") /\ is_set(mods, "top_left") /\ Rect(mods.top_left, mods.size) = r

\* The request with what its state entails filled in.
LEMMA StateFilled ==
    ASSUME NEW Ids, NEW outs \in Seq([id : Ids, area : Rects]), NEW mods, Sound(mods),
           NEW info, info.restore_rect \in AnyRect, NEW now \in AnyRect
    PROVE  LET m == place_and_size_for_state(outs, mods, info, now)
           IN  /\ Sound(m)
               /\ DOMAIN mods \subseteq DOMAIN m
               /\ DOMAIN m \subseteq DOMAIN mods \cup {"top_left", "size"}
               /\ \A f \in DOMAIN mods : f \notin {"top_left", "size"} => m[f] = mods[f]
               /\ StateWanted(mods, info) /\ mods.state = "restored"
                    /\ ~is_set(mods, "top_left") /\ ~is_set(mods, "size")
                  => Fills(m, RestoreRect(info, now))
               /\ StateWanted(mods, info) /\ mods.state = "maximized"
                  => Fills(m, bounding_rectangle(Areas(outs)))
<1> DEFINE current == RestoreRect(info, now)
           restore == Rect(value_or(mods, "top_left", current.top_left),
                           value_or(mods, "size", current.size))
           area == bounding_rectangle(Areas(outs))
           r == IF mods.state = "fullscreen" THEN fullscreen_rect_for(outs, info, now)
                ELSE RectForState(mods.state, restore, area)
           same == ~StateWanted(mods, info) \/ mods.state \in HiddenStates
           m == place_and_size_for_state(outs, mods, info, now)
<1>1. m = IF same THEN mods ELSE Assign(Assign(mods, "top_left", r.top_left), "size", r.size)
  BY DEF place_and_size_for_state
<1>2. current \in AnyRect
  BY RestoreType
<1>3. current.top_left \in Points /\ current.size \in Sizes
  BY <1>2, RectType
<1>4. restore \in AnyRect
  <2>1. value_or(mods, "top_left", current.top_left) \in Points
    BY <1>3 DEF value_or, Sound, WellTyped
  <2>2. value_or(mods, "size", current.size) \in Sizes
    BY <1>3 DEF value_or, Sound, WellTyped
  <2> QED BY <2>1, <2>2, RectType
<1>5. area \in AnyRect
  BY AllAreas, RectType
<1>6. ~same => r \in AnyRect
  <2> SUFFICES ASSUME ~same PROVE r \in AnyRect
    OBVIOUS
  <2>1. mods.state \in WindowStates /\ mods.state \notin HiddenStates
    BY DEF StateWanted, Sound, WellTyped
  <2> HIDE DEF restore, area
  <2>2. CASE mods.state = "fullscreen"
    BY <2>2, FullscreenRect
  <2>3. CASE mods.state # "fullscreen"
    BY <1>4, <1>5, <2>1, <2>3, RectForStateType
  <2> QED BY <2>2, <2>3
<1>7. StateWanted(mods, info) /\ mods.state = "restored" /\ ~is_set(mods, "top_left")
        /\ ~is_set(mods, "size") => r = current /\ ~same
  <2> SUFFICES ASSUME StateWanted(mods, info), mods.state = "restored",
                      ~is_set(mods, "top_left"), ~is_set(mods, "size")
               PROVE  r = current /\ ~same
    OBVIOUS
  <2>1. restore = Rect(current.top_left, current.size)
    BY DEF value_or
  <2>2. restore = current
    BY <1>2, <2>1, RectType
  <2> HIDE DEF restore, current, area
  <2> QED BY <2>2 DEF RectForState, HiddenStates
<1>8. StateWanted(mods, info) /\ mods.state = "maximized" => r = area /\ ~same
  <2> HIDE DEF restore, current, area
  <2> QED BY DEF RectForState, HiddenStates
<1> HIDE DEF r, m, same, current, area, restore
<1>9. CASE same
  <2>1. m = mods
    BY <1>1, <1>9
  <2> QED BY <1>7, <1>8, <1>9, <2>1 DEF m
<1>10. CASE ~same
  <2>1. r.top_left \in Points /\ r.size \in Sizes /\ Rect(r.top_left, r.size) = r
    BY <1>6, <1>10, RectType
  <2>2. m = Assign(Assign(mods, "top_left", r.top_left), "size", r.size)
    BY <1>1, <1>10
  <2>3. /\ Sound(m) /\ m.top_left = r.top_left /\ m.size = r.size
        /\ DOMAIN m = DOMAIN mods \cup {"top_left", "size"}
        /\ \A f \in DOMAIN mods : f \notin {"top_left", "size"} => m[f] = mods[f]
    <3> DEFINE p == r.top_left
               z == r.size
    <3>1. p \in Points /\ z \in Sizes /\ m = Assign(Assign(mods, "top_left", p), "size", z)
      BY <2>1, <2>2
    <3> HIDE DEF p, z
    <3>2. \A pp \in Points, zz \in Sizes :
            LET made == Assign(Assign(mods, "top_left", pp), "size", zz)
            IN  /\ Sound(made) /\ made.top_left = pp /\ made.size = zz
                /\ DOMAIN made = DOMAIN mods \cup {"top_left", "size"}
                /\ \A f \in DOMAIN mods : f \notin {"top_left", "size"} => made[f] = mods[f]
      <4> HIDE DEF m
      <4> QED BY AssignSound
    <3> HIDE DEF m
    <3> DEFINE made == Assign(Assign(mods, "top_left", p), "size", z)
    <3>3. /\ Sound(made) /\ made.top_left = p /\ made.size = z
          /\ DOMAIN made = DOMAIN mods \cup {"top_left", "size"}
          /\ \A f \in DOMAIN mods : f \notin {"top_left", "size"} => made[f] = mods[f]
      BY <3>1, <3>2, Zenon
    <3>4. m = made
      BY <3>1
    <3> HIDE DEF made
    <3> QED BY <3>3, <3>4 DEF p, z
  <2>4. Fills(m, r)
    BY <2>1, <2>3 DEF is_set, Fills
  <2> QED BY <1>7, <1>8, <2>3, <2>4 DEF m, current, area
<1> QED BY <1>9, <1>10

-----------------------------------------------------------------------------
(* The trees of windows.                                                   *)

\* f[i] is what comes of c when step is taken i times.
Repeats(f, S, step, c, m) ==
    f \in [0..m -> S] /\ f[0] = c /\ \A i \in 1..m : f[i] = step[f[i - 1]]

\* A step can be taken any number of times.
LEMMA Repeated ==
    ASSUME NEW S, NEW step \in [S -> S], NEW c \in S, NEW m \in Nat
    PROVE  \E f : Repeats(f, S, step, c, m)
<1> DEFINE Good(k, f) == f[0] = c /\ \A i \in 1..k : f[i] = step[f[i - 1]]
           K == {k \in Nat : \E f \in [0..k -> S] : Good(k, f)}
<1>1. 0 \in K
  <2> [i \in 0..0 |-> c] \in [0..0 -> S] /\ Good(0, [i \in 0..0 |-> c])
    OBVIOUS
  <2> QED OBVIOUS
<1>2. ASSUME NEW k \in Nat, k \in K PROVE k + 1 \in K
  <2>1. PICK f \in [0..k -> S] : Good(k, f)
    BY <1>2
  <2> DEFINE g == [i \in 0..(k + 1) |-> IF i = k + 1 THEN step[f[k]] ELSE f[i]]
  <2>2. g \in [0..(k + 1) -> S]
    BY <2>1
  <2>3. Good(k + 1, g)
    <3>1. g[0] = c
      BY <2>1
    <3>2. ASSUME NEW i \in 1..(k + 1) PROVE g[i] = step[g[i - 1]]
      <4>1. CASE i = k + 1
        BY <2>1, <4>1
      <4>2. CASE i \in 1..k
        BY <2>1, <4>2
      <4> QED BY <4>1, <4>2
    <3> QED BY <3>1, <3>2
  <2>4. \E h \in [0..(k + 1) -> S] : Good(k + 1, h)
    <3> HIDE DEF g, Good
    <3> QED BY <2>2, <2>3
  <2> HIDE DEF g, Good
  <2> QED BY <2>4
<1>3. 0..m \subseteq K
  <2> HIDE DEF K
  <2> QED BY <1>1, <1>2, Reaches
<1> QED BY <1>3 DEF Repeats

\* The generations below a window.
Levels(d, w, L) ==
    /\ L \in [0..Cardinality(Live(d)) -> SUBSET Live(d)]
    /\ L[0] = {w}
    /\ \A i \in 1..Cardinality(Live(d)) : L[i] = UNION {children(d, x) : x \in L[i - 1]}

LEMMA LevelsExist ==
    ASSUME NEW d, IsFiniteSet(Live(d)), NEW w \in Live(d)
    PROVE  \E L : Levels(d, w, L)
<1> DEFINE n == Cardinality(Live(d))
           S == SUBSET Live(d)
           step == [X \in S |-> UNION {children(d, x) : x \in X}]
<1>1. n \in Nat
  BY FS_CardinalityType
<1>2. step \in [S -> S] /\ {w} \in S
  BY DEF children
<1>3. PICK L : Repeats(L, S, step, {w}, n)
  <2> HIDE DEF step, S, n
  <2> QED BY <1>1, <1>2, Repeated
<1>4. \A i \in 1..n : L[i - 1] \in S
  <2>1. \A i \in 1..n : i - 1 \in 0..n
    BY <1>1
  <2> QED BY <1>3, <2>1 DEF Repeats
<1>5. Levels(d, w, L)
  BY <1>3, <1>4 DEF Repeats, Levels
<1> QED BY <1>5

LEMMA BelowIsLevels ==
    ASSUME NEW d, IsFiniteSet(Live(d)), NEW w \in Live(d), NEW L, Levels(d, w, L)
    PROVE  Below(d, w) = UNION {L[n] : n \in 1..Cardinality(Live(d))}
<1> DEFINE n == Cardinality(Live(d))
           Of(X) == UNION {children(d, x) : x \in X}
           Eq(f) == f = [i \in 0..n |-> IF i = 0 THEN {w} ELSE Of(f[i - 1])]
           f == CHOOSE h : Eq(h)
<1>1. n \in Nat
  BY FS_CardinalityType
<1>2. Eq(L)
  <2>1. ASSUME NEW i \in 0..n PROVE L[i] = IF i = 0 THEN {w} ELSE Of(L[i - 1])
    <3>1. i = 0 \/ i \in 1..n
      BY <1>1
    <3> QED BY <3>1 DEF Levels
  <2>2. L = [i \in 0..n |-> L[i]]
    BY DEF Levels
  <2> HIDE DEF Of, n
  <2> QED BY <2>1, <2>2
<1>3. Eq(f)
  BY <1>2
<1>4. Below(d, w) = UNION {f[i] : i \in 1..n}
  BY DEF Below
<1> HIDE DEF f
<1>5. \A i \in 0..n : f[i] = IF i = 0 THEN {w} ELSE Of(f[i - 1])
  <2> HIDE DEF n, Of
  <2> QED BY <1>3
<1> DEFINE T == {i \in 0..n : f[i] = L[i]}
<1>6. 0 \in T
  <2>1. 0 \in 0..n /\ L[0] = {w}
    BY <1>1 DEF Levels
  <2>2. f[0] = {w}
    BY <1>5, <2>1
  <2> QED BY <2>1, <2>2
<1>7. ASSUME NEW i \in 0..n, i < n, i \in T PROVE i + 1 \in T
  <2>1. i + 1 \in 0..n /\ i + 1 \in 1..n /\ i + 1 # 0 /\ i + 1 - 1 = i
    BY <1>1, <1>7
  <2>2. f[i + 1] = Of(f[i])
    <3> HIDE DEF Of, n
    <3> QED BY <1>5, <2>1
  <2>3. L[i + 1] = Of(L[i])
    BY <2>1 DEF Levels
  <2> QED BY <1>7, <2>1, <2>2, <2>3
<1>8. 0..n \subseteq T
  <2> HIDE DEF T, n
  <2> QED BY <1>1, <1>6, <1>7, Reaches
<1>9. \A i \in 1..n : f[i] = L[i]
  BY <1>1, <1>8
<1> QED BY <1>4, <1>9

LEMMA BelowLive ==
    ASSUME NEW d, IsFiniteSet(Live(d)), NEW w \in Live(d)
    PROVE  Below(d, w) \subseteq Live(d)
<1>1. PICK L : Levels(d, w, L)
  BY LevelsExist
<1>2. Below(d, w) = UNION {L[n] : n \in 1..Cardinality(Live(d))}
  BY <1>1, BelowIsLevels
<1>3. \A n \in 1..Cardinality(Live(d)) : L[n] \subseteq Live(d)
  BY <1>1, FS_CardinalityType DEF Levels
<1> QED BY <1>2, <1>3

\* Two desks with the same windows and parents.
SameTrees(d, e) ==
    /\ Live(e) = Live(d)
    /\ \A x \in Live(d) : e.info[x].parent = d.info[x].parent

LEMMA BelowSame ==
    ASSUME NEW d, NEW e, IsFiniteSet(Live(d)), SameTrees(d, e), NEW w \in Live(d)
    PROVE  Below(e, w) = Below(d, w)
<1>1. PICK L : Levels(d, w, L)
  BY LevelsExist
<1>2. \A x : children(e, x) = children(d, x)
  BY DEF SameTrees, children
<1>3. Levels(e, w, L)
  BY <1>1, <1>2 DEF Levels, SameTrees
<1>4. /\ Below(d, w) = UNION {L[n] : n \in 1..Cardinality(Live(d))}
      /\ Below(e, w) = UNION {L[n] : n \in 1..Cardinality(Live(e))}
  BY <1>1, <1>3, BelowIsLevels DEF SameTrees
<1> QED BY <1>4 DEF SameTrees

-----------------------------------------------------------------------------
(* Moving a tree.                                                          *)

\* The policies' confirm_inherited_move() is the canonical policy's.
InheritsAll ==
    \A d, w, movement :
        confirm_inherited_move(d, w, movement) = [d.rect[w] EXCEPT !.top_left = Plus(@, movement)]

Shifted(r, movement) == Rect(Plus(r.top_left, movement), r.size)

LEMMA ShiftedType ==
    ASSUME NEW r \in AnyRect, NEW m \in Points
    PROVE  /\ Shifted(r, m) \in AnyRect
           /\ [r EXCEPT !.top_left = Plus(@, m)] = Shifted(r, m)
           /\ Shifted(r, m).top_left = Plus(r.top_left, m) /\ Shifted(r, m).size = r.size
           /\ Minus(Shifted(r, m).top_left, r.top_left) = m
           /\ Shifted(r, Origin) = r
<1>1. r.top_left \in Points /\ r.size \in Sizes /\ r = Rect(r.top_left, r.size)
  BY RectType
<1>2. /\ Plus(r.top_left, m) \in Points /\ Plus(r.top_left, Origin) = r.top_left
      /\ Minus(Plus(r.top_left, m), r.top_left) = m
  BY <1>1, PointSums
<1>3. Shifted(r, m) \in AnyRect
  BY <1>1, <1>2, RectType DEF Shifted
<1>4. [r EXCEPT !.top_left = Plus(@, m)] = Shifted(r, m)
  BY DEF Shifted, AnyRect, Rect
<1>5. Shifted(r, m).top_left = Plus(r.top_left, m) /\ Shifted(r, m).size = r.size
  BY DEF Shifted, Rect
<1> QED BY <1>1, <1>2, <1>3, <1>4, <1>5 DEF Shifted

\* A window moves with all of its descendants.
LEMMA MoveTree ==
    ASSUME InheritsAll, NEW d, "rect" \in DOMAIN d, IsFiniteSet(Live(d)), NEW w \in Live(d),
           d.rect \in [Live(d) -> AnyRect], NEW m \in Points
    PROVE  move_tree(d, w, m) =
             [d EXCEPT !.rect = [x \in Live(d) |->
                IF x \in {w} \cup Below(d, w) THEN Shifted(d.rect[x], m) ELSE d.rect[x]]]
<1> DEFINE n == Cardinality(Live(d))
           root == [x \in {w} |-> [d.rect[x] EXCEPT !.top_left = Plus(@, m)]]
           By(was, x) == Minus(was[x].top_left, d.rect[x].top_left)
           Inherit(was) == [c \in UNION {children(d, x) : x \in {y \in DOMAIN was : By(was, y) # Origin}} |->
                        confirm_inherited_move(d, c, By(was, d.info[c].parent))]
           Eq(f) == f = [i \in 0..n |-> IF i = 0 THEN root ELSE Inherit(f[i - 1])]
           f == CHOOSE h : Eq(h)
           At(g, x) == {i \in DOMAIN g : x \in DOMAIN g[i]}
           Get(g, x) == IF At(g, x) = {} THEN d.rect[x] ELSE g[CHOOSE i \in At(g, x) : TRUE][x]
<1>1. n \in Nat
  BY FS_CardinalityType
<1>2. move_tree(d, w, m) = [d EXCEPT !.rect = [x \in Live(d) |-> Get(f, x)]]
  BY Zenon DEF move_tree
<1>3. PICK L : Levels(d, w, L)
  BY LevelsExist
<1>4. Below(d, w) = UNION {L[i] : i \in 1..n}
  BY <1>3, BelowIsLevels
<1> DEFINE D == [i \in 0..n |-> IF m = Origin /\ i # 0 THEN {} ELSE L[i]]
           want == [i \in 0..n |-> [c \in D[i] |-> Shifted(d.rect[c], m)]]
<1>5. \A i \in 0..n : D[i] \subseteq Live(d)
  BY <1>3 DEF Levels
<1>6. \A x \in Live(d) : /\ [d.rect[x] EXCEPT !.top_left = Plus(@, m)] = Shifted(d.rect[x], m)
                         /\ Minus(Shifted(d.rect[x], m).top_left, d.rect[x].top_left) = m
                         /\ Shifted(d.rect[x], Origin) = d.rect[x]
  BY ShiftedType
<1>7. root = [c \in {w} |-> Shifted(d.rect[c], m)] /\ D[0] = {w}
  <2>1. D[0] = {w}
    BY <1>1, <1>3 DEF Levels
  <2> QED BY <1>6, <2>1
<1>8. ASSUME NEW i \in 1..n
      PROVE  Inherit(want[i - 1]) = want[i]
  <2>1. i \in 0..n /\ i - 1 \in 0..n /\ i # 0
    BY <1>1, <1>8
  <2> DEFINE was == want[i - 1]
  <2>2. was = [c \in D[i - 1] |-> Shifted(d.rect[c], m)]
    BY <2>1
  <2>3. D[i - 1] \subseteq Live(d)
    BY <1>5, <2>1
  <2>4. want[i] = [c \in D[i] |-> Shifted(d.rect[c], m)]
    BY <2>1
  <2>4a. D[i] = IF m = Origin THEN {} ELSE L[i]
    BY <2>1
  <2>4b. m # Origin => D[i - 1] = L[i - 1]
    BY <2>1
  <2>4c. L[i] = UNION {children(d, x) : x \in L[i - 1]}
    BY <1>3 DEF Levels
  <2> HIDE DEF was, want, D
  <2>5. DOMAIN was = D[i - 1] /\ \A x \in D[i - 1] : By(was, x) = m
    BY <1>6, <2>2, <2>3
  <2> HIDE DEF By
  <2>6. {y \in DOMAIN was : By(was, y) # Origin} = IF m = Origin THEN {} ELSE D[i - 1]
    BY <2>5
  <2>7. UNION {children(d, x) : x \in {y \in DOMAIN was : By(was, y) # Origin}} = D[i]
    BY <2>6, <2>4a, <2>4b, <2>4c
  <2>8. \A c \in D[i] : confirm_inherited_move(d, c, By(was, d.info[c].parent)) = Shifted(d.rect[c], m)
    <3> SUFFICES ASSUME NEW c \in D[i]
                 PROVE  confirm_inherited_move(d, c, By(was, d.info[c].parent)) = Shifted(d.rect[c], m)
      OBVIOUS
    <3>1. PICK x \in D[i - 1] : c \in children(d, x)
      BY <2>4a, <2>4b, <2>4c
    <3>2. c \in Live(d) /\ d.info[c].parent = x
      BY <3>1 DEF children
    <3>3. By(was, d.info[c].parent) = m
      BY <2>5, <3>1, <3>2
    <3>4. confirm_inherited_move(d, c, m) = [d.rect[c] EXCEPT !.top_left = Plus(@, m)]
      BY DEF InheritsAll
    <3> QED BY <1>6, <3>2, <3>3, <3>4
  <2>9. Inherit(was) = [c \in D[i] |-> Shifted(d.rect[c], m)]
    BY <2>7, <2>8
  <2> QED BY <2>4, <2>9 DEF was
<1>9. Eq(want)
  <2>1. \A i \in 0..n : want[i] = IF i = 0 THEN root ELSE Inherit(want[i - 1])
    <3> SUFFICES ASSUME NEW i \in 0..n
                 PROVE  want[i] = IF i = 0 THEN root ELSE Inherit(want[i - 1])
      OBVIOUS
    <3>1. i = 0 \/ i \in 1..n
      BY <1>1
    <3>2. want[0] = root
      BY <1>1, <1>7
    <3> HIDE DEF want, root, Inherit
    <3> QED BY <1>8, <3>1, <3>2
  <2>2. want = [i \in 0..n |-> want[i]]
    OBVIOUS
  <2> HIDE DEF want, root, Inherit, n
  <2> QED BY <2>1, <2>2
<1>10. Eq(f)
  <2> HIDE DEF Eq, want
  <2> QED BY <1>9
<1> HIDE DEF f
<1>11. \A i \in 0..n : f[i] = IF i = 0 THEN root ELSE Inherit(f[i - 1])
  <2> HIDE DEF root, Inherit, n
  <2> QED BY <1>10
<1>12. DOMAIN f = 0..n
  BY <1>10
<1> DEFINE T == {i \in 0..n : f[i] = want[i]}
<1>13. 0 \in T
  <2>1. want[0] = root /\ 0 \in 0..n
    BY <1>1, <1>7
  <2> HIDE DEF want, root, Inherit
  <2> QED BY <1>11, <2>1
<1>14. ASSUME NEW i \in 0..n, i < n, i \in T PROVE i + 1 \in T
  <2>1. i + 1 \in 0..n /\ i + 1 \in 1..n /\ i + 1 # 0 /\ i + 1 - 1 = i
    BY <1>1, <1>14
  <2> HIDE DEF want, root, Inherit
  <2>2. f[i + 1] = Inherit(f[i])
    BY <1>11, <2>1
  <2>3. Inherit(want[i]) = want[i + 1]
    BY <1>8, <2>1
  <2> QED BY <1>14, <2>1, <2>2, <2>3
<1>15. \A i \in 0..n : f[i] = want[i]
  <2> HIDE DEF T, n
  <2>1. 0..n \subseteq T
    BY <1>1, <1>13, <1>14, Reaches
  <2> QED BY <2>1 DEF T
<1>16. ASSUME NEW x \in Live(d)
       PROVE  Get(f, x) = IF x \in {w} \cup Below(d, w) THEN Shifted(d.rect[x], m) ELSE d.rect[x]
  <2>1. \A i \in 0..n : DOMAIN f[i] = D[i] /\ (x \in D[i] => f[i][x] = Shifted(d.rect[x], m))
    <3>1. \A i \in 0..n : want[i] = [c \in D[i] |-> Shifted(d.rect[c], m)]
      OBVIOUS
    <3> HIDE DEF want, D
    <3> SUFFICES ASSUME NEW i \in 0..n
                 PROVE  DOMAIN f[i] = D[i] /\ (x \in D[i] => f[i][x] = Shifted(d.rect[x], m))
      OBVIOUS
    <3>2. f[i] = [c \in D[i] |-> Shifted(d.rect[c], m)]
      BY <1>15, <3>1
    <3> QED BY <3>2
  <2>2. At(f, x) = {i \in 0..n : x \in D[i]}
    BY <1>12, <2>1
  <2> HIDE DEF At
  <2>3. At(f, x) # {} => Get(f, x) = Shifted(d.rect[x], m)
    BY <2>1, <2>2
  <2>4. x = w => At(f, x) # {}
    BY <1>1, <1>7, <2>2
  <2>5. CASE m = Origin
    BY <1>6, <2>3, <2>4, <2>5
  <2>6. CASE m # Origin
    <3>1. \A i \in 0..n : D[i] = L[i]
      BY <2>6
    <3>2. \A i : i \in 0..n <=> i = 0 \/ i \in 1..n
      BY <1>1
    <3> HIDE DEF D, Get
    <3>3. At(f, x) # {} <=> x \in {w} \cup Below(d, w)
      BY <1>4, <1>7, <2>2, <3>1, <3>2
    <3>4. At(f, x) = {} => Get(f, x) = d.rect[x]
      BY DEF Get
    <3> QED BY <2>3, <3>3, <3>4
  <2> QED BY <2>5, <2>6
<1> HIDE DEF Get
<1> QED BY <1>2, <1>16

-----------------------------------------------------------------------------
(* What the operations on one window keep.                                 *)

\* What a window manager knows of a window.
InfoSound(info, live, w) ==
    /\ {"type", "state", "restore_rect", "parent", "output_id"} \subseteq DOMAIN info
    /\ info.state \in WindowStates
    /\ info.restore_rect \in AnyRect
    /\ info.parent \in (live \ {w}) \cup {NoWindow}
    /\ InfoLimits(info)

DeskSound(d) ==
    /\ {"windows", "info", "rect", "fullscreen"} \subseteq DOMAIN d
    /\ Live(d) \subseteq Windows /\ IsFiniteSet(Live(d))
    /\ d.windows \in Seq(Live(d))
    /\ \A w \in Live(d) : \E i \in DOMAIN d.windows : d.windows[i] = w
    /\ d.rect \in [Live(d) -> AnyRect]
    /\ \A w \in Live(d) : InfoSound(d.info[w], Live(d), w)
    /\ d.fullscreen = {w \in Live(d) : d.info[w].state = "fullscreen"}

OutputsSound(outs) == outs \in Seq([id : DOMAIN OutputAreas, area : Rects])

\* Of the other windows an operation on w moves those below it, and changes
\* nothing else.
Reshapes(d, e, w) ==
    /\ DOMAIN e = DOMAIN d /\ Live(e) = Live(d)
    /\ \A f \in DOMAIN d \ {"info", "rect", "fullscreen"} : e[f] = d[f]
    /\ \A x \in Live(d) : e.info[x].parent = d.info[x].parent /\ e.info[x].type = d.info[x].type
    /\ \A x \in Live(d) \ {w} :
        /\ e.info[x] = d.info[x]
        /\ e.rect[x] = IF x \in Below(d, w)
                       THEN Shifted(d.rect[x], Minus(e.rect[w].top_left, d.rect[w].top_left))
                       ELSE d.rect[x]

LEMMA ReshapesSelf ==
    ASSUME NEW d, DeskSound(d), NEW w \in Live(d)
    PROVE  Reshapes(d, d, w)
<1>1. \A x \in Live(d) : d.rect[x] \in AnyRect /\ d.rect[x].top_left \in Points
  BY RectType DEF DeskSound
<1>2. Minus(d.rect[w].top_left, d.rect[w].top_left) = Origin /\ Origin \in Points
  BY <1>1, PointSums, RectType DEF Origin
<1>3. \A x \in Live(d) : Shifted(d.rect[x], Origin) = d.rect[x]
  BY <1>1, <1>2, ShiftedType
<1> QED BY <1>2, <1>3 DEF Reshapes

LEMMA ReshapesAgain ==
    ASSUME NEW d, NEW e, NEW f, DeskSound(d), DeskSound(e), DeskSound(f), NEW w \in Live(d),
           Reshapes(d, e, w), Reshapes(e, f, w)
    PROVE  Reshapes(d, f, w)
<1> DEFINE a == Minus(e.rect[w].top_left, d.rect[w].top_left)
           b == Minus(f.rect[w].top_left, e.rect[w].top_left)
           c == Minus(f.rect[w].top_left, d.rect[w].top_left)
<1>1. Live(e) = Live(d) /\ Live(f) = Live(d)
  BY DEF Reshapes
<1>2. \A x \in Live(d) : d.rect[x] \in AnyRect /\ e.rect[x] \in AnyRect /\ f.rect[x] \in AnyRect
  BY <1>1 DEF DeskSound
<1>3. Below(e, w) = Below(d, w)
  BY <1>1, BelowSame DEF DeskSound, SameTrees, Reshapes
<1>4. \A r \in AnyRect : Shifted(Shifted(r, a), b) = Shifted(r, c)
  <2> SUFFICES ASSUME NEW r \in AnyRect PROVE Shifted(Shifted(r, a), b) = Shifted(r, c)
    OBVIOUS
  <2> DEFINE p == d.rect[w].top_left
             q == e.rect[w].top_left
             s == f.rect[w].top_left
             t == r.top_left
  <2>1. p \in Points /\ q \in Points /\ s \in Points /\ t \in Points
    BY <1>2, RectType
  <2>2. a = Minus(q, p) /\ b = Minus(s, q) /\ c = Minus(s, p)
    OBVIOUS
  <2> HIDE DEF p, q, s, t, a, b, c
  <2>3. a \in Points /\ b \in Points /\ c \in Points /\ Plus(t, a) \in Points
    BY <2>1, <2>2, PointSums
  <2>4. /\ a.x = q.x - p.x /\ b.x = s.x - q.x /\ c.x = s.x - p.x
        /\ a.y = q.y - p.y /\ b.y = s.y - q.y /\ c.y = s.y - p.y
    BY <2>1, <2>2, PointSums
  <2>5. /\ p.x \in Int /\ q.x \in Int /\ s.x \in Int /\ t.x \in Int
        /\ p.y \in Int /\ q.y \in Int /\ s.y \in Int /\ t.y \in Int
    BY <2>1, RectType
  <2>6. (t.x + a.x) + b.x = t.x + c.x /\ (t.y + a.y) + b.y = t.y + c.y
    BY <2>4, <2>5
  <2>7. Plus(t, a) = Point(t.x + a.x, t.y + a.y)
    BY DEF Plus
  <2>8. Plus(Plus(t, a), b) = Plus(t, c)
    BY <2>6, <2>7 DEF Plus, Point
  <2> QED BY <2>8 DEF Shifted, Rect, t
<1> HIDE DEF a, b, c
<1>5. ASSUME NEW x \in Live(d) \ {w}
      PROVE  f.rect[x] = IF x \in Below(d, w) THEN Shifted(d.rect[x], c) ELSE d.rect[x]
  <2>1. e.rect[x] = IF x \in Below(d, w) THEN Shifted(d.rect[x], a) ELSE d.rect[x]
    BY DEF Reshapes, a
  <2>2. f.rect[x] = IF x \in Below(d, w) THEN Shifted(e.rect[x], b) ELSE e.rect[x]
    BY <1>1, <1>3 DEF Reshapes, b
  <2> QED BY <1>2, <1>4, <2>1, <2>2
<1> QED BY <1>1, <1>5 DEF Reshapes, c

\* place_and_size(): the window goes to the rectangle.
LEMMA PlacedWindow ==
    ASSUME InheritsAll, NEW d, DeskSound(d), NEW w \in Live(d), NEW r \in AnyRect
    PROVE  LET e == place_and_size(d, w, r)
           IN  /\ DeskSound(e) /\ Reshapes(d, e, w)
               /\ e.rect[w] = r /\ e.info = d.info
<1> DEFINE e == place_and_size(d, w, r)
           sized == [d EXCEPT !.rect[w].size = r.size]
           m == Minus(r.top_left, d.rect[w].top_left)
<1>1. /\ d.rect[w] \in AnyRect /\ d.rect[w].top_left \in Points /\ r.top_left \in Points
      /\ r.size \in Sizes /\ r = Rect(r.top_left, r.size)
  BY RectType DEF DeskSound
<1>2. m \in Points /\ Plus(d.rect[w].top_left, m) = r.top_left
  BY <1>1, PointSums
<1>3. /\ DOMAIN sized = DOMAIN d /\ sized.info = d.info
      /\ sized.rect = [d.rect EXCEPT ![w].size = r.size]
      /\ \A f \in DOMAIN d \ {"rect"} : sized[f] = d[f]
  BY DEF DeskSound
<1>4. e = move_tree(sized, w, m)
  BY DEF place_and_size
<1>5. /\ sized.rect \in [Live(d) -> AnyRect]
      /\ sized.rect[w] = Rect(d.rect[w].top_left, r.size)
      /\ \A x \in Live(d) \ {w} : sized.rect[x] = d.rect[x]
  <2>1. [d.rect[w] EXCEPT !.size = r.size] = Rect(d.rect[w].top_left, r.size)
    BY DEF Rect, AnyRect, DeskSound
  <2>2. Rect(d.rect[w].top_left, r.size) \in AnyRect
    BY <1>1, RectType
  <2> QED BY <1>3, <2>1, <2>2 DEF DeskSound
<1> HIDE DEF sized, m, e
<1>6. Live(sized) = Live(d) /\ SameTrees(d, sized) /\ "rect" \in DOMAIN sized
  BY <1>3 DEF Live, SameTrees, DeskSound
<1>7. Below(sized, w) = Below(d, w)
  BY <1>6, BelowSame DEF DeskSound
<1> DEFINE rects == [x \in Live(d) |-> IF x \in {w} \cup Below(d, w)
                                       THEN Shifted(sized.rect[x], m) ELSE sized.rect[x]]
<1>8. e = [sized EXCEPT !.rect = rects]
  BY <1>2, <1>4, <1>5, <1>6, <1>7, MoveTree DEF DeskSound
<1>9. rects \in [Live(d) -> AnyRect]
  BY <1>2, <1>5, ShiftedType
<1>10. rects[w] = r
  BY <1>1, <1>2, <1>5 DEF Shifted, Rect
<1>11. m = Minus(rects[w].top_left, d.rect[w].top_left)
  BY <1>10 DEF m
<1>12. \A x \in Live(d) \ {w} :
            rects[x] = IF x \in Below(d, w) THEN Shifted(d.rect[x], m) ELSE d.rect[x]
  BY <1>5
<1> HIDE DEF rects
<1>13. /\ DOMAIN e = DOMAIN d /\ e.rect = rects /\ e.info = d.info
       /\ \A f \in DOMAIN d \ {"rect"} : e[f] = d[f]
  BY <1>3, <1>6, <1>8
<1>14. DeskSound(e)
  BY <1>9, <1>13 DEF DeskSound, Live
<1>15. Reshapes(d, e, w)
  BY <1>11, <1>12, <1>13 DEF Reshapes, Live
<1> QED BY <1>10, <1>13, <1>14, <1>15 DEF e

\* set_state().
LEMMA StateSet ==
    ASSUME NEW d, DeskSound(d), NEW w \in Live(d), NEW state \in WindowStates
    PROVE  LET e == set_state(d, w, state)
           IN  /\ DeskSound(e) /\ Reshapes(d, e, w) /\ e.rect = d.rect
               /\ e.info[w] = [d.info[w] EXCEPT !.state = state]
<1> DEFINE e == set_state(d, w, state)
           new == [d.info[w] EXCEPT !.state = state]
<1>1. /\ DOMAIN e = DOMAIN d /\ e.rect = d.rect /\ e.windows = d.windows
      /\ e.info = [d.info EXCEPT ![w] = new]
      /\ e.fullscreen = IF state = "fullscreen" THEN d.fullscreen \cup {w} ELSE d.fullscreen \ {w}
      /\ \A f \in DOMAIN d \ {"info", "rect", "fullscreen"} : e[f] = d[f]
  BY DEF set_state, DeskSound
<1>2. /\ DOMAIN new = DOMAIN d.info[w] /\ new.state = state
      /\ \A f \in DOMAIN new \ {"state"} : new[f] = d.info[w][f]
  BY DEF DeskSound, InfoSound
<1> HIDE DEF e, new
<1>3. Live(e) = Live(d) /\ e.info[w] = new /\ \A x \in Live(d) \ {w} : e.info[x] = d.info[x]
  BY <1>1 DEF Live
<1>4. InfoSound(new, Live(d), w)
  <2>1. InfoSound(d.info[w], Live(d), w)
    BY DEF DeskSound
  <2>2. InfoLimits(new)
    BY <1>2, <2>1 DEF InfoSound, InfoLimits, Limits
  <2> QED BY <1>2, <2>1, <2>2 DEF InfoSound
<1>5. e.fullscreen = {x \in Live(e) : e.info[x].state = "fullscreen"}
  BY <1>1, <1>2, <1>3 DEF DeskSound
<1>6. DeskSound(e)
  BY <1>1, <1>3, <1>4, <1>5 DEF DeskSound
<1>7. Reshapes(d, e, w)
  <2>1. /\ \A x \in Live(d) \ {w} :
            d.rect[x] = IF x \in Below(d, w)
                        THEN Shifted(d.rect[x], Minus(d.rect[w].top_left, d.rect[w].top_left))
                        ELSE d.rect[x]
    BY ReshapesSelf DEF Reshapes
  <2>2. new.parent = d.info[w].parent /\ new.type = d.info[w].type
    BY <1>2 DEF DeskSound, InfoSound
  <2> QED BY <1>1, <1>3, <2>1, <2>2 DEF Reshapes
<1> QED BY <1>1, <1>3, <1>6, <1>7 DEF e, new

LEMMA CopiedInfo ==
    ASSUME NEW info, NEW live, NEW w, InfoSound(info, live, w), NEW mods, Sound(mods)
    PROVE  LET copied == CopySet(info, Only(mods, CopiedFields))
           IN  /\ InfoSound(copied, live, w)
               /\ copied.state = info.state /\ copied.restore_rect = info.restore_rect
               /\ copied.parent = info.parent /\ copied.type = info.type
<1> DEFINE some == Only(mods, CopiedFields)
           copied == CopySet(info, some)
<1>1. /\ DOMAIN some = DOMAIN mods \cap CopiedFields
      /\ \A f \in DOMAIN some : some[f] = mods[f]
  BY DEF Only
<1> HIDE DEF some
<1>2. /\ DOMAIN copied = DOMAIN some \cup DOMAIN info
      /\ \A f \in DOMAIN copied : copied[f] = IF f \in DOMAIN some THEN mods[f] ELSE info[f]
  BY <1>1 DEF CopySet, value_or, is_set
<1> HIDE DEF copied
<1>3. {"type", "state", "restore_rect", "parent"} \cap DOMAIN some = {}
  BY <1>1 DEF CopiedFields, Limits
<1>4. /\ copied.state = info.state /\ copied.restore_rect = info.restore_rect
      /\ copied.parent = info.parent /\ copied.type = info.type
  BY <1>2, <1>3 DEF InfoSound
<1>5. /\ Limits \cup {"min_aspect", "max_aspect"} \subseteq DOMAIN info
      /\ DOMAIN info \subseteq DOMAIN copied
      /\ \A f \in DOMAIN some : is_set(mods, f)
  BY <1>1, <1>2 DEF InfoSound, InfoLimits, is_set
<1>6. \A f \in {"min_width", "min_height", "max_width", "max_height"} : copied[f] \in Nat
  BY <1>2, <1>5 DEF InfoSound, InfoLimits, Sound, SoundLimits, Limits
<1>7. \A f \in {"width_inc", "height_inc"} : copied[f] \in Nat \ {0}
  BY <1>2, <1>5 DEF InfoSound, InfoLimits, Sound, SoundLimits, Limits
<1>8. copied.min_aspect \in Ratios /\ copied.min_aspect.height > 0
  BY <1>2, <1>5 DEF InfoSound, InfoLimits, Sound, SoundLimits
<1>9. copied.max_aspect \in Ratios /\ copied.max_aspect.width > 0
  BY <1>2, <1>5 DEF InfoSound, InfoLimits, Sound, SoundLimits
<1>10. InfoLimits(copied)
  BY <1>5, <1>6, <1>7, <1>8, <1>9 DEF InfoLimits
<1> QED BY <1>2, <1>4, <1>10 DEF InfoSound, copied, some

ContextSound(d, ctx) == ctx.active \in Live(d) \cup {NoWindow}

LEMMA ActiveDisplaySound ==
    ASSUME OutputsSound(outputs), NEW d, DeskSound(d), NEW ctx, ContextSound(d, ctx)
    PROVE  /\ ActiveDisplay(d, ctx) \in Rects
           /\ outputs # <<>> => \E i \in DOMAIN outputs : ActiveDisplay(d, ctx) = outputs[i].area
<1> DEFINE focus == RectOf(d, ctx.active)
<1>1. focus = <<>> \/ (focus # <<>> /\ focus[1] \in AnyRect)
  BY DEF RectOf, ContextSound, DeskSound
<1> HIDE DEF focus
<1> QED BY <1>1, ActiveDisplayType DEF ActiveDisplay, OutputsSound, focus

\* modify_window(): the window's state and rectangle, and the one it will go
\* back to.
LEMMA ModifiedWindow ==
    ASSUME InheritsAll, OutputsSound(outputs), NEW d, DeskSound(d), NEW w \in Live(d),
           NEW mods, Sound(mods), NEW ctx, ContextSound(d, ctx)
    PROVE  LET e == modify_window(d, w, mods, ctx)
           IN  /\ DeskSound(e) /\ Reshapes(d, e, w)
               /\ e.info[w].state = value_or(mods, "state", d.info[w].state)
               /\ e.info[w].restore_rect =
                    IF is_set(mods, "state") /\ mods.state # d.info[w].state
                    THEN RestoreRect(d.info[w], d.rect[w]) ELSE d.info[w].restore_rect
               /\ ~is_set(mods, "placement_hints") /\ is_set(mods, "size") /\ is_set(mods, "top_left")
                    => e.rect[w] = Rect(mods.top_left, mods.size)
<1> DEFINE old == d.info[w]
           now == d.rect[w]
           copied == CopySet(old, Only(mods, CopiedFields))
           next == Remember(copied, now, mods)
           begun == [d EXCEPT !.info[w] = next]
           sized == Resized(begun, w, mods)
           placed == PlacedByHints(sized, w, mods, ctx)
           e == modify_window(d, w, mods, ctx)
<1>1. InfoSound(old, Live(d), w) /\ now \in AnyRect
  BY DEF DeskSound
<1>2. /\ InfoSound(copied, Live(d), w)
      /\ copied.state = old.state /\ copied.restore_rect = old.restore_rect
      /\ copied.parent = old.parent /\ copied.type = old.type
  BY <1>1, CopiedInfo
<1>3. e = WithState(placed, w, mods)
  BY DEF modify_window
<1>4. begun = [d EXCEPT !.info = [@ EXCEPT ![w] = next]]
  OBVIOUS
<1> HIDE DEF copied
<1>5. /\ InfoSound(next, Live(d), w) /\ next.state = old.state
      /\ next.parent = old.parent /\ next.type = old.type
      /\ next.restore_rect = IF is_set(mods, "state") /\ mods.state # old.state
                             THEN RestoreRect(old, now) ELSE old.restore_rect
  <2>1. CASE is_set(mods, "state") /\ mods.state # old.state
    <3>1. next = [copied EXCEPT !.restore_rect = RestoreRect(copied, now)]
      BY <1>2, <2>1 DEF Remember
    <3>2. RestoreRect(copied, now) = RestoreRect(old, now)
      BY <1>2 DEF RestoreRect
    <3>3. RestoreRect(old, now) \in AnyRect
      BY <1>1, RestoreType DEF InfoSound
    <3>4. /\ DOMAIN next = DOMAIN copied /\ next.restore_rect = RestoreRect(old, now)
          /\ \A f \in DOMAIN copied \ {"restore_rect"} : next[f] = copied[f]
      BY <1>2, <3>1, <3>2 DEF InfoSound
    <3> HIDE DEF next, now, old
    <3>5. InfoLimits(next)
      BY <1>2, <3>4 DEF InfoSound, InfoLimits, Limits
    <3> QED BY <1>2, <2>1, <3>3, <3>4, <3>5 DEF InfoSound
  <2>2. CASE ~(is_set(mods, "state") /\ mods.state # old.state)
    <3>1. next = copied
      BY <1>2, <2>2 DEF Remember
    <3> QED BY <1>2, <2>2, <3>1
  <2> QED BY <2>1, <2>2
<1> HIDE DEF next
<1>6. /\ DOMAIN begun = DOMAIN d /\ begun.info = [d.info EXCEPT ![w] = next]
      /\ begun.rect = d.rect /\ begun.windows = d.windows /\ begun.fullscreen = d.fullscreen
      /\ \A f \in DOMAIN d \ {"info"} : begun[f] = d[f]
  BY <1>4 DEF DeskSound
<1> HIDE DEF begun
<1>7. Live(begun) = Live(d) /\ begun.info[w] = next /\ \A x \in Live(d) \ {w} : begun.info[x] = d.info[x]
  BY <1>6 DEF Live
<1>8. DeskSound(begun)
  <2>1. begun.fullscreen = {x \in Live(begun) : begun.info[x].state = "fullscreen"}
    BY <1>5, <1>6, <1>7 DEF DeskSound
  <2> QED BY <1>5, <1>6, <1>7, <2>1 DEF DeskSound
<1>9. Reshapes(d, begun, w)
  <2>1. \A x \in Live(d) \ {w} :
            d.rect[x] = IF x \in Below(d, w)
                        THEN Shifted(d.rect[x], Minus(d.rect[w].top_left, d.rect[w].top_left))
                        ELSE d.rect[x]
    BY ReshapesSelf DEF Reshapes
  <2> QED BY <1>5, <1>6, <1>7, <2>1 DEF Reshapes
<1>10. \A r \in AnyRect : LET f == place_and_size(begun, w, r)
                          IN  /\ DeskSound(f) /\ Reshapes(begun, f, w)
                              /\ f.rect[w] = r /\ f.info = begun.info
  BY <1>7, <1>8, PlacedWindow
<1> DEFINE pos == value_or(mods, "top_left", now.top_left)
<1>11. pos \in Points /\ now.size \in Sizes /\ (is_set(mods, "size") => mods.size \in Sizes)
       /\ (is_set(mods, "top_left") => pos = mods.top_left)
  BY <1>1, RectType DEF value_or, Sound, WellTyped
<1>12. /\ DeskSound(sized) /\ Reshapes(begun, sized, w) /\ sized.info = begun.info
       /\ is_set(mods, "size") /\ is_set(mods, "top_left")
            => sized.rect[w] = Rect(mods.top_left, mods.size)
  <2>1. sized = IF is_set(mods, "size") THEN place_and_size(begun, w, Rect(pos, mods.size))
                ELSE IF DOMAIN mods \cap Limits # {}
                THEN place_and_size(begun, w, constrain_resize(next, now, Rect(pos, now.size)))
                ELSE IF is_set(mods, "top_left") THEN place_and_size(begun, w, Rect(pos, now.size))
                ELSE begun
    BY <1>6, <1>7 DEF Resized
  <2>2. is_set(mods, "size") => Rect(pos, mods.size) \in AnyRect
    BY <1>11, RectType
  <2>3. Rect(pos, now.size) \in AnyRect
    BY <1>11, RectType
  <2>4. constrain_resize(next, now, Rect(pos, now.size)) \in AnyRect
    BY <1>1, <1>5, <2>3, ConstrainedType DEF InfoSound
  <2>5. Reshapes(begun, begun, w)
    BY <1>7, <1>8, ReshapesSelf
  <2> HIDE DEF sized, pos, now
  <2> QED BY <1>8, <1>10, <1>11, <2>1, <2>2, <2>3, <2>4, <2>5
<1> HIDE DEF sized, pos
<1>13. Live(sized) = Live(d) /\ sized.info[w] = next
  BY <1>7, <1>12 DEF Live
<1>14. /\ DeskSound(placed) /\ Reshapes(sized, placed, w) /\ placed.info = sized.info
       /\ ~is_set(mods, "placement_hints") => placed = sized
  <2>1. CASE ~(is_set(mods, "placement_hints") /\ sized.info[w].parent # NoWindow)
    <3>1. placed = sized
      BY <2>1 DEF PlacedByHints
    <3>2. Reshapes(sized, sized, w)
      BY <1>12, <1>13, ReshapesSelf
    <3> QED BY <1>12, <3>1, <3>2
  <2>2. CASE is_set(mods, "placement_hints") /\ sized.info[w].parent # NoWindow
    <3> DEFINE display == ActiveDisplay(sized, ctx)
               above == sized.rect[sized.info[w].parent]
               r == place_relative(display, above, mods, sized.rect[w].size)
    <3>1. placed = place_and_size(sized, w, r)
      BY <2>2 DEF PlacedByHints
    <3>2. Placeable(mods)
      BY <2>2 DEF Sound, WellTyped, Placeable, AnyRect
    <3>3. display \in AnyRect
      BY <1>12, <1>13, ActiveDisplaySound, RectType DEF ContextSound
    <3>4. sized.info[w].parent \in Live(sized)
      BY <1>12, <1>13, <2>2 DEF DeskSound, InfoSound
    <3>5. above \in AnyRect /\ sized.rect[w].size \in Sizes
      <4>1. \A x \in Live(sized) : sized.rect[x] \in AnyRect
        BY <1>12 DEF DeskSound
      <4>2. above \in AnyRect /\ sized.rect[w] \in AnyRect
        BY <1>13, <3>4, <4>1
      <4> QED BY <4>2, RectType
    <3> HIDE DEF display, above
    <3>6. r \in AnyRect
      BY <1>11, <3>2, <3>3, <3>5, RelativeType
    <3> HIDE DEF r
    <3> QED BY <1>12, <1>13, <2>2, <3>1, <3>6, PlacedWindow
  <2> QED BY <2>1, <2>2
<1> HIDE DEF placed
<1>15. DeskSound(placed) /\ Reshapes(d, placed, w) /\ Live(placed) = Live(d) /\ placed.info[w] = next
  <2>1. Reshapes(d, sized, w)
    BY <1>7, <1>8, <1>9, <1>12, ReshapesAgain
  <2>2. Reshapes(d, placed, w)
    BY <1>12, <1>13, <1>14, <2>1, ReshapesAgain
  <2> QED BY <1>13, <1>14, <2>2 DEF Live
<1>16. CASE ~is_set(mods, "state")
  <2>1. e = placed
    BY <1>3, <1>16 DEF WithState
  <2> QED BY <1>5, <1>12, <1>14, <1>15, <1>16, <2>1 DEF value_or
<1>17. CASE is_set(mods, "state")
  <2>1. e = set_state(placed, w, mods.state) /\ mods.state \in WindowStates
    BY <1>3, <1>17 DEF WithState, Sound, WellTyped
  <2> HIDE DEF e, old, now
  <2>2. /\ DeskSound(e) /\ Reshapes(placed, e, w) /\ e.rect = placed.rect
        /\ e.info[w] = [next EXCEPT !.state = mods.state]
    BY <1>15, <2>1, StateSet
  <2>3. e.info[w].state = mods.state /\ e.info[w].restore_rect = next.restore_rect
    BY <1>5, <2>2 DEF InfoSound
  <2>4. Reshapes(d, e, w)
    BY <1>15, <2>2, ReshapesAgain
  <2>5. value_or(mods, "state", old.state) = mods.state
    BY <1>17 DEF value_or
  <2> QED BY <1>5, <1>12, <1>14, <2>2, <2>3, <2>4, <2>5 DEF old, now, e
<1> QED BY <1>16, <1>17

\* A request for a state, with what goes with it.
LEMMA StateModified ==
    ASSUME InheritsAll, OutputsSound(outputs), NEW d, DeskSound(d), NEW w \in Live(d),
           NEW mods, Sound(mods), NEW ctx, ContextSound(d, ctx)
    PROVE  LET e == Modify(d, w, mods, ctx)
           IN  /\ DeskSound(e) /\ Reshapes(d, e, w)
               /\ e.info[w].state = value_or(mods, "state", d.info[w].state)
               /\ e.info[w].restore_rect =
                    IF is_set(mods, "state") /\ mods.state # d.info[w].state
                    THEN RestoreRect(d.info[w], d.rect[w]) ELSE d.info[w].restore_rect
               /\ StateWanted(mods, d.info[w]) /\ mods.state = "restored"
                    /\ ~is_set(mods, "top_left") /\ ~is_set(mods, "size")
                    /\ ~is_set(mods, "placement_hints")
                    => e.rect[w] = RestoreRect(d.info[w], d.rect[w])
               /\ StateWanted(mods, d.info[w]) /\ mods.state = "maximized"
                    /\ ~is_set(mods, "placement_hints")
                    => e.rect[w] = bounding_rectangle(Areas(outputs))
<1> DEFINE info == d.info[w]
           now == d.rect[w]
           m == place_and_size_for_state(outputs, mods, info, now)
<1>1. info.restore_rect \in AnyRect /\ now \in AnyRect
  BY DEF DeskSound, InfoSound
<1>2. Modify(d, w, mods, ctx) = modify_window(d, w, m, ctx)
  BY DEF Modify
<1> HIDE DEF info, now
<1>3. /\ Sound(m)
      /\ DOMAIN mods \subseteq DOMAIN m
      /\ DOMAIN m \subseteq DOMAIN mods \cup {"top_left", "size"}
      /\ \A f \in DOMAIN mods : f \notin {"top_left", "size"} => m[f] = mods[f]
      /\ StateWanted(mods, info) /\ mods.state = "restored"
           /\ ~is_set(mods, "top_left") /\ ~is_set(mods, "size")
         => Fills(m, RestoreRect(info, now))
      /\ StateWanted(mods, info) /\ mods.state = "maximized"
         => Fills(m, bounding_rectangle(Areas(outputs)))
  <2>1. outputs \in Seq([id : DOMAIN OutputAreas, area : Rects])
    BY DEF OutputsSound
  <2> QED BY <1>1, <2>1, StateFilled
<1> HIDE DEF m
<1>4. /\ is_set(m, "state") <=> is_set(mods, "state")
      /\ is_set(m, "state") => m.state = mods.state
      /\ is_set(m, "placement_hints") <=> is_set(mods, "placement_hints")
  BY <1>3 DEF is_set
<1>5. value_or(m, "state", info.state) = value_or(mods, "state", info.state)
  BY <1>4 DEF value_or
<1> DEFINE e == modify_window(d, w, m, ctx)
<1>6. /\ DeskSound(e) /\ Reshapes(d, e, w)
      /\ e.info[w].state = value_or(m, "state", d.info[w].state)
      /\ e.info[w].restore_rect =
            IF is_set(m, "state") /\ m.state # d.info[w].state
            THEN RestoreRect(d.info[w], d.rect[w]) ELSE d.info[w].restore_rect
      /\ ~is_set(m, "placement_hints") /\ is_set(m, "size") /\ is_set(m, "top_left")
            => e.rect[w] = Rect(m.top_left, m.size)
  BY <1>3, ModifiedWindow
<1> HIDE DEF e
<1>7. /\ DeskSound(e) /\ Reshapes(d, e, w)
      /\ e.info[w].state = value_or(mods, "state", info.state)
      /\ e.info[w].restore_rect =
            IF is_set(mods, "state") /\ mods.state # info.state
            THEN RestoreRect(info, now) ELSE info.restore_rect
  BY <1>4, <1>5, <1>6 DEF info, now
<1>8. /\ StateWanted(mods, info) /\ mods.state = "restored"
            /\ ~is_set(mods, "top_left") /\ ~is_set(mods, "size")
            /\ ~is_set(mods, "placement_hints")
            => e.rect[w] = RestoreRect(info, now)
      /\ StateWanted(mods, info) /\ mods.state = "maximized"
            /\ ~is_set(mods, "placement_hints")
            => e.rect[w] = bounding_rectangle(Areas(outputs))
  BY <1>3, <1>4, <1>6 DEF Fills
<1> QED BY <1>2, <1>7, <1>8 DEF e, info, now

-----------------------------------------------------------------------------
(* Windows come and go.                                                    *)

\* What a window is built from.
BuildSound(spec) ==
    /\ Sound(spec)
    /\ {"top_left", "size", "output_id", "type", "state"} \subseteq DOMAIN spec

LEMMA BuiltInfoSound ==
    ASSUME NEW live, NEW w, NEW spec, BuildSound(spec), NEW p \in (live \ {w}) \cup {NoWindow}
    PROVE  LET info == Assign(BuiltInfo(spec), "parent", p)
           IN  /\ InfoSound(info, live, w)
               /\ info.state = spec.state /\ info.type = spec.type /\ info.parent = p
               /\ info.restore_rect = Rect(spec.top_left, spec.size)
<1> DEFINE base ==
                [type         |-> value_or(spec, "type", "normal"),
                 state        |-> value_or(spec, "state", "restored"),
                 restore_rect |-> Rect(spec.top_left, spec.size),
                 min_width    |-> value_or(spec, "min_width", 0),
                 min_height   |-> value_or(spec, "min_height", 0),
                 max_width    |-> value_or(spec, "max_width", MaxInt),
                 max_height   |-> value_or(spec, "max_height", MaxInt),
                 width_inc    |-> value_or(spec, "width_inc", 1),
                 height_inc   |-> value_or(spec, "height_inc", 1),
                 min_aspect   |-> value_or(spec, "min_aspect", Size(0, 1)),
                 max_aspect   |-> value_or(spec, "max_aspect", Size(1, 0))]
           output == Only(spec, {"output_id"})
           built == BuiltInfo(spec)
           info == Assign(built, "parent", p)
<1>1. built = CopySet(base, output)
  BY DEF BuiltInfo
<1>2. DOMAIN output = {"output_id"}
  BY DEF Only, BuildSound
<1>3. /\ base.type = spec.type /\ base.state = spec.state
      /\ base.restore_rect = Rect(spec.top_left, spec.size)
      /\ DOMAIN base = {"type", "state", "restore_rect", "min_width", "min_height", "max_width",
                        "max_height", "width_inc", "height_inc", "min_aspect", "max_aspect"}
  BY DEF value_or, is_set, BuildSound
<1>4. base.restore_rect \in AnyRect /\ base.state \in WindowStates
  <2>1. spec.top_left \in Points /\ spec.size \in Sizes /\ spec.state \in WindowStates
    BY DEF BuildSound, Sound, WellTyped, is_set
  <2> QED BY <1>3, <2>1, RectType
<1>5. base.min_width \in Nat /\ base.min_height \in Nat
  BY DEF value_or, BuildSound, Sound, SoundLimits
<1>6. base.max_width \in Nat /\ base.max_height \in Nat
  BY DEF value_or, BuildSound, Sound, SoundLimits, MaxInt
<1>7. base.width_inc \in Nat \ {0} /\ base.height_inc \in Nat \ {0}
  BY DEF value_or, BuildSound, Sound, SoundLimits
<1>8. base.min_aspect \in Ratios /\ base.min_aspect.height > 0
  BY DEF value_or, BuildSound, Sound, SoundLimits, Ratios, Size
<1>9. base.max_aspect \in Ratios /\ base.max_aspect.width > 0
  BY DEF value_or, BuildSound, Sound, SoundLimits, Ratios, Size
<1> HIDE DEF base, output
<1>10. /\ DOMAIN info = DOMAIN base \cup {"output_id", "parent"} /\ info.parent = p
       /\ \A f \in DOMAIN base : f \notin {"output_id", "parent"} => info[f] = base[f]
  BY <1>1, <1>2 DEF CopySet, Assign, value_or, is_set
<1> HIDE DEF info
<1>11. InfoLimits(info)
  <2>1. \A f \in Limits \cup {"min_aspect", "max_aspect"} : f \in DOMAIN info /\ info[f] = base[f]
    BY <1>3, <1>10 DEF Limits
  <2>2. /\ info.min_width = base.min_width /\ info.min_height = base.min_height
        /\ info.max_width = base.max_width /\ info.max_height = base.max_height
        /\ info.width_inc = base.width_inc /\ info.height_inc = base.height_inc
        /\ info.min_aspect = base.min_aspect /\ info.max_aspect = base.max_aspect
    BY <2>1 DEF Limits
  <2> QED BY <1>5, <1>6, <1>7, <1>8, <1>9, <2>1, <2>2 DEF InfoLimits
<1>12. /\ info.state = base.state /\ info.type = base.type
       /\ info.restore_rect = base.restore_rect
       /\ {"type", "state", "restore_rect", "parent", "output_id"} \subseteq DOMAIN info
  BY <1>3, <1>10
<1> QED BY <1>3, <1>4, <1>10, <1>11, <1>12 DEF InfoSound, info

\* A desk with one window more.
Grown(d, e, w, spec, p) ==
    /\ Live(e) = Live(d) \cup {w}
    /\ \A x \in Live(d) : e.info[x] = d.info[x] /\ e.rect[x] = d.rect[x]
    /\ e.rect[w] = Rect(spec.top_left, spec.size)
    /\ e.info[w].state = spec.state /\ e.info[w].type = spec.type /\ e.info[w].parent = p
    /\ e.info[w].restore_rect = Rect(spec.top_left, spec.size)

LEMMA BuiltWindow ==
    ASSUME NEW d, DeskSound(d), NEW w \in Windows \ Live(d), NEW p \in Live(d) \cup {NoWindow},
           NEW spec, BuildSound(spec)
    PROVE  DeskSound(Built(d, w, spec, p)) /\ Grown(d, Built(d, w, spec, p), w, spec, p)
<1> DEFINE e == Built(d, w, spec, p)
           info == Assign(BuiltInfo(spec), "parent", p)
           r == Rect(spec.top_left, spec.size)
<1>1. /\ DOMAIN e = DOMAIN d /\ e.windows = Append(d.windows, w)
      /\ e.info = Assign(d.info, w, info) /\ e.rect = Assign(d.rect, w, r)
      /\ e.fullscreen = IF spec.state = "fullscreen" THEN d.fullscreen \cup {w} ELSE d.fullscreen
  BY DEF Built, DeskSound
<1> HIDE DEF e
<1>2. /\ InfoSound(info, Live(d) \cup {w}, w)
      /\ info.state = spec.state /\ info.type = spec.type /\ info.parent = p
      /\ info.restore_rect = r
  <2>1. p \in ((Live(d) \cup {w}) \ {w}) \cup {NoWindow}
    OBVIOUS
  <2> QED BY <2>1, BuiltInfoSound
<1>3. r \in AnyRect
  BY RectType DEF BuildSound, Sound, WellTyped, is_set
<1> HIDE DEF info, r
<1>4. /\ Live(e) = Live(d) \cup {w} /\ e.info[w] = info
      /\ \A x \in Live(d) : e.info[x] = d.info[x]
  BY <1>1 DEF Assign, Live
<1>5. /\ e.rect \in [Live(e) -> AnyRect] /\ e.rect[w] = r
      /\ \A x \in Live(d) : e.rect[x] = d.rect[x]
  BY <1>1, <1>3, <1>4 DEF Assign, DeskSound
<1>6. /\ e.windows \in Seq(Live(e))
      /\ \A x \in Live(e) : \E i \in DOMAIN e.windows : e.windows[i] = x
  <2>1. d.windows \in Seq(Live(e)) /\ w \in Live(e)
    BY <1>4 DEF DeskSound
  <2>2. /\ e.windows \in Seq(Live(e)) /\ Len(e.windows) = Len(d.windows) + 1
        /\ \A i \in 1..Len(d.windows) : e.windows[i] = d.windows[i]
        /\ e.windows[Len(d.windows) + 1] = w
    BY <1>1, <2>1
  <2>3. \A i \in DOMAIN d.windows : i \in DOMAIN e.windows /\ e.windows[i] = d.windows[i]
    BY <2>1, <2>2
  <2>4. Len(d.windows) + 1 \in DOMAIN e.windows
    BY <2>1, <2>2
  <2> QED BY <1>4, <2>2, <2>3, <2>4 DEF DeskSound
<1>7. \A x \in Live(e) : InfoSound(e.info[x], Live(e), x)
  <2>1. \A x \in Live(d) : InfoSound(d.info[x], Live(d), x) => InfoSound(d.info[x], Live(e), x)
    BY <1>4 DEF InfoSound
  <2> QED BY <1>2, <1>4, <2>1 DEF DeskSound
<1>8. IsFiniteSet(Live(e)) /\ Live(e) \subseteq Windows
  BY <1>4, FS_AddElement DEF DeskSound
<1>9. e.fullscreen = {x \in Live(e) : e.info[x].state = "fullscreen"}
  BY <1>1, <1>2, <1>4 DEF DeskSound
<1>10. DeskSound(e)
  BY <1>1, <1>5, <1>6, <1>7, <1>8, <1>9 DEF DeskSound
<1> QED BY <1>2, <1>4, <1>5, <1>10 DEF Grown, e, r

\* A desk with one window fewer: its children have no parent any more.
Shrunk(d, e, w) ==
    /\ Live(e) = Live(d) \ {w}
    /\ \A x \in Live(e) :
        /\ e.rect[x] = d.rect[x]
        /\ e.info[x].state = d.info[x].state /\ e.info[x].type = d.info[x].type
        /\ e.info[x].restore_rect = d.info[x].restore_rect

LEMMA RemovedWindow ==
    ASSUME NEW d, DeskSound(d), NEW w \in Live(d)
    PROVE  DeskSound(Removed(d, w)) /\ Shrunk(d, Removed(d, w), w)
<1> DEFINE e == Removed(d, w)
           others == Live(d) \ {w}
           new(x) == [d.info[x] EXCEPT !.parent = IF @ = w THEN NoWindow ELSE @]
           kept == {i \in DOMAIN d.windows : d.windows[i] # w}
<1>1. /\ DOMAIN e = DOMAIN d /\ e.windows = Remaining(d.windows, kept)
      /\ e.info = [x \in others |-> new(x)] /\ e.rect = [x \in others |-> d.rect[x]]
      /\ e.fullscreen = d.fullscreen \ {w}
  BY DEF Removed, DeskSound
<1> HIDE DEF e
<1>2. Live(e) = others /\ \A x \in others : e.info[x] = new(x)
  BY <1>1 DEF Live
<1>3. \A x \in others : /\ InfoSound(new(x), others, x)
                        /\ new(x).state = d.info[x].state /\ new(x).type = d.info[x].type
                        /\ new(x).restore_rect = d.info[x].restore_rect
  <2> SUFFICES ASSUME NEW x \in others
               PROVE  /\ InfoSound(new(x), others, x)
                      /\ new(x).state = d.info[x].state /\ new(x).type = d.info[x].type
                      /\ new(x).restore_rect = d.info[x].restore_rect
    OBVIOUS
  <2> DEFINE info == d.info[x]
  <2>1. InfoSound(info, Live(d), x)
    BY DEF DeskSound
  <2>2. /\ DOMAIN new(x) = DOMAIN info /\ \A f \in DOMAIN info \ {"parent"} : new(x)[f] = info[f]
        /\ new(x).parent = IF info.parent = w THEN NoWindow ELSE info.parent
    BY <2>1 DEF InfoSound
  <2> HIDE DEF info, new
  <2>3. InfoLimits(new(x))
    BY <2>1, <2>2 DEF InfoSound, InfoLimits, Limits
  <2> QED BY <2>1, <2>2, <2>3 DEF InfoSound, info
<1>4. /\ e.windows \in Seq(others)
      /\ \A x \in others : \E i \in DOMAIN e.windows : e.windows[i] = x
  <2> DEFINE s == d.windows
             r == e.windows
  <2>1. s \in Seq(Live(d)) /\ kept \subseteq 1..Len(s) /\ DOMAIN s = 1..Len(s)
    BY DEF DeskSound
  <2>2. r = Remaining(s, kept)
    BY <1>1
  <2>3. \A x \in Live(d) : \E i \in DOMAIN s : s[i] = x
    BY DEF DeskSound
  <2>4. \A i \in kept : s[i] # w
    OBVIOUS
  <2>5. \A i \in DOMAIN s : s[i] # w => i \in kept
    OBVIOUS
  <2> HIDE DEF s, r, kept
  <2>6. r \in Seq(Live(d)) /\ \E h : Picks(h, r, s, kept)
    BY <2>1, <2>2, RemainingProperties
  <2>7. PICK h : Picks(h, r, s, kept)
    BY <2>6
  <2>8. DOMAIN r = 1..Len(r) /\ r \in [1..Len(r) -> Live(d)] /\ Len(r) \in Nat
    BY <2>6
  <2>9. \A i \in 1..Len(r) : r[i] \in others
    BY <2>4, <2>7, <2>8 DEF Picks
  <2>10. r \in Seq(others)
    BY <2>8, <2>9
  <2>11. \A x \in others : \E i \in DOMAIN r : r[i] = x
    BY <2>3, <2>5, <2>7, <2>8 DEF Picks
  <2> QED BY <2>10, <2>11 DEF r
<1> HIDE DEF new, kept
<1>5. e.rect \in [others -> AnyRect] /\ \A x \in others : e.rect[x] = d.rect[x]
  BY <1>1 DEF DeskSound
<1>6. e.fullscreen = {x \in Live(e) : e.info[x].state = "fullscreen"}
  BY <1>1, <1>2, <1>3 DEF DeskSound
<1>7. IsFiniteSet(others) /\ others \subseteq Windows
  BY FS_RemoveElement DEF DeskSound
<1>8. DeskSound(e)
  <2> HIDE DEF others
  <2>1. \A x \in Live(e) : InfoSound(e.info[x], Live(e), x)
    BY <1>2, <1>3
  <2>2. {"windows", "info", "rect", "fullscreen"} \subseteq DOMAIN e
    BY <1>1 DEF DeskSound
  <2> QED BY <1>2, <1>4, <1>5, <1>6, <1>7, <2>1, <2>2 DEF DeskSound
<1> QED BY <1>2, <1>3, <1>5, <1>8 DEF Shrunk, e

-----------------------------------------------------------------------------
(* The displays change: the fullscreen windows are fitted, one by one.     *)

\* Each fullscreen window once.
Orders(d) ==
    {o \in [1..Cardinality(d.fullscreen) -> d.fullscreen] :
        \A i, j \in DOMAIN o : i # j => o[i] # o[j]}

\* From d to e, a fullscreen window after the other.
Fitting(d, outs, order, fit, e) ==
    /\ fit[0] = d /\ fit[Cardinality(d.fullscreen)] = e
    /\ \A k \in 1..Cardinality(d.fullscreen) : fit[k] = Refit(fit[k - 1], outs, order[k])

LEMMA FitsOneByOne ==
    ASSUME NEW d, IsFiniteSet(d.fullscreen), NEW outs, NEW e \in Refitted(d, outs)
    PROVE  \E order \in Orders(d) : \E fit : Fitting(d, outs, order, fit, e)
<1> DEFINE m == Cardinality(d.fullscreen)
           Next1(order, g, i) == IF i = 0 THEN d ELSE Refit(g[i - 1], outs, order[i])
           Fitted(order, g) == g = [i \in 0..Len(order) |-> Next1(order, g, i)]
<1>1. \E order \in Orders(d) : e = (CHOOSE g : Fitted(order, g))[Len(order)]
  BY Zenon DEF Refitted, Orders
<1>2. PICK order \in Orders(d) : e = (CHOOSE g : Fitted(order, g))[Len(order)]
  BY <1>1
<1>3. m \in Nat
  BY FS_CardinalityType
<1>4. order \in [1..m -> d.fullscreen]
  BY <1>2 DEF Orders
<1>5. Len(order) = m
  BY <1>3, <1>4
<1> HIDE DEF m
<1> DEFINE Eq(g, k) == g = [i \in 0..k |-> g[i]] /\ \A i \in 0..k : g[i] = Next1(order, g, i)
           K == {k \in 0..m : \E g : Eq(g, k)}
<1>6. 0 \in K
  <2> DEFINE g == [i \in 0..0 |-> d]
  <2>1. Eq(g, 0)
    OBVIOUS
  <2> HIDE DEF Eq
  <2> QED BY <1>3, <2>1
<1>7. ASSUME NEW k \in 0..m, k < m, k \in K PROVE k + 1 \in K
  <2>1. PICK g : Eq(g, k)
    BY <1>7
  <2> DEFINE new == Refit(g[k], outs, order[k + 1])
             f == [i \in 0..(k + 1) |-> IF i = k + 1 THEN new ELSE g[i]]
  <2>2. k \in 0..k /\ k + 1 \in 0..(k + 1) /\ k + 1 \in 0..m /\ k + 1 # 0 /\ k + 1 - 1 = k
    BY <1>3, <1>7
  <2>3. \A i \in 0..k : i \in 0..(k + 1) /\ i # k + 1 /\ (i # 0 => i - 1 \in 0..k)
    BY <1>7
  <2> HIDE DEF new
  <2>4. f = [i \in 0..(k + 1) |-> f[i]] /\ f[k + 1] = new /\ \A i \in 0..k : f[i] = g[i]
    BY <2>2, <2>3
  <2> HIDE DEF f
  <2>5. \A i \in 0..(k + 1) : f[i] = Next1(order, f, i)
    <3> SUFFICES ASSUME NEW i \in 0..(k + 1) PROVE f[i] = Next1(order, f, i)
      OBVIOUS
    <3>1. CASE i = k + 1
      <4>1. f[k] = g[k]
        BY <2>2, <2>4
      <4> QED BY <2>2, <2>4, <3>1, <4>1 DEF new
    <3>2. CASE i \in 0..k
      <4>1. f[i] = g[i] /\ (i # 0 => f[i - 1] = g[i - 1])
        BY <2>3, <2>4, <3>2
      <4>2. g[i] = Next1(order, g, i)
        BY <2>1, <3>2
      <4> QED BY <4>1, <4>2
    <3> QED BY <1>7, <3>1, <3>2
  <2>6. Eq(f, k + 1)
    BY <2>4, <2>5
  <2> HIDE DEF Eq
  <2> QED BY <2>2, <2>6
<1>8. m \in K
  <2> HIDE DEF K
  <2>1. 0..m \subseteq K
    BY <1>3, <1>6, <1>7, Reaches
  <2> QED BY <1>3, <2>1
<1> DEFINE fit == CHOOSE g : Fitted(order, g)
<1>9. Fitted(order, fit)
  <2>1. PICK g : Eq(g, m)
    BY <1>8
  <2>2. Fitted(order, g)
    BY <1>5, <2>1
  <2> HIDE DEF Fitted
  <2> QED BY <2>2
<1>10. fit[m] = e
  BY <1>2, <1>5
<1> HIDE DEF fit
<1>11. \A i \in 0..m : fit[i] = Next1(order, fit, i)
  BY <1>5, <1>9
<1>12. fit[0] = d /\ \A k \in 1..m : fit[k] = Refit(fit[k - 1], outs, order[k])
  <2>1. 0 \in 0..m /\ \A k \in 1..m : k \in 0..m /\ k # 0
    BY <1>3
  <2> QED BY <1>11, <2>1
<1>13. Fitting(d, outs, order, fit, e)
  BY <1>10, <1>12 DEF Fitting, m
<1> QED BY <1>2, <1>13

\* A window below no fullscreen window ends up where its fitting puts it.
LEMMA RefittedDesk ==
    ASSUME InheritsAll, NEW outs, OutputsSound(outs), NEW d, DeskSound(d),
           NEW e \in Refitted(d, outs)
    PROVE  /\ DeskSound(e) /\ DOMAIN e = DOMAIN d /\ e.info = d.info
           /\ \A w \in d.fullscreen :
                (\A p \in d.fullscreen : w \notin Below(d, p)) => Covers(outs, d.info[w], e.rect[w])
<1> DEFINE m == Cardinality(d.fullscreen)
<1>1. IsFiniteSet(d.fullscreen) /\ d.fullscreen \subseteq Live(d)
  BY FS_Subset DEF DeskSound
<1>2. m \in Nat
  BY <1>1, FS_CardinalityType
<1>3. PICK order \in Orders(d) : \E fit : Fitting(d, outs, order, fit, e)
  BY <1>1, FitsOneByOne
<1>4. PICK fit : Fitting(d, outs, order, fit, e)
  BY <1>3
<1>5. \A w \in d.fullscreen : \E k \in 1..m : order[k] = w
  <2>1. order \in Injection(1..m, d.fullscreen)
    BY <1>3 DEF Orders, Injection, IsInjective
  <2>2. IsFiniteSet(1..m) /\ Cardinality(1..m) = m
    BY <1>2, FS_Interval
  <2> DEFINE T == d.fullscreen
             S == 1..m
  <2>3. \A f \in Injection(S, T) : Cardinality(S) = Cardinality(T) <=> f \in Surjection(S, T)
    <3>1. IsFiniteSet(T)
      BY <1>1
    <3> HIDE DEF S, T
    <3> QED BY <3>1, FS_Injection
  <2>4. order \in Surjection(1..m, d.fullscreen)
    BY <2>1, <2>2, <2>3
  <2> QED BY <2>4 DEF Surjection
<1>6. order \in [1..m -> d.fullscreen]
  BY <1>3 DEF Orders
<1> HIDE DEF m
<1> DEFINE Free0(w) == \A p \in d.fullscreen : w \notin Below(d, p)
           Good(f, k) == /\ DeskSound(f) /\ DOMAIN f = DOMAIN d /\ f.info = d.info
                         /\ \A j \in 1..k : Free0(order[j]) =>
                                Covers(outs, d.info[order[j]], f.rect[order[j]])
           K == {k \in 0..m : Good(fit[k], k)}
<1>7. 0 \in K
  <2>1. fit[0] = d /\ 0 \in 0..m
    BY <1>2, <1>4 DEF Fitting
  <2>2. Good(d, 0)
    OBVIOUS
  <2> HIDE DEF Good
  <2> QED BY <2>1, <2>2
<1>8. ASSUME NEW k \in 0..m, k < m, k \in K PROVE k + 1 \in K
  <2> DEFINE was == fit[k]
             now == fit[k + 1]
             w == order[k + 1]
             r == fullscreen_rect_for(outs, was.info[w], was.rect[w])
  <2>1. k + 1 \in 0..m /\ k + 1 \in 1..m /\ k + 1 - 1 = k
    BY <1>2, <1>8
  <2>2. now = Refit(was, outs, w)
    BY <1>4, <2>1 DEF Fitting, m
  <2>3. now = place_and_size(was, w, r)
    BY <2>2 DEF Refit
  <2>4. Good(was, k)
    BY <1>8
  <2>5. w \in d.fullscreen /\ w \in Live(was)
    BY <1>1, <1>6, <2>1, <2>4 DEF Live
  <2> HIDE DEF w, now, was
  <2>6. was.rect[w] \in AnyRect
    BY <2>4, <2>5 DEF DeskSound
  <2>7. r \in AnyRect /\ Covers(outs, was.info[w], r)
    <3>1. outs \in Seq([id : DOMAIN OutputAreas, area : Rects])
      BY DEF OutputsSound
    <3> QED BY <2>6, <3>1, FullscreenRect
  <2> HIDE DEF r
  <2>8. DeskSound(now) /\ Reshapes(was, now, w) /\ now.rect[w] = r /\ now.info = was.info
    BY <2>3, <2>4, <2>5, <2>7, PlacedWindow
  <2>9. ASSUME NEW j \in 1..(k + 1), Free0(order[j])
        PROVE  Covers(outs, d.info[order[j]], now.rect[order[j]])
    <3>1. CASE order[j] = w
      BY <2>4, <2>7, <2>8, <3>1
    <3>2. CASE order[j] # w
      <4>1. j \in 1..k
        BY <1>8, <3>2 DEF w
      <4>2. Covers(outs, d.info[order[j]], was.rect[order[j]])
        BY <2>4, <2>9, <4>1
      <4>3. SameTrees(d, was) /\ w \in Live(d)
        BY <2>4, <2>5 DEF SameTrees, Live
      <4>4. Below(was, w) = Below(d, w)
        BY <4>3, BelowSame DEF DeskSound
      <4>5. order[j] \notin Below(was, w)
        BY <2>5, <2>9, <4>4
      <4>6. order[j] \in Live(was) \ {w}
        <5>1. j \in 1..m
          BY <1>2, <1>8, <4>1
        <5>2. order[j] \in Live(d)
          BY <1>1, <1>6, <5>1
        <5> QED BY <2>4, <3>2, <5>2 DEF Live
      <4>7. now.rect[order[j]] = was.rect[order[j]]
        BY <2>8, <4>5, <4>6 DEF Reshapes
      <4> QED BY <4>2, <4>7
    <3> QED BY <3>1, <3>2
  <2>10. Good(now, k + 1)
    <3>1. DOMAIN now = DOMAIN d
      BY <2>4, <2>8 DEF Reshapes
    <3> QED BY <2>4, <2>8, <2>9, <3>1
  <2> HIDE DEF Good
  <2> QED BY <2>1, <2>10 DEF now
<1>9. Good(e, m)
  <2> HIDE DEF Good
  <2>1. 0..m \subseteq K
    <3> HIDE DEF K
    <3> QED BY <1>2, <1>7, <1>8, Reaches
  <2>2. fit[m] = e
    BY <1>4 DEF Fitting, m
  <2> QED BY <1>2, <2>1, <2>2
<1> QED BY <1>5, <1>9

-----------------------------------------------------------------------------
(* Where new windows go.                                                   *)

LEMMA CentredType ==
    ASSUME NEW area \in AnyRect, NEW size \in Sizes, NEW height \in Int
    PROVE  LET p == Centred(area, size, height)
           IN  /\ p \in Points
               /\ p.x = area.top_left.x + Quot(area.size.width - size.width, 2)
               /\ p.y = (area.top_left.y + Quot(area.size.height - size.height, 2))
                            - Quot(area.size.height - height, 6)
<1> DEFINE ax == area.top_left.x
           ay == area.top_left.y
           aw == area.size.width
           ah == area.size.height
           sw == size.width
           sh == size.height
           over == Minus(Span(area.size), Span(size))
           half == Half(over)
           up == Point(0, Quot(ah - height, 6))
           p == Centred(area, size, height)
<1>1. /\ ax \in Int /\ ay \in Int /\ aw \in Int /\ ah \in Int /\ sw \in Int /\ sh \in Int
      /\ area.top_left \in Points
  BY RectType
<1>2. over = Point(aw - sw, ah - sh)
  BY DEF Minus, Span, Point
<1>3. half = Point(Quot(aw - sw, 2), Quot(ah - sh, 2))
  BY <1>2 DEF Half, Point
<1>4. p = Minus(Plus(area.top_left, half), up)
  BY DEF Centred
<1> HIDE DEF half, p
<1>5. p = Point((ax + Quot(aw - sw, 2)) - 0, (ay + Quot(ah - sh, 2)) - Quot(ah - height, 6))
  BY <1>3, <1>4 DEF Plus, Minus, Point
<1> DEFINE qx == Quot(aw - sw, 2)
           qy == Quot(ah - sh, 2)
           qh == Quot(ah - height, 6)
<1>6. qx \in Int /\ qy \in Int /\ qh \in Int
  <2>1. aw - sw \in Int /\ ah - sh \in Int /\ ah - height \in Int
    BY <1>1
  <2> QED BY <2>1, Fractions
<1> HIDE DEF qx, qy, qh, ax, ay
<1>7. p = Point((ax + qx) - 0, (ay + qy) - qh)
  BY <1>5 DEF qx, qy, qh
<1>8. (ax + qx) - 0 = ax + qx /\ ax + qx \in Int /\ (ay + qy) - qh \in Int
  BY <1>1, <1>6
<1>9. p \in Points /\ p.x = ax + qx /\ p.y = (ay + qy) - qh
  BY <1>7, <1>8, RectType
<1>10. p.x = area.top_left.x + Quot(area.size.width - size.width, 2)
  BY <1>9, Zenon DEF ax, qx
<1>11. p.y = (area.top_left.y + Quot(area.size.height - size.height, 2))
                - Quot(area.size.height - height, 6)
  BY <1>9, Zenon DEF ay, qy, qh
<1> QED BY <1>9, <1>10, <1>11, Zenon DEF p

LEMMA CascadedType ==
    ASSUME NEW spec, spec.size \in Sizes, NEW first \in AnyRect
    PROVE  Cascaded(spec, first) \in AnyRect /\ Cascaded(spec, first).size = spec.size
<1>1. Point(title_bar_height, title_bar_height) \in Points
  BY TitleBarAssumption, RectType
<1>2. Plus(first.top_left, Point(title_bar_height, title_bar_height)) \in Points
  BY <1>1, PointSums, RectType
<1> QED BY <1>2, RectType DEF Cascaded

\* Before a window is kept below the top of the displays.
OnActive(spec, active) ==
    LET centre == Centred(active, spec.size, spec.size.height)
    IN  CASE spec.state \in {"fullscreen", "maximized"} -> active
          [] spec.state = "vertmaximized" ->
               Rect(Point(centre.x, active.top_left.y), Size(spec.size.width, active.size.height))
          [] spec.state = "horizmaximized" ->
               Rect(Point(active.top_left.x, centre.y), Size(active.size.width, spec.size.height))
          [] OTHER -> Rect(centre, spec.size)

LEMMA OnActiveType ==
    ASSUME NEW spec, spec.size \in Sizes, spec.state \in WindowStates, NEW active \in AnyRect
    PROVE  OnActive(spec, active) \in AnyRect
<1> DEFINE centre == Centred(active, spec.size, spec.size.height)
<1>1. centre \in Points /\ centre.x \in Int /\ centre.y \in Int
  <2>1. spec.size.height \in Int
    BY RectType
  <2>2. centre \in Points
    BY <2>1, CentredType
  <2> QED BY <2>2, RectType
<1> HIDE DEF centre
<1>2. /\ active.top_left.x \in Int /\ active.top_left.y \in Int
      /\ active.size.width \in Int /\ active.size.height \in Int
      /\ spec.size.width \in Int /\ spec.size.height \in Int
  BY RectType
<1>3. /\ Point(centre.x, active.top_left.y) \in Points
      /\ Size(spec.size.width, active.size.height) \in Sizes
      /\ Point(active.top_left.x, centre.y) \in Points
      /\ Size(active.size.width, spec.size.height) \in Sizes
  BY <1>1, <1>2, RectType
<1>4. /\ Rect(Point(centre.x, active.top_left.y), Size(spec.size.width, active.size.height)) \in AnyRect
      /\ Rect(Point(active.top_left.x, centre.y), Size(active.size.width, spec.size.height)) \in AnyRect
      /\ Rect(centre, spec.size) \in AnyRect
  BY <1>1, <1>3, RectType
<1> QED BY <1>4 DEF OnActive, centre

LEMMA OnDisplayType ==
    ASSUME NEW spec, spec.size \in Sizes, spec.state \in WindowStates,
           NEW active \in AnyRect, NEW all \in AnyRect
    PROVE  LET r == OnActive(spec, active)
               s == OnDisplay(spec, active, all)
           IN  /\ s \in AnyRect /\ s.size = r.size /\ s.top_left.x = r.top_left.x
               /\ s.top_left.y = IF r.top_left.y < all.top_left.y
                                 THEN all.top_left.y ELSE r.top_left.y
<1> DEFINE r == OnActive(spec, active)
           s == OnDisplay(spec, active, all)
<1>1. r \in AnyRect
  BY OnActiveType
<1>2. s = IF r.top_left.y < all.top_left.y
          THEN [r EXCEPT !.top_left.y = all.top_left.y] ELSE r
  BY DEF OnDisplay, OnActive
<1> HIDE DEF r, s
<1>3. r.top_left \in Points /\ r.size \in Sizes /\ all.top_left.y \in Int /\ r.top_left.x \in Int
  BY <1>1, RectType
<1> DEFINE t == [r EXCEPT !.top_left.y = all.top_left.y]
           p == [r.top_left EXCEPT !.y = all.top_left.y]
<1>4. t = [r EXCEPT !.top_left = p]
  OBVIOUS
<1>5. p = Point(r.top_left.x, all.top_left.y)
  BY <1>3 DEF Points, Point
<1>6. p \in Points /\ p.x = r.top_left.x /\ p.y = all.top_left.y
  BY <1>3, <1>5, RectType
<1> HIDE DEF p
<1>7. t \in AnyRect /\ t.size = r.size /\ t.top_left = p
  BY <1>1, <1>4, <1>6 DEF AnyRect
<1> HIDE DEF t
<1>8. s = IF r.top_left.y < all.top_left.y THEN t ELSE r
  BY <1>2 DEF t
<1> QED BY <1>1, <1>6, <1>7, <1>8 DEF r, s

\* A rectangle that is not empty.
Positive(r) == r.size.width > 0 /\ r.size.height > 0

LEMMA OverlapsIs ==
    ASSUME NEW a \in AnyRect, NEW b \in AnyRect, Positive(a), Positive(b)
    PROVE  overlaps(a, b) <=>
                /\ a.top_left.x < b.top_left.x + b.size.width
                /\ b.top_left.x < a.top_left.x + a.size.width
                /\ a.top_left.y < b.top_left.y + b.size.height
                /\ b.top_left.y < a.top_left.y + a.size.height
<1>1. \A m, n \in Int : m > 0 /\ n > 0 => m * n > 0
  OBVIOUS
<1>2. AreaOf(a) > 0 /\ AreaOf(b) > 0
  <2>1. /\ a.size.width \in Int /\ a.size.height \in Int
        /\ b.size.width \in Int /\ b.size.height \in Int
    BY RectType
  <2> QED BY <1>1, <2>1 DEF AreaOf, Positive
<1>3. /\ bottom_right(a).x = a.top_left.x + a.size.width
      /\ bottom_right(a).y = a.top_left.y + a.size.height
      /\ bottom_right(b).x = b.top_left.x + b.size.width
      /\ bottom_right(b).y = b.top_left.y + b.size.height
  BY DEF bottom_right, Plus, Span, Point
<1> QED BY <1>2, <1>3 DEF overlaps

LEMMA OverlapsMore ==
    ASSUME NEW o \in AnyRect, NEW r \in AnyRect, NEW q \in AnyRect,
           Positive(o), Positive(r), Contains(q, r), overlaps(o, r)
    PROVE  Positive(q) /\ overlaps(o, q)
<1> DEFINE ox == o.top_left.x
           oy == o.top_left.y
           ow == o.size.width
           oh == o.size.height
           rx == r.top_left.x
           ry == r.top_left.y
           rw == r.size.width
           rh == r.size.height
           qx == q.top_left.x
           qy == q.top_left.y
           qw == q.size.width
           qh == q.size.height
<1>1. /\ ox \in Int /\ oy \in Int /\ ow \in Int /\ oh \in Int
      /\ rx \in Int /\ ry \in Int /\ rw \in Int /\ rh \in Int
      /\ qx \in Int /\ qy \in Int /\ qw \in Int /\ qh \in Int
  BY RectType
<1>2. /\ ox < rx + rw /\ rx < ox + ow /\ oy < ry + rh /\ ry < oy + oh
  BY OverlapsIs
<1>3. rx >= qx /\ ry >= qy /\ rx + rw <= qx + qw /\ ry + rh <= qy + qh
  BY DEF Contains, bottom_right, Plus, Span, Point
<1>4. rw > 0 /\ rh > 0
  BY DEF Positive
<1> HIDE DEF ox, oy, ow, oh, rx, ry, rw, rh, qx, qy, qw, qh
<1>5. qw > 0 /\ qh > 0
  BY <1>1, <1>3, <1>4
<1>6. ox < qx + qw /\ qx < ox + ow /\ oy < qy + qh /\ qy < oy + oh
  BY <1>1, <1>2, <1>3
<1>7. Positive(q)
  BY <1>5 DEF Positive, qw, qh
<1>8. overlaps(o, q)
  BY <1>6, <1>7, OverlapsIs DEF ox, oy, ow, oh, qx, qy, qw, qh
<1> QED BY <1>7, <1>8

\* A window centred on the display in use, or filling it, is seen there.
LEMMA OnDisplaySeen ==
    ASSUME NEW spec, spec.size \in Sizes, spec.state \in WindowStates,
           spec.size.width > 0, spec.size.height > 0,
           NEW active \in AnyRect, Positive(active), NEW all \in AnyRect, Contains(all, active)
    PROVE  LET s == OnDisplay(spec, active, all)
           IN  Positive(s) /\ overlaps(active, s)
<1> DEFINE ax == active.top_left.x
           ay == active.top_left.y
           aw == active.size.width
           ah == active.size.height
           sw == spec.size.width
           sh == spec.size.height
           top == all.top_left.y
           centre == Centred(active, spec.size, sh)
           r == OnActive(spec, active)
           s == OnDisplay(spec, active, all)
           cx == centre.x
           cy == centre.y
<1>1. /\ ax \in Int /\ ay \in Int /\ aw \in Int /\ ah \in Int /\ sw \in Int /\ sh \in Int
      /\ top \in Int /\ aw > 0 /\ ah > 0 /\ sw > 0 /\ sh > 0 /\ top <= ay
  BY RectType DEF Positive, Contains
<1>2. /\ centre \in Points /\ cx = ax + Quot(aw - sw, 2)
      /\ cy = (ay + Quot(ah - sh, 2)) - Quot(ah - sh, 6)
  BY <1>1, CentredType
<1>3. /\ s \in AnyRect /\ s.size = r.size /\ s.top_left.x = r.top_left.x
      /\ s.top_left.y = IF r.top_left.y < top THEN top ELSE r.top_left.y
  BY OnDisplayType
<1>4. /\ cx \in Int /\ ax < cx + sw /\ cx < ax + aw
  <2> DEFINE n == aw - sw
             q == Quot(n, 2)
  <2>1. n \in Int
    BY <1>1
  <2> HIDE DEF n
  <2>2. /\ q \in Int
        /\ n >= 0 => 0 <= q /\ 2 * q <= n
        /\ n < 0 => q <= 0 /\ n <= 2 * q
    BY <2>1, Fractions
  <2> HIDE DEF q, ax, aw, sw, cx
  <2>3. cx = ax + q /\ n = aw - sw
    BY <1>2 DEF q, n, cx
  <2> QED BY <1>1, <2>1, <2>2, <2>3
<1>5. /\ cy \in Int /\ ay < cy + sh /\ cy < ay + ah
  <2> DEFINE n == ah - sh
             q == Quot(n, 2)
             t == Quot(n, 6)
  <2>1. n \in Int
    BY <1>1
  <2> HIDE DEF n
  <2>2. /\ q \in Int /\ t \in Int
        /\ n >= 0 => 0 <= q /\ 2 * q <= n /\ 0 <= t /\ t <= q
        /\ n < 0 => q <= 0 /\ n <= 2 * q /\ t <= 0 /\ q <= t
    BY <2>1, Fractions
  <2> HIDE DEF q, t, ay, ah, sh, cy
  <2>3. cy = (ay + q) - t /\ n = ah - sh
    BY <1>2 DEF q, t, n, cy
  <2> QED BY <1>1, <2>1, <2>2, <2>3
<1> DEFINE rx == r.top_left.x
           ry == r.top_left.y
           rw == r.size.width
           rh == r.size.height
<1>6. /\ (rx = ax /\ rw = aw) \/ (rx = cx /\ rw = sw)
      /\ (ry = ay /\ rh = ah) \/ (ry = cy /\ rh = sh)
  <2> HIDE DEF centre
  <2>1. /\ Rect(Point(cx, ay), Size(sw, ah)).top_left = Point(cx, ay)
        /\ Rect(Point(cx, ay), Size(sw, ah)).size = Size(sw, ah)
        /\ Rect(Point(ax, cy), Size(aw, sh)).top_left = Point(ax, cy)
        /\ Rect(Point(ax, cy), Size(aw, sh)).size = Size(aw, sh)
        /\ Rect(centre, spec.size).top_left = centre /\ Rect(centre, spec.size).size = spec.size
    BY DEF Rect
  <2>2. r = active \/ r = Rect(Point(cx, ay), Size(sw, ah)) \/ r = Rect(Point(ax, cy), Size(aw, sh))
            \/ r = Rect(centre, spec.size)
    BY DEF OnActive, centre
  <2> HIDE DEF r
  <2> QED BY <2>1, <2>2 DEF Point, Size
<1> HIDE DEF s, r, ax, ay, aw, ah, sw, sh, cx, cy, top, rx, ry, rw, rh
<1>7. /\ rx \in Int /\ ry \in Int /\ rw \in Int /\ rh \in Int /\ rw > 0 /\ rh > 0
      /\ ax < rx + rw /\ rx < ax + aw /\ ay < ry + rh /\ ry < ay + ah
  BY <1>1, <1>4, <1>5, <1>6
<1> DEFINE sy == IF ry < top THEN top ELSE ry
<1>8. ay < sy + rh /\ sy < ay + ah
  BY <1>1, <1>7
<1>9. s.size.width = rw /\ s.size.height = rh /\ s.top_left.x = rx /\ s.top_left.y = sy
  BY <1>3 DEF rx, ry, rw, rh
<1> HIDE DEF sy
<1>10. Positive(s)
  BY <1>7, <1>9 DEF Positive
<1>11. overlaps(active, s)
  BY <1>3, <1>7, <1>8, <1>9, <1>10, OverlapsIs DEF ax, ay, aw, ah
<1> QED BY <1>10, <1>11 DEF s

\* Another place, size, state or type.
LEMMA LikeSound ==
    ASSUME NEW c, Sound(c), NEW m, DOMAIN c \subseteq DOMAIN m,
           DOMAIN m \subseteq DOMAIN c \cup {"top_left", "size", "state", "type"},
           \A f \in DOMAIN c : f \notin {"top_left", "size", "state", "type"} => m[f] = c[f],
           is_set(m, "top_left") => m.top_left \in Points,
           is_set(m, "size") => m.size \in Sizes,
           is_set(m, "state") => m.state \in WindowStates
    PROVE  Sound(m)
<1>1. \A f : f \notin {"top_left", "size", "state", "type"} =>
            (is_set(m, f) <=> is_set(c, f)) /\ (is_set(m, f) => m[f] = c[f])
  BY DEF is_set
<1>2. WellTyped(c) /\ SoundLimits(c)
  BY DEF Sound
<1>3. \A f \in {"min_width", "min_height", "max_width", "max_height", "width_inc", "height_inc"} :
            is_set(m, f) => m[f] \in Int
  BY <1>1, <1>2 DEF WellTyped
<1>4. \A f \in {"min_aspect", "max_aspect"} : is_set(m, f) => m[f] \in Sizes
  BY <1>1, <1>2 DEF WellTyped
<1>5. is_set(m, "aux_rect_placement_offset") => m.aux_rect_placement_offset \in Points
  BY <1>1, <1>2 DEF WellTyped
<1>6. is_set(m, "placement_hints") =>
        {"aux_rect", "window_placement_gravity", "aux_rect_placement_gravity"} \subseteq DOMAIN m
  BY <1>1, <1>2 DEF WellTyped
<1>7. is_set(m, "placement_hints") =>
        /\ m.aux_rect = c.aux_rect
        /\ m.window_placement_gravity = c.window_placement_gravity
        /\ m.aux_rect_placement_gravity = c.aux_rect_placement_gravity
  BY <1>1, <1>6 DEF is_set
<1>8. is_set(m, "placement_hints") =>
        /\ m.aux_rect \in [top_left : Points, size : Sizes]
        /\ {m.window_placement_gravity, m.aux_rect_placement_gravity} \subseteq Gravities
  BY <1>1, <1>2, <1>7 DEF WellTyped
<1>9. WellTyped(m)
  BY <1>3, <1>4, <1>5, <1>6, <1>8 DEF WellTyped
<1>10. SoundLimits(m)
  BY <1>1, <1>2 DEF SoundLimits
<1> QED BY <1>9, <1>10 DEF Sound

\* The parameters of a new window.
ParamsSound(c) == Sound(c) /\ {"top_left", "size", "output_id"} \subseteq DOMAIN c

\* ... with what a client may leave out.
Defaulted(c) == CopySet([type |-> "normal", state |-> "restored"], c)

LEMMA DefaultedSound ==
    ASSUME NEW c, ParamsSound(c)
    PROVE  LET spec == Defaulted(c)
           IN  /\ BuildSound(spec)
               /\ DOMAIN spec = DOMAIN c \cup {"type", "state"}
               /\ \A f \in DOMAIN c : spec[f] = c[f]
               /\ spec.type = value_or(c, "type", "normal")
               /\ spec.state = value_or(c, "state", "restored")
<1> DEFINE spec == Defaulted(c)
           base == [type |-> "normal", state |-> "restored"]
<1>1. /\ DOMAIN spec = DOMAIN c \cup {"type", "state"}
      /\ \A f \in DOMAIN c : spec[f] = c[f]
      /\ spec.type = value_or(c, "type", "normal")
      /\ spec.state = value_or(c, "state", "restored")
  BY DEF Defaulted, CopySet, value_or, is_set
<1> HIDE DEF spec
<1>2. spec.state \in WindowStates
  BY <1>1 DEF value_or, ParamsSound, Sound, WellTyped, WindowStates
<1>3. is_set(spec, "top_left") => spec.top_left \in Points
  BY <1>1 DEF ParamsSound, Sound, WellTyped, is_set
<1>4. is_set(spec, "size") => spec.size \in Sizes
  BY <1>1 DEF ParamsSound, Sound, WellTyped, is_set
<1>5. Sound(spec)
  <2>1. DOMAIN c \subseteq DOMAIN spec
        /\ DOMAIN spec \subseteq DOMAIN c \cup {"top_left", "size", "state", "type"}
    BY <1>1
  <2> QED BY <1>1, <1>2, <1>3, <1>4, <2>1, LikeSound DEF ParamsSound
<1> QED BY <1>1, <1>5 DEF BuildSound, ParamsSound, spec

\* Given a place, a size and a state.
LEMMA PlacedSound ==
    ASSUME NEW spec, BuildSound(spec), NEW r \in AnyRect, NEW state \in WindowStates
    PROVE  LET m == Placed(spec, r, state)
           IN  /\ BuildSound(m) /\ m.type = spec.type /\ m.state = state
               /\ m.top_left = r.top_left /\ m.size = r.size /\ Rect(m.top_left, m.size) = r
<1> DEFINE m == Placed(spec, r, state)
<1>1. /\ DOMAIN m = DOMAIN spec \cup {"top_left", "size", "state"}
      /\ m.top_left = r.top_left /\ m.size = r.size /\ m.state = state
      /\ \A f \in DOMAIN spec : f \notin {"top_left", "size", "state"} => m[f] = spec[f]
  BY DEF Placed, CopySet, value_or, is_set
<1> HIDE DEF m
<1>2. m.top_left \in Points /\ m.size \in Sizes /\ Rect(m.top_left, m.size) = r
  BY <1>1, RectType
<1>3. Sound(m)
  <2>1. DOMAIN spec \subseteq DOMAIN m
        /\ DOMAIN m \subseteq DOMAIN spec \cup {"top_left", "size", "state", "type"}
    BY <1>1
  <2>2. \A f \in DOMAIN spec : f \notin {"top_left", "size", "state", "type"} => m[f] = spec[f]
    BY <1>1
  <2> QED BY <1>1, <1>2, <2>1, <2>2, LikeSound DEF BuildSound
<1>4. m.type = spec.type
  BY <1>1 DEF BuildSound
<1> QED BY <1>1, <1>2, <1>3, <1>4 DEF BuildSound, m

OneOrNone(s) == s = <<>> \/ (s # <<>> /\ s[1] \in AnyRect)

\* The rectangle of a new window is on one of the outputs.
SeenOn(outs, r) == Positive(r) /\ \E i \in DOMAIN outs : overlaps(outs[i].area, r)

LEMMA NewSurfaceSound ==
    ASSUME NEW outs, OutputsSound(outs), NEW active \in AnyRect,
           NEW first, OneOrNone(first), NEW parent, OneOrNone(parent), NEW c, ParamsSound(c)
    PROVE  LET m == place_new_surface(outs, active, first, parent, c)
           IN  /\ BuildSound(m) /\ m.type = value_or(c, "type", "normal")
               /\ /\ parent # <<>> /\ is_set(c, "placement_hints")
                  /\ {"slide_x", "slide_y"} \subseteq c.placement_hints
                  /\ m.size.width <= active.size.width /\ m.size.height <= active.size.height
                  => Contains(active, Rect(m.top_left, m.size))
               /\ /\ parent = <<>> /\ c.output_id = 0
                  /\ c.size.width > 0 /\ c.size.height > 0
                  /\ \A i \in DOMAIN outs : Positive(outs[i].area)
                  /\ \E i \in DOMAIN outs : active = outs[i].area
                  => SeenOn(outs, Rect(m.top_left, m.size))
               /\ m.state \in {value_or(c, "state", "restored"), "fullscreen"}
<1> DEFINE spec == Defaulted(c)
           on_output == value_or(spec, "output_id", 0) # 0
           output == place_in_output(outs, spec.output_id, Rect(spec.top_left, spec.size))
           sized == [spec EXCEPT !.size = IF on_output THEN output.size ELSE @]
           all == bounding_rectangle(Areas(outs))
           r == IF parent # <<>>
                THEN IF {"aux_rect", "placement_hints"} \subseteq DOMAIN spec
                     THEN place_relative(active, parent[1], sized, sized.size)
                     ELSE Rect(Centred(parent[1], sized.size, spec.size.height), sized.size)
                ELSE IF on_output THEN output
                ELSE IF Cascades(outs, spec, first) THEN Cascaded(spec, first[1])
                ELSE OnDisplay(spec, active, all)
           state == IF on_output THEN "fullscreen" ELSE spec.state
           m == place_new_surface(outs, active, first, parent, c)
<1>1. m = Placed(spec, r, state)
  BY Zenon DEF place_new_surface, Defaulted
<1>2. /\ BuildSound(spec) /\ DOMAIN spec = DOMAIN c \cup {"type", "state"}
      /\ \A f \in DOMAIN c : spec[f] = c[f]
      /\ spec.type = value_or(c, "type", "normal")
      /\ spec.state = value_or(c, "state", "restored")
  BY DefaultedSound
<1> HIDE DEF spec, m
<1>3. /\ spec.top_left \in Points /\ spec.size \in Sizes /\ spec.state \in WindowStates
      /\ "size" \in DOMAIN spec /\ spec.size = c.size
      /\ on_output <=> c.output_id # 0
  BY <1>2 DEF BuildSound, Sound, WellTyped, is_set, value_or, ParamsSound
<1>4. state \in WindowStates
  BY <1>3 DEF WindowStates
<1>5. output \in AnyRect
  <2>1. Rect(spec.top_left, spec.size) \in AnyRect
    BY <1>3, RectType
  <2>2. \A i \in DOMAIN outs : outs[i].area \in AnyRect
    BY AreasType, RectType DEF OutputsSound
  <2> HIDE DEF output
  <2>3. CASE \E i \in DOMAIN outs : outs[i].id = spec.output_id
    <3> DEFINE at == CHOOSE i \in DOMAIN outs : outs[i].id = spec.output_id
    <3>1. at \in DOMAIN outs
      BY <2>3
    <3>2. output = outs[at].area
      BY <2>3 DEF output, place_in_output
    <3> HIDE DEF at
    <3> QED BY <2>2, <3>1, <3>2
  <2>4. CASE ~\E i \in DOMAIN outs : outs[i].id = spec.output_id
    <3>1. output = Rect(spec.top_left, spec.size)
      BY <2>4 DEF output, place_in_output
    <3> QED BY <2>1, <3>1
  <2> QED BY <2>3, <2>4
<1>6. all \in AnyRect /\ \A i \in DOMAIN outs : Contains(all, outs[i].area)
  BY AllAreas, RectType DEF OutputsSound
<1> HIDE DEF on_output, output, all
<1>7. /\ sized.size \in Sizes
      /\ DOMAIN sized = DOMAIN spec /\ \A f \in DOMAIN spec \ {"size"} : sized[f] = spec[f]
  BY <1>3, <1>5, RectType
<1> HIDE DEF sized
<1>8. /\ parent # <<>> /\ {"aux_rect", "placement_hints"} \subseteq DOMAIN spec =>
            LET q == place_relative(active, parent[1], sized, sized.size)
            IN  /\ q \in AnyRect
                /\ /\ {"slide_x", "slide_y"} \subseteq sized.placement_hints
                   /\ q.size.width <= active.size.width /\ q.size.height <= active.size.height
                   => Contains(active, q)
      /\ parent # <<>> /\ {"aux_rect", "placement_hints"} \subseteq DOMAIN spec =>
            is_set(c, "placement_hints") /\ sized.placement_hints = c.placement_hints
      /\ is_set(c, "placement_hints") => {"aux_rect", "placement_hints"} \subseteq DOMAIN spec
  <2>1. ASSUME {"aux_rect", "placement_hints"} \subseteq DOMAIN spec
        PROVE  Placeable(sized)
    <3>1. /\ is_set(spec, "placement_hints") /\ WellTyped(spec)
      BY <1>2, <2>1 DEF is_set, BuildSound, Sound
    <3>2. Placeable(spec)
      BY <3>1 DEF Placeable, WellTyped, AnyRect
    <3>3. /\ sized.aux_rect = spec.aux_rect
          /\ sized.window_placement_gravity = spec.window_placement_gravity
          /\ sized.aux_rect_placement_gravity = spec.aux_rect_placement_gravity
          /\ is_set(sized, "aux_rect_placement_offset") <=> is_set(spec, "aux_rect_placement_offset")
          /\ is_set(sized, "aux_rect_placement_offset") =>
                sized.aux_rect_placement_offset = spec.aux_rect_placement_offset
      BY <1>7, <3>1 DEF is_set, WellTyped
    <3> QED BY <3>2, <3>3 DEF Placeable
  <2>2. parent # <<>> => parent[1] \in AnyRect
    BY DEF OneOrNone
  <2>3. ASSUME parent # <<>>, {"aux_rect", "placement_hints"} \subseteq DOMAIN spec
        PROVE  LET q == place_relative(active, parent[1], sized, sized.size)
               IN  /\ q \in AnyRect
                   /\ /\ {"slide_x", "slide_y"} \subseteq sized.placement_hints
                      /\ q.size.width <= active.size.width /\ q.size.height <= active.size.height
                      => Contains(active, q)
    BY <1>7, <2>1, <2>2, <2>3, RelativeType
  <2>4. ASSUME {"aux_rect", "placement_hints"} \subseteq DOMAIN spec
        PROVE  is_set(c, "placement_hints") /\ sized.placement_hints = c.placement_hints
    BY <1>2, <1>7, <2>4 DEF is_set
  <2>5. is_set(c, "placement_hints") => {"aux_rect", "placement_hints"} \subseteq DOMAIN spec
    BY <1>2 DEF ParamsSound, Sound, WellTyped, is_set
  <2> QED BY <2>3, <2>4, <2>5
<1>9. first # <<>> => Cascaded(spec, first[1]) \in AnyRect /\ Cascaded(spec, first[1]).size = spec.size
  BY <1>3, CascadedType DEF OneOrNone
<1>10. OnDisplay(spec, active, all) \in AnyRect
  BY <1>3, <1>6, OnDisplayType
<1>11. Cascades(outs, spec, first) => first # <<>>
  BY DEF Cascades
<1>12. parent # <<>> => Rect(Centred(parent[1], sized.size, spec.size.height), sized.size) \in AnyRect
  <2>1. spec.size.height \in Int
    BY <1>3, RectType
  <2> QED BY <1>7, <2>1, CentredType, RectType DEF OneOrNone
<1>13. r \in AnyRect
  BY <1>5, <1>8, <1>9, <1>10, <1>11, <1>12
<1>14. /\ BuildSound(m) /\ m.type = spec.type /\ m.state = state
       /\ m.top_left = r.top_left /\ m.size = r.size /\ Rect(m.top_left, m.size) = r
  <2> HIDE DEF r, state
  <2> QED BY <1>1, <1>2, <1>4, <1>13, PlacedSound
<1>15. ASSUME parent # <<>>, is_set(c, "placement_hints"),
              {"slide_x", "slide_y"} \subseteq c.placement_hints,
              m.size.width <= active.size.width, m.size.height <= active.size.height
       PROVE  Contains(active, Rect(m.top_left, m.size))
  <2>1. r = place_relative(active, parent[1], sized, sized.size)
    BY <1>8, <1>15
  <2> HIDE DEF r
  <2> QED BY <1>8, <1>14, <1>15, <2>1
<1>16. ASSUME parent = <<>>, c.output_id = 0, c.size.width > 0, c.size.height > 0,
              \A i \in DOMAIN outs : Positive(outs[i].area),
              \E i \in DOMAIN outs : active = outs[i].area
       PROVE  SeenOn(outs, Rect(m.top_left, m.size))
  <2>1. r = IF Cascades(outs, spec, first) THEN Cascaded(spec, first[1])
            ELSE OnDisplay(spec, active, all)
    BY <1>3, <1>16
  <2>2. spec.size.width > 0 /\ spec.size.height > 0
    BY <1>3, <1>16
  <2>3. CASE Cascades(outs, spec, first)
    <3>1. /\ overlaps(size_to_output(Areas(outs), first[1]), Cascaded(spec, first[1]))
          /\ first # <<>> /\ first[1] \in AnyRect
      BY <2>3 DEF Cascades, OneOrNone
    <3>2. /\ Areas(outs) \in Seq(Rects) /\ Areas(outs) # <<>> /\ DOMAIN Areas(outs) = DOMAIN outs
          /\ \A i \in DOMAIN outs : Areas(outs)[i] = outs[i].area
      <4>1. outs \in Seq([id : DOMAIN OutputAreas, area : Rects])
        BY DEF OutputsSound
      <4>2. /\ Areas(outs) \in Seq(Rects) /\ DOMAIN Areas(outs) = DOMAIN outs
            /\ DOMAIN outs = 1..Len(outs)
            /\ \A i \in DOMAIN outs : Areas(outs)[i] = outs[i].area
        BY <4>1, AreasType
      <4>3. PICK i \in DOMAIN outs : active = outs[i].area
        BY <1>16
      <4>4. DOMAIN Areas(outs) # {}
        BY <4>2, <4>3
      <4>5. Areas(outs) # <<>>
        BY <4>4
      <4> QED BY <4>2, <4>5
    <3>3. PICK i \in DOMAIN outs : size_to_output(Areas(outs), first[1]) = outs[i].area
      BY <3>1, <3>2, MostOverlappedIsOne DEF size_to_output
    <3>4. Positive(Cascaded(spec, first[1]))
      BY <1>9, <2>2, <3>1 DEF Positive
    <3>5. SeenOn(outs, Cascaded(spec, first[1]))
      BY <3>1, <3>3, <3>4 DEF SeenOn
    <3> QED BY <1>14, <2>1, <2>3, <3>5
  <2>4. CASE ~Cascades(outs, spec, first)
    <3>1. PICK i \in DOMAIN outs : active = outs[i].area
      BY <1>16
    <3>2. Positive(active) /\ Contains(all, active)
      BY <1>6, <1>16, <3>1
    <3>3. LET s == OnDisplay(spec, active, all) IN Positive(s) /\ overlaps(active, s)
      BY <1>3, <1>6, <2>2, <3>2, OnDisplaySeen
    <3>4. SeenOn(outs, OnDisplay(spec, active, all))
      BY <3>1, <3>3 DEF SeenOn
    <3> QED BY <1>14, <2>1, <2>4, <3>4
  <2> QED BY <2>3, <2>4
<1>17. m.state \in {spec.state, "fullscreen"}
  BY <1>14
<1> QED BY <1>2, <1>14, <1>15, <1>16, <1>17 DEF m
=============================================================================
