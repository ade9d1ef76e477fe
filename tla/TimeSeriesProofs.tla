--------------------------- MODULE TimeSeriesProofs ---------------------------
(***************************************************************************)
(* Theorems about TimeSeries for any timestamps, values, limits and files, *)
(* checked by TLAPS.                                                       *)
(***************************************************************************)
EXTENDS TimeSeries, SequenceTheorems, WellFoundedInduction, TLAPS

Sample == [x : Times, y : Values \cup {NaN}]

\* The order of the naturals is a well-founded relation.
LEMMA NatOrder ==
  \E R : IsWellFoundedOn(R, Nat) /\ \A x, y \in Nat : <<y, x>> \in R <=> y < x
<1>1. \A x, y \in Nat : <<y, x>> \in OpToRel(<, Nat) <=> y < x
  BY DEF OpToRel
<1>2. QED BY <1>1, NatLessThanWellFounded, Zenon

\* Min of numbers is the least of them.
LEMMA Least ==
  ASSUME NEW S, S \subseteq Nat, S # {}
  PROVE  Min(S) \in S /\ \A y \in S : Min(S) <= y
<1>1. PICK R : IsWellFoundedOn(R, Nat) /\ \A x, y \in Nat : <<y, x>> \in R <=> y < x
  BY NatOrder
<1>2. PICK x \in S : \A y \in S : <<y, x>> \notin R
  BY <1>1, WFMin
<1>3. \A y \in S : ~(y < x)
  BY <1>1, <1>2
<1>4. \A y \in S : x <= y
  BY <1>3
<1>5. QED BY <1>4 DEF Min

\* Bounded numbers have a least and a greatest one.
LEMMA Extremes ==
  ASSUME NEW S, S \subseteq Int, S # {}, NEW l \in Int, NEW h \in Int,
         \A v \in S : l <= v /\ v <= h
  PROVE  Min(S) \in S /\ Max(S) \in S /\ \A v \in S : Min(S) <= v /\ v <= Max(S)
<1>1. \E x \in S : \A y \in S : x <= y
  <2> DEFINE Up == {v - l : v \in S}
  <2>1. Up \subseteq Nat
    OBVIOUS
  <2>2. Up # {}
    OBVIOUS
  <2>3. PICK x \in S : Min(Up) = x - l
    BY <2>1, <2>2, Least
  <2>4. \A y \in S : x - l <= y - l
    BY <2>1, <2>2, <2>3, Least
  <2>5. QED BY <2>4
<1>2. \E x \in S : \A y \in S : x >= y
  <2> DEFINE Down == {h - v : v \in S}
  <2>1. Down \subseteq Nat
    OBVIOUS
  <2>2. Down # {}
    OBVIOUS
  <2>3. PICK x \in S : Min(Down) = h - x
    BY <2>1, <2>2, Least
  <2>4. \A y \in S : h - x <= h - y
    BY <2>1, <2>2, <2>3, Least
  <2>5. QED BY <2>4
<1>3. QED BY <1>1, <1>2 DEF Min, Max

-----------------------------------------------------------------------------
\* The series.

\* trimRange only drops samples at the front.
LEMMA Trimmed ==
  ASSUME NEW s \in Series
  PROVE  \E n \in 0 .. Len(s.points) :
           /\ s.max = Highest \/ TrimStops(s, n)
           /\ \/ n = 0 /\ Trim(s) = s
              \/ /\ Trim(s).points = SubSeq(s.points, n + 1, Len(s.points))
                 /\ Trim(s) \in [points : {SubSeq(s.points, n + 1, Len(s.points))},
                                 rx : {s.rx}, ry : {s.ry}, dx : BOOLEAN, dy : BOOLEAN,
                                 max : {s.max}]
<1>1. Len(s.points) \in Nat
  BY LenProperties DEF Series
<1>2. CASE s.max = Highest
  BY <1>1, <1>2 DEF Trim
<1>3. CASE s.max # Highest
  <2> DEFINE K == {k \in 0 .. Len(s.points) : TrimStops(s, k)}
             n == Min(K)
  <2>1. Len(s.points) \in K
    BY <1>1 DEF TrimStops
  <2>2. K \subseteq Nat
    BY <1>1
  <2>3. n \in K
    BY <2>1, <2>2, Least
  <2>4. Trim(s) = [s EXCEPT
          !.points = SubSeq(s.points, n + 1, Len(s.points)),
          !.dx = s.dx \/ \E p \in {s.points[i] : i \in 1 .. n} : p.x \in {s.rx.min, s.rx.max},
          !.dy = s.dy \/ \E p \in {s.points[i] : i \in 1 .. n} : p.y \in {s.ry.min, s.ry.max}]
    BY <1>3 DEF Trim
  <2>5. s.dx \in BOOLEAN /\ s.dy \in BOOLEAN
    BY DEF Series
  <2> HIDE DEF n, K
  <2>6. Trim(s) \in [points : {SubSeq(s.points, n + 1, Len(s.points))},
                     rx : {s.rx}, ry : {s.ry}, dx : BOOLEAN, dy : BOOLEAN, max : {s.max}]
    BY <2>4, <2>5 DEF Series
  <2>7. Trim(s).points = SubSeq(s.points, n + 1, Len(s.points))
    BY <2>6
  <2>8. n \in 0 .. Len(s.points) /\ TrimStops(s, n)
    BY <2>3 DEF K
  <2>9. QED BY <2>6, <2>7, <2>8
<1>4. QED BY <1>2, <1>3

\* What is left of a sequence without its first n elements.
LEMMA Dropped ==
  ASSUME NEW q \in Seq(Point), NEW n \in 0 .. Len(q)
  PROVE  LET r == SubSeq(q, n + 1, Len(q)) IN
           r \in Seq(Point) /\ Len(r) = Len(q) - n /\ \A i \in 1 .. Len(r) : r[i] = q[n + i]
<1> DEFINE r == SubSeq(q, n + 1, Len(q))
<1>1. n \in Nat /\ n <= Len(q) /\ Len(q) \in Nat
  BY LenProperties
<1>2. n + 1 \in Int /\ Len(q) \in Int /\ \A i \in n + 1 .. Len(q) : q[i] \in Point
  BY <1>1, ElementOfSeq
<1>3. /\ r \in Seq(Point)
      /\ Len(r) = IF n + 1 <= Len(q) THEN Len(q) - (n + 1) + 1 ELSE 0
      /\ \A i \in 1 .. Len(q) - (n + 1) + 1 : r[i] = q[n + 1 + i - 1]
  BY <1>2, SubSeqProperties
<1> HIDE DEF r
<1>4. r \in Seq(Point) /\ Len(r) = Len(q) - n
  BY <1>1, <1>3
<1>5. \A i \in 1 .. Len(r) : r[i] = q[n + i]
  <2> TAKE i \in 1 .. Len(r)
  <2>1. i \in 1 .. Len(q) - (n + 1) + 1 /\ n + 1 + i - 1 = n + i
    BY <1>1, <1>4
  <2>2. QED BY <1>3, <2>1
<1>6. QED BY <1>4, <1>5 DEF r

\* trimRange keeps the order of the samples, and what is left is in the window.
LEMMA TrimKeeps ==
  ASSUME NEW s \in Series
  PROVE  /\ Trim(s) \in Series
         /\ Trim(s).max = s.max
         /\ InWindow(Trim(s))
         /\ Sorted(s.points) => Sorted(Trim(s).points)
<1> DEFINE q == s.points
           r == Trim(s).points
<1>1. q \in Seq(Point) /\ Len(q) \in Nat /\ \A i \in 1 .. Len(q) : q[i] \in Point
  BY LenProperties, ElementOfSeq DEF Series
<1>2. PICK n \in 0 .. Len(q) :
        /\ s.max = Highest \/ TrimStops(s, n)
        /\ \/ n = 0 /\ Trim(s) = s
           \/ /\ r = SubSeq(q, n + 1, Len(q))
              /\ Trim(s) \in [points : {SubSeq(q, n + 1, Len(q))}, rx : {s.rx}, ry : {s.ry},
                              dx : BOOLEAN, dy : BOOLEAN, max : {s.max}]
  BY Trimmed
<1>3. CASE n = 0 /\ Trim(s) = s
  BY <1>1, <1>2, <1>3 DEF InWindow, TrimStops, First, Final
<1>4. CASE /\ r = SubSeq(q, n + 1, Len(q))
           /\ Trim(s) \in [points : {SubSeq(q, n + 1, Len(q))}, rx : {s.rx}, ry : {s.ry},
                           dx : BOOLEAN, dy : BOOLEAN, max : {s.max}]
  <2>1. r \in Seq(Point) /\ Len(r) = Len(q) - n /\ \A i \in 1 .. Len(r) : r[i] = q[n + i]
    BY <1>1, <1>4, Dropped
  <2>2. Trim(s) \in Series
    BY <1>4, <2>1 DEF Series
  <2>3. Trim(s).max = s.max
    BY <1>4
  <2>4. ASSUME s.max # Highest, Len(r) > 2
        PROVE  r[Len(r)].x - r[1].x <= s.max
    <3>1. r[Len(r)] = q[Len(q)] /\ r[1] = q[n + 1]
      BY <1>1, <2>1, <2>4
    <3>2. q[Len(q)].x - q[n + 1].x <= s.max
      BY <1>1, <1>2, <2>1, <2>4 DEF TrimStops, Final
    <3>3. QED BY <3>1, <3>2
  <2>5. InWindow(Trim(s))
    BY <1>1, <2>1, <2>3, <2>4 DEF InWindow, First, Final
  <2>6. Sorted(q) => Sorted(r)
    <3> SUFFICES ASSUME Sorted(q), NEW i \in 1 .. Len(r), NEW j \in 1 .. Len(r), i <= j
                 PROVE  r[i].x <= r[j].x
      BY DEF Sorted
    <3>1. n + i \in 1 .. Len(q) /\ n + j \in 1 .. Len(q) /\ n + i <= n + j
      BY <1>1, <2>1
    <3>2. q[n + i].x <= q[n + j].x
      BY <3>1 DEF Sorted
    <3>3. QED BY <2>1, <3>2
  <2>7. QED BY <2>2, <2>3, <2>5, <2>6
<1>5. QED BY <1>2, <1>3, <1>4

\* setMaximumRangeX does too.
LEMMA LimitedKeeps ==
  ASSUME NEW s \in Series, NEW l \in Limits \cup {Highest}
  PROVE  /\ Limited(s, l) \in Series
         /\ Limited(s, l).max = l
         /\ InWindow(Limited(s, l))
         /\ Sorted(s.points) => Sorted(Limited(s, l).points)
<1>1. [s EXCEPT !.max = l] \in Series
  BY DEF Series
<1>2. [s EXCEPT !.max = l].max = l /\ [s EXCEPT !.max = l].points = s.points
  BY DEF Series
<1>3. QED BY <1>1, <1>2, TrimKeeps DEF Limited

\* The bookkeeping of the ranges changes nothing else.
LEMMA RangedKeeps ==
  ASSUME NEW s \in Series, NEW x \in Times, NEW y \in Values
  PROVE  /\ RangedX(s, x) \in Series /\ RangedY(s, y) \in Series
         /\ RangedX(s, x).points = s.points /\ RangedY(s, y).points = s.points
         /\ RangedX(s, x).max = s.max /\ RangedY(s, y).max = s.max
<1>1. x \in Int /\ y \in Int
  BY SeriesAssumption
<1>2. s.rx \in Interval /\ s.ry \in Interval
  BY DEF Series
<1>3. RangedX(s, x) \in Series /\ RangedX(s, x).points = s.points /\ RangedX(s, x).max = s.max
  BY <1>1, <1>2 DEF RangedX, Series, Interval
<1>4. RangedY(s, y) \in Series /\ RangedY(s, y).points = s.points /\ RangedY(s, y).max = s.max
  BY <1>1, <1>2 DEF RangedY, Series, Interval
<1>5. QED BY <1>3, <1>4

\* upper_bound finds where a sample belongs.
LEMMA UpToSplits ==
  ASSUME NEW s \in Series, Sorted(s.points), NEW t \in Times
  PROVE  /\ UpTo(s, t) \in 0 .. Len(s.points)
         /\ \A i \in 1 .. Len(s.points) :
              IF i <= UpTo(s, t) THEN s.points[i].x <= t ELSE t < s.points[i].x
<1> DEFINE q == s.points
           K == {n \in 0 .. Len(q) : n < Len(q) => t < q[n + 1].x}
           u == Min(K)
<1>1. Len(q) \in Nat /\ t \in Int /\ \A i \in 1 .. Len(q) : q[i].x \in Int
  <2>1. q \in Seq(Point)
    BY DEF Series
  <2>2. Len(q) \in Nat /\ \A i \in 1 .. Len(q) : q[i] \in Point
    BY <2>1, LenProperties, ElementOfSeq
  <2>3. QED BY <2>2, SeriesAssumption DEF Point
<1>2. K \subseteq Nat
  BY <1>1
<1>3. Len(q) \in K
  BY <1>1
<1>4. u \in K /\ \A k \in K : u <= k
  BY <1>2, <1>3, Least
<1>5. \A i \in 1 .. Len(q) : i <= u => q[i].x <= t
  <2> SUFFICES ASSUME NEW i \in 1 .. Len(q), i <= u, ~(q[i].x <= t)
               PROVE  FALSE
    OBVIOUS
  <2>1. i - 1 \in 0 .. Len(q) /\ i \in Int /\ (i - 1) + 1 = i /\ t < q[i].x
    BY <1>1
  <2>2. i - 1 \in K
    BY <2>1
  <2>3. u <= i - 1 /\ u \in Int
    BY <1>2, <1>4, <2>2
  <2>4. QED BY <2>1, <2>3
<1>6. \A i \in 1 .. Len(q) : ~(i <= u) => t < q[i].x
  <2> SUFFICES ASSUME NEW i \in 1 .. Len(q), ~(i <= u)
               PROVE  t < q[i].x
    OBVIOUS
  <2> HIDE DEF u
  <2>1. u \in 0 .. Len(q) /\ u < Len(q)
    BY <1>1, <1>4
  <2>2. t < q[u + 1].x
    BY <1>1, <1>4, <2>1
  <2>3. q[u + 1].x <= q[i].x
    BY <1>1, <2>1 DEF Sorted
  <2>4. QED BY <1>1, <2>1, <2>2, <2>3
<1>7. QED BY <1>4, <1>5, <1>6 DEF UpTo

\* What inserting after n samples makes.
LEMMA Inserted ==
  ASSUME NEW q \in Seq(Point), NEW n \in 0 .. Len(q), NEW p \in Point
  PROVE  LET r == SubSeq(q, 1, n) \o <<p>> \o SubSeq(q, n + 1, Len(q)) IN
           /\ r \in Seq(Point)
           /\ Len(r) = Len(q) + 1
           /\ \A i \in 1 .. Len(r) :
                r[i] = IF i <= n THEN q[i] ELSE IF i = n + 1 THEN p ELSE q[i - 1]
<1> DEFINE a == SubSeq(q, 1, n)
           b == SubSeq(q, n + 1, Len(q))
           c == a \o <<p>>
           r == c \o b
<1>1. n \in Nat /\ n <= Len(q) /\ Len(q) \in Nat
  BY LenProperties
<1>2. b \in Seq(Point) /\ Len(b) = Len(q) - n /\ \A i \in 1 .. Len(b) : b[i] = q[n + i]
  BY Dropped
<1>3. a \in Seq(Point) /\ Len(a) = n /\ \A i \in 1 .. n : a[i] = q[i]
  <2>1. 1 \in Int /\ n \in Int /\ \A i \in 1 .. n : q[i] \in Point
    BY <1>1, ElementOfSeq
  <2>2. /\ a \in Seq(Point)
        /\ Len(a) = IF 1 <= n THEN n - 1 + 1 ELSE 0
        /\ \A i \in 1 .. n - 1 + 1 : a[i] = q[1 + i - 1]
    BY <2>1, SubSeqProperties
  <2> HIDE DEF a
  <2>3. Len(a) = n
    BY <1>1, <2>2
  <2>4. \A i \in 1 .. n : i \in 1 .. n - 1 + 1 /\ 1 + i - 1 = i
    BY <1>1
  <2>5. QED BY <2>2, <2>3, <2>4
<1> HIDE DEF a, b
<1>4. <<p>> \in Seq(Point) /\ Len(<<p>>) = 1 /\ <<p>>[1] = p
  OBVIOUS
<1>5. /\ c \in Seq(Point)
      /\ Len(c) = Len(a) + Len(<<p>>)
      /\ \A i \in 1 .. Len(a) + Len(<<p>>) : c[i] = IF i <= Len(a) THEN a[i] ELSE <<p>>[i - Len(a)]
  BY <1>3, <1>4, ConcatProperties, Zenon
<1>6. c \in Seq(Point) /\ Len(c) = n + 1 /\ \A i \in 1 .. n + 1 : c[i] = IF i <= n THEN q[i] ELSE p
  BY <1>1, <1>3, <1>4, <1>5
<1> HIDE DEF c
<1>7. /\ r \in Seq(Point)
      /\ Len(r) = Len(c) + Len(b)
      /\ \A i \in 1 .. Len(c) + Len(b) : r[i] = IF i <= Len(c) THEN c[i] ELSE b[i - Len(c)]
  BY <1>2, <1>6, ConcatProperties, Zenon
<1> HIDE DEF r
<1>8. Len(r) = Len(q) + 1
  BY <1>1, <1>2, <1>6, <1>7
<1>9. \A i \in 1 .. Len(r) :
        r[i] = IF i <= n THEN q[i] ELSE IF i = n + 1 THEN p ELSE q[i - 1]
  <2> TAKE i \in 1 .. Len(r)
  <2>1. CASE i <= n + 1
    BY <1>1, <1>2, <1>6, <1>7, <1>8, <2>1
  <2>2. CASE i > n + 1
    <3>1. i - (n + 1) \in 1 .. Len(b) /\ n + (i - (n + 1)) = i - 1
      BY <1>1, <1>2, <1>8, <2>2
    <3>2. r[i] = b[i - (n + 1)]
      BY <1>1, <1>2, <1>6, <1>7, <1>8, <2>2
    <3>3. QED BY <1>1, <1>2, <2>2, <3>1, <3>2
  <2>3. QED BY <1>1, <1>8, <2>1, <2>2
<1>10. QED BY <1>7, <1>8, <1>9 DEF a, b, c, r

\* Samples and their times are those of the types.
LEMMA Contents ==
  ASSUME NEW s \in Series
  PROVE  /\ Len(s.points) \in Nat
         /\ \A i \in 1 .. Len(s.points) : s.points[i] \in Point
         /\ Content(s) \subseteq Point
         /\ TimesOf(s) \subseteq Times
         /\ ValuesOf(s) \subseteq Values
<1>1. s.points \in Seq(Point)
  BY DEF Series
<1>2. Len(s.points) \in Nat /\ \A i \in 1 .. Len(s.points) : s.points[i] \in Point
  BY <1>1, LenProperties, ElementOfSeq
<1>3. QED BY <1>2 DEF Content, TimesOf, ValuesOf, Point

\* The samples of a sequence to which one is appended.
LEMMA Appended ==
  ASSUME NEW q \in Seq(Point), NEW p \in Point
  PROVE  {Append(q, p)[i] : i \in 1 .. Len(Append(q, p))} = {q[i] : i \in 1 .. Len(q)} \cup {p}
<1> DEFINE r == Append(q, p)
           C == {r[i] : i \in 1 .. Len(r)}
<1>1. Len(q) \in Nat /\ Len(r) = Len(q) + 1 /\ r[Len(q) + 1] = p /\ \A i \in 1 .. Len(q) : r[i] = q[i]
  BY LenProperties, AppendProperties
<1> HIDE DEF r
<1>2. p \in C
  <2>1. Len(q) + 1 \in 1 .. Len(r)
    BY <1>1
  <2>2. QED BY <1>1, <2>1
<1>3. \A i \in 1 .. Len(q) : q[i] \in C
  <2> TAKE i \in 1 .. Len(q)
  <2>1. i \in 1 .. Len(r) /\ r[i] = q[i]
    BY <1>1
  <2>2. QED BY <2>1
<1>4. \A i \in 1 .. Len(r) : r[i] = p \/ r[i] \in {q[j] : j \in 1 .. Len(q)}
  <2> TAKE i \in 1 .. Len(r)
  <2>1. CASE i = Len(q) + 1
    BY <1>1, <2>1
  <2>2. CASE i # Len(q) + 1
    <3>1. i \in 1 .. Len(q)
      BY <1>1, <2>2
    <3>2. QED BY <1>1, <3>1
  <2>3. QED BY <2>1, <2>2
<1>5. QED BY <1>2, <1>3, <1>4 DEF r

\* pushBack appends a sample, or inserts it where it belongs, and trims.
LEMMA PushedIsTrim ==
  ASSUME NEW s \in Series, NEW p \in Point, Sorted(s.points)
  PROVE  \E u \in Series :
           /\ Pushed(s, p) = Trim(u)
           /\ u.max = s.max
           /\ Sorted(u.points)
           /\ u.points # << >>
           /\ Content(u) = Content(s) \cup {p}
           /\ LET r == RangedY(RangedX(s, p.x), p.y) IN
                u.rx = r.rx /\ u.ry = r.ry /\ u.dx = r.dx /\ u.dy = r.dy
<1> DEFINE r == RangedX(s, p.x)
           q == s.points
           n == UpTo(s, p.x)
           inserted == SubSeq(q, 1, n) \o <<p>> \o SubSeq(q, n + 1, Len(q))
           late == q # << >> /\ p.x < Final(s).x
           points == IF late THEN inserted ELSE Append(q, p)
           t == RangedY(r, p.y)
           u == [t EXCEPT !.points = points]
<1>1. p.x \in Times /\ p.y \in Values /\ p.x \in Int
  BY SeriesAssumption DEF Point
<1>2. t \in Series /\ t.points = q /\ t.max = s.max
  BY <1>1, RangedKeeps
<1>3. q \in Seq(Point) /\ Len(q) \in Nat /\ \A i \in 1 .. Len(q) : q[i] \in Point /\ q[i].x \in Int
  <2>1. q \in Seq(Point)
    BY DEF Series
  <2>2. QED BY <2>1, Contents, SeriesAssumption DEF Point
<1>4. /\ points \in Seq(Point)
      /\ Sorted(points)
      /\ points # << >>
      /\ {points[i] : i \in 1 .. Len(points)} = Content(s) \cup {p}
  <2>1. CASE late
    <3>1. n \in 0 .. Len(q) /\ \A i \in 1 .. Len(q) : IF i <= n THEN q[i].x <= p.x ELSE p.x < q[i].x
      BY <1>1, UpToSplits
    <3> HIDE DEF n
    <3>2. /\ inserted \in Seq(Point)
          /\ Len(inserted) = Len(q) + 1
          /\ \A i \in 1 .. Len(inserted) :
               inserted[i] = IF i <= n THEN q[i] ELSE IF i = n + 1 THEN p ELSE q[i - 1]
      BY <1>3, <1>1, <3>1, Inserted
    <3> HIDE DEF inserted
    <3>3. \A i \in 1 .. Len(inserted) : inserted[i].x \in Int
      <4>1. \A i \in 1 .. Len(inserted) : inserted[i] \in Point
        BY <3>2, ElementOfSeq
      <4>2. QED BY <4>1, SeriesAssumption DEF Point
    <3>4. ASSUME NEW i \in 1 .. Len(inserted), NEW j \in 1 .. Len(inserted), i < j
          PROVE  inserted[i].x <= inserted[j].x
      <4>1. \A k, l \in 1 .. Len(q) : k <= l => q[k].x <= q[l].x
        BY DEF Sorted
      <4>2. CASE j <= n
        BY <1>3, <3>1, <3>2, <3>4, <4>1, <4>2
      <4>3. CASE i > n + 1
        <5>1. i - 1 \in 1 .. Len(q) /\ j - 1 \in 1 .. Len(q) /\ i - 1 <= j - 1
          BY <1>3, <3>1, <3>2, <3>4, <4>3
        <5>2. inserted[i] = q[i - 1] /\ inserted[j] = q[j - 1]
          BY <3>1, <3>2, <3>4, <4>3
        <5>3. QED BY <4>1, <5>1, <5>2
      <4>4. CASE i <= n + 1 /\ j > n
        <5>1. inserted[i].x <= p.x
          BY <1>3, <1>1, <3>1, <3>2, <4>4
        <5>2. CASE j = n + 1
          BY <1>1, <3>1, <3>2, <5>1, <5>2
        <5>3. CASE j > n + 1
          <6>1. j - 1 \in 1 .. Len(q) /\ ~(j - 1 <= n)
            BY <1>3, <3>1, <3>2, <5>3
          <6>2. inserted[j] = q[j - 1]
            BY <3>1, <3>2, <5>3
          <6>3. p.x < inserted[j].x
            BY <3>1, <6>1, <6>2
          <6>4. QED BY <1>1, <3>3, <5>1, <6>3
        <5>4. QED BY <3>1, <4>4, <5>2, <5>3
      <4>5. QED BY <3>1, <4>2, <4>3, <4>4
    <3>5. Sorted(inserted)
      BY <3>3, <3>4 DEF Sorted
    <3>6. {inserted[i] : i \in 1 .. Len(inserted)} = Content(s) \cup {p}
      <4> DEFINE C == {inserted[i] : i \in 1 .. Len(inserted)}
      <4>1. C \subseteq Content(s) \cup {p}
        <5> SUFFICES ASSUME NEW i \in 1 .. Len(inserted), inserted[i] # p
                     PROVE  inserted[i] \in Content(s)
          OBVIOUS
        <5>1. CASE i <= n
          BY <1>3, <3>1, <3>2, <5>1 DEF Content
        <5>2. CASE i > n + 1
          <6>1. inserted[i] = q[i - 1] /\ i - 1 \in 1 .. Len(q)
            BY <1>3, <3>1, <3>2, <5>2
          <6>2. QED BY <6>1 DEF Content
        <5>3. QED BY <3>1, <3>2, <5>1, <5>2
      <4>2. p \in C
        <5>1. n + 1 \in 1 .. Len(inserted) /\ inserted[n + 1] = p
          BY <1>3, <3>1, <3>2
        <5>2. QED BY <5>1
      <4>3. Content(s) \subseteq C
        <5> SUFFICES ASSUME NEW i \in 1 .. Len(q) PROVE q[i] \in C
          BY DEF Content
        <5>1. CASE i <= n
          <6>1. i \in 1 .. Len(inserted) /\ inserted[i] = q[i]
            BY <1>3, <3>1, <3>2, <5>1
          <6>2. QED BY <6>1
        <5>2. CASE i > n
          <6>1. i + 1 \in 1 .. Len(inserted) /\ inserted[i + 1] = q[i]
            BY <1>3, <3>1, <3>2, <5>2
          <6>2. QED BY <6>1
        <5>3. QED BY <3>1, <5>1, <5>2
      <4>4. QED BY <4>1, <4>2, <4>3
    <3>7. inserted # << >>
      BY <1>3, <3>2, EmptySeq
    <3>8. QED BY <2>1, <3>2, <3>5, <3>6, <3>7
  <2>2. CASE ~late
    <3>1. \A i \in 1 .. Len(q) : q[i].x <= p.x
      BY <1>3, <1>1, <2>2 DEF Sorted, Final
    <3>2. /\ Append(q, p) \in Seq(Point)
          /\ Len(Append(q, p)) = Len(q) + 1
          /\ \A i \in 1 .. Len(q) : Append(q, p)[i] = q[i]
          /\ Append(q, p)[Len(q) + 1] = p
      BY <1>3, <1>1, AppendProperties
    <3>3. Sorted(Append(q, p))
      BY <1>3, <1>1, <3>1, <3>2 DEF Sorted
    <3>4. {Append(q, p)[i] : i \in 1 .. Len(Append(q, p))} = Content(s) \cup {p}
      BY <1>3, Appended DEF Content
    <3>5. Append(q, p) # << >>
      BY <1>3, <3>2, EmptySeq
    <3>6. QED BY <2>2, <3>2, <3>3, <3>4, <3>5
  <2>3. QED BY <2>1, <2>2
<1>5. p.y # NaN
  BY <1>1, SeriesAssumption
<1>6. Pushed(s, p) = Trim(u)
  BY <1>2, <1>5 DEF Pushed
<1> HIDE DEF points, t
<1>7. u \in Series /\ u.points = points /\ u.max = s.max /\ Content(u) = Content(s) \cup {p}
  BY <1>2, <1>4 DEF Series, Content
<1>8. u.rx = t.rx /\ u.ry = t.ry /\ u.dx = t.dx /\ u.dy = t.dy
  BY <1>2 DEF Series
<1>9. QED BY <1>4, <1>6, <1>7, <1>8 DEF t

\* pushBack keeps both series what they are.
LEMMA PushedKeeps ==
  ASSUME NEW s \in Series, NEW p \in Sample, Sorted(s.points)
  PROVE  /\ Pushed(s, p) \in Series
         /\ Pushed(s, p).max = s.max
         /\ InWindow(Pushed(s, p))
         /\ Sorted(Pushed(s, p).points)
<1>1. CASE p \in Point
  BY <1>1, PushedIsTrim, TrimKeeps
<1>2. CASE p \notin Point
  <2> DEFINE r == RangedX(s, p.x)
  <2>1. p.x \in Times /\ p.y = NaN
    BY <1>2 DEF Sample, Point
  <2>2. r \in Series /\ r.points = s.points /\ r.max = s.max
    BY <2>1, SeriesAssumption DEF RangedX, Series, Interval
  <2>3. Pushed(s, p) = Trim(r)
    BY <2>1 DEF Pushed
  <2>4. QED BY <2>2, <2>3, TrimKeeps
<1>3. QED BY <1>1, <1>2

\* The ranges of a series that is not empty are numbers.
LEMMA TrueRanges ==
  ASSUME NEW s \in Series, s.points # << >>
  PROVE  /\ Min(TimesOf(s)) \in Int /\ Max(TimesOf(s)) \in Int
         /\ Min(ValuesOf(s)) \in Int /\ Max(ValuesOf(s)) \in Int
<1>1. Len(s.points) >= 1 /\ 1 \in 1 .. Len(s.points)
  BY EmptySeq, Contents DEF Series
<1>2. TimesOf(s) # {} /\ ValuesOf(s) # {}
  BY <1>1 DEF TimesOf, ValuesOf
<1>3. TimesOf(s) \subseteq Int /\ ValuesOf(s) \subseteq Int
  BY Contents, SeriesAssumption
<1>4. Lowest \in Int /\ Highest \in Int
  BY SeriesAssumption
<1>5. \A v \in Int : v \in TimesOf(s) \/ v \in ValuesOf(s) => Lowest <= v /\ v <= Highest
  <2>1. \A v \in Int : v \in TimesOf(s) \/ v \in ValuesOf(s) => v \in Times \cup Values
    BY Contents
  <2>2. \A v \in Int : Lowest < v /\ v < Highest => Lowest <= v /\ v <= Highest
    BY <1>4
  <2>3. QED BY <2>1, <2>2, SeriesAssumption
<1>6. Min(TimesOf(s)) \in TimesOf(s) /\ Max(TimesOf(s)) \in TimesOf(s)
  BY <1>2, <1>3, <1>4, <1>5, Extremes
<1>7. Min(ValuesOf(s)) \in ValuesOf(s) /\ Max(ValuesOf(s)) \in ValuesOf(s)
  BY <1>2, <1>3, <1>4, <1>5, Extremes
<1>8. QED BY <1>3, <1>6, <1>7

\* What sorting may leave is sorted.
LEMMA SortingsSorted ==
  ASSUME NEW q \in Seq(Point), NEW r \in Sortings(q)
  PROVE  r \in Seq(Point) /\ Len(r) = Len(q) /\ Sorted(r)
<1>1. Len(q) \in Nat /\ \A i \in 1 .. Len(q) : q[i] \in Point
  BY LenProperties, ElementOfSeq
<1>2. PICK f \in [1 .. Len(q) -> 1 .. Len(q)] :
        /\ \A i, j \in 1 .. Len(q) : i < j => q[f[i]].x <= q[f[j]].x
        /\ r = [i \in 1 .. Len(q) |-> q[f[i]]]
  BY DEF Sortings, Bijection, Surjection
<1>3. \A i \in 1 .. Len(q) : f[i] \in 1 .. Len(q)
  OBVIOUS
<1>4. \A i \in 1 .. Len(q) : r[i] = q[f[i]] /\ r[i] \in Point
  BY <1>1, <1>2, <1>3
<1>5. r \in Seq(Point) /\ Len(r) = Len(q)
  BY <1>1, <1>2, <1>4
<1>6. \A i \in 1 .. Len(q) : r[i].x \in Int
  BY <1>4, SeriesAssumption DEF Point
<1>7. Sorted(r)
  BY <1>1, <1>2, <1>4, <1>5, <1>6 DEF Sorted
<1>8. QED BY <1>5, <1>7

\* The smaller of two limits is a limit.
LEMMA LeastLimit ==
  ASSUME NEW a \in Limits \cup {Highest}, NEW b \in Limits \cup {Highest}
  PROVE  Min({a, b}) \in Limits \cup {Highest}
<1>1. a \in Int /\ b \in Int
  BY SeriesAssumption
<1>2. \E x \in {a, b} : \A y \in {a, b} : x <= y
  BY <1>1
<1>3. Min({a, b}) \in {a, b}
  BY <1>2 DEF Min
<1>4. QED BY <1>3

\* Series without samples.
LEMMA EmptySeries ==
  /\ Empty \in Series /\ Sorted(Empty.points) /\ InWindow(Empty) /\ Empty.max = Highest
  /\ \A s \in Series : /\ Cleared(s) \in Series
                       /\ Sorted(Cleared(s).points)
                       /\ InWindow(Cleared(s))
                       /\ Cleared(s).points = << >>
                       /\ Cleared(s).max = s.max
<1>1. << >> \in Seq(Point) /\ Len(<< >>) = 0
  OBVIOUS
<1>2. Sorted(<< >>)
  BY <1>1 DEF Sorted
<1>3. Empty \in Series /\ Empty.points = << >> /\ Empty.max = Highest
  BY <1>1, SeriesAssumption DEF Empty, Unset, Series, Interval
<1>4. \A s \in Series : Cleared(s) \in Series /\ Cleared(s).points = << >> /\ Cleared(s).max = s.max
  BY <1>1 DEF Cleared, Series
<1>5. QED BY <1>1, <1>2, <1>3, <1>4 DEF InWindow

-----------------------------------------------------------------------------
\* What the operations do to the samples of a series.

\* trimRange drops only samples older than the last one by more than the limit,
\* never all of them, and distrusts a range that a dropped one has set.
LEMMA TrimDrops ==
  ASSUME NEW s \in Series
  PROVE  LET t == Trim(s) IN
           /\ Content(t) \subseteq Content(s)
           /\ \A k \in Content(s) \ Content(t) : s.max # Highest /\ k.x + s.max < Final(s).x
           /\ t.points = << >> => s.points = << >>
           /\ t.rx = s.rx /\ t.ry = s.ry
           /\ ~t.dx => ~s.dx /\ \A k \in Content(s) \ Content(t) : k.x \notin {s.rx.min, s.rx.max}
           /\ ~t.dy => ~s.dy /\ \A k \in Content(s) \ Content(t) : k.y \notin {s.ry.min, s.ry.max}
<1> DEFINE q == s.points
           t == Trim(s)
<1>1. q \in Seq(Point) /\ Len(q) \in Nat /\ \A i \in 1 .. Len(q) : q[i] \in Point /\ q[i].x \in Int
  <2>1. q \in Seq(Point)
    BY DEF Series
  <2>2. QED BY <2>1, Contents, SeriesAssumption DEF Point
<1>2. CASE s.max = Highest
  BY <1>2 DEF Trim
<1>3. CASE s.max # Highest
  <2> DEFINE K == {k \in 0 .. Len(q) : TrimStops(s, k)}
             n == Min(K)
             gone == {q[i] : i \in 1 .. n}
  <2>1. Len(q) \in K
    BY <1>1 DEF TrimStops
  <2>2. K \subseteq Nat
    BY <1>1
  <2>3. n \in K /\ \A k \in K : n <= k
    BY <2>1, <2>2, Least
  <2>4. t = [s EXCEPT
          !.points = SubSeq(q, n + 1, Len(q)),
          !.dx = s.dx \/ \E p \in gone : p.x \in {s.rx.min, s.rx.max},
          !.dy = s.dy \/ \E p \in gone : p.y \in {s.ry.min, s.ry.max}]
    BY <1>3 DEF Trim
  <2>5. n \in 0 .. Len(q)
    BY <2>3
  <2>6. \A k \in 0 .. Len(q) : k < n => ~TrimStops(s, k)
    BY <1>1, <2>3, <2>5
  <2> HIDE DEF n, K
  <2>7. s.max \in Nat
    BY <1>3, SeriesAssumption DEF Series
  <2>8. \A i \in 1 .. n : q[i].x + s.max < Final(s).x /\ Len(q) - (i - 1) > 2
    <3> TAKE i \in 1 .. n
    <3>1. i - 1 \in 0 .. Len(q) /\ i - 1 < n /\ (i - 1) + 1 = i /\ i \in 1 .. Len(q)
      BY <1>1, <2>5
    <3>2. ~TrimStops(s, i - 1)
      BY <2>6, <3>1
    <3>3. Len(q) - (i - 1) > 2 /\ ~(q[Len(q)].x - q[i].x <= s.max)
      BY <1>1, <3>1, <3>2 DEF TrimStops, Final
    <3>4. q[Len(q)].x \in Int /\ q[i].x \in Int
      BY <1>1, <3>1
    <3>5. QED BY <2>7, <3>3, <3>4 DEF Final
  <2>9. LET r == t.points IN
          /\ r = SubSeq(q, n + 1, Len(q))
          /\ r \in Seq(Point) /\ Len(r) = Len(q) - n /\ \A i \in 1 .. Len(r) : r[i] = q[n + i]
    BY <1>1, <2>4, <2>5, Dropped DEF Series
  <2>10. /\ t.rx = s.rx /\ t.ry = s.ry
         /\ ~t.dx => ~s.dx /\ \A p \in gone : p.x \notin {s.rx.min, s.rx.max}
         /\ ~t.dy => ~s.dy /\ \A p \in gone : p.y \notin {s.ry.min, s.ry.max}
    BY <2>4 DEF Series
  <2> HIDE DEF t
  <2>11. Content(t) \subseteq Content(s)
    BY <1>1, <2>5, <2>9 DEF Content
  <2>12. Content(s) \ Content(t) \subseteq gone
    <3> SUFFICES ASSUME NEW i \in 1 .. Len(q), q[i] \notin Content(t), ~(i \in 1 .. n) PROVE FALSE
      BY DEF Content
    <3>1. i - n \in 1 .. Len(t.points) /\ n + (i - n) = i
      BY <1>1, <2>5, <2>9
    <3>2. QED BY <2>9, <3>1 DEF Content
  <2>13. t.points = << >> => q = << >>
    <3> SUFFICES ASSUME t.points = << >>, q # << >> PROVE FALSE
      OBVIOUS
    <3>1. Len(q) = n /\ Len(q) >= 1
      BY <1>1, <2>5, <2>9, EmptySeq
    <3>2. QED BY <2>8, <3>1
  <2>14. QED BY <1>3, <2>8, <2>10, <2>11, <2>12, <2>13 DEF t
<1>4. QED BY <1>2, <1>3

\* A sorted series ends with its latest sample.
LEMMA FinalIsLatest ==
  ASSUME NEW s \in Series, s.points # << >>, Sorted(s.points)
  PROVE  Final(s) \in Content(s) /\ \A p \in Content(s) : p.x <= Final(s).x
<1>1. Len(s.points) \in Nat /\ Len(s.points) >= 1
  BY Contents, EmptySeq DEF Series
<1>2. QED BY <1>1 DEF Final, Content, Sorted

\* A series has samples when its sequence is not empty.
LEMMA Populated ==
  ASSUME NEW s \in Series
  PROVE  Content(s) = {} <=> s.points = << >>
<1>1. Len(s.points) \in Nat /\ (s.points = << >> <=> Len(s.points) = 0)
  BY Contents, EmptySeq DEF Series
<1>2. CASE s.points = << >>
  BY <1>1, <1>2 DEF Content
<1>3. CASE s.points # << >>
  <2>1. 1 \in 1 .. Len(s.points)
    BY <1>1, <1>3
  <2>2. s.points[1] \in Content(s)
    BY <2>1 DEF Content
  <2>3. QED BY <1>3, <2>2
<1>4. QED BY <1>2, <1>3

\* Sorting leaves the same samples.
LEMMA SortingsKeep ==
  ASSUME NEW s \in Series, NEW q \in Sortings(s.points)
  PROVE  {q[i] : i \in 1 .. Len(q)} = Content(s)
<1> DEFINE N == 1 .. Len(s.points)
<1>1. PICK f \in Surjection(N, N) : q = [i \in N |-> s.points[f[i]]]
  BY DEF Sortings, Bijection
<1>2. \A i \in N : f[i] \in N
  BY DEF Surjection
<1>3. \A i \in N : \E j \in N : f[j] = i
  BY DEF Surjection
<1>4. s.points \in Seq(Point)
  BY DEF Series
<1>5. Len(q) = Len(s.points)
  BY <1>4, SortingsSorted
<1>6. QED BY <1>1, <1>2, <1>3, <1>5 DEF Content

\* sort trims a series of the same samples in order.
LEMMA ResortedIsTrim ==
  ASSUME NEW s \in Series, s.points # << >>, NEW q \in Sortings(s.points)
  PROVE  \E t \in Series : /\ Resorted(s, q) = Trim(t) /\ t.max = s.max /\ Sorted(t.points)
                           /\ Content(t) = Content(s)
<1> DEFINE r == [s EXCEPT !.points = q]
           t == [r EXCEPT !.rx = [min |-> Max(TimesOf(r)), max |-> Min(TimesOf(r))],
                          !.ry = [min |-> Max(ValuesOf(r)), max |-> Min(ValuesOf(r))],
                          !.dx = FALSE, !.dy = FALSE]
<1>1. s.points \in Seq(Point)
  BY DEF Series
<1>2. q \in Seq(Point) /\ Len(q) = Len(s.points) /\ Sorted(q)
  BY <1>1, SortingsSorted
<1>3. q # << >>
  BY <1>1, <1>2, EmptySeq
<1>4. r \in Series /\ r.points = q /\ r.max = s.max
  BY <1>2 DEF Series
<1>5. /\ Min(TimesOf(r)) \in Int /\ Max(TimesOf(r)) \in Int
      /\ Min(ValuesOf(r)) \in Int /\ Max(ValuesOf(r)) \in Int
  BY <1>3, <1>4, TrueRanges
<1>6. Resorted(s, q) = Trim(t)
  BY DEF Resorted
<1> HIDE DEF r
<1>7. t \in Series /\ t.points = q /\ t.max = s.max
  BY <1>4, <1>5 DEF Series, Interval
<1> HIDE DEF t
<1>8. Content(t) = Content(s)
  BY <1>7, SortingsKeep DEF Content
<1>9. QED BY <1>2, <1>6, <1>7, <1>8

\* sort leaves a series sorted and in its window.
LEMMA ResortedKeeps ==
  ASSUME NEW s \in Series, s.points # << >>, NEW q \in Sortings(s.points)
  PROVE  /\ Resorted(s, q) \in Series
         /\ InWindow(Resorted(s, q))
         /\ Sorted(Resorted(s, q).points)
BY ResortedIsTrim, TrimKeeps

-----------------------------------------------------------------------------
\* The inductive invariant.

\* What its parts say of the two series.
Kept ==
  /\ plot \in Series /\ source \in Series
  /\ step \in {"none", "append", "done"} \/ ~resort => Sorted(plot.points) /\ InWindow(plot)
  /\ step = "append" => ~resort
  /\ step = "update" => Len(source.points) <= Len(plot.points)
  /\ resort /\ step # "done" => plot.points # << >>
  /\ Sorted(source.points) /\ InWindow(source)

\* What they say of all else.
Types ==
  /\ mode \in {"idle", "stream", "file"}
  /\ limit \in Limits \cup {Highest}
  /\ step \in {"none", "update", "append", "merge", "done"}
  /\ next \in Nat \ {0}
  /\ resort \in BOOLEAN
  /\ samples \in Nat
  /\ kept \subseteq Point
  /\ least \in Limits \cup {Highest}
  /\ spoiled \in BOOLEAN
  /\ mode = "idle" => step = "none"
  /\ step = "none" => ~resort

\* They are the invariant.
LEMMA InvariantParts == (IInv <=> Kept /\ Types) /\ (IInv' <=> Kept' /\ Types')
BY DEF IInv, TypeOK, PlotSorted, SourceSorted, PlotInWindow, SourceInWindow, MergeInBounds,
       Resting, Kept, Types

\* A fresh program has no samples.
LEMMA InitInvariant == Init => IInv
<1> SUFFICES ASSUME Init PROVE Kept /\ Types
  BY InvariantParts
<1>1. Kept
  BY EmptySeries DEF Init, Kept
<1>2. Types
  <2>1. 1 \in Nat \ {0}
    OBVIOUS
  <2>2. QED BY <2>1, SeriesAssumption DEF Init, Types
<1>3. QED BY <1>1, <1>2

\* A streamer that starts: limits trim.
LEMMA StartKeeps == ASSUME IInv, Start PROVE IInv'
<1>1. Kept /\ Types /\ step = "none" /\ ~resort
  BY InvariantParts DEF Start, Types
<1>2. plot' \in Series /\ InWindow(plot') /\ Sorted(plot'.points)
  BY <1>1, LimitedKeeps DEF Start, Kept, Types
<1>3. source' \in Series /\ InWindow(source') /\ Sorted(source'.points)
  BY <1>1, LimitedKeeps, EmptySeries DEF Start, Types
<1>4. least' \in Limits \cup {Highest}
  BY <1>1, LeastLimit DEF Start, Types
<1>5. Kept'
  BY <1>1, <1>2, <1>3 DEF Start, Kept, merging
<1>6. Types'
  BY <1>1, <1>4 DEF Start, Types, merging
<1>7. QED BY <1>5, <1>6, InvariantParts

\* A file that opens: what its loader pushes in order is sorted.
LEMMA OpenKeeps == ASSUME IInv, NEW file \in Files, Open(file) PROVE IInv'
<1>1. Kept /\ Types /\ step = "none" /\ ~resort
  BY InvariantParts DEF Open, Types
<1>2. file \in Seq(Point) /\ Sorted(file) /\ Len(file) \in Nat
  BY SeriesAssumption, LenProperties DEF Point, Sorted
<1>3. source' \in Series /\ InWindow(source') /\ Sorted(source'.points)
  BY <1>2, EmptySeries DEF Open, Series, InWindow
<1>4. kept' \subseteq Point
  BY <1>1, <1>3, Contents DEF Open, Types
<1>5. Kept'
  BY <1>1, <1>3 DEF Open, Kept, merging
<1>6. Types'
  BY <1>1, <1>2, <1>4 DEF Open, Types, merging
<1>7. QED BY <1>5, <1>6, InvariantParts

\* A sample received, late or not.
LEMMA ReceiveKeeps == ASSUME IInv, NEW p \in Sample, Receive(p) PROVE IInv'
<1>1. Kept /\ Types /\ step = "none"
  BY InvariantParts DEF Receive
<1>2. source' \in Series /\ InWindow(source') /\ Sorted(source'.points)
  BY <1>1, PushedKeeps DEF Receive, Kept
<1>3. Kept'
  BY <1>1, <1>2 DEF Receive, Kept, merging
<1>4. Types'
  BY <1>1 DEF Receive, Types, merging
<1>5. QED BY <1>3, <1>4, InvariantParts

\* A streamer that stops.
LEMMA StopKeeps == ASSUME IInv, Stop PROVE IInv'
<1>1. Kept /\ Types /\ step = "none" /\ ~resort
  BY InvariantParts DEF Stop, Types
<1>2. plot' \in Series /\ InWindow(plot') /\ Sorted(plot'.points)
  BY <1>1, LimitedKeeps DEF Stop, Kept
<1>3. source' = Empty
  BY DEF Stop
<1>4. Kept'
  BY <1>1, <1>2, <1>3, EmptySeries DEF Stop, Kept, merging
<1>5. Types'
  BY <1>1 DEF Stop, Types, merging
<1>6. QED BY <1>4, <1>5, InvariantParts

\* Another limit.
LEMMA SetLimitKeeps ==
  ASSUME IInv, NEW l \in Limits \cup {Highest}, SetLimit(l)
  PROVE  IInv'
<1>1. Kept /\ Types /\ step = "none" /\ ~resort
  BY InvariantParts DEF SetLimit, Types
<1>2. plot' \in Series /\ InWindow(plot') /\ Sorted(plot'.points)
  BY <1>1, LimitedKeeps DEF SetLimit, Kept
<1>3. source' \in Series /\ InWindow(source') /\ Sorted(source'.points)
  BY <1>1, LimitedKeeps DEF SetLimit, Kept
<1>4. least' \in Limits \cup {Highest}
  BY <1>1, LeastLimit DEF SetLimit, Types
<1>5. Kept'
  BY <1>1, <1>2, <1>3 DEF SetLimit, Kept, merging
<1>6. Types'
  BY <1>1, <1>4 DEF SetLimit, Types, merging
<1>7. QED BY <1>5, <1>6, InvariantParts

\* Samples erased on request.
LEMMA EraseKeeps == ASSUME IInv, Erase PROVE IInv'
<1>1. Kept /\ Types /\ step = "none" /\ ~resort
  BY InvariantParts DEF Erase, Types
<1>2. plot' \in Series /\ InWindow(plot') /\ Sorted(plot'.points)
  BY <1>1, EmptySeries DEF Erase, Kept
<1>3. kept' \subseteq Point
  BY <1>1, Contents DEF Erase, Kept
<1>4. Kept'
  BY <1>1, <1>2 DEF Erase, Kept, merging
<1>5. Types'
  BY <1>1, <1>3 DEF Erase, Types, merging
<1>6. QED BY <1>4, <1>5, InvariantParts

\* A range computed and cached.
LEMMA AskRangeKeeps == ASSUME IInv, AskRange PROVE IInv'
<1>1. Kept /\ Types /\ step = "none" /\ ~resort
  BY InvariantParts DEF AskRange, Types
<1>2. /\ Min(TimesOf(plot)) \in Int /\ Max(TimesOf(plot)) \in Int
      /\ Min(ValuesOf(plot)) \in Int /\ Max(ValuesOf(plot)) \in Int
  BY <1>1, TrueRanges DEF AskRange, Kept
<1>3. plot' \in Series /\ plot'.points = plot.points /\ plot'.max = plot.max
  <2> DEFINE X == [min |-> Min(TimesOf(plot)), max |-> Max(TimesOf(plot))]
             Y == [min |-> Min(ValuesOf(plot)), max |-> Max(ValuesOf(plot))]
  <2>1. plot \in Series /\ X \in Interval /\ Y \in Interval
    BY <1>1, <1>2 DEF Kept, Interval
  <2>2. \/ plot' = [plot EXCEPT !.dx = FALSE, !.rx = X]
        \/ plot' = [plot EXCEPT !.dy = FALSE, !.ry = Y]
    BY DEF AskRange
  <2> HIDE DEF X, Y
  <2>3. QED BY <2>1, <2>2 DEF Series
<1>4. InWindow(plot') /\ Sorted(plot'.points)
  BY <1>1, <1>3 DEF Kept, InWindow, First, Final
<1>5. Kept'
  BY <1>1, <1>3, <1>4 DEF AskRange, Kept, merging
<1>6. Types'
  BY <1>1 DEF AskRange, Types, merging, history
<1>7. QED BY <1>5, <1>6, InvariantParts

\* MoveData up to its loop: the limit of the source, and the swaps.
LEMMA StartMoveKeeps == ASSUME IInv, NEW remove_older \in BOOLEAN, StartMove(remove_older) PROVE IInv'
<1> DEFINE old == IF remove_older THEN Cleared(plot) ELSE plot
           p == Limited(old, source.max)
           swap == /\ source.points # << >>
                   /\ p.points = << >> \/ Loop(p, source) = "prepend"
<1>1. Kept /\ Types /\ step = "none" /\ ~resort
  BY InvariantParts DEF StartMove, Types
<1>2. old \in Series /\ Sorted(old.points)
  BY <1>1, EmptySeries DEF Kept
<1>3. source.max \in Limits \cup {Highest}
  BY <1>1 DEF Kept, Series
<1> HIDE DEF old
<1>4. p \in Series /\ InWindow(p) /\ Sorted(p.points)
  BY <1>2, <1>3, LimitedKeeps
<1>5. /\ plot' = IF swap THEN source ELSE p
      /\ source' = IF swap THEN p ELSE source
      /\ step' = IF source.points = << >> \/ p.points = << >> THEN "done"
                 ELSE IF swap THEN "append" ELSE Loop(p, source)
      /\ next' = 1 /\ resort' = FALSE
      /\ kept' = IF remove_older THEN Content(source) ELSE kept
      /\ least' = Min({least, source.max})
      /\ mode' = mode /\ mode # "idle"
      /\ UNCHANGED <<limit, samples, spoiled>>
  BY DEF StartMove, old
<1> HIDE DEF p
<1>6. step' \in {"update", "append", "merge", "done"}
  BY <1>5 DEF Loop
<1>7. step' = "update" => Len(source'.points) <= Len(plot'.points)
  <2>1. Len(p.points) \in Nat
    BY <1>4, Contents
  <2>2. step' = "update" => ~swap /\ Loop(p, source) = "update"
    BY <1>5
  <2>3. QED BY <1>5, <2>1, <2>2 DEF Loop
<1>8. kept' \subseteq Point /\ least' \in Limits \cup {Highest}
  BY <1>1, <1>3, <1>5, Contents, LeastLimit DEF Kept, Types
<1>9. Kept'
  BY <1>1, <1>4, <1>5, <1>6, <1>7 DEF Kept
<1>10. Types'
  <2>1. next' \in Nat \ {0}
    BY <1>5
  <2>2. QED BY <1>1, <1>5, <1>6, <1>8, <2>1 DEF Types
<1>11. QED BY <1>9, <1>10, InvariantParts

\* A sample of the source while a loop goes on.
LEMMA NextSample ==
  ASSUME Kept, Types, next <= Len(source.points)
  PROVE  source.points[next] \in Point
BY Contents DEF Kept, Types

\* Appending without sorting.
LEMMA AppendedUnsorted ==
  ASSUME NEW s \in Series, NEW p \in Point
  PROVE  LET t == [s EXCEPT !.points = Append(@, p)] IN
           t \in Series /\ Len(t.points) = Len(s.points) + 1 /\ t.points # << >>
<1>1. s.points \in Seq(Point)
  BY DEF Series
<1>2. /\ Append(s.points, p) \in Seq(Point)
      /\ Len(Append(s.points, p)) = Len(s.points) + 1
      /\ Append(s.points, p) # << >>
  BY <1>1, AppendProperties
<1>3. QED BY <1>2 DEF Series

\* Another value at the same time.
LEMMA Overwritten ==
  ASSUME NEW s \in Series, NEW n \in 1 .. Len(s.points), NEW v \in Values
  PROVE  LET t == [s EXCEPT !.points[n].y = v] IN
           /\ t \in Series
           /\ Len(t.points) = Len(s.points)
           /\ t.points # << >>
           /\ Sorted(s.points) => Sorted(t.points)
           /\ InWindow(s) => InWindow(t)
<1> DEFINE q == s.points
           p == [q[n] EXCEPT !.y = v]
           r == [q EXCEPT ![n] = p]
           t == [s EXCEPT !.points[n].y = v]
<1>1. q \in Seq(Point)
  BY DEF Series
<1>2. Len(q) \in Nat /\ \A i \in 1 .. Len(q) : q[i] \in Point
  BY <1>1, LenProperties, ElementOfSeq
<1>3. p \in Point /\ p.x = q[n].x
  BY <1>2 DEF Point
<1>4. /\ r \in Seq(Point)
      /\ Len(r) = Len(q)
      /\ \A i \in 1 .. Len(q) : r[i] = IF i = n THEN p ELSE q[i]
  BY <1>1, <1>3, ExceptSeq
<1>5. t = [s EXCEPT !.points = r]
  BY DEF Series
<1> HIDE DEF r, p, t
<1>6. t \in Series /\ t.points = r /\ t.max = s.max
  BY <1>4, <1>5 DEF Series
<1>7. \A i \in 1 .. Len(q) : r[i].x = q[i].x
  BY <1>3, <1>4
<1>8. Sorted(q) => Sorted(r)
  BY <1>4, <1>7 DEF Sorted
<1>9. r # << >>
  BY <1>2, <1>4
<1>10. InWindow(s) => InWindow(t)
  <2>1. CASE Len(q) <= 2
    BY <1>4, <1>6, <2>1 DEF InWindow
  <2>2. CASE Len(q) > 2
    <3>1. r[Len(q)].x = q[Len(q)].x /\ r[1].x = q[1].x
      BY <1>2, <1>7, <2>2
    <3>2. QED BY <1>4, <1>6, <3>1 DEF InWindow, First, Final
  <2>3. QED BY <1>2, <2>1, <2>2
<1>11. QED BY <1>4, <1>6, <1>8, <1>9, <1>10 DEF t

\* The same data written again.
LEMMA UpdateKeeps == ASSUME IInv, Update PROVE IInv'
<1> DEFINE p == source.points[next]
<1>1. Kept /\ Types /\ step = "update" /\ next \in Nat /\ next + 1 \in Nat \ {0}
  BY InvariantParts DEF Update, Types
<1>2. p \in Point
  BY <1>1, NextSample DEF Update
<1>3. p.y \in Values
  BY <1>2 DEF Point
<1>4. Len(plot.points) \in Nat /\ Len(source.points) \in Nat
  BY <1>1, Contents DEF Kept
<1>5. CASE p.x = plot.points[next].x
  <2>1. next \in 1 .. Len(plot.points)
    BY <1>1, <1>4 DEF Update, Kept, Types
  <2>2. plot' = [plot EXCEPT !.points[next].y = p.y] /\ resort' = resort
    BY <1>5 DEF Update
  <2>3. /\ plot' \in Series
        /\ Len(plot'.points) = Len(plot.points)
        /\ plot'.points # << >>
        /\ Sorted(plot.points) => Sorted(plot'.points)
        /\ InWindow(plot) => InWindow(plot')
    BY <1>1, <1>3, <2>1, <2>2, Overwritten DEF Kept
  <2>4. plot.points[next] \in Point /\ kept' \subseteq Point
    BY <1>1, <1>2, <1>5, <2>1, Contents DEF Update, Kept, Types
  <2>5. Kept'
    BY <1>1, <2>2, <2>3 DEF Update, Kept
  <2>6. Types'
    BY <1>1, <1>5, <2>2, <2>4 DEF Update, Types
  <2>7. QED BY <2>5, <2>6, InvariantParts
<1>6. CASE p.x # plot.points[next].x
  <2>1. plot' = [plot EXCEPT !.points = Append(@, p)] /\ resort' = TRUE
    BY <1>6 DEF Update
  <2>2. plot' \in Series /\ Len(plot'.points) = Len(plot.points) + 1 /\ plot'.points # << >>
    BY <1>1, <1>2, <2>1, AppendedUnsorted DEF Kept
  <2>3. Kept'
    BY <1>1, <1>4, <2>1, <2>2 DEF Update, Kept
  <2>4. Types'
    BY <1>1, <1>6, <2>1 DEF Update, Types
  <2>5. QED BY <2>3, <2>4, InvariantParts
<1>7. QED BY <1>5, <1>6

\* Data that comes after, sample by sample.
LEMMA AppendNextKeeps == ASSUME IInv, AppendNext PROVE IInv'
<1>1. Kept /\ Types /\ step = "append" /\ next + 1 \in Nat \ {0}
  BY InvariantParts DEF AppendNext, Types
<1>2. source.points[next] \in Sample
  BY <1>1, NextSample DEF AppendNext, Point, Sample
<1>3. plot' \in Series /\ InWindow(plot') /\ Sorted(plot'.points)
  BY <1>1, <1>2, PushedKeeps DEF AppendNext, Kept
<1>4. Kept'
  BY <1>1, <1>3 DEF AppendNext, Kept
<1>5. Types'
  BY <1>1 DEF AppendNext, Types, history
<1>6. QED BY <1>4, <1>5, InvariantParts

\* Data that overlaps.
LEMMA MergeNextKeeps == ASSUME IInv, MergeNext PROVE IInv'
<1>1. Kept /\ Types /\ step = "merge" /\ next + 1 \in Nat \ {0}
  BY InvariantParts DEF MergeNext, Types
<1>2. source.points[next] \in Point
  BY <1>1, NextSample DEF MergeNext
<1>3. plot' \in Series /\ plot'.points # << >>
  BY <1>1, <1>2, AppendedUnsorted DEF MergeNext, Kept
<1>4. Kept'
  BY <1>1, <1>3 DEF MergeNext, Kept
<1>5. Types'
  BY <1>1 DEF MergeNext, Types, history
<1>6. QED BY <1>4, <1>5, InvariantParts

\* The end of a loop: sorted if anything was pushed unsorted.
LEMMA EndMergeKeeps == ASSUME IInv, EndMerge PROVE IInv'
<1>1. Kept /\ Types /\ step \in {"update", "append", "merge"}
  BY InvariantParts DEF EndMerge
<1>2. plot' \in Series /\ InWindow(plot') /\ Sorted(plot'.points)
  <2>1. CASE resort
    <3>1. PICK q \in Sortings(plot.points) : plot' = Resorted(plot, q)
      BY <2>1 DEF EndMerge
    <3>2. QED BY <1>1, <2>1, <3>1, ResortedKeeps DEF Kept
  <2>2. CASE ~resort
    BY <1>1, <2>2 DEF EndMerge, Kept
  <2>3. QED BY <2>1, <2>2
<1>3. source' \in Series /\ InWindow(source') /\ Sorted(source'.points)
  BY <1>1, EmptySeries DEF EndMerge, Kept
<1>4. step' = "done" /\ resort' = resort /\ mode' = mode
  BY DEF EndMerge
<1>5. Kept'
  BY <1>2, <1>3, <1>4 DEF Kept
<1>6. Types'
  BY <1>1 DEF EndMerge, Types
<1>7. QED BY <1>5, <1>6, InvariantParts

\* Back in the caller of MoveData.
LEMMA EndMoveKeeps == ASSUME IInv, EndMove PROVE IInv'
<1>1. Kept /\ Types /\ step = "done"
  BY InvariantParts DEF EndMove
<1>2. plot' \in Series /\ InWindow(plot') /\ Sorted(plot'.points)
  BY <1>1, LimitedKeeps DEF EndMove, Kept, Types
<1>3. source' \in Series /\ InWindow(source') /\ Sorted(source'.points)
  BY <1>1, EmptySeries DEF EndMove, Kept
<1>4. least' \in Limits \cup {Highest}
  BY <1>1, LeastLimit DEF EndMove, Types
<1>5. step' = "none" /\ resort' = FALSE /\ next' \in Nat \ {0}
  BY DEF EndMove
<1>6. Kept'
  BY <1>2, <1>3, <1>5 DEF Kept
<1>7. Types'
  BY <1>1, <1>4, <1>5 DEF EndMove, Types
<1>8. QED BY <1>6, <1>7, InvariantParts

\* Every step keeps the invariant.
LEMMA StepInvariant == IInv /\ [Next]_vars => IInv'
<1> SUFFICES ASSUME IInv, [Next]_vars PROVE IInv'
  OBVIOUS
<1>1. CASE Start BY <1>1, StartKeeps
<1>2. CASE \E file \in Files : Open(file) BY <1>2, OpenKeeps
<1>3. CASE \E p \in Sample : Receive(p) BY <1>3, ReceiveKeeps
<1>4. CASE Stop BY <1>4, StopKeeps
<1>5. CASE \E l \in Limits \cup {Highest} : SetLimit(l) BY <1>5, SetLimitKeeps
<1>6. CASE Erase BY <1>6, EraseKeeps
<1>7. CASE AskRange BY <1>7, AskRangeKeeps
<1>8. CASE \E r \in BOOLEAN : StartMove(r) BY <1>8, StartMoveKeeps
<1>9. CASE Update BY <1>9, UpdateKeeps
<1>10. CASE AppendNext BY <1>10, AppendNextKeeps
<1>11. CASE MergeNext BY <1>11, MergeNextKeeps
<1>12. CASE EndMerge BY <1>12, EndMergeKeeps
<1>13. CASE EndMove BY <1>13, EndMoveKeeps
<1>14. CASE UNCHANGED vars
  <2>1. Kept /\ Types
    BY InvariantParts
  <2>2. Kept' /\ Types'
    BY <1>14, <2>1 DEF vars, merging, history, Kept, Types
  <2>3. QED BY <2>2, InvariantParts
<1>15. QED
  BY <1>1, <1>2, <1>3, <1>4, <1>5, <1>6, <1>7, <1>8, <1>9, <1>10, <1>11, <1>12, <1>13, <1>14
  DEF Next, Sample

\* IInv is an invariant: the types, and the order and the window of both
\* series in and between moves.
THEOREM Invariant == Spec => []IInv
<1>1. QED BY InitInvariant, StepInvariant, PTL DEF Spec

\* Every variable always has its type; the cached ranges, too, are numbers.
THEOREM TypeCorrect == Spec => []TypeOK
<1>1. IInv => TypeOK
  BY DEF IInv
<1>2. QED BY <1>1, Invariant, PTL

\* Between moves both series are in the order of time, whatever order samples
\* came in and however batches overlapped, and neither spans more than its limit.
THEOREM AlwaysSortedInWindow == Spec => []SortedInWindow
<1>1. IInv => SortedByTime
  BY DEF IInv, PlotSorted, SourceSorted, SortedByTime
<1>2. IInv => WindowKept
  BY DEF IInv, PlotInWindow, SourceInWindow, WindowKept
<1>3. IInv => SortedInWindow
  BY <1>1, <1>2 DEF SortedInWindow
<1>4. QED BY <1>3, Invariant, PTL

\* In a sorted series getIndexFromX finds a sample no other is nearer than.
LEMMA FindsNearest ==
  ASSUME NEW s \in Series, Sorted(s.points), s.points # << >>, NEW t \in Times
  PROVE  /\ IndexFromX(s, t) \in 1 .. Len(s.points)
         /\ \A i \in 1 .. Len(s.points) :
              Distance(s.points[IndexFromX(s, t)].x, t) <= Distance(s.points[i].x, t)
<1> DEFINE q == s.points
           K == {k \in 1 .. Len(q) + 1 : k <= Len(q) => t <= q[k].x}
           n == Min(K)
<1>1. Len(q) \in Nat /\ Len(q) >= 1
  BY Contents, EmptySeq DEF Series
<1>2. t \in Int /\ \A i \in 1 .. Len(q) : q[i].x \in Int
  BY Contents, SeriesAssumption DEF Point
<1>3. K \subseteq Nat
  BY <1>1
<1>4. Len(q) + 1 \in K
  BY <1>1
<1>5. n \in K /\ \A k \in K : n <= k
  BY <1>3, <1>4, Least
<1>6. IndexFromX(s, t) =
        IF n > Len(q) THEN Len(q)
        ELSE IF n > 1 /\ Distance(q[n - 1].x, t) < Distance(q[n].x, t) THEN n - 1
        ELSE n
  BY DEF IndexFromX
<1>7. n \in 1 .. Len(q) + 1 /\ (n <= Len(q) => t <= q[n].x)
  BY <1>5
<1>8. \A i \in 1 .. Len(q) : i < n => q[i].x < t
  <2> TAKE i \in 1 .. Len(q)
  <2>1. i \in 1 .. Len(q) + 1 /\ (t <= q[i].x => i \in K)
    BY <1>1
  <2>2. QED BY <1>1, <1>2, <1>5, <1>7, <2>1
<1> HIDE DEF n, K
<1>9. \A i, j \in 1 .. Len(q) : i <= j => q[i].x <= q[j].x
  BY DEF Sorted
<1>10. CASE n > Len(q)
  BY <1>1, <1>2, <1>6, <1>7, <1>8, <1>9, <1>10 DEF Distance
<1>11. CASE n <= Len(q)
  <2>1. n \in 1 .. Len(q) /\ t <= q[n].x
    BY <1>1, <1>7, <1>11
  <2>2. ASSUME NEW i \in 1 .. Len(q), i >= n
        PROVE  Distance(q[n].x, t) <= Distance(q[i].x, t)
    BY <1>2, <1>9, <2>1, <2>2 DEF Distance
  <2>3. ASSUME n > 1, NEW i \in 1 .. Len(q), i < n
        PROVE  Distance(q[n - 1].x, t) <= Distance(q[i].x, t)
    <3>1. n - 1 \in 1 .. Len(q) /\ n - 1 < n /\ i <= n - 1
      BY <1>1, <2>1, <2>3
    <3>2. q[n - 1].x < t /\ q[i].x < t /\ q[i].x <= q[n - 1].x
      BY <1>8, <1>9, <2>3, <3>1
    <3>3. q[n - 1].x \in Int /\ q[i].x \in Int
      BY <1>2, <3>1
    <3>4. QED BY <1>2, <3>2, <3>3 DEF Distance
  <2>4. \A a, b \in Int : Distance(a, b) \in Int
    BY DEF Distance
  <2>5. CASE n > 1 /\ Distance(q[n - 1].x, t) < Distance(q[n].x, t)
    <3>1. n - 1 \in 1 .. Len(q) /\ IndexFromX(s, t) = n - 1
      BY <1>1, <1>6, <2>1, <2>5
    <3>2. ASSUME NEW i \in 1 .. Len(q)
          PROVE  Distance(q[n - 1].x, t) <= Distance(q[i].x, t)
      <4>1. /\ Distance(q[n - 1].x, t) \in Int
            /\ Distance(q[n].x, t) \in Int
            /\ Distance(q[i].x, t) \in Int
        BY <1>2, <2>1, <2>4, <3>1
      <4>2. CASE i < n
        BY <2>3, <2>5, <4>2
      <4>3. CASE i >= n
        BY <2>2, <2>5, <4>1, <4>3
      <4>4. QED BY <2>1, <4>2, <4>3
    <3>3. QED BY <3>1, <3>2
  <2>6. CASE ~(n > 1 /\ Distance(q[n - 1].x, t) < Distance(q[n].x, t))
    <3>1. IndexFromX(s, t) = n
      BY <1>1, <1>6, <2>1, <2>6
    <3>2. ASSUME NEW i \in 1 .. Len(q)
          PROVE  Distance(q[n].x, t) <= Distance(q[i].x, t)
      <4>1. CASE i < n
        <5>1. n > 1 /\ n - 1 \in 1 .. Len(q)
          BY <1>1, <2>1, <4>1
        <5>2. /\ Distance(q[n - 1].x, t) \in Int
              /\ Distance(q[n].x, t) \in Int
              /\ Distance(q[i].x, t) \in Int
          BY <1>2, <2>1, <2>4, <5>1
        <5>3. Distance(q[n - 1].x, t) <= Distance(q[i].x, t)
          BY <2>3, <4>1, <5>1
        <5>4. QED BY <2>6, <5>1, <5>2, <5>3
      <4>2. CASE i >= n
        BY <2>2, <4>2
      <4>3. QED BY <2>1, <4>1, <4>2
    <3>3. QED BY <2>1, <3>1, <3>2
  <2>7. QED BY <2>5, <2>6
<1>12. QED BY <1>1, <1>7, <1>10, <1>11

\* The tracker's search is right between moves.
THEOREM NearestAlwaysFound == Spec => []NearestSample
<1>1. IInv => NearestSample
  <2> SUFFICES ASSUME IInv, step = "none", plot.points # << >>, NEW t \in Times
               PROVE  LET n == IndexFromX(plot, t) IN
                        /\ n \in 1 .. Len(plot.points)
                        /\ \A i \in 1 .. Len(plot.points) :
                             Distance(plot.points[n].x, t) <= Distance(plot.points[i].x, t)
    BY DEF NearestSample
  <2>1. plot \in Series /\ Sorted(plot.points)
    BY DEF IInv, TypeOK, PlotSorted
  <2>2. QED BY <2>1, FindsNearest
<1>2. QED BY <1>1, Invariant, PTL

-----------------------------------------------------------------------------
\* No sample is lost.

\* A sample has a time.
LEMMA PointTime == \A p \in Point : p.x \in Int
  BY SeriesAssumption DEF Point

\* Two sets of samples that a kept one closes are closed together.
LEMMA LatestUnion ==
  ASSUME NEW K, NEW C, C \subseteq Point, NEW D, D \subseteq Point, Latest(K, C), Latest(K, D)
  PROVE  Latest(K, C \cup D)
<1>1. CASE C = {} \/ D = {}
  BY <1>1 DEF Latest
<1>2. CASE C # {} /\ D # {}
  <2>1. PICK c \in K \cap C : \A p \in C : p.x <= c.x
    BY <1>2 DEF Latest
  <2>2. PICK d \in K \cap D : \A p \in D : p.x <= d.x
    BY <1>2 DEF Latest
  <2>3. c.x \in Int /\ d.x \in Int /\ \A p \in C \cup D : p.x \in Int
    BY PointTime
  <2>4. CASE c.x <= d.x
    <3>1. \A p \in C \cup D : p.x <= d.x
      BY <2>1, <2>2, <2>3, <2>4
    <3>2. QED BY <3>1 DEF Latest
  <2>5. CASE d.x <= c.x
    <3>1. \A p \in C \cup D : p.x <= c.x
      BY <2>1, <2>2, <2>3, <2>5
    <3>2. QED BY <3>1 DEF Latest
  <2>6. QED BY <2>3, <2>4, <2>5
<1>3. QED BY <1>1, <1>2

\* A new sample that is kept closes what it is later than.
LEMMA LatestNew ==
  ASSUME NEW K, NEW C, C \subseteq Point, NEW p \in Point, Latest(K, C)
  PROVE  Latest(K \cup {p}, C \cup {p})
<1>1. p.x \in Int
  BY PointTime
<1>2. Latest(K \cup {p}, C)
  BY DEF Latest
<1>3. Latest(K \cup {p}, {p})
  BY <1>1 DEF Latest
<1>4. QED BY <1>2, <1>3, LatestUnion

\* A shorter buffer loses no sample that a longer one has found too old.
LEMMA FoundShorter ==
  ASSUME NEW K, K \subseteq Point, NEW C, NEW l \in Int, NEW m \in Int, m <= l, Found(K, C, l)
  PROVE  Found(K, C, m)
BY PointTime DEF Found

\* trimRange drops no sample but those too old, and not the latest.
LEMMA TrimComplete ==
  ASSUME NEW s \in Series, Sorted(s.points), NEW K, K \subseteq Point, NEW O, O \subseteq Point,
         NEW l \in Int, l <= s.max, Latest(K, Content(s) \cup O)
  PROVE  /\ Latest(K, Content(Trim(s)) \cup O)
         /\ Found(K, Content(s) \cup O, l) => Found(K, Content(Trim(s)) \cup O, l)
<1> DEFINE C == Content(s) \cup O
           D == Content(Trim(s)) \cup O
<1>1. /\ Content(Trim(s)) \subseteq Content(s)
      /\ \A k \in Content(s) \ Content(Trim(s)) : s.max # Highest /\ k.x + s.max < Final(s).x
  BY TrimDrops
<1>2. CASE Content(s) = Content(Trim(s))
  BY <1>2
<1>3. CASE Content(s) # Content(Trim(s))
  <2>1. Content(s) # {} /\ s.points # << >> /\ s.max \in Nat
    BY <1>1, <1>3, Populated, SeriesAssumption DEF Series
  <2>2. Final(s) \in Content(s) /\ Final(s) \in Point
    BY <2>1, FinalIsLatest, Contents
  <2>3. PICK n \in K \cap C : \A p \in C : p.x <= n.x
    BY <2>1 DEF Latest
  <2>4. n.x \in Int /\ Final(s).x \in Int /\ Final(s).x <= n.x
    BY <2>2, <2>3, PointTime
  <2>5. n \in D
    <3> SUFFICES ASSUME n \in Content(s) \ Content(Trim(s)) PROVE FALSE
      BY <2>3
    <3>1. n.x + s.max < Final(s).x
      BY <1>1
    <3>2. QED BY <2>1, <2>4, <3>1
  <2>6. Latest(K, D)
    BY <1>1, <2>3, <2>5 DEF Latest
  <2>7. ASSUME Found(K, C, l), NEW k \in K, k \notin D
        PROVE  \E m \in K : k.x + l < m.x
    <3>1. CASE k \notin C
      BY <2>7, <3>1 DEF Found
    <3>2. CASE k \in C
      <4>1. k.x + s.max < Final(s).x /\ k.x \in Int
        BY <1>1, <2>7, <3>2, PointTime
      <4>2. k.x + l < n.x
        BY <2>1, <2>4, <4>1
      <4>3. QED BY <2>3, <4>2
    <3>3. QED BY <3>1, <3>2
  <2>8. QED BY <2>6, <2>7 DEF Found
<1>4. QED BY <1>2, <1>3

\* Nor does a new limit.
LEMMA LimitedComplete ==
  ASSUME NEW s \in Series, Sorted(s.points), NEW K, K \subseteq Point, NEW O, O \subseteq Point,
         NEW m \in Limits \cup {Highest}, NEW l \in Int, l <= m, Latest(K, Content(s) \cup O)
  PROVE  /\ Latest(K, Content(Limited(s, m)) \cup O)
         /\ Found(K, Content(s) \cup O, l) => Found(K, Content(Limited(s, m)) \cup O, l)
<1> DEFINE t == [s EXCEPT !.max = m]
<1>1. t \in Series /\ t.points = s.points /\ t.max = m
  BY DEF Series
<1>2. Content(t) = Content(s) /\ Limited(s, m) = Trim(t)
  BY <1>1 DEF Content, Limited
<1> HIDE DEF t
<1>3. QED BY <1>1, <1>2, TrimComplete

\* The smaller of two limits is no greater than either.
LEMMA LeastIsLess ==
  ASSUME NEW a \in Limits \cup {Highest}, NEW b \in Limits \cup {Highest}
  PROVE  /\ Min({a, b}) \in Int /\ a \in Int /\ b \in Int
         /\ Min({a, b}) <= a /\ Min({a, b}) <= b
         /\ a <= Highest
<1>1. a \in Int /\ b \in Int /\ a <= Highest
  BY SeriesAssumption
<1>2. \E x \in {a, b} : \A y \in {a, b} : x <= y
  BY <1>1
<1>3. Min({a, b}) \in {a, b} /\ \A y \in {a, b} : Min({a, b}) <= y
  BY <1>2 DEF Min
<1>4. QED BY <1>1, <1>3

\* Between moves all of the source is pending.
LEMMA AllPending ==
  ASSUME IInv', step' = "none", next' = 1,
         Latest(kept', Content(plot')), Latest(kept', Content(source')),
         Found(kept', Content(plot') \cup Content(source'), least'),
         mode' = "idle" => source'.points = << >>,
         least' <= plot'.max, least' <= source'.max
  PROVE  Complete'
<1>1. plot' \in Series /\ source' \in Series
  BY InvariantParts DEF Kept
<1>2. Held' = Content(plot') \cup Content(source')
  BY DEF Held, Pending, Content
<1>3. Latest(kept', Held')
  BY <1>1, <1>2, LatestUnion, Contents
<1>4. QED BY <1>2, <1>3 DEF Complete, Latest, Found

\* What Complete says between moves.
LEMMA NonePending ==
  ASSUME IInv, Complete, step = "none"
  PROVE  /\ plot \in Series /\ Sorted(plot.points) /\ Content(plot) \subseteq Point
         /\ source \in Series /\ Sorted(source.points) /\ Content(source) \subseteq Point
         /\ kept \subseteq Point /\ least \in Limits \cup {Highest} /\ least \in Int
         /\ next = 1
         /\ Latest(kept, Content(plot)) /\ Latest(kept, Content(source))
         /\ Found(kept, Content(plot) \cup Content(source), least)
         /\ Latest(kept, Content(plot) \cup Content(source))
<1>1. Kept /\ Types /\ ~resort
  BY InvariantParts DEF Types
<1>2. plot \in Series /\ source \in Series
  BY <1>1 DEF Kept
<1>3. Held = Content(plot) \cup Content(source)
  BY DEF Complete, Held, Pending, Content
<1>4. QED BY <1>1, <1>2, <1>3, Contents, SeriesAssumption DEF Complete, Kept, Types

\* A fresh program has lost nothing.
LEMMA InitComplete == Init => Complete
<1> SUFFICES ASSUME Init PROVE Complete
  OBVIOUS
<1>1. plot.points = << >> /\ source.points = << >> /\ kept = {} /\ next = 1
  BY DEF Init, Empty
<1>2. Content(plot) = {} /\ Content(source) = {} /\ Pending = {}
  BY <1>1 DEF Content, Pending
<1>3. plot.max = Highest /\ source.max = Highest /\ least = Highest /\ Highest \in Int
  BY SeriesAssumption DEF Init, Empty
<1>4. QED BY <1>1, <1>2, <1>3 DEF Complete, Held, Latest, Found, Init

\* A streamer starts with an empty map.
LEMMA StartComplete == ASSUME IInv, Complete, IInv', Start PROVE Complete'
<1>1. IInv /\ Complete /\ step = "none" /\ source.points = << >>
  <2>1. step = "none"
    BY InvariantParts DEF Start, Types
  <2>2. QED BY <2>1 DEF Start, Complete
<1>2. limit \in Limits \cup {Highest} /\ plot.max \in Limits \cup {Highest}
  BY InvariantParts, NonePending, <1>1 DEF Types, Series
<1>3. least' \in Int /\ least' <= least /\ least' <= limit /\ limit <= Highest
  BY <1>1, <1>2, NonePending, LeastIsLess DEF Start
<1>4. plot' \in Series /\ plot'.max = limit
  BY <1>1, <1>2, NonePending, LimitedKeeps DEF Start
<1>5. source'.points = << >> /\ least' <= source'.max
  <2>1. Limited(Empty, limit) \in Series /\ Limited(Empty, limit).max = limit
    BY <1>2, EmptySeries, LimitedKeeps
  <2>2. Limited(Empty, limit).points = << >>
    <3> DEFINE t == [Empty EXCEPT !.max = limit]
    <3>1. t \in Series
      BY <1>2, EmptySeries DEF Series
    <3>2. t.points = << >>
      BY DEF Empty
    <3>3. Limited(Empty, limit) = Trim(t)
      BY DEF Limited
    <3> HIDE DEF t
    <3>4. Content(Limited(Empty, limit)) = {}
      BY <3>1, <3>2, <3>3, TrimDrops, Populated
    <3>5. QED BY <2>1, <3>4, Populated
  <2>3. least' <= Highest
    BY <1>2, <1>3, SeriesAssumption
  <2>4. QED BY <1>3, <2>1, <2>2, <2>3, EmptySeries DEF Start, Empty
<1>6. Content(source) = {} /\ Content(source') = {}
  BY <1>1, <1>5 DEF Content
<1>7. kept' = kept /\ plot' = Limited(plot, limit)
  BY DEF Start
<1>8. Latest(kept', Content(plot'))
  <2>1. Latest(kept, Content(plot) \cup {})
    BY <1>1, NonePending
  <2>2. Latest(kept, Content(Limited(plot, limit)) \cup {})
    BY <1>1, <1>2, <1>3, <2>1, NonePending, LimitedComplete
  <2>3. QED BY <1>7, <2>2
<1>9. Found(kept', Content(plot') \cup Content(source'), least')
  <2>1. Found(kept, Content(plot) \cup {}, least')
    BY <1>1, <1>3, <1>6, NonePending, FoundShorter
  <2>2. Latest(kept, Content(plot) \cup {})
    BY <1>1, NonePending
  <2>3. Found(kept, Content(Limited(plot, limit)) \cup {}, least')
    BY <1>1, <1>2, <1>3, <2>1, <2>2, NonePending, LimitedComplete
  <2>4. QED BY <1>6, <1>7, <2>3
<1>10. Latest(kept', Content(source'))
  BY <1>6 DEF Latest
<1>11. step' = "none" /\ next' = 1 /\ mode' = "stream"
  BY <1>1, NonePending DEF Start, merging
<1>12. QED BY <1>3, <1>4, <1>5, <1>8, <1>9, <1>10, <1>11, AllPending

\* A file opens with samples of its own.
LEMMA OpenComplete == ASSUME IInv, Complete, IInv', NEW file \in Files, Open(file) PROVE Complete'
<1>1. step = "none" /\ source.points = << >>
  <2>1. step = "none"
    BY InvariantParts DEF Open, Types
  <2>2. QED BY <2>1 DEF Open, Complete
<1>2. Content(source) = {}
  BY <1>1 DEF Content
<1>3. source' \in Series /\ Sorted(source'.points) /\ source'.max = Highest
  BY InvariantParts DEF Open, Kept, Empty
<1>4. kept' = kept \cup Content(source') /\ plot' = plot /\ least' = least
  BY DEF Open
<1>5. Latest(kept', Content(source'))
  <2>1. CASE source'.points = << >>
    BY <2>1 DEF Latest, Content
  <2>2. CASE source'.points # << >>
    BY <1>3, <1>4, <2>2, FinalIsLatest DEF Latest
  <2>3. QED BY <2>1, <2>2
<1>6. Latest(kept', Content(plot'))
  BY <1>1, <1>4, NonePending DEF Latest
<1>7. Found(kept', Content(plot') \cup Content(source'), least')
  BY <1>1, <1>2, <1>4, NonePending DEF Found
<1>8. least' <= source'.max /\ least' <= plot'.max
  <2>1. least <= Highest
    BY <1>1, NonePending, LeastIsLess
  <2>2. QED BY <1>3, <1>4, <2>1 DEF Complete
<1>9. step' = "none" /\ next' = 1 /\ mode' = "file"
  BY <1>1, NonePending DEF Open, merging
<1>10. QED BY <1>5, <1>6, <1>7, <1>8, <1>9, AllPending

\* A sample received closes what was received before it, or is late.
LEMMA ReceiveComplete ==
  ASSUME IInv, Complete, IInv', NEW p \in Sample, Receive(p) PROVE Complete'
<1> DEFINE C == Content(source)
           O == Content(plot)
<1>1. step = "none" /\ mode # "idle" /\ source' = Pushed(source, p) /\ plot' = plot
      /\ kept' = kept \cup ({p} \cap Point) /\ least' = least /\ mode' = mode
  BY DEF Receive
<1>2. source.max \in Int /\ least <= source.max /\ least \in Int
  <2>1. source \in Series /\ least \in Int
    BY <1>1, NonePending
  <2>2. source.max \in Limits \cup {Highest}
    BY <2>1 DEF Series
  <2>3. source.max \in Int
    BY <2>2, LeastIsLess
  <2>4. least <= source.max
    BY DEF Complete
  <2>5. QED BY <2>1, <2>3, <2>4
<1>3. \E u \in Series : /\ source' = Trim(u) /\ u.max = source.max /\ Sorted(u.points)
                        /\ Latest(kept', Content(u))
                        /\ Found(kept', Content(u) \cup O, least)
                        /\ kept' \subseteq Point
  <2>1. CASE p \in Point
    <3>1. PICK u \in Series : /\ source' = Trim(u) /\ u.max = source.max /\ Sorted(u.points)
                              /\ Content(u) = C \cup {p}
      BY <1>1, <2>1, NonePending, PushedIsTrim
    <3>2. kept' = kept \cup {p}
      BY <1>1, <2>1
    <3>3. Latest(kept', Content(u))
      BY <1>1, <2>1, <3>1, <3>2, NonePending, LatestNew
    <3>4. Found(kept', Content(u) \cup O, least)
      BY <1>1, <3>1, <3>2, NonePending DEF Found
    <3>5. kept' \subseteq Point
      BY <1>1, <2>1, <3>2, NonePending
    <3>6. QED BY <3>1, <3>3, <3>4, <3>5
  <2>2. CASE p \notin Point
    <3> DEFINE u == RangedX(source, p.x)
    <3>1. p.x \in Times /\ p.y = NaN
      BY <2>2 DEF Sample, Point
    <3>2. u \in Series /\ u.points = source.points /\ u.max = source.max
      BY <1>1, <3>1, NonePending, SeriesAssumption DEF RangedX, Series, Interval
    <3>3. source' = Trim(u)
      BY <1>1, <3>1 DEF Pushed
    <3>4. kept' = kept
      BY <1>1, <2>2
    <3> HIDE DEF u
    <3>5. Content(u) = C
      BY <3>2 DEF Content
    <3>6. QED
      BY <1>1, <3>2, <3>3, <3>4, <3>5, NonePending
  <2>3. QED BY <2>1, <2>2
<1>4. PICK u \in Series : /\ source' = Trim(u) /\ u.max = source.max /\ Sorted(u.points)
                          /\ Latest(kept', Content(u))
                          /\ Found(kept', Content(u) \cup O, least)
                          /\ kept' \subseteq Point
  BY <1>3
<1>5. O \subseteq Point /\ Latest(kept', O)
  BY <1>1, NonePending DEF Latest
<1>6. Latest(kept', Content(source'))
  <2>1. Latest(kept', Content(u) \cup {})
    BY <1>4
  <2>2. Latest(kept', Content(Trim(u)) \cup {})
    BY <1>2, <1>4, <2>1, TrimComplete
  <2>3. QED BY <1>4, <2>2
<1>7. Found(kept', Content(source') \cup O, least)
  <2>1. Latest(kept', Content(u) \cup O)
    BY <1>4, <1>5, LatestUnion, Contents
  <2>2. QED BY <1>2, <1>4, <1>5, <2>1, TrimComplete
<1>8. source'.max = source.max
  BY <1>4, TrimKeeps
<1>9. step' = "none" /\ next' = 1 /\ least' <= plot'.max /\ least' <= source'.max
  BY <1>1, <1>2, <1>8, NonePending DEF Receive, Complete, merging
<1>10. Found(kept', Content(plot') \cup Content(source'), least')
  BY <1>1, <1>7 DEF Found
<1>11. QED BY <1>1, <1>5, <1>6, <1>9, <1>10, AllPending

\* What a streamer that stops takes with it was not moved, and is not kept.
LEMMA StopComplete == ASSUME IInv, Complete, IInv', Stop PROVE Complete'
<1>1. step = "none" /\ mode' = "idle" /\ source' = Empty /\ kept' = kept \cap Content(plot)
      /\ plot' = (IF mode = "stream" THEN Limited(plot, Highest) ELSE plot) /\ least' = least
  BY DEF Stop
<1>2. Content(source') = {} /\ source'.points = << >> /\ source'.max = Highest
  BY <1>1, EmptySeries DEF Content, Empty
<1>3. Content(plot') = Content(plot)
  <2>1. [plot EXCEPT !.max = Highest].max = Highest
        /\ [plot EXCEPT !.max = Highest].points = plot.points
    BY <1>1, NonePending DEF Series
  <2>2. Limited(plot, Highest).points = plot.points
    BY <2>1 DEF Limited, Trim
  <2>3. QED BY <1>1, <2>2 DEF Content
<1>4. least <= Highest
  BY <1>1, NonePending, LeastIsLess
<1>5. plot'.max = plot.max \/ plot'.max = Highest
  BY <1>1, NonePending, LimitedKeeps
<1>6. Latest(kept', Content(plot')) /\ Latest(kept', Content(source'))
  BY <1>1, <1>2, <1>3, NonePending DEF Latest
<1>7. Found(kept', Content(plot') \cup Content(source'), least')
  BY <1>1, <1>3 DEF Found
<1>8. step' = "none" /\ next' = 1 /\ least' <= plot'.max /\ least' <= source'.max
  BY <1>1, <1>2, <1>4, <1>5, NonePending DEF Stop, Complete, merging
<1>9. QED BY <1>2, <1>6, <1>7, <1>8, AllPending

\* A new limit counts from when it is set.
LEMMA SetLimitComplete ==
  ASSUME IInv, Complete, IInv', NEW l \in Limits \cup {Highest}, SetLimit(l) PROVE Complete'
<1>1. step = "none" /\ kept' = kept /\ step' = "none" /\ next' = 1 /\ mode' = mode
  <2>1. step = "none"
    BY DEF SetLimit
  <2>2. QED BY <2>1, NonePending DEF SetLimit, merging
<1>2. CASE UNCHANGED <<plot, source, least>>
  <2>1. mode' = "idle" => source'.points = << >>
    BY <1>1, <1>2 DEF Complete
  <2>2. least' <= plot'.max /\ least' <= source'.max
    BY <1>2 DEF Complete
  <2>3. QED BY <1>1, <1>2, <2>1, <2>2, NonePending, AllPending
<1>3. CASE /\ mode = "stream"
           /\ plot' = Limited(plot, l)
           /\ source' = Limited(source, l)
           /\ least' = Min({least, l})
  <2> DEFINE P == Content(plot)
             S == Content(source)
             Q == Content(plot')
             R == Content(source')
  <2>1. least' \in Int /\ least' <= least /\ least' <= l
    BY <1>1, <1>3, NonePending, LeastIsLess
  <2>2. plot'.max = l /\ source'.max = l /\ plot' \in Series /\ source' \in Series
    BY <1>1, <1>3, NonePending, LimitedKeeps
  <2>3. Latest(kept, Q)
    <3>1. Latest(kept, P \cup {})
      BY <1>1, NonePending
    <3>2. Latest(kept, Content(Limited(plot, l)) \cup {})
      BY <1>1, <2>1, <3>1, NonePending, LimitedComplete
    <3>3. QED BY <1>3, <3>2
  <2>4. Latest(kept, R)
    <3>1. Latest(kept, S \cup {})
      BY <1>1, NonePending
    <3>2. Latest(kept, Content(Limited(source, l)) \cup {})
      BY <1>1, <2>1, <3>1, NonePending, LimitedComplete
    <3>3. QED BY <1>3, <3>2
  <2>5. Found(kept, P \cup S, least')
    BY <1>1, <2>1, NonePending, FoundShorter
  <2>6. Found(kept, Q \cup S, least')
    <3>1. Latest(kept, P \cup S)
      BY <1>1, NonePending
    <3>2. Found(kept, Content(Limited(plot, l)) \cup S, least')
      BY <1>1, <2>1, <2>5, <3>1, NonePending, LimitedComplete
    <3>3. QED BY <1>3, <3>2
  <2>7. Found(kept, R \cup Q, least')
    <3>1. Q \subseteq Point
      BY <2>2, Contents
    <3>2. Latest(kept, S \cup Q)
      BY <1>1, <2>3, <3>1, NonePending, LatestUnion
    <3>3. Found(kept, S \cup Q, least')
      BY <2>6 DEF Found
    <3>4. Found(kept, Content(Limited(source, l)) \cup Q, least')
      BY <1>1, <2>1, <3>1, <3>2, <3>3, NonePending, LimitedComplete
    <3>5. QED BY <1>3, <3>4
  <2>8. Found(kept', Content(plot') \cup Content(source'), least')
    BY <1>1, <2>7 DEF Found
  <2>9. Latest(kept', Content(plot')) /\ Latest(kept', Content(source'))
    BY <1>1, <2>3, <2>4
  <2>10. mode' # "idle" /\ least' <= plot'.max /\ least' <= source'.max
    BY <1>1, <1>3, <2>1, <2>2
  <2>11. QED BY <1>1, <2>8, <2>9, <2>10, AllPending
<1>4. QED BY <1>2, <1>3 DEF SetLimit

\* What is erased is not kept.
LEMMA EraseComplete == ASSUME IInv, Complete, IInv', Erase PROVE Complete'
<1>1. step = "none" /\ source' = source /\ mode' = mode /\ kept' = Content(source)
      /\ plot' \in {Cleared(plot), Empty} /\ least' = least
  BY DEF Erase
<1>2. plot'.points = << >> /\ (plot'.max = plot.max \/ plot'.max = Highest)
  BY <1>1, NonePending, EmptySeries DEF Empty
<1>3. Content(plot') = {}
  BY <1>2 DEF Content
<1>4. least <= Highest
  BY <1>1, NonePending, LeastIsLess
<1>5. Latest(kept', Content(source'))
  <2>1. CASE source.points = << >>
    BY <1>1, <2>1 DEF Latest, Content
  <2>2. CASE source.points # << >>
    BY <1>1, <2>2, NonePending, FinalIsLatest DEF Latest
  <2>3. QED BY <2>1, <2>2
<1>6. Latest(kept', Content(plot'))
  BY <1>3 DEF Latest
<1>7. Found(kept', Content(plot') \cup Content(source'), least')
  BY <1>1 DEF Found
<1>8. mode' = "idle" => source'.points = << >>
  BY <1>1 DEF Complete
<1>9. step' = "none" /\ next' = 1 /\ least' <= plot'.max /\ least' <= source'.max
  BY <1>1, <1>2, <1>4, NonePending DEF Erase, Complete, merging
<1>10. QED BY <1>5, <1>6, <1>7, <1>8, <1>9, AllPending

\* To ask for a range moves nothing.
LEMMA AskRangeComplete == ASSUME IInv, Complete, IInv', AskRange PROVE Complete'
<1>1. step = "none" /\ source' = source /\ mode' = mode /\ kept' = kept /\ least' = least
  BY DEF AskRange, history
<1>2. plot'.points = plot.points /\ plot'.max = plot.max
  <2> DEFINE X == [min |-> Min(TimesOf(plot)), max |-> Max(TimesOf(plot))]
             Y == [min |-> Min(ValuesOf(plot)), max |-> Max(ValuesOf(plot))]
  <2>1. plot \in Series
    BY <1>1, NonePending
  <2>2. \/ plot' = [plot EXCEPT !.dx = FALSE, !.rx = X]
        \/ plot' = [plot EXCEPT !.dy = FALSE, !.ry = Y]
    BY DEF AskRange
  <2> HIDE DEF X, Y
  <2>3. QED BY <2>1, <2>2 DEF Series
<1>3. Content(plot') = Content(plot)
  BY <1>2 DEF Content
<1>4. mode' = "idle" => source'.points = << >>
  BY <1>1 DEF Complete
<1>5. step' = "none" /\ next' = 1 /\ least' <= plot'.max /\ least' <= source'.max
  BY <1>1, <1>2, NonePending DEF AskRange, Complete, merging
<1>6. QED BY <1>1, <1>3, <1>4, <1>5, NonePending, AllPending

\* A move starts with everything in one series or the other.
LEMMA StartMoveComplete ==
  ASSUME IInv, Complete, IInv', NEW remove_older \in BOOLEAN, StartMove(remove_older)
  PROVE  Complete'
<1> DEFINE old == IF remove_older THEN Cleared(plot) ELSE plot
           p == Limited(old, source.max)
           swap == /\ source.points # << >>
                   /\ p.points = << >> \/ Loop(p, source) = "prepend"
           S == Content(source)
<1>1. step = "none"
  BY DEF StartMove
<1>2. /\ plot' = IF swap THEN source ELSE p
      /\ source' = IF swap THEN p ELSE source
      /\ step' = IF source.points = << >> \/ p.points = << >> THEN "done"
                 ELSE IF swap THEN "append" ELSE Loop(p, source)
      /\ next' = 1
      /\ kept' = IF remove_older THEN S ELSE kept
      /\ least' = Min({least, source.max})
      /\ mode' = mode /\ mode # "idle"
  BY DEF StartMove
<1>3. source \in Series /\ source.max \in Limits \cup {Highest}
  BY <1>1, NonePending DEF Series
<1>4. least' \in Int /\ least' <= least /\ least' <= source.max
  BY <1>1, <1>2, <1>3, NonePending, LeastIsLess
<1>5. old \in Series /\ Sorted(old.points) /\ Content(old) \subseteq Point
  <2>1. old \in Series /\ Sorted(old.points)
    BY <1>1, NonePending, EmptySeries
  <2>2. QED BY <2>1, Contents
<1>6. kept' \subseteq Point /\ S \subseteq Point
  BY <1>1, <1>2, NonePending
<1>7. Latest(kept', Content(old)) /\ Latest(kept', S) /\ Found(kept', Content(old) \cup S, least')
  <2>1. CASE remove_older
    <3>1. Content(old) = {} /\ kept' = S
      BY <1>1, <1>2, <2>1, NonePending, EmptySeries DEF Content
    <3>2. Latest(kept', S)
      <4>1. CASE source.points = << >>
        BY <1>3, <4>1, Populated DEF Latest
      <4>2. CASE source.points # << >>
        BY <1>1, <3>1, <4>2, NonePending, FinalIsLatest DEF Latest
      <4>3. QED BY <4>1, <4>2
    <3>3. QED BY <3>1, <3>2 DEF Latest, Found
  <2>2. CASE ~remove_older
    <3>1. Found(kept, Content(plot) \cup S, least')
      BY <1>1, <1>4, NonePending, FoundShorter
    <3>2. old = plot /\ kept' = kept
      BY <1>2, <2>2
    <3>3. QED BY <1>1, <3>1, <3>2, NonePending
  <2>3. QED BY <2>1, <2>2
<1> HIDE DEF old
<1>8. p \in Series /\ p.max = source.max
  BY <1>3, <1>5, LimitedKeeps
<1>9. Latest(kept', Content(p) \cup S) /\ Found(kept', Content(p) \cup S, least')
  <2>1. Latest(kept', Content(old) \cup S)
    BY <1>5, <1>6, <1>7, LatestUnion
  <2>2. QED BY <1>3, <1>4, <1>5, <1>6, <1>7, <2>1, LimitedComplete
<1> HIDE DEF p
<1>10. Held' = Content(p) \cup S
  <2>1. Held' = Content(plot') \cup Content(source')
    BY <1>2 DEF Held, Pending, Content
  <2>2. QED BY <1>2, <2>1
<1>11. step' \in {"update", "append", "merge", "done"}
  BY <1>2 DEF Loop
<1>12. step' = "done" => source'.points = << >>
  BY <1>2 DEF Loop
<1>13. least' <= plot'.max /\ least' <= source'.max
  BY <1>2, <1>4, <1>8
<1>14. QED BY <1>2, <1>9, <1>10, <1>11, <1>12, <1>13 DEF Complete

\* What is pending after one more sample.
LEMMA PendingNext ==
  ASSUME Kept, Types, next <= Len(source.points), source' = source, next' = next + 1
  PROVE  /\ Pending = {source.points[next]} \cup Pending'
         /\ source.points[next] \in Content(source)
<1>1. next \in Nat /\ next >= 1 /\ Len(source.points) \in Nat
  BY Contents DEF Kept, Types
<1>2. next .. Len(source.points) = {next} \cup (next + 1 .. Len(source.points))
  BY <1>1
<1>3. Pending' = {source.points[i] : i \in next + 1 .. Len(source.points)}
  BY DEF Pending
<1>4. QED BY <1>1, <1>2, <1>3 DEF Pending, Content

\* A sample overwritten makes room for the one that is kept in its place.
LEMMA UpdateComplete == ASSUME IInv, Complete, IInv', Update PROVE Complete'
<1> DEFINE p == source.points[next]
           old == plot.points[next]
<1>1. /\ Kept /\ Types /\ step = "update" /\ step' = "update" /\ next <= Len(source.points)
      /\ next' = next + 1 /\ source' = source /\ mode' = mode /\ mode # "idle" /\ least' = least
  BY InvariantParts DEF Update, Types
<1>2. Pending = {p} \cup Pending' /\ p \in Point
  BY <1>1, PendingNext, NextSample
<1>3. plot \in Series /\ plot.points \in Seq(Point)
  BY <1>1 DEF Kept, Series
<1>4. kept \subseteq Point
  BY <1>1 DEF Types
<1>5. CASE p.x = old.x
  <2>1. next \in 1 .. Len(plot.points)
    <3>1. Len(plot.points) \in Nat /\ Len(source.points) \in Nat
      BY <1>1, Contents DEF Kept
    <3>2. QED BY <1>1, <3>1 DEF Kept, Types
  <2>2. plot' = [plot EXCEPT !.points[next].y = p.y] /\ kept' = (kept \ {old}) \cup {p}
    BY <1>5 DEF Update
  <2>3. old \in Point /\ old \in Content(plot) /\ [old EXCEPT !.y = p.y] = p
    <3>1. old \in Point /\ old \in Content(plot)
      BY <1>3, <2>1, Contents DEF Content
    <3>2. QED BY <1>2, <1>5, <3>1 DEF Point
  <2>4. plot'.points = [plot.points EXCEPT ![next] = p] /\ plot'.max = plot.max
    BY <1>3, <2>2, <2>3 DEF Series
  <2>5. /\ Len(plot'.points) = Len(plot.points)
        /\ \A i \in 1 .. Len(plot.points) : plot'.points[i] = IF i = next THEN p ELSE plot.points[i]
    BY <1>2, <1>3, <2>1, <2>4, ExceptSeq
  <2>6. Content(plot') \subseteq Content(plot) \cup {p}
    BY <2>5 DEF Content
  <2>7. Content(plot) \subseteq Content(plot') \cup {old}
    <3> SUFFICES ASSUME NEW i \in 1 .. Len(plot.points), i # next
                 PROVE  plot.points[i] \in Content(plot')
      BY DEF Content
    <3>1. i \in 1 .. Len(plot'.points) /\ plot'.points[i] = plot.points[i]
      BY <2>5
    <3>2. QED BY <3>1 DEF Content
  <2>8. p \in Content(plot')
    <3>1. next \in 1 .. Len(plot'.points) /\ plot'.points[next] = p
      BY <2>1, <2>5
    <3>2. QED BY <3>1 DEF Content
  <2>9. Held' \subseteq Held /\ Held \subseteq Held' \cup {old}
    BY <1>2, <2>6, <2>7, <2>8 DEF Held
  <2>10. p \in Held' /\ p \in kept' /\ p.x = old.x
    BY <1>5, <2>2, <2>8 DEF Held
  <2> HIDE DEF p, old
  <2>11. \A k \in kept : k = old \/ k \in kept'
    BY <2>2
  <2>12. \A k \in kept' : k = p \/ (k \in kept /\ k # old)
    BY <2>2
  <2>13. Latest(kept', Held')
    <3>1. PICK n \in kept \cap Held : \A q \in Held : q.x <= n.x
      BY <2>9, <2>10 DEF Complete, Latest
    <3>2. CASE n = old
      BY <2>9, <2>10, <3>1, <3>2 DEF Latest
    <3>3. CASE n # old
      BY <2>9, <2>11, <3>1, <3>3 DEF Latest
    <3>4. QED BY <3>2, <3>3
  <2>14. Found(kept', Held', least')
    <3> SUFFICES ASSUME NEW k \in kept', k \notin Held'
                 PROVE  \E n \in kept' : k.x + least < n.x
      BY <1>1 DEF Found
    <3>1. k \in kept /\ k \notin Held
      BY <2>9, <2>10, <2>12
    <3>2. PICK n \in kept : k.x + least < n.x
      BY <3>1 DEF Complete, Found
    <3>3. QED BY <2>10, <2>11, <3>2
  <2>15. QED BY <1>1, <2>4, <2>13, <2>14 DEF Complete
<1>6. CASE p.x # old.x
  <2>1. plot' = [plot EXCEPT !.points = Append(@, p)] /\ kept' = kept
    BY <1>6 DEF Update
  <2>2. plot'.points = Append(plot.points, p) /\ plot'.max = plot.max
    BY <1>3, <2>1 DEF Series
  <2>3. Content(plot') = Content(plot) \cup {p}
    BY <1>2, <1>3, <2>2, Appended DEF Content
  <2>4. Held' = Held
    BY <1>2, <2>3 DEF Held
  <2>5. QED BY <1>1, <2>1, <2>2, <2>4 DEF Complete
<1>7. QED BY <1>5, <1>6

\* Data pushed to be sorted later.
LEMMA MergeNextComplete == ASSUME IInv, Complete, IInv', MergeNext PROVE Complete'
<1> DEFINE p == source.points[next]
<1>1. /\ Kept /\ Types /\ step = "merge" /\ step' = "merge" /\ next <= Len(source.points)
      /\ next' = next + 1 /\ source' = source /\ mode' = mode /\ mode # "idle"
      /\ kept' = kept /\ least' = least /\ plot' = [plot EXCEPT !.points = Append(@, p)]
  BY InvariantParts DEF MergeNext, Types, history
<1>2. Pending = {p} \cup Pending' /\ p \in Point
  BY <1>1, PendingNext, NextSample
<1>3. plot \in Series /\ plot.points \in Seq(Point)
  BY <1>1 DEF Kept, Series
<1>4. plot'.points = Append(plot.points, p) /\ plot'.max = plot.max
  BY <1>1, <1>3 DEF Series
<1>5. Content(plot') = Content(plot) \cup {p}
  BY <1>2, <1>3, <1>4, Appended DEF Content
<1>6. Held' = Held
  BY <1>2, <1>5 DEF Held
<1>7. QED BY <1>1, <1>4, <1>6 DEF Complete

\* Data that comes after, while what is too old goes.
LEMMA AppendNextComplete == ASSUME IInv, Complete, IInv', AppendNext PROVE Complete'
<1> DEFINE p == source.points[next]
<1>1. /\ Kept /\ Types /\ step = "append" /\ step' = "append" /\ next <= Len(source.points)
      /\ next' = next + 1 /\ source' = source /\ mode' = mode /\ mode # "idle"
      /\ kept' = kept /\ least' = least /\ plot' = Pushed(plot, p)
  BY InvariantParts DEF AppendNext, Types, history
<1>2. Pending = {p} \cup Pending' /\ p \in Point
  BY <1>1, PendingNext, NextSample
<1>3. plot \in Series /\ Sorted(plot.points) /\ kept \subseteq Point /\ least \in Int
  BY <1>1, LeastIsLess DEF Kept, Types
<1>4. Pending' \subseteq Point
  <2>1. Pending \subseteq Content(source)
    BY <1>1 DEF Pending, Content, Types
  <2>2. QED BY <1>1, <1>2, <2>1, Contents DEF Kept
<1>5. PICK u \in Series : /\ plot' = Trim(u) /\ u.max = plot.max /\ Sorted(u.points)
                          /\ Content(u) = Content(plot) \cup {p}
  BY <1>1, <1>2, <1>3, PushedIsTrim
<1>6. Held = Content(u) \cup Pending'
  BY <1>2, <1>5 DEF Held
<1>7. Held' = Content(Trim(u)) \cup Pending'
  BY <1>5 DEF Held
<1>8. Latest(kept, Held') /\ Found(kept, Held', least)
  BY <1>3, <1>4, <1>5, <1>6, <1>7, TrimComplete DEF Complete
<1>9. plot'.max = plot.max
  BY <1>5, TrimKeeps
<1>10. QED BY <1>1, <1>8, <1>9 DEF Complete

\* Sorting mixes the samples and drops only those too old.
LEMMA EndMergeComplete == ASSUME IInv, Complete, IInv', EndMerge PROVE Complete'
<1>1. /\ Kept /\ Types /\ next > Len(source.points) /\ source' = Cleared(source)
      /\ step' = "done" /\ kept' = kept /\ least' = least
  BY InvariantParts DEF EndMerge
<1>2. plot \in Series /\ source \in Series /\ kept \subseteq Point /\ least \in Int
  BY <1>1, LeastIsLess DEF Kept, Types
<1>3. Held = Content(plot)
  BY <1>1, <1>2, Contents DEF Held, Pending, Types
<1>4. source'.points = << >> /\ source'.max = source.max
  BY <1>1, <1>2, EmptySeries
<1>5. Held' = Content(plot')
  <2>1. Pending' = {}
    <3>1. next' \in Nat \ {0} /\ Len(source'.points) = 0
      BY <1>1, <1>4 DEF EndMerge, Types
    <3>2. QED BY <3>1 DEF Pending
  <2>2. QED BY <2>1 DEF Held
<1>6. Latest(kept, Content(plot')) /\ Found(kept, Content(plot'), least) /\ plot'.max = plot.max
  <2>1. CASE ~resort
    BY <1>3, <2>1 DEF EndMerge, Complete
  <2>2. CASE resort
    <3>1. PICK q \in Sortings(plot.points) : plot' = Resorted(plot, q)
      BY <2>2 DEF EndMerge
    <3>2. plot.points # << >>
      BY <1>1, <2>2 DEF EndMerge, Kept
    <3>3. PICK t \in Series : /\ plot' = Trim(t) /\ t.max = plot.max /\ Sorted(t.points)
                              /\ Content(t) = Content(plot)
      BY <1>2, <3>1, <3>2, ResortedIsTrim
    <3>4. Latest(kept, Content(t) \cup {}) /\ Found(kept, Content(t) \cup {}, least)
      BY <1>3, <3>3 DEF Complete
    <3>5. Latest(kept, Content(Trim(t)) \cup {}) /\ Found(kept, Content(Trim(t)) \cup {}, least)
      BY <1>2, <3>3, <3>4, TrimComplete DEF Complete
    <3>6. QED BY <3>3, <3>5, TrimKeeps
  <2>3. QED BY <2>1, <2>2
<1>7. QED BY <1>1, <1>4, <1>5, <1>6 DEF Complete

\* A move ends with nothing left in the source.
LEMMA EndMoveComplete == ASSUME IInv, Complete, IInv', EndMove PROVE Complete'
<1>1. /\ Kept /\ Types /\ step = "done" /\ step' = "none" /\ next' = 1 /\ kept' = kept
  BY InvariantParts DEF EndMove
<1>2. plot \in Series /\ Sorted(plot.points) /\ source \in Series /\ kept \subseteq Point
  BY <1>1 DEF Kept, Types
<1>3. limit \in Limits \cup {Highest} /\ least \in Limits \cup {Highest}
  BY <1>1 DEF Types
<1>4. source.points = << >>
  BY <1>1 DEF Complete
<1>5. Held = Content(plot)
  <2>1. Pending = {}
    <3>1. next \in Nat \ {0} /\ Len(source.points) = 0
      BY <1>1, <1>4 DEF Types
    <3>2. QED BY <3>1 DEF Pending
  <2>2. QED BY <2>1 DEF Held
<1>6. source'.points = << >> /\ (source' = source \/ source'.max = Highest)
  BY <1>4 DEF EndMove, Empty
<1>7. Content(source') = {}
  BY <1>6 DEF Content
<1>8. /\ Latest(kept, Content(plot')) /\ Found(kept, Content(plot'), least')
      /\ least' <= plot'.max /\ least' <= least
  <2>1. CASE mode = "stream"
    <3>1. plot' = Limited(plot, limit) /\ least' = Min({least, limit})
      BY <2>1 DEF EndMove
    <3>2. least \in Int /\ least' \in Int /\ least' <= least /\ least' <= limit
      BY <1>3, <3>1, LeastIsLess
    <3>3. Latest(kept, Content(plot) \cup {}) /\ Found(kept, Content(plot) \cup {}, least')
      BY <1>2, <1>5, <3>2, FoundShorter DEF Complete
    <3>4. /\ Latest(kept, Content(Limited(plot, limit)) \cup {})
          /\ Found(kept, Content(Limited(plot, limit)) \cup {}, least')
      BY <1>2, <1>3, <3>2, <3>3, LimitedComplete
    <3>5. plot'.max = limit
      BY <1>2, <1>3, <3>1, LimitedKeeps
    <3>6. QED BY <3>1, <3>2, <3>4, <3>5
  <2>2. CASE mode # "stream"
    <3>1. plot' = plot /\ least' = least
      BY <2>2 DEF EndMove
    <3>2. least \in Int
      BY <1>3, LeastIsLess
    <3>3. QED BY <1>5, <3>1, <3>2 DEF Complete
  <2>3. QED BY <2>1, <2>2
<1>9. least' <= source'.max
  <2>1. least' \in Limits \cup {Highest}
    BY InvariantParts DEF Types
  <2>2. least' <= Highest /\ least' \in Int /\ least \in Int
    BY <1>3, <2>1, LeastIsLess
  <2>3. source.max \in Int
    <3>1. source.max \in Limits \cup {Highest}
      BY <1>2 DEF Series
    <3>2. QED BY <3>1, LeastIsLess
  <2>4. QED BY <1>6, <1>8, <2>2, <2>3 DEF Complete
<1>10. Latest(kept', Content(plot')) /\ Latest(kept', Content(source'))
       /\ Found(kept', Content(plot') \cup Content(source'), least')
  BY <1>1, <1>7, <1>8 DEF Latest, Found
<1>11. QED BY <1>1, <1>6, <1>8, <1>9, <1>10, AllPending

\* Nothing is lost by any step.
LEMMA StepComplete == IInv /\ Complete /\ IInv' /\ [Next]_vars => Complete'
<1> SUFFICES ASSUME IInv, Complete, IInv', [Next]_vars PROVE Complete'
  OBVIOUS
<1>1. CASE Start BY <1>1, StartComplete
<1>2. CASE \E file \in Files : Open(file) BY <1>2, OpenComplete
<1>3. CASE \E p \in Sample : Receive(p) BY <1>3, ReceiveComplete
<1>4. CASE Stop BY <1>4, StopComplete
<1>5. CASE \E l \in Limits \cup {Highest} : SetLimit(l) BY <1>5, SetLimitComplete
<1>6. CASE Erase BY <1>6, EraseComplete
<1>7. CASE AskRange BY <1>7, AskRangeComplete
<1>8. CASE \E r \in BOOLEAN : StartMove(r) BY <1>8, StartMoveComplete
<1>9. CASE Update BY <1>9, UpdateComplete
<1>10. CASE AppendNext BY <1>10, AppendNextComplete
<1>11. CASE MergeNext BY <1>11, MergeNextComplete
<1>12. CASE EndMerge BY <1>12, EndMergeComplete
<1>13. CASE EndMove BY <1>13, EndMoveComplete
<1>14. CASE UNCHANGED vars
  <2>1. UNCHANGED <<plot, source, mode, step, next, kept, least>>
    BY <1>14 DEF vars, merging, history
  <2>2. Held' = Held
    BY <2>1 DEF Held, Pending
  <2>3. QED BY <2>1, <2>2 DEF Complete
<1>15. QED
  BY <1>1, <1>2, <1>3, <1>4, <1>5, <1>6, <1>7, <1>8, <1>9, <1>10, <1>11, <1>12, <1>13, <1>14
  DEF Next, Sample

\* No batch boundary, swap, sort or late sample loses a sample: one received is
\* in one of the series until it is erased, overwritten or too old.
THEOREM NothingEverLost == Spec => []NothingLost
<1>1. IInv /\ Complete => NothingLost
  BY NonePending DEF NothingLost, Found
<1>2. QED BY <1>1, Invariant, InitComplete, StepComplete, PTL DEF Spec

-----------------------------------------------------------------------------
\* The cached ranges.

\* r goes from the least of S to the greatest.
Spans(r, S) == r.min \in S /\ r.max \in S /\ \A v \in S : r.min <= v /\ v <= r.max

\* A range spans a set when its ends are Min and Max.
LEMMA SpansExactly ==
  ASSUME NEW r \in Interval, NEW S, S \subseteq Times \/ S \subseteq Values, S # {}
  PROVE  Spans(r, S) <=> r = [min |-> Min(S), max |-> Max(S)]
<1>1. S \subseteq Int /\ Lowest \in Int /\ Highest \in Int
  BY SeriesAssumption
<1>2. \A v \in S : Lowest <= v /\ v <= Highest
  <2> TAKE v \in S
  <2>1. v \in Int /\ v \in Times \cup Values
    BY <1>1
  <2>2. Lowest < v /\ v < Highest
    BY <2>1, SeriesAssumption
  <2>3. QED BY <1>1, <2>1, <2>2
<1>3. Min(S) \in S /\ Max(S) \in S /\ \A v \in S : Min(S) <= v /\ v <= Max(S)
  BY <1>1, <1>2, Extremes
<1>4. ASSUME Spans(r, S) PROVE r.min = Min(S) /\ r.max = Max(S)
  <2>1. /\ r.min \in S /\ r.max \in S
        /\ r.min <= Min(S) /\ Min(S) <= r.min /\ r.max <= Max(S) /\ Max(S) <= r.max
    BY <1>3, <1>4 DEF Spans
  <2>2. r.min \in Int /\ r.max \in Int /\ Min(S) \in Int /\ Max(S) \in Int
    BY <1>1, <1>3, <2>1
  <2>3. QED BY <2>1, <2>2
<1>5. r = [min |-> r.min, max |-> r.max]
  BY DEF Interval
<1>6. ASSUME r = [min |-> Min(S), max |-> Max(S)] PROVE Spans(r, S)
  <2>1. r.min = Min(S) /\ r.max = Max(S)
    BY <1>6
  <2>2. QED BY <1>3, <2>1 DEF Spans
<1>7. QED BY <1>4, <1>5, <1>6

\* A range that is known spans the samples when it is clean.
LEMMA KnownSpans ==
  ASSUME NEW s \in Series
  PROVE  RangeKnown(s) <=> /\ ~s.dx => Spans(s.rx, {p.x : p \in Content(s)})
                           /\ ~s.dy => Spans(s.ry, {p.y : p \in Content(s)})
<1> DEFINE X == TimesOf(s)
           Y == ValuesOf(s)
<1>1. X = {p.x : p \in Content(s)} /\ Y = {p.y : p \in Content(s)}
  BY DEF TimesOf, ValuesOf, Content
<1>2. X \subseteq Times /\ Y \subseteq Values /\ s.rx \in Interval /\ s.ry \in Interval
  BY Contents DEF Series
<1>3. CASE s.points = << >>
  <2>1. X = {} /\ Y = {}
    BY <1>1, <1>3, Populated
  <2>2. QED BY <1>1, <1>3, <2>1 DEF RangeKnown, RangeTrue, Spans
<1>4. CASE s.points # << >>
  <2>1. X # {} /\ Y # {}
    BY <1>1, <1>4, Populated
  <2>2. /\ Spans(s.rx, X) <=> s.rx = [min |-> Min(X), max |-> Max(X)]
        /\ Spans(s.ry, Y) <=> s.ry = [min |-> Min(Y), max |-> Max(Y)]
    BY <1>2, <2>1, SpansExactly
  <2>3. QED BY <1>1, <1>4, <2>2 DEF RangeKnown, RangeTrue
<1>5. QED BY <1>3, <1>4

\* trimRange distrusts a range whose end it drops.
LEMMA TrimKnown == ASSUME NEW s \in Series, RangeKnown(s) PROVE RangeKnown(Trim(s))
<1> DEFINE t == Trim(s)
           C == Content(s)
           D == Content(t)
<1>1. /\ t \in Series /\ D \subseteq C /\ t.rx = s.rx /\ t.ry = s.ry
      /\ ~t.dx => ~s.dx /\ \A k \in C \ D : k.x \notin {s.rx.min, s.rx.max}
      /\ ~t.dy => ~s.dy /\ \A k \in C \ D : k.y \notin {s.ry.min, s.ry.max}
  BY TrimDrops, TrimKeeps
<1>2. /\ ~s.dx => Spans(s.rx, {p.x : p \in C})
      /\ ~s.dy => Spans(s.ry, {p.y : p \in C})
  BY KnownSpans
<1> HIDE DEF t, C, D
<1>3. ~t.dx => Spans(t.rx, {p.x : p \in D})
  BY <1>1, <1>2 DEF Spans
<1>4. ~t.dy => Spans(t.ry, {p.y : p \in D})
  BY <1>1, <1>2 DEF Spans
<1>5. QED BY <1>1, <1>3, <1>4, KnownSpans DEF t, D

\* A new limit does not touch the ranges but by what it drops.
LEMMA LimitedKnown ==
  ASSUME NEW s \in Series, RangeKnown(s), NEW m \in Limits \cup {Highest}
  PROVE  RangeKnown(Limited(s, m))
<1> DEFINE t == [s EXCEPT !.max = m]
<1>1. /\ t \in Series /\ t.points = s.points /\ t.rx = s.rx /\ t.ry = s.ry
      /\ t.dx = s.dx /\ t.dy = s.dy /\ Limited(s, m) = Trim(t)
  BY DEF Series, Limited
<1> HIDE DEF t
<1>2. Content(t) = Content(s)
  BY <1>1 DEF Content
<1>3. RangeKnown(t)
  BY <1>1, <1>2, KnownSpans
<1>4. QED BY <1>1, <1>3, TrimKnown

\* A sample outside a clean range becomes its end, and one inside leaves it to
\* be computed again.
LEMMA SpansMore ==
  ASSUME NEW r \in Interval, NEW S, S \subseteq Int, Spans(r, S), NEW v \in Int
  PROVE  /\ v > r.max => Spans([r EXCEPT !.max = v], S \cup {v})
         /\ v < r.min => Spans([r EXCEPT !.min = v], S \cup {v})
<1>1. r.min \in Int /\ r.max \in Int /\ r.min <= r.max
  BY DEF Spans, Interval
<1>2. /\ [r EXCEPT !.max = v].max = v /\ [r EXCEPT !.max = v].min = r.min
      /\ [r EXCEPT !.min = v].min = v /\ [r EXCEPT !.min = v].max = r.max
  BY DEF Interval
<1>3. QED BY <1>1, <1>2 DEF Spans

\* pushBack keeps a range that is known.
LEMMA PushedKnown ==
  ASSUME NEW s \in Series, NEW p \in Point, Sorted(s.points), RangeKnown(s)
  PROVE  RangeKnown(Pushed(s, p))
<1> DEFINE a == RangedX(s, p.x)
           r == RangedY(a, p.y)
           C == Content(s)
           D == Content(s) \cup {p}
<1>1. PICK u \in Series : /\ Pushed(s, p) = Trim(u) /\ Content(u) = D
                          /\ u.rx = r.rx /\ u.ry = r.ry /\ u.dx = r.dx /\ u.dy = r.dy
  BY PushedIsTrim
<1>2. /\ ~s.dx => Spans(s.rx, {q.x : q \in C})
      /\ ~s.dy => Spans(s.ry, {q.y : q \in C})
  BY KnownSpans
<1>3. p.x \in Int /\ p.y \in Int /\ p.x \in Times /\ p.y \in Values
  BY SeriesAssumption DEF Point
<1>4. /\ {q.x : q \in D} = {q.x : q \in C} \cup {p.x}
      /\ {q.y : q \in D} = {q.y : q \in C} \cup {p.y}
  OBVIOUS
<1>5. {q.x : q \in C} \subseteq Int /\ {q.y : q \in C} \subseteq Int
  <2>1. \A q \in C : q \in Point
    BY Contents
  <2>2. QED BY <2>1, SeriesAssumption DEF Point
<1>6. s.rx \in Interval /\ s.ry \in Interval /\ s.dx \in BOOLEAN /\ s.dy \in BOOLEAN
  BY DEF Series
<1>7. a \in Series /\ a.ry = s.ry /\ a.dy = s.dy
      /\ (~a.dx => ~s.dx /\ \/ p.x > s.rx.max /\ a.rx = [s.rx EXCEPT !.max = p.x]
                            \/ p.x < s.rx.min /\ a.rx = [s.rx EXCEPT !.min = p.x])
  <2>1. a \in Series
    BY <1>3, RangedKeeps
  <2>2. a.ry = s.ry /\ a.dy = s.dy
    BY DEF RangedX, Series
  <2>3. ASSUME ~a.dx
        PROVE  ~s.dx /\ \/ p.x > s.rx.max /\ a.rx = [s.rx EXCEPT !.max = p.x]
                        \/ p.x < s.rx.min /\ a.rx = [s.rx EXCEPT !.min = p.x]
    BY <2>3 DEF RangedX, Series
  <2>4. QED BY <2>1, <2>2, <2>3
<1>8. r.rx = a.rx /\ r.dx = a.dx
      /\ (~r.dy => ~a.dy /\ \/ p.y > a.ry.max /\ r.ry = [a.ry EXCEPT !.max = p.y]
                            \/ p.y < a.ry.min /\ r.ry = [a.ry EXCEPT !.min = p.y])
  <2>1. r.rx = a.rx /\ r.dx = a.dx
    BY <1>7 DEF RangedY, Series
  <2>2. ASSUME ~r.dy
        PROVE  ~a.dy /\ \/ p.y > a.ry.max /\ r.ry = [a.ry EXCEPT !.max = p.y]
                        \/ p.y < a.ry.min /\ r.ry = [a.ry EXCEPT !.min = p.y]
    BY <1>7, <2>2 DEF RangedY, Series
  <2>3. QED BY <2>1, <2>2
<1> HIDE DEF a, r, C, D
<1>9. ASSUME ~u.dx PROVE Spans(u.rx, {q.x : q \in D})
  <2> DEFINE S == {q.x : q \in C}
  <2>1. Spans(s.rx, S) /\ S \subseteq Int /\ s.rx \in Interval /\ p.x \in Int
    BY <1>1, <1>2, <1>3, <1>5, <1>6, <1>7, <1>8, <1>9
  <2>2. \/ p.x > s.rx.max /\ u.rx = [s.rx EXCEPT !.max = p.x]
        \/ p.x < s.rx.min /\ u.rx = [s.rx EXCEPT !.min = p.x]
    BY <1>1, <1>7, <1>8, <1>9
  <2> HIDE DEF S
  <2>3. /\ p.x > s.rx.max => Spans([s.rx EXCEPT !.max = p.x], S \cup {p.x})
        /\ p.x < s.rx.min => Spans([s.rx EXCEPT !.min = p.x], S \cup {p.x})
    BY <2>1, SpansMore
  <2>4. Spans(u.rx, S \cup {p.x})
    BY <2>2, <2>3
  <2>5. QED BY <1>4, <2>4 DEF S
<1>10. ASSUME ~u.dy PROVE Spans(u.ry, {q.y : q \in D})
  <2> DEFINE S == {q.y : q \in C}
  <2>1. Spans(s.ry, S) /\ S \subseteq Int /\ s.ry \in Interval /\ p.y \in Int
    BY <1>1, <1>2, <1>3, <1>5, <1>6, <1>7, <1>8, <1>10
  <2>2. \/ p.y > s.ry.max /\ u.ry = [s.ry EXCEPT !.max = p.y]
        \/ p.y < s.ry.min /\ u.ry = [s.ry EXCEPT !.min = p.y]
    BY <1>1, <1>7, <1>8, <1>10
  <2> HIDE DEF S
  <2>3. /\ p.y > s.ry.max => Spans([s.ry EXCEPT !.max = p.y], S \cup {p.y})
        /\ p.y < s.ry.min => Spans([s.ry EXCEPT !.min = p.y], S \cup {p.y})
    BY <2>1, SpansMore
  <2>4. Spans(u.ry, S \cup {p.y})
    BY <2>2, <2>3
  <2>5. QED BY <1>4, <2>4 DEF S
<1>11. RangeKnown(u)
  BY <1>1, <1>9, <1>10, KnownSpans
<1>12. QED BY <1>1, <1>11, TrimKnown

\* A series without samples has a range to be computed.
LEMMA EmptyKnown ==
  RangeKnown(Empty) /\ \A s \in Series : RangeKnown(Cleared(s))
<1>1. Empty.dx /\ Empty.dy /\ \A s \in Series : Cleared(s).dx /\ Cleared(s).dy
  BY DEF Empty, Cleared, Series
<1>2. QED BY <1>1 DEF RangeKnown, RangeTrue

\* The ranges are known to start with.
LEMMA InitRanges == Init => RangesKnown
  BY EmptyKnown DEF Init, RangesKnown

\* No step makes a clean range untrue but a merge that sorts, a value that is
\* overwritten or a NaN.
LEMMA StepRanges == IInv /\ RangesKnown /\ [Next]_vars => RangesKnown'
<1> SUFFICES ASSUME IInv, RangesKnown, [Next]_vars PROVE RangesKnown'
  OBVIOUS
<1>1. /\ plot \in Series /\ source \in Series /\ Sorted(source.points)
      /\ limit \in Limits \cup {Highest} /\ source.max \in Limits \cup {Highest}
      /\ Highest \in Limits \cup {Highest}
      /\ step = "none" => ~resort
      /\ mode = "idle" => step = "none"
      /\ step = "append" => ~resort /\ Sorted(plot.points)
  BY InvariantParts DEF Kept, Types, Series
<1>2. CASE Start
  BY <1>1, <1>2, EmptySeries, EmptyKnown, LimitedKnown DEF Start, RangesKnown, merging
<1>3. CASE \E file \in Files : Open(file)
  <2>1. RangeKnown(source')
    BY <1>3 DEF Open, Empty, RangeKnown, RangeTrue
  <2>2. QED BY <1>1, <1>3, <2>1 DEF Open, RangesKnown, merging
<1>4. ASSUME NEW p \in Sample, Receive(p) PROVE RangesKnown'
  <2>1. spoiled' \/ p \in Point
    BY <1>4 DEF Receive, Sample, Point
  <2>2. QED BY <1>1, <1>4, <2>1, PushedKnown DEF Receive, RangesKnown, merging
<1>5. CASE Stop
  BY <1>1, <1>5, EmptyKnown, LimitedKnown DEF Stop, RangesKnown, merging
<1>6. ASSUME NEW l \in Limits \cup {Highest}, SetLimit(l) PROVE RangesKnown'
  BY <1>1, <1>6, LimitedKnown DEF SetLimit, RangesKnown, merging
<1>7. CASE Erase
  BY <1>1, <1>7, EmptyKnown DEF Erase, RangesKnown, merging
<1>8. CASE AskRange
  <2> DEFINE X == [min |-> Min(TimesOf(plot)), max |-> Max(TimesOf(plot))]
             Y == [min |-> Min(ValuesOf(plot)), max |-> Max(ValuesOf(plot))]
  <2>1. \/ plot' = [plot EXCEPT !.dx = FALSE, !.rx = X]
        \/ plot' = [plot EXCEPT !.dy = FALSE, !.ry = Y]
    BY <1>8 DEF AskRange
  <2>2. plot.points # << >> /\ plot'.points = plot.points
        /\ TimesOf(plot') = TimesOf(plot) /\ ValuesOf(plot') = ValuesOf(plot)
    <3> HIDE DEF X, Y
    <3>1. plot'.points = plot.points
      BY <1>1, <2>1 DEF Series
    <3>2. QED BY <1>8, <3>1 DEF AskRange, TimesOf, ValuesOf
  <2>3. \/ ~plot'.dx /\ plot'.rx = X /\ plot'.dy = plot.dy /\ plot'.ry = plot.ry
        \/ ~plot'.dy /\ plot'.ry = Y /\ plot'.dx = plot.dx /\ plot'.rx = plot.rx
    BY <1>1, <2>1 DEF Series
  <2>4. RangeKnown(plot) => RangeKnown(plot')
    BY <2>2, <2>3 DEF RangeKnown, RangeTrue
  <2>5. QED BY <1>8, <2>4 DEF AskRange, RangesKnown, merging, history
<1>9. ASSUME NEW remove_older \in BOOLEAN, StartMove(remove_older) PROVE RangesKnown'
  <2> DEFINE old == IF remove_older THEN Cleared(plot) ELSE plot
             p == Limited(old, source.max)
  <2>1. plot' \in {p, source} /\ source' \in {p, source} /\ resort' = FALSE /\ spoiled' = spoiled
    BY <1>9 DEF StartMove
  <2>2. step = "none"
    BY <1>9 DEF StartMove
  <2>3. spoiled \/ RangeKnown(old)
    BY <1>1, <2>2, EmptyKnown DEF RangesKnown
  <2>4. spoiled \/ RangeKnown(p)
    BY <1>1, <2>3, EmptySeries, LimitedKnown
  <2> HIDE DEF p
  <2>5. QED BY <2>1, <2>4 DEF RangesKnown
<1>10. CASE Update
  BY <1>10 DEF Update, RangesKnown
<1>11. CASE AppendNext
  <2>1. source.points[next] \in Point
    BY <1>11, NextSample, InvariantParts DEF AppendNext
  <2>2. QED BY <1>1, <1>11, <2>1, PushedKnown DEF AppendNext, RangesKnown, history
<1>12. CASE MergeNext
  BY <1>12 DEF MergeNext, RangesKnown, history
<1>13. CASE EndMerge
  BY <1>1, <1>13, EmptyKnown DEF EndMerge, RangesKnown
<1>14. CASE EndMove
  BY <1>1, <1>14, EmptyKnown, LimitedKnown DEF EndMove, RangesKnown
<1>15. CASE UNCHANGED vars
  BY <1>15 DEF vars, merging, history, RangesKnown
<1>16. QED
  BY <1>2, <1>3, <1>4, <1>5, <1>6, <1>7, <1>8, <1>9, <1>10, <1>11, <1>12, <1>13, <1>14, <1>15
  DEF Next, Sample

\* The cached ranges of both series stay true through pushes, late samples,
\* trims, swaps and clears, until a merge sorts or a sample is overwritten or NaN.
THEOREM RangesAlwaysTrue == Spec => []RangesTrue
<1>1. IInv /\ RangesKnown => RangesTrue
  BY InvariantParts DEF Types, RangesKnown, RangeKnown, RangesTrue
<1>2. QED BY <1>1, Invariant, InitRanges, StepRanges, PTL DEF Spec

=============================================================================
