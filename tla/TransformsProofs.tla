-------------------------- MODULE TransformsProofs --------------------------
(***************************************************************************)
(* Theorems about Transforms for any functions, links between them, times, *)
(* files, limits and time offset, checked by TLAPS.                        *)
(***************************************************************************)
EXTENDS Transforms, SequenceTheorems, WellFoundedInduction, TLAPS

-----------------------------------------------------------------------------
\* Numbers.

\* Every set of naturals has a least one.
LEMMA LeastOne ==
  ASSUME NEW S, S \subseteq Nat, S # {}
  PROVE  \E x \in S : \A y \in S : x <= y
<1>1. \A x, y \in Nat : <<y, x>> \in OpToRel(<, Nat) <=> y < x
  BY DEF OpToRel
<1>2. PICK R : IsWellFoundedOn(R, Nat) /\ \A x, y \in Nat : <<y, x>> \in R <=> y < x
  BY <1>1, NatLessThanWellFounded, Zenon
<1>3. PICK x \in S : \A y \in S : <<y, x>> \notin R
  BY <1>2, WFMin
<1>4. \A y \in S : ~(y < x)
  BY <1>2, <1>3
<1>5. \A y \in S : x <= y
  BY <1>4
<1>6. QED BY <1>5

-----------------------------------------------------------------------------
\* Series.

\* Samples of a series have their type.
LEMMA Samples ==
  ASSUME NEW q \in Seq(Sample)
  PROVE  /\ Len(q) \in Nat
         /\ \A i \in 1 .. Len(q) : q[i] \in Sample /\ q[i].x \in Int /\ q[i].y \in Seq(Nat)
         /\ q # << >> => Len(q) >= 1 /\ Final(q) = q[Len(q)]
         /\ q = << >> => Len(q) = 0
<1>1. Len(q) \in Nat /\ \A i \in 1 .. Len(q) : q[i] \in Sample
  BY LenProperties, ElementOfSeq
<1>2. (q = << >>) <=> (Len(q) = 0)
  BY EmptySeq
<1>3. QED BY <1>1, <1>2 DEF Final, Sample

\* What is left of a series without its first n samples.
LEMMA Dropped ==
  ASSUME NEW q \in Seq(Sample), NEW n \in 0 .. Len(q)
  PROVE  LET r == SubSeq(q, n + 1, Len(q)) IN
           r \in Seq(Sample) /\ Len(r) = Len(q) - n /\ \A i \in 1 .. Len(r) : r[i] = q[n + i]
<1> DEFINE r == SubSeq(q, n + 1, Len(q))
<1>1. n \in Nat /\ n <= Len(q) /\ Len(q) \in Nat
  BY LenProperties
<1>2. n + 1 \in Int /\ Len(q) \in Int /\ \A i \in n + 1 .. Len(q) : q[i] \in Sample
  BY <1>1, ElementOfSeq
<1>3. /\ r \in Seq(Sample)
      /\ Len(r) = IF n + 1 <= Len(q) THEN Len(q) - (n + 1) + 1 ELSE 0
      /\ \A i \in 1 .. Len(q) - (n + 1) + 1 : r[i] = q[n + 1 + i - 1]
  BY <1>2, SubSeqProperties
<1> HIDE DEF r
<1>4. Len(r) = Len(q) - n
  BY <1>1, <1>3
<1>5. \A i \in 1 .. Len(r) : i \in 1 .. Len(q) - (n + 1) + 1 /\ n + 1 + i - 1 = n + i
  BY <1>1, <1>4
<1>6. QED BY <1>3, <1>4, <1>5 DEF r

\* Where trimRange stops: at the first sample from which the rest is short
\* enough.
LEMMA TrimPoint ==
  ASSUME NEW q \in Seq(Sample), NEW w \in Int
  PROVE  \E n \in 0 .. Len(q) :
           /\ Trim(q, w) \in Seq(Sample)
           /\ q # << >> => n < Len(q)
           /\ Len(Trim(q, w)) = Len(q) - n
           /\ \A i \in 1 .. Len(Trim(q, w)) : Trim(q, w)[i] = q[n + i]
           /\ \A k \in 0 .. (n - 1) :
                w # Highest /\ Len(q) - k > 2 /\ Final(q).x - q[k + 1].x > w
           /\ w # Highest /\ q # << >> => Stops(q, w, n)
<1> DEFINE At(r, n) ==
             /\ r \in Seq(Sample)
             /\ q # << >> => n < Len(q)
             /\ Len(r) = Len(q) - n
             /\ \A i \in 1 .. Len(r) : r[i] = q[n + i]
             /\ \A k \in 0 .. (n - 1) :
                  w # Highest /\ Len(q) - k > 2 /\ Final(q).x - q[k + 1].x > w
             /\ w # Highest /\ q # << >> => Stops(q, w, n)
<1>1. /\ Len(q) \in Nat /\ (q # << >> => Len(q) >= 1) /\ (q = << >> => Len(q) = 0)
      /\ \A i \in 1 .. Len(q) : q[i].x \in Int
      /\ q # << >> => Final(q).x \in Int
  BY Samples
<1>2. CASE w = Highest \/ q = << >>
  <2>1. Trim(q, w) = q
    BY <1>2 DEF Trim
  <2>2. 0 \in 0 .. Len(q) /\ At(q, 0)
    BY <1>1, <1>2
  <2> HIDE DEF At
  <2>3. \E n \in 0 .. Len(q) : At(Trim(q, w), n)
    BY <2>1, <2>2
  <2>4. QED BY <2>3 DEF At
<1>3. CASE ~(w = Highest \/ q = << >>)
  <2> DEFINE K == {k \in 0 .. Len(q) : Stops(q, w, k)}
             m == CHOOSE n \in 0 .. Len(q) :
                    Stops(q, w, n) /\ \A k \in 0 .. (n - 1) : ~Stops(q, w, k)
  <2>1. Len(q) - 1 \in K
    BY <1>1, <1>3 DEF Stops
  <2>2. PICK l \in K : \A k \in K : l <= k
    <3>1. K \subseteq Nat /\ K # {}
      BY <1>1, <2>1
    <3>2. QED BY <3>1, LeastOne
  <2>3. l \in 0 .. Len(q) /\ Stops(q, w, l) /\ \A k \in 0 .. (l - 1) : ~Stops(q, w, k)
    <3>1. \A k \in 0 .. (l - 1) : k \in 0 .. Len(q) /\ ~(l <= k)
      BY <1>1
    <3>2. QED BY <2>2, <3>1
  <2>4. m \in 0 .. Len(q) /\ Stops(q, w, m) /\ \A k \in 0 .. (m - 1) : ~Stops(q, w, k)
    BY <2>3
  <2> HIDE DEF m
  <2>5. m < Len(q)
    <3>1. SUFFICES ASSUME m = Len(q)
                   PROVE  FALSE
      BY <1>1, <2>4
    <3>2. Len(q) - 1 \in 0 .. (m - 1)
      BY <1>1, <1>3, <3>1
    <3>3. QED BY <2>1, <2>4, <3>2
  <2>6. Trim(q, w) = SubSeq(q, m + 1, Len(q))
    BY <1>3 DEF Trim, m
  <2> DEFINE r == SubSeq(q, m + 1, Len(q))
  <2>7. r \in Seq(Sample) /\ Len(r) = Len(q) - m /\ \A i \in 1 .. Len(r) : r[i] = q[m + i]
    BY <2>4, Dropped
  <2>8. \A k \in 0 .. (m - 1) : Len(q) - k > 2 /\ Final(q).x - q[k + 1].x > w
    <3> TAKE k \in 0 .. (m - 1)
    <3>1. k + 1 \in 1 .. Len(q) /\ q[k + 1].x \in Int
      BY <1>1, <2>4
    <3>2. ~Stops(q, w, k)
      BY <2>4
    <3>3. QED BY <1>1, <1>3, <3>1, <3>2 DEF Stops
  <2> HIDE DEF r
  <2>9. At(r, m)
    BY <1>3, <2>4, <2>5, <2>7, <2>8
  <2> HIDE DEF At
  <2>10. \E n \in 0 .. Len(q) : At(Trim(q, w), n)
    BY <2>4, <2>6, <2>9 DEF r
  <2>11. QED BY <2>10 DEF At
<1>4. QED BY <1>2, <1>3


\* trimRange drops samples at the front, and never the last one.
LEMMA Trimmed ==
  ASSUME NEW q \in Seq(Sample), NEW w \in Int
  PROVE  /\ Trim(q, w) \in Seq(Sample)
         /\ \E n \in 0 .. Len(q) :
              /\ q # << >> => n < Len(q)
              /\ Len(Trim(q, w)) = Len(q) - n
              /\ \A i \in 1 .. Len(Trim(q, w)) : Trim(q, w)[i] = q[n + i]
BY TrimPoint

\* upper_bound splits a series that is in the order of time.
LEMMA UpToSplits ==
  ASSUME NEW q \in Seq(Sample), Sorted(q), NEW t \in Int
  PROVE  /\ UpTo(q, t) \in 0 .. Len(q)
         /\ \A i \in 1 .. UpTo(q, t) : q[i].x <= t
         /\ \A i \in (UpTo(q, t) + 1) .. Len(q) : q[i].x > t
<1> DEFINE K == {n \in 0 .. Len(q) : n < Len(q) => t < q[n + 1].x}
<1>1. Len(q) \in Nat /\ \A i \in 1 .. Len(q) : q[i].x \in Int
  BY Samples
<1>2. PICK u \in K : \A k \in K : u <= k
  <2>1. K \subseteq Nat /\ Len(q) \in K
    BY <1>1
  <2>2. QED BY <2>1, LeastOne
<1>3. u \in 0 .. Len(q) /\ (u < Len(q) => t < q[u + 1].x)
  BY <1>2
<1>4. \A i \in 1 .. u : q[i].x <= t
  <2> SUFFICES ASSUME NEW i \in 1 .. u, ~(q[i].x <= t)
               PROVE  FALSE
    OBVIOUS
  <2>1. i \in 1 .. Len(q) /\ i - 1 \in 0 .. Len(q) /\ (i - 1) + 1 = i /\ ~(u <= i - 1)
    BY <1>1, <1>3
  <2>2. i - 1 \in K
    BY <1>1, <2>1
  <2>3. QED BY <1>2, <2>1, <2>2
<1>5. \A i \in (u + 1) .. Len(q) : q[i].x > t
  <2> SUFFICES ASSUME NEW i \in (u + 1) .. Len(q)
               PROVE  q[i].x > t
    OBVIOUS
  <2>1. u < Len(q) /\ u + 1 \in 1 .. Len(q) /\ i \in 1 .. Len(q) /\ u + 1 <= i
    BY <1>1, <1>3
  <2>2. q[u + 1].x <= q[i].x
    BY <2>1 DEF Sorted
  <2>3. QED BY <1>1, <1>3, <2>1, <2>2
<1>6. QED BY <1>3, <1>4, <1>5 DEF UpTo

\* What inserting after n samples makes.
LEMMA Inserted ==
  ASSUME NEW q \in Seq(Sample), NEW n \in 0 .. Len(q), NEW s \in Sample
  PROVE  /\ Insert(q, n, s) \in Seq(Sample)
         /\ Len(Insert(q, n, s)) = Len(q) + 1
         /\ \A i \in 1 .. Len(Insert(q, n, s)) :
              Insert(q, n, s)[i] = IF i <= n THEN q[i] ELSE IF i = n + 1 THEN s ELSE q[i - 1]
<1> DEFINE a == SubSeq(q, 1, n)
           b == SubSeq(q, n + 1, Len(q))
           c == a \o <<s>>
           r == c \o b
<1>1. n \in Nat /\ n <= Len(q) /\ Len(q) \in Nat
  BY LenProperties
<1>2. b \in Seq(Sample) /\ Len(b) = Len(q) - n /\ \A i \in 1 .. Len(b) : b[i] = q[n + i]
  BY Dropped
<1>3. a \in Seq(Sample) /\ Len(a) = n /\ \A i \in 1 .. n : a[i] = q[i]
  <2>1. 1 \in Int /\ n \in Int /\ \A i \in 1 .. n : q[i] \in Sample
    BY <1>1, ElementOfSeq
  <2>2. /\ a \in Seq(Sample)
        /\ Len(a) = IF 1 <= n THEN n - 1 + 1 ELSE 0
        /\ \A i \in 1 .. n - 1 + 1 : a[i] = q[1 + i - 1]
    BY <2>1, SubSeqProperties
  <2> HIDE DEF a
  <2>3. Len(a) = n /\ \A i \in 1 .. n : i \in 1 .. n - 1 + 1 /\ 1 + i - 1 = i
    BY <1>1, <2>2
  <2>4. QED BY <2>2, <2>3
<1> HIDE DEF a, b
<1>4. <<s>> \in Seq(Sample) /\ Len(<<s>>) = 1 /\ <<s>>[1] = s
  OBVIOUS
<1>5. /\ c \in Seq(Sample)
      /\ Len(c) = Len(a) + Len(<<s>>)
      /\ \A i \in 1 .. Len(a) + Len(<<s>>) : c[i] = IF i <= Len(a) THEN a[i] ELSE <<s>>[i - Len(a)]
  BY <1>3, <1>4, ConcatProperties, Zenon
<1>6. c \in Seq(Sample) /\ Len(c) = n + 1 /\ \A i \in 1 .. n + 1 : c[i] = IF i <= n THEN q[i] ELSE s
  BY <1>1, <1>3, <1>4, <1>5
<1> HIDE DEF c
<1>7. /\ r \in Seq(Sample)
      /\ Len(r) = Len(c) + Len(b)
      /\ \A i \in 1 .. Len(c) + Len(b) : r[i] = IF i <= Len(c) THEN c[i] ELSE b[i - Len(c)]
  BY <1>2, <1>6, ConcatProperties, Zenon
<1> HIDE DEF r
<1>8. Len(r) = Len(q) + 1
  BY <1>1, <1>2, <1>6, <1>7
<1>9. \A i \in 1 .. Len(r) :
        r[i] = IF i <= n THEN q[i] ELSE IF i = n + 1 THEN s ELSE q[i - 1]
  <2> TAKE i \in 1 .. Len(r)
  <2>1. CASE i <= n + 1
    BY <1>1, <1>2, <1>6, <1>7, <1>8, <2>1
  <2>2. CASE i > n + 1
    <3>1. i - (n + 1) \in 1 .. Len(b) /\ n + (i - (n + 1)) = i - 1
      BY <1>1, <1>2, <1>8, <2>2
    <3>2. r[i] = b[i - (n + 1)]
      BY <1>1, <1>2, <1>6, <1>7, <1>8, <2>2
    <3>3. QED BY <1>1, <1>2, <2>2, <3>1, <3>2
  <2>3. QED BY <1>1, <1>8, <2>1, <2>2
<1>10. QED BY <1>7, <1>8, <1>9 DEF a, b, c, r, Insert

\* CustomFunction::calculate adds what is later than the last output.
LEMMA Extended ==
  ASSUME NEW out \in Seq(Sample), NEW src \in Seq(Sample), NEW nm \in Nat, Sorted(src)
  PROVE  /\ Extend(nm, out, src) \in Seq(Sample)
         /\ \E n \in 0 .. Len(src) :
              LET r == Extend(nm, out, src)
                  t == IF out = << >> THEN Lowest ELSE Final(out).x
              IN  /\ Len(r) = Len(out) + (Len(src) - n)
                  /\ \A i \in 1 .. Len(out) : r[i] = out[i]
                  /\ \A i \in 1 .. (Len(src) - n) :
                       /\ r[Len(out) + i].x = src[n + i].x
                       /\ r[Len(out) + i].y = Append(src[n + i].y, nm)
                  /\ \A i \in 1 .. n : src[i].x <= t
                  /\ \A i \in (n + 1) .. Len(src) : src[i].x > t
<1> DEFINE t == IF out = << >> THEN Lowest ELSE Final(out).x
           n == UpTo(src, t)
           add == [i \in 1 .. (Len(src) - n) |->
                     [x |-> src[n + i].x, y |-> Append(src[n + i].y, nm)]]
           r == out \o add
<1>1. t \in Int
  BY Samples, TransformsAssumption
<1> HIDE DEF t
<1>2. /\ n \in 0 .. Len(src)
      /\ \A i \in 1 .. n : src[i].x <= t
      /\ \A i \in (n + 1) .. Len(src) : src[i].x > t
  BY <1>1, UpToSplits
<1> HIDE DEF n
<1>3. Len(src) \in Nat /\ Len(out) \in Nat
  BY Samples
<1>4. \A i \in 1 .. (Len(src) - n) :
        [x |-> src[n + i].x, y |-> Append(src[n + i].y, nm)] \in Sample
  <2> TAKE i \in 1 .. (Len(src) - n)
  <2>1. n + i \in 1 .. Len(src)
    BY <1>2, <1>3
  <2>2. src[n + i].x \in Int /\ src[n + i].y \in Seq(Nat)
    BY <2>1, Samples
  <2>3. Append(src[n + i].y, nm) \in Seq(Nat)
    BY <2>2, AppendProperties
  <2>4. QED BY <2>2, <2>3 DEF Sample
<1>5. Len(src) - n \in Nat
  BY <1>2, <1>3
<1>6. add \in [1 .. (Len(src) - n) -> Sample]
  BY <1>4
<1>7. add \in Seq(Sample) /\ Len(add) = Len(src) - n
  <2> HIDE DEF add
  <2>1. QED BY <1>5, <1>6, SeqDef, LenProperties
<1>8. \A i \in 1 .. (Len(src) - n) :
        add[i].x = src[n + i].x /\ add[i].y = Append(src[n + i].y, nm)
  OBVIOUS
<1> HIDE DEF add
<1>9. /\ r \in Seq(Sample) /\ Len(r) = Len(out) + Len(add)
      /\ \A i \in 1 .. Len(out) + Len(add) :
           r[i] = IF i <= Len(out) THEN out[i] ELSE add[i - Len(out)]
  BY <1>7, ConcatProperties, Zenon
<1> HIDE DEF r
<1>10. /\ Len(r) = Len(out) + (Len(src) - n)
       /\ \A i \in 1 .. Len(out) : r[i] = out[i]
  BY <1>3, <1>5, <1>7, <1>9
<1>11. \A i \in 1 .. (Len(src) - n) : r[Len(out) + i] = add[i]
  <2> TAKE i \in 1 .. (Len(src) - n)
  <2>1. /\ Len(out) + i \in 1 .. Len(out) + Len(add)
        /\ ~(Len(out) + i <= Len(out)) /\ (Len(out) + i) - Len(out) = i
    BY <1>3, <1>5, <1>7
  <2>2. QED BY <1>9, <2>1
<1>12. r = Extend(nm, out, src)
  BY DEF r, add, n, t, Extend
<1>13. /\ r \in Seq(Sample) /\ n \in 0 .. Len(src)
       /\ Len(r) = Len(out) + (Len(src) - n)
       /\ \A i \in 1 .. Len(out) : r[i] = out[i]
       /\ \A i \in 1 .. (Len(src) - n) :
            r[Len(out) + i].x = src[n + i].x /\ r[Len(out) + i].y = Append(src[n + i].y, nm)
       /\ \A i \in 1 .. n : src[i].x <= t
       /\ \A i \in (n + 1) .. Len(src) : src[i].x > t
  BY <1>2, <1>8, <1>9, <1>10, <1>11
<1>14. QED BY <1>12, <1>13 DEF t

-----------------------------------------------------------------------------
\* What keeps a series in the order of time, true to its source and without
\* a sample twice.

Sound(q, times) == Sorted(q) /\ Sourced(q, times) /\ Once(q)

\* A part of a series is as sound as the series.
LEMMA TrimSound ==
  ASSUME NEW q \in Seq(Sample), NEW w \in Int
  PROVE  /\ Trim(q, w) \in Seq(Sample)
         /\ Sorted(q) => Sorted(Trim(q, w))
         /\ \A times : Sound(q, times) => Sound(Trim(q, w), times)
         /\ Trim(q, w) = << >> <=> q = << >>
         /\ q # << >> => Final(Trim(q, w)) = Final(q)
<1> DEFINE r == Trim(q, w)
<1>1. r \in Seq(Sample)
  BY Trimmed
<1>2. PICK n \in 0 .. Len(q) :
        /\ q # << >> => n < Len(q)
        /\ Len(r) = Len(q) - n
        /\ \A i \in 1 .. Len(r) : r[i] = q[n + i]
  BY Trimmed
<1> HIDE DEF r
<1>3. /\ Len(q) \in Nat /\ Len(r) \in Nat
      /\ (q = << >> <=> Len(q) = 0) /\ (r = << >> <=> Len(r) = 0)
  BY <1>1, Samples
<1>4. \A i \in 1 .. Len(r) : n + i \in 1 .. Len(q) /\ r[i] = q[n + i]
  BY <1>2, <1>3
<1>5. Sorted(q) => Sorted(r)
  <2> SUFFICES ASSUME Sorted(q), NEW i \in 1 .. Len(r), NEW j \in 1 .. Len(r), i <= j
               PROVE  r[i].x <= r[j].x
    BY DEF Sorted
  <2>1. n + i \in 1 .. Len(q) /\ n + j \in 1 .. Len(q) /\ n + i <= n + j
    BY <1>3, <1>4
  <2>2. q[n + i].x <= q[n + j].x
    BY <2>1 DEF Sorted
  <2>3. QED BY <1>4, <2>2
<1>6. \A times : Sourced(q, times) => Sourced(r, times)
  BY <1>4 DEF Sourced
<1>7. Once(q) => Once(r)
  BY <1>2, <1>3, <1>4 DEF Once
<1>8. r = << >> <=> q = << >>
  BY <1>2, <1>3
<1>9. q # << >> => Final(r) = Final(q)
  <2> SUFFICES ASSUME q # << >>
               PROVE  Final(r) = Final(q)
    OBVIOUS
  <2>1. Len(r) \in 1 .. Len(r) /\ n + Len(r) = Len(q)
    BY <1>2, <1>3
  <2>2. QED BY <1>4, <2>1 DEF Final
<1>10. QED BY <1>1, <1>5, <1>6, <1>7, <1>8, <1>9 DEF r, Sound

\* A function that goes on does not take a sample twice, and is not behind its
\* source then.
LEMMA ExtendSound ==
  ASSUME NEW times \in Seq(Times), NEW nm \in Nat,
         NEW out \in Seq(Sample), NEW src \in Seq(Sample),
         Sound(out, times), Sound(src, times)
  PROVE  /\ Extend(nm, out, src) \in Seq(Sample)
         /\ Sound(Extend(nm, out, src), times)
         /\ NotBehind(Extend(nm, out, src), src)
<1> DEFINE r == Extend(nm, out, src)
           t == IF out = << >> THEN Lowest ELSE Final(out).x
<1> USE DEF Sound
<1>1. r \in Seq(Sample)
  BY Extended
<1>2. PICK n \in 0 .. Len(src) :
        /\ Len(r) = Len(out) + (Len(src) - n)
        /\ \A i \in 1 .. Len(out) : r[i] = out[i]
        /\ \A i \in 1 .. (Len(src) - n) :
             r[Len(out) + i].x = src[n + i].x /\ r[Len(out) + i].y = Append(src[n + i].y, nm)
        /\ \A i \in 1 .. n : src[i].x <= t
        /\ \A i \in (n + 1) .. Len(src) : src[i].x > t
  BY Extended
<1> HIDE DEF r
<1>3. /\ Len(src) \in Nat /\ Len(out) \in Nat /\ Len(r) \in Nat
      /\ (out = << >> <=> Len(out) = 0) /\ (src = << >> <=> Len(src) = 0)
      /\ (r = << >> <=> Len(r) = 0)
      /\ (out # << >> => Final(out) = out[Len(out)])
      /\ \A i \in 1 .. Len(out) : out[i].x \in Int
      /\ \A i \in 1 .. Len(r) : r[i].x \in Int
      /\ \A i \in 1 .. Len(src) : src[i].x \in Int /\ src[i].y \in Seq(Nat)
  BY <1>1, Samples
<1>4. t \in Int
  BY <1>3, TransformsAssumption
<1>5. \A i \in 1 .. Len(out) : out[i].x <= t
  <2> TAKE i \in 1 .. Len(out)
  <2>1. out # << >> /\ Len(out) \in 1 .. Len(out) /\ i <= Len(out)
    BY <1>3
  <2>2. out[i].x <= out[Len(out)].x
    BY <2>1 DEF Sorted
  <2>3. QED BY <1>3, <2>1, <2>2
<1> HIDE DEF t
<1> DEFINE of(i) == (i - Len(out)) + n
<1>6. /\ n \in Nat /\ n <= Len(src) /\ Len(src) \in Nat /\ Len(out) \in Nat
       /\ Len(r) = Len(out) + (Len(src) - n)
  BY <1>2, <1>3
<1>7. /\ \A i \in 1 .. Len(r) : i <= Len(out) => i \in 1 .. Len(out) /\ r[i] = out[i] /\ r[i].x <= t
      /\ \A i \in 1 .. Len(r) : ~(i <= Len(out)) =>
           /\ of(i) \in 1 .. Len(src)
           /\ r[i].x = src[of(i)].x /\ r[i].y = Append(src[of(i)].y, nm)
           /\ r[i].x > t
  <2>1. ASSUME NEW i \in 1 .. Len(r), i <= Len(out)
        PROVE  i \in 1 .. Len(out) /\ r[i] = out[i] /\ r[i].x <= t
    BY <1>2, <1>3, <1>5, <2>1
  <2>2. ASSUME NEW i \in 1 .. Len(r), ~(i <= Len(out))
        PROVE  /\ of(i) \in 1 .. Len(src)
               /\ r[i].x = src[of(i)].x /\ r[i].y = Append(src[of(i)].y, nm)
               /\ r[i].x > t
    <3> DEFINE d == i - Len(out)
    <3>1. d \in 1 .. (Len(src) - n)
      BY <1>6, <2>2
    <3>2. /\ Len(out) + d = i /\ n + d = of(i)
          /\ n + d \in (n + 1) .. Len(src) /\ n + d \in 1 .. Len(src)
      BY <1>6, <3>1
    <3> HIDE DEF d
    <3>3. /\ r[i].x = src[n + d].x /\ r[i].y = Append(src[n + d].y, nm)
          /\ src[n + d].x > t
      BY <1>2, <3>1, <3>2
    <3>4. QED BY <3>2, <3>3
  <2>3. QED BY <2>1, <2>2
<1>8. \A i, j \in 1 .. Len(r) : (of(i) <= of(j) <=> i <= j) /\ (of(i) = of(j) <=> i = j)
  BY <1>6
<1> HIDE DEF of
<1>9. \A k \in 1 .. Len(src) :
        /\ Append(src[k].y, nm) # << >> /\ Append(src[k].y, nm)[1] = src[k].y[1]
  <2> TAKE k \in 1 .. Len(src)
  <2>1. src[k].y \in Seq(Nat) /\ src[k].y # << >>
    BY <1>3 DEF Sourced
  <2>2. Len(src[k].y) >= 1 /\ Len(src[k].y) \in Nat
    BY <2>1, EmptySeq, LenProperties
  <2>3. /\ Append(src[k].y, nm) \in Seq(Nat)
        /\ Len(Append(src[k].y, nm)) = Len(src[k].y) + 1
        /\ Append(src[k].y, nm)[1] = src[k].y[1]
    BY <2>1, <2>2, AppendProperties
  <2>4. Len(Append(src[k].y, nm)) # 0
    BY <2>2, <2>3
  <2>5. QED BY <2>3, <2>4, EmptySeq
<1>10. Sorted(r)
  <2> SUFFICES ASSUME NEW i \in 1 .. Len(r), NEW j \in 1 .. Len(r), i <= j
               PROVE  r[i].x <= r[j].x
    BY DEF Sorted
  <2>1. CASE i <= Len(out) /\ j <= Len(out)
    BY <1>3, <1>7, <2>1 DEF Sorted
  <2>2. CASE i <= Len(out) /\ ~(j <= Len(out))
    <3>1. r[i].x <= t /\ r[j].x > t /\ r[i].x \in Int /\ r[j].x \in Int
      BY <1>3, <1>7, <2>2
    <3>2. QED BY <1>4, <3>1
  <2>3. CASE ~(i <= Len(out)) /\ ~(j <= Len(out))
    <3>1. of(i) <= of(j) /\ of(i) \in 1 .. Len(src) /\ of(j) \in 1 .. Len(src)
      BY <1>7, <1>8, <2>3
    <3>2. QED BY <1>7, <2>3, <3>1 DEF Sorted
  <2>4. QED BY <1>3, <2>1, <2>2, <2>3
<1>11. Sourced(r, times)
  <2> SUFFICES ASSUME NEW i \in 1 .. Len(r)
               PROVE  /\ r[i].y # << >> /\ r[i].y[1] \in 1 .. Len(times)
                      /\ r[i].x = times[r[i].y[1]]
    BY DEF Sourced
  <2>1. CASE i <= Len(out)
    BY <1>7, <2>1 DEF Sourced
  <2>2. CASE ~(i <= Len(out))
    <3>1. of(i) \in 1 .. Len(src) /\ r[i].x = src[of(i)].x /\ r[i].y = Append(src[of(i)].y, nm)
      BY <1>7, <2>2
    <3>2. r[i].y # << >> /\ r[i].y[1] = src[of(i)].y[1]
      BY <1>9, <3>1
    <3>3. QED BY <3>1, <3>2 DEF Sourced
  <2>3. QED BY <2>1, <2>2
<1>12. Once(r)
  <2> SUFFICES ASSUME NEW i \in 1 .. Len(r), NEW j \in 1 .. Len(r), r[i].y[1] = r[j].y[1]
               PROVE  i = j
    BY DEF Once
  <2>1. r[i].x = r[j].x
    BY <1>11 DEF Sourced
  <2>2. CASE i <= Len(out) /\ j <= Len(out)
    BY <1>3, <1>7, <2>2 DEF Once
  <2>3. CASE ~(i <= Len(out)) /\ ~(j <= Len(out))
    <3>1. /\ of(i) \in 1 .. Len(src) /\ of(j) \in 1 .. Len(src)
          /\ src[of(i)].y[1] = src[of(j)].y[1]
      BY <1>7, <1>9, <2>3
    <3>2. QED BY <1>8, <3>1 DEF Once
  <2>4. (i <= Len(out)) = (j <= Len(out))
    <3>1. r[i].x \in Int
      BY <1>3, <1>7
    <3>2. (i <= Len(out)) <=> r[i].x <= t
      BY <1>3, <1>4, <1>7, <3>1
    <3>3. (j <= Len(out)) <=> r[j].x <= t
      BY <1>3, <1>4, <1>7, <2>1, <3>1
    <3>4. QED BY <2>1, <3>2, <3>3
  <2>5. QED BY <2>2, <2>3, <2>4
<1>13. NotBehind(r, src)
  <2> SUFFICES ASSUME src # << >>
               PROVE  r # << >> /\ Final(r).x >= Final(src).x
    BY DEF NotBehind
  <2>1. Len(src) \in 1 .. Len(src) /\ Final(src) = src[Len(src)] /\ src[Len(src)].x \in Int
    BY <1>3 DEF Final
  <2>2. CASE n = Len(src)
    <3>1. Final(src).x <= t
      BY <1>2, <2>1, <2>2
    <3>2. out # << >>
      <4>1. Final(src).x > Lowest
        <5>1. src[Len(src)].y[1] \in 1 .. Len(times)
              /\ src[Len(src)].x = times[src[Len(src)].y[1]]
          BY <2>1 DEF Sourced
        <5>2. src[Len(src)].x \in Times
          BY <5>1, ElementOfSeq
        <5>3. QED BY <2>1, <5>2, TransformsAssumption
      <4>2. QED BY <2>1, <3>1, <4>1, TransformsAssumption DEF t
    <3>3. Len(r) = Len(out) /\ Len(out) \in 1 .. Len(out) /\ r # << >>
      BY <1>2, <1>3, <2>2, <3>2
    <3>4. Final(r) = Final(out) /\ Final(out).x = t
      BY <1>2, <3>2, <3>3 DEF t, Final
    <3>5. QED BY <1>4, <2>1, <3>1, <3>3, <3>4
  <2>3. CASE n # Len(src)
    <3>1. /\ Len(src) - n \in 1 .. (Len(src) - n) /\ n + (Len(src) - n) = Len(src)
          /\ Len(r) >= 1
      BY <1>2, <1>3, <2>3
    <3>2. r[Len(r)].x = src[Len(src)].x
      BY <1>2, <3>1
    <3>3. QED BY <1>3, <2>1, <3>1, <3>2 DEF Final
  <2>4. QED BY <2>2, <2>3
<1>14. QED BY <1>1, <1>10, <1>11, <1>12, <1>13 DEF r

\* Samples keep their times when more come.
LEMMA StampGrows ==
  ASSUME NEW a \in Seq(Times), NEW b \in Seq(Times), Len(a) <= Len(b),
         \A i \in 1 .. Len(a) : b[i] = a[i],
         NEW q \in Seq(Sample), Sound(q, a)
  PROVE  Sound(q, b)
<1>1. Len(a) \in Nat /\ Len(b) \in Nat
  BY LenProperties
<1>2. \A k \in 1 .. Len(a) : k \in 1 .. Len(b) /\ b[k] = a[k]
  BY <1>1
<1>3. Sourced(q, b)
  BY <1>2 DEF Sound, Sourced
<1>4. QED BY <1>3 DEF Sound

\* There is nothing wrong with an empty series.
LEMMA EmptySound ==
  << >> \in Seq(Sample) /\ \A times : Sound(<< >>, times)
  BY EmptySeq DEF Sound, Sorted, Sourced, Once

\* What a file brings is in the order of time, with numbers of its own.
LEMMA NumberedSound ==
  ASSUME TypeOK, NEW times \in Files
  PROVE  /\ stamp \o times \in Seq(Times)
         /\ Numbered(times) \in Seq(Sample) /\ Sound(Numbered(times), stamp \o times)
         /\ \A q \in Seq(Sample) : Sound(q, stamp) => Sound(q, stamp \o times)
<1> DEFINE all == stamp \o times
           new == Numbered(times)
<1>1. /\ times \in Seq(Times) /\ stamp \in Seq(Times)
      /\ Len(times) \in Nat /\ Len(stamp) \in Nat
      /\ \A i, j \in 1 .. Len(times) : i <= j => times[i] <= times[j]
      /\ \A i \in 1 .. Len(times) : times[i] \in Int
  <2>1. times \in Seq(Times) /\ stamp \in Seq(Times)
    BY TransformsAssumption DEF TypeOK
  <2>2. QED BY <2>1, TransformsAssumption, LenProperties, ElementOfSeq
<1>2. /\ all \in Seq(Times) /\ Len(all) = Len(stamp) + Len(times)
      /\ \A i \in 1 .. Len(stamp) + Len(times) :
           all[i] = IF i <= Len(stamp) THEN stamp[i] ELSE times[i - Len(stamp)]
  BY <1>1, ConcatProperties, Zenon
<1> HIDE DEF all
<1>3. \A i \in 1 .. Len(times) :
        Len(stamp) + i \in 1 .. Len(all) /\ all[Len(stamp) + i] = times[i]
  <2> TAKE i \in 1 .. Len(times)
  <2>1. /\ Len(stamp) + i \in 1 .. Len(stamp) + Len(times)
        /\ ~(Len(stamp) + i <= Len(stamp)) /\ (Len(stamp) + i) - Len(stamp) = i
    BY <1>1
  <2>2. QED BY <1>2, <2>1
<1>4. \A i \in 1 .. Len(times) : [x |-> times[i], y |-> <<Len(stamp) + i>>] \in Sample
  <2> TAKE i \in 1 .. Len(times)
  <2>1. Len(stamp) + i \in Nat
    BY <1>1
  <2>2. <<Len(stamp) + i>> \in Seq(Nat)
    BY <2>1
  <2>3. QED BY <1>1, <2>2 DEF Sample
<1>5. new \in [1 .. Len(times) -> Sample]
  BY <1>4 DEF Numbered
<1>6. /\ \A i \in 1 .. Len(times) : new[i].x = times[i] /\ new[i].y = <<Len(stamp) + i>>
      /\ \A i \in 1 .. Len(times) : new[i].y # << >> /\ new[i].y[1] = Len(stamp) + i
  <2>1. \A i \in 1 .. Len(times) : new[i].x = times[i] /\ new[i].y = <<Len(stamp) + i>>
    BY DEF Numbered
  <2>2. \A e : <<e>> # << >> /\ <<e>>[1] = e
    OBVIOUS
  <2> HIDE DEF new
  <2>3. QED BY <2>1, <2>2, Zenon
<1> HIDE DEF new
<1>7. new \in Seq(Sample) /\ Len(new) = Len(times)
  BY <1>1, <1>5, SeqDef, LenProperties
<1>8. Sorted(new)
  BY <1>1, <1>6, <1>7 DEF Sorted
<1>9. Sourced(new, all)
  BY <1>3, <1>6, <1>7 DEF Sourced
<1>10. Once(new)
  BY <1>1, <1>6, <1>7 DEF Once
<1>11. \A q \in Seq(Sample) : Sound(q, stamp) => Sound(q, all)
  <2>1. Len(stamp) <= Len(all) /\ \A i \in 1 .. Len(stamp) : all[i] = stamp[i]
    BY <1>1, <1>2
  <2>2. QED BY <1>1, <1>2, <2>1, StampGrows
<1>12. QED BY <1>2, <1>7, <1>8, <1>9, <1>10, <1>11 DEF all, new, Sound

\* So is the base series once MergeData has placed a sample in it.
LEMMA MergedSound ==
  ASSUME TypeOK, Sound(series[Base], stamp), NEW t \in Times,
         NEW r \in Merged(series[Base], Numbered(<<t>>)[1])
  PROVE  /\ Append(stamp, t) \in Seq(Times)
         /\ r \in Seq(Sample) /\ Sound(r, Append(stamp, t))
         /\ \A q \in Seq(Sample) : Sound(q, stamp) => Sound(q, Append(stamp, t))
<1> DEFINE q == series[Base]
           all == Append(stamp, t)
           s == [x |-> t, y |-> <<Len(stamp) + 1>>]
<1> USE DEF Sound
<1>1. /\ stamp \in Seq(Times) /\ Len(stamp) \in Nat
      /\ q \in Seq(Sample) /\ t \in Int
  BY TransformsAssumption, LenProperties DEF TypeOK, Names
<1>2. /\ all \in Seq(Times) /\ Len(all) = Len(stamp) + 1
      /\ \A i \in 1 .. Len(stamp) : all[i] = stamp[i]
      /\ all[Len(stamp) + 1] = t
  BY <1>1, AppendProperties
<1>3. s \in Sample
  <2>1. Len(stamp) + 1 \in Nat
    BY <1>1
  <2>2. <<Len(stamp) + 1>> \in Seq(Nat)
    BY <2>1
  <2>3. QED BY <1>1, <2>2 DEF Sample
<1>4. s.x = t /\ s.y # << >> /\ s.y[1] = Len(stamp) + 1
  OBVIOUS
<1>5. Numbered(<<t>>)[1] = s
  BY <1>1 DEF Numbered
<1> HIDE DEF s, all
<1>6. \A p \in Seq(Sample) : Sound(p, stamp) => Sound(p, all)
  BY <1>1, <1>2, StampGrows
<1>7. CASE r = <<s>>
  <2>1. r \in Seq(Sample) /\ Len(r) = 1 /\ r[1] = s
    BY <1>3, <1>7
  <2>2. \A i \in 1 .. Len(r) : i = 1
    BY <2>1
  <2>3. Sorted(r) /\ Once(r)
    BY <1>1, <1>4, <2>1, <2>2 DEF Sorted, Once
  <2>4. Sourced(r, all)
    BY <1>1, <1>2, <1>4, <2>1, <2>2 DEF Sourced
  <2>5. QED BY <1>2, <1>6, <2>1, <2>3, <2>4 DEF all
<1>8. ASSUME NEW n \in 0 .. Len(q), r = Insert(q, n, s), Sorted(r)
      PROVE  r \in Seq(Sample) /\ Sound(r, all)
  <2>1. /\ r \in Seq(Sample) /\ Len(r) = Len(q) + 1 /\ Len(q) \in Nat
        /\ \A i \in 1 .. Len(r) :
             r[i] = IF i <= n THEN q[i] ELSE IF i = n + 1 THEN s ELSE q[i - 1]
    BY <1>1, <1>3, <1>8, Inserted, LenProperties
  <2> DEFINE from(i) == IF i <= n THEN i ELSE i - 1
  <2>2. \A i \in 1 .. Len(r) : i # n + 1 =>
          from(i) \in 1 .. Len(q) /\ r[i] = q[from(i)]
    BY <2>1
  <2>3. \A i, j \in 1 .. Len(r) : i # n + 1 /\ j # n + 1 /\ from(i) = from(j) => i = j
    BY <2>1
  <2>4. \A i \in 1 .. Len(r) : i = n + 1 => r[i] = s
    BY <2>1
  <2> HIDE DEF from
  <2>5. \A i \in 1 .. Len(r) :
          /\ r[i].y # << >> /\ r[i].y[1] \in 1 .. Len(all) /\ r[i].x = all[r[i].y[1]]
          /\ i = n + 1 <=> r[i].y[1] = Len(stamp) + 1
    <3> TAKE i \in 1 .. Len(r)
    <3>1. CASE i = n + 1
      BY <1>1, <1>2, <1>4, <2>4, <3>1
    <3>2. CASE i # n + 1
      <4>1. /\ r[i].y # << >> /\ r[i].y[1] \in 1 .. Len(stamp)
            /\ r[i].x = stamp[r[i].y[1]]
        BY <2>2, <3>2 DEF Sourced
      <4>2. r[i].y[1] # Len(stamp) + 1 /\ r[i].y[1] \in 1 .. Len(all)
        BY <1>1, <1>2, <4>1
      <4>3. QED BY <1>2, <3>2, <4>1, <4>2
    <3>3. QED BY <3>1, <3>2
  <2>6. Once(r)
    <3> SUFFICES ASSUME NEW i \in 1 .. Len(r), NEW j \in 1 .. Len(r), r[i].y[1] = r[j].y[1]
                 PROVE  i = j
      BY DEF Once
    <3>1. CASE i = n + 1 \/ j = n + 1
      BY <2>5, <3>1
    <3>2. CASE i # n + 1 /\ j # n + 1
      <4>1. from(i) = from(j)
        BY <2>2, <3>2 DEF Once
      <4>2. QED BY <2>3, <3>2, <4>1
    <3>3. QED BY <3>1, <3>2
  <2>7. QED BY <1>8, <2>1, <2>5, <2>6 DEF Sourced
<1>9. r = <<s>> \/ \E n \in 0 .. Len(q) : r = Insert(q, n, s) /\ Sorted(r)
  BY <1>5 DEF Merged, Sorted
<1>10. QED BY <1>2, <1>6, <1>7, <1>8, <1>9 DEF all

\* The curve stays in the order of time, and the loop on a natural number.
LEMMA PushSorted ==
  ASSUME NEW q \in Seq(Sample), Sorted(q), NEW s \in Sample
  PROVE  Push(q, s) \in Seq(Sample) /\ Sorted(Push(q, s))
<1> DEFINE n == UpTo(q, s.x)
           r == Push(q, s)
<1>1. s.x \in Int /\ Len(q) \in Nat /\ \A i \in 1 .. Len(q) : q[i].x \in Int
  BY Samples DEF Sample
<1>2. /\ n \in 0 .. Len(q)
      /\ \A i \in 1 .. n : q[i].x <= s.x
      /\ \A i \in (n + 1) .. Len(q) : q[i].x > s.x
  BY <1>1, UpToSplits
<1>3. /\ r \in Seq(Sample) /\ Len(r) = Len(q) + 1
      /\ \A i \in 1 .. Len(r) :
           r[i] = IF i <= n THEN q[i] ELSE IF i = n + 1 THEN s ELSE q[i - 1]
  <2>1. r = Insert(q, n, s)
    BY DEF Push
  <2> HIDE DEF n, r
  <2>2. n \in 0 .. Len(q)
    BY <1>2
  <2>3. /\ Insert(q, n, s) \in Seq(Sample)
        /\ Len(Insert(q, n, s)) = Len(q) + 1
        /\ \A i \in 1 .. Len(Insert(q, n, s)) :
             Insert(q, n, s)[i] = IF i <= n THEN q[i] ELSE IF i = n + 1 THEN s ELSE q[i - 1]
    BY <2>2, Inserted
  <2>4. QED BY <2>1, <2>3, Zenon
<1> HIDE DEF n, r
<1>4. Sorted(r)
  <2> SUFFICES ASSUME NEW i \in 1 .. Len(r), NEW j \in 1 .. Len(r), i <= j
               PROVE  r[i].x <= r[j].x
    BY DEF Sorted
  <2>1. CASE i <= n /\ j <= n
    BY <1>1, <1>2, <1>3, <2>1 DEF Sorted
  <2>2. CASE i <= n /\ j = n + 1
    BY <1>1, <1>2, <1>3, <2>2
  <2>3. CASE i <= n /\ j > n + 1
    <3>1. i \in 1 .. n /\ j - 1 \in (n + 1) .. Len(q) /\ i \in 1 .. Len(q) /\ j - 1 \in 1 .. Len(q)
      BY <1>1, <1>2, <1>3, <2>3
    <3>2. q[i].x <= s.x /\ q[j - 1].x > s.x /\ q[i].x \in Int /\ q[j - 1].x \in Int
      BY <1>1, <1>2, <3>1
    <3>3. r[i] = q[i] /\ r[j] = q[j - 1]
      BY <1>1, <1>2, <1>3, <2>3
    <3>4. QED BY <1>1, <3>2, <3>3
  <2>4. CASE i = n + 1 /\ j = n + 1
    BY <1>1, <1>2, <1>3, <2>4
  <2>5. CASE i = n + 1 /\ j > n + 1
    <3>1. j - 1 \in (n + 1) .. Len(q) /\ j - 1 \in 1 .. Len(q)
      BY <1>1, <1>2, <1>3, <2>5
    <3>2. q[j - 1].x > s.x /\ q[j - 1].x \in Int
      BY <1>1, <1>2, <3>1
    <3>3. r[i] = s /\ r[j] = q[j - 1]
      BY <1>1, <1>2, <1>3, <2>5
    <3>4. QED BY <1>1, <3>2, <3>3
  <2>6. CASE i > n + 1 /\ j > n + 1
    <3>1. i - 1 \in 1 .. Len(q) /\ j - 1 \in 1 .. Len(q) /\ i - 1 <= j - 1
      BY <1>1, <1>2, <1>3, <2>6
    <3>2. r[i] = q[i - 1] /\ r[j] = q[j - 1]
      BY <1>1, <1>2, <1>3, <2>6
    <3>3. QED BY <3>1, <3>2 DEF Sorted
  <2>7. QED BY <1>2, <2>1, <2>2, <2>3, <2>4, <2>5, <2>6
<1>5. QED BY <1>3, <1>4 DEF r

LEMMA IndexType ==
  ASSUME NEW q \in Seq(Sample), q # << >>, NEW t \in Int
  PROVE  IndexFromX(q, t) \in Nat /\ IndexFromX(q, t) > 0
<1> DEFINE first == CHOOSE i \in 1 .. Len(q) :
                      q[i].x >= t /\ \A j \in 1 .. (i - 1) : q[j].x < t
           n == IF \E i \in 1 .. Len(q) : q[i].x >= t THEN first ELSE Len(q)
<1>1. Len(q) \in Nat /\ Len(q) >= 1 /\ \A i \in 1 .. Len(q) : q[i].x \in Int
  BY Samples
<1>2. (\E i \in 1 .. Len(q) : q[i].x >= t) => first \in 1 .. Len(q)
  <2> SUFFICES ASSUME \E i \in 1 .. Len(q) : q[i].x >= t
               PROVE  first \in 1 .. Len(q)
    OBVIOUS
  <2> DEFINE K == {i \in 1 .. Len(q) : q[i].x >= t}
  <2>1. PICK l \in K : \A k \in K : l <= k
    <3>1. K \subseteq Nat /\ K # {}
      BY <1>1
    <3>2. QED BY <3>1, LeastOne
  <2>2. l \in 1 .. Len(q) /\ q[l].x >= t /\ \A j \in 1 .. (l - 1) : q[j].x < t
    <3>1. \A j \in 1 .. (l - 1) : j \in 1 .. Len(q) /\ ~(l <= j)
      BY <1>1
    <3>2. QED BY <1>1, <2>1, <3>1
  <2>3. QED BY <2>2
<1> HIDE DEF first
<1>3. n \in 1 .. Len(q)
  BY <1>1, <1>2
<1>4. IndexFromX(q, t) = IF n > 1 /\ Distance(q[n - 1].x, t) < Distance(q[n].x, t)
                          THEN n - 1 ELSE n
  BY DEF IndexFromX, first
<1> HIDE DEF n
<1>5. QED BY <1>1, <1>3, <1>4

-----------------------------------------------------------------------------
\* The inductive invariant.

\* The types of what is not a series.
Types ==
  /\ order \in [Functions -> Nat]
  /\ created \in Nat /\ replots \in Nat /\ at \in Nat /\ at > 0
  /\ streaming \in BOOLEAN /\ again \in BOOLEAN
  /\ limit \in Int /\ last \in Int
  /\ step \in {"idle", "move", "functions", "curve"}
  /\ pending \subseteq Functions
  /\ disturbed \subseteq Names

\* The loop starts at the first sample.
LEMMA FirstIndex == /\ at = 1 => at \in Nat /\ at > 0
                    /\ at' = 1 => at' \in Nat /\ at' > 0
<1>1. 1 \in Nat /\ 1 > 0
  OBVIOUS
<1>2. QED BY <1>1, Zenon

\* The series.
Good ==
  /\ stamp \in Seq(Times)
  /\ series \in [Names -> Seq(Sample)]
  /\ \A n \in Names : Sound(series[n], stamp)
  /\ curve \in Seq(Sample) /\ Sorted(curve)

LEMMA InvParts ==
  /\ IInv <=> Types /\ Good /\ InOrder /\ UpToDate
  /\ IInv' <=> Types' /\ Good' /\ InOrder' /\ UpToDate'
<1>1. IInv <=> Types /\ Good /\ InOrder /\ UpToDate
  BY DEF IInv, Types, Good, TypeOK, Kept, Sound
<1>2. IInv' <=> Types' /\ Good' /\ InOrder' /\ UpToDate'
  BY DEF IInv, Types, Good, TypeOK, Kept, Sound
<1>3. QED BY <1>1, <1>2

LEMMA Bounds == Lowest \in Int /\ Highest \in Int /\ Shift \in Int /\ Limits \subseteq Int
  BY TransformsAssumption

LEMMA InitInvariant == Init => IInv
<1> SUFFICES ASSUME Init
             PROVE  IInv
  OBVIOUS
<1>1. Types
  <2>1. at \in Nat /\ at > 0
    BY FirstIndex DEF Init
  <2>2. created \in Nat /\ replots \in Nat /\ limit \in Int /\ last \in Int
    BY Bounds DEF Init
  <2>3. /\ order \in [Functions -> Nat]
        /\ pending \subseteq Functions /\ disturbed \subseteq Names
    BY DEF Init
  <2>4. /\ streaming \in BOOLEAN /\ again \in BOOLEAN
        /\ step \in {"idle", "move", "functions", "curve"}
    BY Zenon DEF Init
  <2>5. QED BY <2>1, <2>2, <2>3, <2>4, Zenon DEF Types
<1>2. Good
  BY EmptySound, EmptySeq DEF Init, Good, Sound
<1>3. InOrder /\ UpToDate
  BY DEF Init, InOrder, UpToDate, Exists
<1>4. QED BY <1>1, <1>2, <1>3, InvParts

\* A step that leaves series and functions alone, and does not claim more of
\* them to be up to date.
LEMMA NothingNew ==
  ASSUME IInv, UNCHANGED <<series, order, created>>, step' # "functions" \/ (pending' = pending /\ step = step'),
         \A f \in Functions : Exists(f) /\ Done(f)' => Done(f)
  PROVE  InOrder' /\ UpToDate'
<1>1. InOrder'
  BY DEF IInv, InOrder
<1>2. UpToDate'
  BY DEF IInv, UpToDate, Exists, After
<1>3. QED BY <1>1, <1>2

\* The limit is set for all series.
LEMMA TrimmedAll ==
  ASSUME TypeOK, NEW all \in [Names -> Seq(Sample)], NEW w \in Int, NEW times,
         \A n \in Names : Sound(all[n], times),
         series' = [n \in Names |-> Trim(all[n], w)]
  PROVE  /\ series' \in [Names -> Seq(Sample)]
         /\ \A n \in Names : Sound(series'[n], times)
         /\ \A n, m \in Names : NotBehind(all[n], all[m]) => NotBehind(series'[n], series'[m])
<1>1. \A n \in Names : series'[n] = Trim(all[n], w) /\ all[n] \in Seq(Sample)
  OBVIOUS
<1>2. \A n \in Names :
        /\ series'[n] \in Seq(Sample) /\ Sound(series'[n], times)
        /\ series'[n] = << >> <=> all[n] = << >>
        /\ all[n] # << >> => Final(series'[n]) = Final(all[n])
  BY <1>1, TrimSound
<1>3. series' \in [Names -> Seq(Sample)]
  BY <1>2
<1>4. QED BY <1>2, <1>3 DEF NotBehind

LEMMA LinkType == Base \in Names /\ \A f \in Functions : f \in Names /\ Link[f] \in Names /\ f # Base
  BY TransformsAssumption DEF Names

-----------------------------------------------------------------------------
\* Every step keeps it.

LEMMA LimitKeeps ==
  ASSUME IInv, NEW l \in Limits, StartStreaming(l) \/ SetLimit(l)
  PROVE  IInv'
<1> USE DEF plotting, counts
<1>1. /\ step = "idle" /\ l \in Int /\ limit' = l
      /\ series' = [n \in Names |-> Trim(series[n], l)]
      /\ UNCHANGED <<order, curve, last, at, again, step, pending, created, replots, stamp, disturbed>>
      /\ streaming' \in BOOLEAN
  BY TransformsAssumption, InvParts DEF StartStreaming, SetLimit, Types
<1>2. Types' /\ InOrder'
  BY <1>1, InvParts DEF Types, InOrder
<1>3. /\ series' \in [Names -> Seq(Sample)]
      /\ \A n \in Names : Sound(series'[n], stamp)
      /\ \A n, m \in Names : NotBehind(series[n], series[m]) => NotBehind(series'[n], series'[m])
  BY <1>1, InvParts, TrimmedAll DEF Good, IInv
<1>4. Good'
  BY <1>1, <1>3, InvParts DEF Good
<1>5. UpToDate'
  BY <1>1, <1>3, InvParts, LinkType DEF UpToDate, Exists, After, Done
<1>6. QED BY <1>2, <1>4, <1>5, InvParts

\* Steps that leave the series as they are.
LEMMA PlainKeeps ==
  ASSUME IInv, StopStreaming \/ Replot \/ SetTransform \/ StartCurve \/ EndCurve
  PROVE  IInv'
<1> USE DEF plotting, counts
<1>1. /\ UNCHANGED <<series, order, created, stamp, pending>>
      /\ step' # "functions" \/ (pending' = pending /\ step = step')
      /\ \A f \in Functions : Done(f)' => Done(f)
  BY InvParts DEF StopStreaming, Replot, SetTransform, ResetCurve, StartCurve, EndCurve, Done, Types
<1>2. InOrder' /\ UpToDate'
  <2>1. UNCHANGED <<series, order, created>>
    BY <1>1
  <2>2. \A f \in Functions : Exists(f) /\ Done(f)' => Done(f)
    BY <1>1
  <2>3. QED BY <1>1, <2>1, <2>2, NothingNew
<1>3. CASE StopStreaming \/ Replot \/ SetTransform \/ EndCurve
  <2>1. Types'
    <3>1. CASE StopStreaming
      BY <3>1, InvParts, Bounds DEF StopStreaming, Types
    <3>2. CASE Replot
      BY <3>2, InvParts DEF Replot, Types
    <3>3. CASE SetTransform
      <4>1. at' \in Nat /\ at' > 0 /\ again' \in BOOLEAN
        BY <3>3, FirstIndex, Zenon DEF SetTransform, ResetCurve
      <4>2. QED BY <3>3, <4>1, InvParts, Bounds DEF SetTransform, ResetCurve, Types
    <3>4. CASE EndCurve
      <4>1. at' \in Nat /\ at' > 0 /\ again' \in BOOLEAN
        BY <3>4, FirstIndex, Zenon DEF EndCurve
      <4>2. step' \in {"idle", "move"}
        BY <3>4, Zenon DEF EndCurve
      <4>3. QED BY <3>4, <4>1, <4>2, InvParts DEF EndCurve, Types
    <3>5. QED BY <1>3, <3>1, <3>2, <3>3, <3>4
  <2>2. curve' \in {<< >>, curve}
    BY <1>3 DEF StopStreaming, Replot, SetTransform, ResetCurve, EndCurve
  <2>3. Good'
    <3>1. << >> \in Seq(Sample) /\ Sorted(<< >>)
      BY EmptySound DEF Sound
    <3>2. QED BY <1>1, <2>2, <3>1, InvParts DEF Good
  <2>4. QED BY <1>2, <2>1, <2>3, InvParts
<1>4. CASE StartCurve
  <2> DEFINE dst == Trim(curve, limit)
  <2>1. dst \in Seq(Sample) /\ Sorted(dst)
    BY InvParts, TrimSound DEF Types, Good
  <2> HIDE DEF dst
  <2>2. CASE series[Base] = << >>
    <3>1. UNCHANGED <<curve, last>> /\ at' = 1
      BY <1>4, <2>2 DEF StartCurve
    <3>2. Types' /\ Good'
      <4>1. at' \in Nat /\ at' > 0 /\ again' \in BOOLEAN
        BY <1>4, <3>1, FirstIndex, Zenon DEF StartCurve
      <4>2. QED BY <1>1, <1>4, <3>1, <4>1, InvParts DEF Types, Good, StartCurve
    <3>3. QED BY <1>2, <3>2, InvParts
  <2>3. CASE series[Base] # << >>
    <3> DEFINE from == IF dst = << >> THEN last ELSE Final(dst).x
    <3>1. curve' = dst /\ last' = from /\ at' = IndexFromX(series[Base], from)
      BY <1>4, <2>3 DEF StartCurve, dst
    <3>2. from \in Int
      BY <2>1, Samples, InvParts DEF Types
    <3>3. at' \in Nat /\ at' > 0
      BY <2>3, <3>1, <3>2, IndexType, InvParts, LinkType DEF Good
    <3>4. Types' /\ Good'
      BY <1>1, <1>4, <2>1, <3>1, <3>2, <3>3, InvParts DEF Types, Good, StartCurve
    <3>5. QED BY <1>2, <3>4, InvParts
  <2>4. QED BY <2>2, <2>3
<1>5. QED BY <1>3, <1>4

LEMMA PointKeeps == ASSUME IInv, NextPoint PROVE IInv'
<1> USE DEF plotting, counts
<1> DEFINE p == series[Base][at]
<1>1. /\ UNCHANGED <<series, order, created, stamp, pending, streaming, limit, again, step,
                     replots, disturbed>>
      /\ at' = at + 1 /\ step = "curve"
  BY DEF NextPoint
<1>2. InOrder' /\ UpToDate'
  BY <1>1, NothingNew DEF Done
<1>3. UNCHANGED <<curve, last>> \/
        (curve' = Trim(Push(curve, [x |-> p.x + Shift, y |-> p.y]), limit) /\ last' = p.x)
  BY DEF NextPoint
<1>4. CASE UNCHANGED <<curve, last>>
  <2>1. Types' /\ Good'
    BY <1>1, <1>4, InvParts DEF Types, Good
  <2>2. QED BY <1>2, <2>1, InvParts
<1>5. CASE curve' = Trim(Push(curve, [x |-> p.x + Shift, y |-> p.y]), limit) /\ last' = p.x
  <2>1. p.x \in Int /\ p.y \in Seq(Nat)
    <3>1. series[Base] \in Seq(Sample)
      BY InvParts, LinkType DEF Good
    <3>2. at \in 1 .. Len(series[Base])
      BY <3>1, InvParts, Samples DEF NextPoint, Types
    <3>3. QED BY <3>1, <3>2, Samples
  <2>2. [x |-> p.x + Shift, y |-> p.y] \in Sample
    BY <2>1, TransformsAssumption DEF Sample
  <2> HIDE DEF p
  <2>3. curve' \in Seq(Sample) /\ Sorted(curve')
    BY <1>5, <2>2, PushSorted, TrimSound, InvParts DEF Types, Good
  <2>4. Types' /\ Good'
    BY <1>1, <1>5, <2>1, <2>3, InvParts DEF Types, Good
  <2>5. QED BY <1>2, <2>4, InvParts
<1>6. QED BY <1>3, <1>4, <1>5

LEMMA LoadKeeps == ASSUME IInv, NEW times \in Files, Load(times) PROVE IInv'
<1> USE DEF plotting, counts
<1>1. /\ stamp' = stamp \o times
      /\ series' = [n \in Names |->
                      IF n = Base THEN Numbered(times)
                      ELSE IF Exists(n) THEN << >> ELSE series[n]]
      /\ step' = "curve" /\ again' = TRUE /\ curve' = << >>
  BY DEF Load, ResetCurve
<1>2. /\ stamp' \in Seq(Times)
      /\ Numbered(times) \in Seq(Sample) /\ Sound(Numbered(times), stamp')
      /\ \A q \in Seq(Sample) : Sound(q, stamp) => Sound(q, stamp')
  BY <1>1, NumberedSound DEF IInv
<1>3. \A n \in Names : series'[n] \in Seq(Sample) /\ Sound(series'[n], stamp')
  <2> TAKE n \in Names
  <2>1. series'[n] \in {Numbered(times), << >>, series[n]}
    BY <1>1
  <2>2. series[n] \in Seq(Sample) /\ Sound(series[n], stamp)
    BY InvParts DEF Good
  <2>3. QED BY <1>2, <2>1, <2>2, EmptySound
<1>4. series' \in [Names -> Seq(Sample)]
  BY <1>1, <1>3
<1>5. << >> \in Seq(Sample) /\ Sorted(<< >>)
  BY EmptySound DEF Sound
<1>6. Good'
  BY <1>1, <1>2, <1>3, <1>4, <1>5 DEF Good
<1>7. Types'
  BY InvParts, Bounds DEF Load, ResetCurve, Types
<1>8. InOrder'
  BY InvParts DEF Load, ResetCurve, InOrder
<1>9. UpToDate'
  BY <1>1 DEF UpToDate, Done
<1>10. QED BY <1>6, <1>7, <1>8, <1>9, InvParts

LEMMA ImportKeeps == ASSUME IInv, NEW times \in Files, Import(times) PROVE IInv'
<1> USE DEF plotting, counts
<1>1. /\ stamp' = stamp \o times /\ series' = [series EXCEPT ![Base] = Numbered(times)]
      /\ step' = "move" /\ UNCHANGED curve
  BY DEF Import
<1>2. /\ stamp' \in Seq(Times)
      /\ Numbered(times) \in Seq(Sample) /\ Sound(Numbered(times), stamp')
      /\ \A q \in Seq(Sample) : Sound(q, stamp) => Sound(q, stamp')
  BY <1>1, NumberedSound DEF IInv
<1>3. \A n \in Names : series'[n] \in Seq(Sample) /\ Sound(series'[n], stamp')
  <2> TAKE n \in Names
  <2>1. series[n] \in Seq(Sample) /\ Sound(series[n], stamp)
    BY InvParts DEF Good
  <2>2. series'[n] \in {Numbered(times), series[n]}
    BY <1>1, InvParts DEF Good
  <2>3. QED BY <1>2, <2>1, <2>2
<1>4. series' \in [Names -> Seq(Sample)]
  BY <1>1, <1>2, InvParts DEF Good
<1>5. Good'
  BY <1>1, <1>2, <1>3, <1>4, InvParts DEF Good
<1>6. Types'
  <2>1. FromBase \subseteq Names /\ Base \in Names
    BY LinkType DEF FromBase
  <2>2. QED BY <2>1, InvParts DEF Import, Types
<1>7. InOrder'
  BY InvParts DEF Import, InOrder
<1>8. UpToDate'
  BY <1>1 DEF UpToDate, Done
<1>9. QED BY <1>5, <1>6, <1>7, <1>8, InvParts

\* The series of one function is what it gives for its source.
LEMMA MadeAnew ==
  ASSUME IInv, NEW f \in Functions, NEW nm \in Nat, NEW out \in {<< >>, series[f]},
         series' = [series EXCEPT ![f] = Trim(Extend(nm, out, series[Link[f]]), limit)]
  PROVE  /\ series' \in [Names -> Seq(Sample)]
         /\ \A n \in Names : Sound(series'[n], stamp)
         /\ NotBehind(series'[f], series[Link[f]])
         /\ \A n \in Names : n # f => series'[n] = series[n]
<1> DEFINE src == series[Link[f]]
           r == Extend(nm, out, src)
<1>1. /\ stamp \in Seq(Times) /\ limit \in Int /\ series \in [Names -> Seq(Sample)]
      /\ f \in Names /\ Link[f] \in Names
      /\ \A n \in Names : Sound(series[n], stamp)
  BY InvParts, LinkType DEF Good, Types
<1>2. src \in Seq(Sample) /\ Sound(src, stamp) /\ out \in Seq(Sample) /\ Sound(out, stamp)
  BY <1>1, EmptySound
<1> HIDE DEF src
<1>3. r \in Seq(Sample) /\ Sound(r, stamp) /\ NotBehind(r, src)
  BY <1>1, <1>2, ExtendSound
<1> HIDE DEF r
<1>4. /\ Trim(r, limit) \in Seq(Sample) /\ Sound(Trim(r, limit), stamp)
      /\ NotBehind(Trim(r, limit), src)
  BY <1>1, <1>3, TrimSound DEF NotBehind
<1>5. series' = [series EXCEPT ![f] = Trim(r, limit)]
  BY DEF r, src
<1>6. /\ series'[f] = Trim(r, limit)
      /\ \A n \in Names : n # f => series'[n] = series[n]
      /\ series' \in [Names -> Seq(Sample)]
  BY <1>1, <1>4, <1>5
<1>7. \A n \in Names : Sound(series'[n], stamp)
  BY <1>1, <1>4, <1>6
<1>8. QED BY <1>4, <1>6, <1>7 DEF src

LEMMA CreateKeeps == ASSUME IInv, NEW f \in Functions, Create(f) PROVE IInv'
<1> USE DEF plotting, counts
<1>1. /\ step = "idle" /\ created \in Nat /\ created' = created + 1 /\ created' \in Nat
      /\ order \in [Functions -> Nat] /\ order' = [order EXCEPT ![f] = created']
      /\ series' = [series EXCEPT ![f] = Trim(Extend(created', << >>, series[Link[f]]), limit)]
      /\ UNCHANGED <<stamp, curve, step>>
  BY InvParts DEF Create, Types
<1>2. /\ series' \in [Names -> Seq(Sample)]
      /\ \A n \in Names : Sound(series'[n], stamp)
      /\ NotBehind(series'[f], series[Link[f]])
      /\ \A n \in Names : n # f => series'[n] = series[n]
  BY <1>1, MadeAnew
<1>3. Good'
  BY <1>1, <1>2, InvParts DEF Good
<1>4. Types'
  <2>1. Dependents(f) \subseteq Names
    BY LinkType DEF Dependents
  <2>2. order' \in [Functions -> Nat]
    BY <1>1
  <2>3. QED BY <1>1, <2>1, <2>2, InvParts DEF Create, Types
<1>5. InOrder'
  BY <1>1, InvParts DEF InOrder
<1>6. UpToDate'
  <2> SUFFICES ASSUME NEW g \in Functions, Exists(g)', After(g)'
               PROVE  NotBehind(series'[g], series'[Link[g]])
    BY DEF UpToDate
  <2>1. g \in Names /\ Link[g] \in Names /\ g # Base /\ f # Base
    BY LinkType
  <2>2. CASE g = f
    <3>1. Link[f] # f
      BY <1>1, <2>1, <2>2 DEF After
    <3>2. QED BY <1>2, <2>1, <2>2, <3>1
  <2>3. CASE g # f
    <3>1. Link[g] # f
      <4>1. order'[f] = created + 1 /\ order'[g] = order[g] /\ order[g] <= created
            /\ order[g] \in Nat
        BY <1>1, <2>3, InvParts DEF InOrder
      <4>2. QED BY <1>1, <2>1, <4>1 DEF After
    <3>2. Exists(g) /\ After(g)
      <4>1. Link[g] = Base \/ Link[g] \in Functions
        BY <2>1 DEF Names
      <4>2. QED BY <1>1, <2>3, <3>1, <4>1 DEF Exists, After
    <3>3. QED BY <1>1, <1>2, <2>1, <2>3, <3>1, <3>2, InvParts DEF UpToDate, Done
  <2>4. QED BY <2>2, <2>3
<1>7. QED BY <1>3, <1>4, <1>5, <1>6, InvParts

LEMMA RefreshKeeps == ASSUME IInv, NEW f \in Functions, Refresh(f) PROVE IInv'
<1> USE DEF plotting, counts
<1>1. /\ step' = "move" /\ order[f] \in Nat
      /\ series' = [series EXCEPT ![f] = Trim(Extend(order[f], << >>, series[Link[f]]), limit)]
      /\ UNCHANGED <<stamp, curve, order, created>>
  BY InvParts DEF Refresh, Types
<1>2. /\ series' \in [Names -> Seq(Sample)]
      /\ \A n \in Names : Sound(series'[n], stamp)
  BY <1>1, MadeAnew
<1>3. Good'
  BY <1>1, <1>2, InvParts DEF Good
<1>4. Types'
  <2>1. Dependents(f) \subseteq Names
    BY LinkType DEF Dependents
  <2>2. QED BY <2>1, InvParts DEF Refresh, Types
<1>5. InOrder' /\ UpToDate'
  BY <1>1, InvParts DEF InOrder, UpToDate, Done
<1>6. QED BY <1>3, <1>4, <1>5, InvParts

LEMMA CalculateKeeps == ASSUME IInv, NEW f \in Functions, Calculate(f) PROVE IInv'
<1> USE DEF plotting, counts
<1>1. /\ step = "functions" /\ f \in pending /\ pending' = pending \ {f}
      /\ \A g \in pending : order[f] <= order[g]
      /\ order \in [Functions -> Nat] /\ order[f] \in Nat
      /\ series' = [series EXCEPT ![f] = Trim(Extend(order[f], series[f], series[Link[f]]), limit)]
      /\ UNCHANGED <<stamp, curve, order, created, step>>
  BY InvParts DEF Calculate, Types
<1>2. /\ series' \in [Names -> Seq(Sample)]
      /\ \A n \in Names : Sound(series'[n], stamp)
      /\ NotBehind(series'[f], series[Link[f]])
      /\ \A n \in Names : n # f => series'[n] = series[n]
  BY <1>1, MadeAnew
<1>3. Good'
  BY <1>1, <1>2, InvParts DEF Good
<1>4. Types'
  BY InvParts DEF Calculate, Types
<1>5. InOrder'
  <2>1. \A g \in Functions \ pending', h \in pending' : order[g] <= order[h]
    BY <1>1, InvParts DEF InOrder, Types
  <2>2. QED BY <1>1, <2>1, InvParts DEF InOrder
<1>6. UpToDate'
  <2> SUFFICES ASSUME NEW g \in Functions, Exists(g), After(g), g \notin pending'
               PROVE  NotBehind(series'[g], series'[Link[g]])
    BY <1>1 DEF UpToDate, Exists, After, Done
  <2>1. g \in Names /\ Link[g] \in Names /\ g # Base /\ f # Base
    BY LinkType
  <2>2. Link[g] # f
    <3>1. order[g] <= order[f] /\ order[g] \in Nat
      BY <1>1, InvParts DEF InOrder
    <3>2. QED BY <1>1, <2>1, <3>1 DEF After
  <2>3. CASE g = f
    BY <1>2, <2>1, <2>2, <2>3
  <2>4. CASE g # f
    BY <1>1, <1>2, <2>1, <2>2, <2>4, InvParts DEF UpToDate, Done
  <2>5. QED BY <2>3, <2>4
<1>7. QED BY <1>3, <1>4, <1>5, <1>6, InvParts

LEMMA DeleteKeeps == ASSUME IInv, NEW n \in Names, Delete(n) PROVE IInv'
<1> USE DEF plotting, counts
<1>1. /\ step = "idle" /\ order \in [Functions -> Nat]
      /\ series \in [Names -> Seq(Sample)]
      /\ series' = [series EXCEPT ![n] = << >>]
      /\ order' = [f \in Functions |-> IF f = n THEN 0 ELSE order[f]]
      /\ UNCHANGED <<created, step, stamp>>
      /\ curve' \in {<< >>, curve} /\ last' \in {Lowest, last}
  BY InvParts DEF Delete, Types, Good
<1>2. \A m \in Names : series'[m] = IF m = n THEN << >> ELSE series[m]
  BY <1>1
<1>3. Good'
  <2>1. << >> \in Seq(Sample) /\ Sorted(<< >>) /\ Sound(<< >>, stamp)
    BY EmptySound DEF Sound
  <2>2. series' \in [Names -> Seq(Sample)]
    BY <1>1, <2>1
  <2>3. QED BY <1>1, <1>2, <2>1, <2>2, InvParts DEF Good
<1>4. Types'
  <2>1. Dependents(n) \subseteq Names
    BY LinkType DEF Dependents
  <2>2. order' \in [Functions -> Nat] /\ last' \in Int
    BY <1>1, Bounds, InvParts DEF Types
  <2>3. QED BY <1>1, <2>1, <2>2, InvParts DEF Delete, Types
<1>5. InOrder'
  BY <1>1, InvParts DEF InOrder, Types
<1>6. UpToDate'
  <2> SUFFICES ASSUME NEW g \in Functions, Exists(g)', After(g)'
               PROVE  NotBehind(series'[g], series'[Link[g]])
    BY DEF UpToDate
  <2>1. g \in Names /\ Link[g] \in Names /\ g # Base
    BY LinkType
  <2>2. CASE Link[g] = n
    BY <1>2, <2>1, <2>2 DEF NotBehind
  <2>3. CASE Link[g] # n
    <3>1. g # n /\ Exists(g)
      BY <1>1 DEF Exists
    <3>2. After(g)
      <4>1. Link[g] = Base \/ Link[g] \in Functions
        BY <2>1 DEF Names
      <4>2. QED BY <1>1, <2>3, <3>1, <4>1 DEF After
    <3>3. QED BY <1>1, <1>2, <2>1, <2>3, <3>1, <3>2, InvParts DEF UpToDate, Done
  <2>4. QED BY <2>2, <2>3
<1>7. QED BY <1>3, <1>4, <1>5, <1>6, InvParts

LEMMA ClearKeeps == ASSUME IInv, ClearBuffer PROVE IInv'
<1> USE DEF plotting, counts
<1>1. /\ step = "idle" /\ series' = [n \in Names |-> << >>] /\ curve' = << >>
      /\ UNCHANGED <<created, order, step, stamp>>
  BY DEF ClearBuffer
<1>2. Good'
  <2>1. << >> \in Seq(Sample) /\ Sorted(<< >>) /\ Sound(<< >>, stamp)
    BY EmptySound DEF Sound
  <2>2. series' \in [Names -> Seq(Sample)]
    BY <1>1, <2>1
  <2>3. QED BY <1>1, <2>1, <2>2, InvParts DEF Good
<1>3. Types'
  BY Bounds, InvParts DEF ClearBuffer, Types
<1>4. InOrder'
  BY <1>1, InvParts DEF InOrder
<1>5. UpToDate'
  BY <1>1, LinkType DEF UpToDate, NotBehind
<1>6. QED BY <1>2, <1>3, <1>4, <1>5, InvParts

LEMMA MoveKeeps == ASSUME IInv, Move PROVE IInv'
<1> USE DEF plotting, counts
<1>1. /\ step' = "functions" /\ pending' = {f \in Functions : Exists(f)}
      /\ UNCHANGED <<order, created, curve>> /\ order \in [Functions -> Nat] /\ limit \in Int
  BY InvParts DEF Move, Types
<1>2. InOrder'
  <2>1. \A f \in Functions \ pending' : order[f] = 0
    BY <1>1 DEF Exists
  <2>2. \A f \in Functions \ pending', g \in pending' : order[f] <= order[g]
    BY <1>1, <2>1
  <2>3. QED BY <1>1, <2>2, InvParts DEF InOrder
<1>3. UpToDate'
  BY <1>1 DEF UpToDate, Done, Exists
<1>4. CASE UNCHANGED <<stamp, disturbed>> /\
           series' = IF streaming THEN [n \in Names |-> Trim(series[n], limit)] ELSE series
  <2>1. Types'
    BY <1>1, <1>4, InvParts DEF Move, Types
  <2>2. CASE streaming
    <3>1. series' = [n \in Names |-> Trim(series[n], limit)]
      BY <1>4, <2>2
    <3>2. series \in [Names -> Seq(Sample)] /\ \A n \in Names : Sound(series[n], stamp)
      BY InvParts DEF Good
    <3>3. /\ series' \in [Names -> Seq(Sample)]
          /\ \A n \in Names : Sound(series'[n], stamp)
      BY <1>1, <3>1, <3>2, TrimmedAll DEF IInv
    <3>4. Good'
      BY <1>1, <1>4, <3>3, InvParts DEF Good
    <3>5. QED BY <1>2, <1>3, <2>1, <3>4, InvParts
  <2>3. CASE ~streaming
    <3>1. Good'
      BY <1>1, <1>4, <2>3, InvParts DEF Good
    <3>2. QED BY <1>2, <1>3, <2>1, <3>1, InvParts
  <2>4. QED BY <2>2, <2>3
<1>5. ASSUME NEW t \in Times, NEW q \in Merged(series[Base], Numbered(<<t>>)[1]),
             stamp' = Append(stamp, t),
             series' = [n \in Names |-> Trim(IF n = Base THEN q ELSE series[n], limit)],
             disturbed' \in {disturbed, disturbed \union FromBase,
                             disturbed \union FromBase \union {Base}}
      PROVE  IInv'
  <2> DEFINE all == [n \in Names |-> IF n = Base THEN q ELSE series[n]]
  <2>1. series \in [Names -> Seq(Sample)] /\ \A n \in Names : Sound(series[n], stamp)
    BY InvParts DEF Good
  <2>2. /\ stamp' \in Seq(Times) /\ q \in Seq(Sample) /\ Sound(q, stamp')
        /\ \A p \in Seq(Sample) : Sound(p, stamp) => Sound(p, stamp')
    BY <1>5, <2>1, LinkType, MergedSound DEF IInv
  <2>3. all \in [Names -> Seq(Sample)] /\ \A n \in Names : Sound(all[n], stamp')
    BY <2>1, <2>2
  <2>4. series' = [n \in Names |-> Trim(all[n], limit)]
    BY <1>5
  <2> HIDE DEF all
  <2>5. /\ series' \in [Names -> Seq(Sample)]
        /\ \A n \in Names : Sound(series'[n], stamp')
    BY <1>1, <2>3, <2>4, TrimmedAll DEF IInv
  <2>6. Good'
    BY <1>1, <2>2, <2>5, InvParts DEF Good
  <2>7. FromBase \subseteq Names /\ Base \in Names
    BY LinkType DEF FromBase
  <2>8. Types'
    BY <1>1, <1>5, <2>7, InvParts DEF Move, Types
  <2>9. QED BY <1>2, <1>3, <2>6, <2>8, InvParts
<1>6. QED BY <1>4, <1>5 DEF Move

LEMMA StepInvariant == IInv /\ [Next]_vars => IInv'
<1> SUFFICES ASSUME IInv, [Next]_vars
             PROVE  IInv'
  OBVIOUS
<1>1. CASE User
  <2>1. CASE \E l \in Limits : StartStreaming(l) \/ SetLimit(l)
    BY <2>1, LimitKeeps
  <2>2. CASE \E times \in Files : Load(times) \/ Import(times)
    BY <2>2, LoadKeeps, ImportKeeps
  <2>3. CASE \E f \in Functions : Create(f) \/ Refresh(f)
    BY <2>3, CreateKeeps, RefreshKeeps
  <2>4. CASE \E n \in Names : Delete(n)
    BY <2>4, DeleteKeeps
  <2>5. QED BY <1>1, <2>1, <2>2, <2>3, <2>4, PlainKeeps, ClearKeeps DEF User
<1>2. CASE UNCHANGED vars
  <2>1. Types' /\ Good' /\ InOrder' /\ UpToDate'
    BY <1>2, InvParts
    DEF vars, plotting, counts, Types, Good, InOrder, UpToDate, Done, Exists, After
  <2>2. QED BY <2>1, InvParts
<1>3. QED
  BY <1>1, <1>2, MoveKeeps, CalculateKeeps, PlainKeeps, PointKeeps DEF Next

\* The inductive invariant.
THEOREM Invariant == Spec => []IInv
<1>1. QED BY InitInvariant, StepInvariant, PTL DEF Spec

\* Every series, and the curve, is made of samples, whatever is loaded,
\* received, limited, computed and deleted (TypeOK).
THEOREM TypeCorrect == Spec => []TypeOK
<1>1. IInv => TypeOK
  BY DEF IInv
<1>2. QED BY <1>1, Invariant, PTL

\* CustomFunction::calculate takes no sample of the base series twice,
\* although it starts anew at every replot, for any chain of functions.
THEOREM AlwaysOnceEach == Spec => []OnceEach
<1>1. IInv => OnceEach
  BY LinkType DEF IInv, Kept, Once, OnceEach
<1>2. QED BY <1>1, Invariant, PTL

\* Outside a replot no function is behind a source that was created before
\* it (updateDataAndReplot calculates them in their order).
THEOREM AlwaysCaughtUp == Spec => []CaughtUp
<1>1. IInv => CaughtUp
  BY DEF IInv, UpToDate, Done, NotBehind, CaughtUp
<1>2. QED BY <1>1, Invariant, PTL

-----------------------------------------------------------------------------
\* What a function gives, step by step and trimmed after each, is what it
\* gives for the whole source: MirrorsSource.

\* A series that keeps its limit would not be trimmed at once.
LEMMA StopsAtOnce ==
  ASSUME NEW q \in Seq(Sample), NEW w \in Int, w # Highest, q # << >>, Trim(q, w) = q
  PROVE  Stops(q, w, 0)
<1>1. PICK n \in 0 .. Len(q) : Len(q) = Len(q) - n /\ Stops(q, w, n)
  BY TrimPoint
<1>2. n = 0
  BY <1>1, Samples
<1>3. QED BY <1>1, <1>2

\* To trim a second time changes nothing.
LEMMA TrimTwice ==
  ASSUME NEW q \in Seq(Sample), NEW w \in Int
  PROVE  Trim(Trim(q, w), w) = Trim(q, w)
<1> DEFINE r == Trim(q, w)
<1>1. r \in Seq(Sample) /\ (r = << >> <=> q = << >>)
      /\ (q # << >> => Final(r) = Final(q))
  BY TrimSound
<1>2. PICK n \in 0 .. Len(q) :
        /\ q # << >> => n < Len(q)
        /\ Len(r) = Len(q) - n
        /\ \A i \in 1 .. Len(r) : r[i] = q[n + i]
        /\ w # Highest /\ q # << >> => Stops(q, w, n)
  BY TrimPoint
<1> HIDE DEF r
<1>3. PICK m \in 0 .. Len(r) :
        /\ Len(Trim(r, w)) = Len(r) - m
        /\ \A i \in 1 .. Len(Trim(r, w)) : Trim(r, w)[i] = r[m + i]
        /\ \A k \in 0 .. (m - 1) :
             w # Highest /\ Len(r) - k > 2 /\ Final(r).x - r[k + 1].x > w
  BY <1>1, TrimPoint
<1>4. /\ Len(q) \in Nat /\ Len(r) \in Nat /\ Trim(r, w) \in Seq(Sample)
      /\ (r = << >> <=> Len(r) = 0)
      /\ \A i \in 1 .. Len(q) : q[i].x \in Int
      /\ q # << >> => Final(q).x \in Int
  <2>1. /\ Len(q) \in Nat /\ (q # << >> => Len(q) >= 1 /\ Final(q) = q[Len(q)])
        /\ \A i \in 1 .. Len(q) : q[i].x \in Int
    BY Samples
  <2>2. Len(r) \in Nat /\ (r = << >> <=> Len(r) = 0)
    BY <1>1, Samples
  <2>3. Trim(r, w) \in Seq(Sample)
    BY <1>1, TrimSound
  <2>4. QED BY <2>1, <2>2, <2>3
<1>5. m = 0
  <2> SUFFICES ASSUME m # 0
               PROVE  FALSE
    OBVIOUS
  <2>1. 0 \in 0 .. (m - 1) /\ q # << >> /\ n + 1 \in 1 .. Len(q) /\ 1 \in 1 .. Len(r)
    BY <1>1, <1>2, <1>4
  <2>2. w # Highest /\ Len(r) - 0 > 2 /\ Final(q).x - r[0 + 1].x > w
    BY <1>1, <1>3, <2>1
  <2>3. r[0 + 1].x = q[n + 1].x /\ Len(q) - n > 2
    BY <1>2, <1>4, <2>1, <2>2
  <2>4. QED BY <1>2, <1>4, <2>1, <2>2, <2>3 DEF Stops
<1>6. Len(Trim(r, w)) = Len(r) /\ \A i \in 1 .. Len(r) : Trim(r, w)[i] = r[i]
  BY <1>3, <1>4, <1>5
<1>7. QED BY <1>1, <1>4, <1>6, SeqEqual DEF r

\* The image of a series, sample by sample.
LEMMA Imaged ==
  ASSUME NEW src \in Seq(Sample), NEW nm \in Nat
  PROVE  /\ Image(nm, src) \in Seq(Sample) /\ Len(Image(nm, src)) = Len(src)
         /\ \A i \in 1 .. Len(src) :
              /\ Image(nm, src)[i] = [x |-> src[i].x, y |-> Append(src[i].y, nm)]
              /\ Image(nm, src)[i].x = src[i].x
         /\ Image(nm, src) = << >> <=> src = << >>
         /\ src # << >> => Final(Image(nm, src)).x = Final(src).x
<1> DEFINE r == Image(nm, src)
<1>1. /\ Len(src) \in Nat /\ \A i \in 1 .. Len(src) : src[i].x \in Int /\ src[i].y \in Seq(Nat)
      /\ (src # << >> => Len(src) >= 1) /\ (src = << >> => Len(src) = 0)
  BY Samples
<1>2. \A i \in 1 .. Len(src) : [x |-> src[i].x, y |-> Append(src[i].y, nm)] \in Sample
  <2> TAKE i \in 1 .. Len(src)
  <2>1. Append(src[i].y, nm) \in Seq(Nat)
    BY <1>1, AppendProperties
  <2>2. QED BY <1>1, <2>1 DEF Sample
<1>3. /\ r \in [1 .. Len(src) -> Sample]
      /\ \A i \in 1 .. Len(src) : r[i] = [x |-> src[i].x, y |-> Append(src[i].y, nm)]
  BY <1>2 DEF Image
<1> HIDE DEF r
<1>4. r \in Seq(Sample) /\ Len(r) = Len(src)
  <2>1. Len(src) \in Nat /\ r \in [1 .. Len(src) -> Sample]
    BY <1>1, <1>3
  <2>2. r \in Seq(Sample)
    BY <2>1, SeqDef
  <2>3. QED BY <2>1, <2>2, LenProperties
<1>5. r = << >> <=> src = << >>
  BY <1>1, <1>4, EmptySeq
<1>6. src # << >> => Final(r).x = Final(src).x
  BY <1>1, <1>3, <1>4 DEF Final
<1>7. QED BY <1>3, <1>4, <1>5, <1>6 DEF r

\* One sample of a source decides one of its image, wherever it stands.
LEMMA ImageAt ==
  ASSUME NEW a \in Seq(Sample), NEW b \in Seq(Sample), NEW nm \in Nat,
         NEW i \in 1 .. Len(a), NEW j \in 1 .. Len(b), a[i] = b[j]
  PROVE  Image(nm, a)[i] = Image(nm, b)[j]
<1>1. /\ Image(nm, a)[i] = [x |-> a[i].x, y |-> Append(a[i].y, nm)]
      /\ Image(nm, b)[j] = [x |-> b[j].x, y |-> Append(b[j].y, nm)]
  BY Imaged
<1>2. QED BY <1>1

\* The series src, with samples later than it behind it.
GoesOn(src, more) ==
  /\ Len(more) >= Len(src)
  /\ \A i \in 1 .. Len(src) : more[i] = src[i]
  /\ src # << >> => \A i \in (Len(src) + 1) .. Len(more) : more[i].x > Final(src).x

\* Calculating catches up: what the function had, and what it gets, is the
\* image of its source, once trimmed.
LEMMA CatchesUp ==
  ASSUME NEW out \in Seq(Sample), NEW src \in Seq(Sample), NEW nm \in Nat, NEW w \in Int,
         Sorted(src), \A i \in 1 .. Len(src) : src[i].x > Lowest,
         Follows(nm, out, src, w), Trim(src, w) = src
  PROVE  Trim(Extend(nm, out, src), w) = Image(nm, src)
<1> DEFINE r == Extend(nm, out, src)
           t == IF out = << >> THEN Lowest ELSE Final(out).x
           im == Image(nm, src)
<1>1. PICK d \in 0 .. Len(out) :
        /\ \A i \in 1 .. d : w # Highest /\ Len(src) >= 2 /\ Final(src).x - out[i].x > w
        /\ \A i \in (d + 1) .. Len(out) : i - d <= Len(src) /\ out[i] = im[i - d]
        /\ \A j \in 1 .. Len(src) : out # << >> /\ j + d > Len(out) => src[j].x > Final(out).x
  BY DEF Follows
<1>2. /\ im \in Seq(Sample) /\ Len(im) = Len(src)
      /\ \A i \in 1 .. Len(src) : im[i].x = src[i].x
                                  /\ im[i] = [x |-> src[i].x, y |-> Append(src[i].y, nm)]
  BY Imaged
<1>3. r \in Seq(Sample)
  BY Extended
<1>4. PICK n \in 0 .. Len(src) :
        /\ Len(r) = Len(out) + (Len(src) - n)
        /\ \A i \in 1 .. Len(out) : r[i] = out[i]
        /\ \A i \in 1 .. (Len(src) - n) :
             r[Len(out) + i].x = src[n + i].x /\ r[Len(out) + i].y = Append(src[n + i].y, nm)
        /\ \A i \in 1 .. n : src[i].x <= t
        /\ \A i \in (n + 1) .. Len(src) : src[i].x > t
  BY Extended
<1> HIDE DEF r, im
<1>5. /\ Len(src) \in Nat /\ Len(out) \in Nat /\ Len(r) \in Nat
      /\ (out = << >> <=> Len(out) = 0) /\ (src = << >> <=> Len(src) = 0)
      /\ (out # << >> => Final(out) = out[Len(out)])
      /\ (src # << >> => Final(src) = src[Len(src)])
      /\ \A i \in 1 .. Len(out) : out[i].x \in Int
      /\ \A i \in 1 .. Len(src) : src[i].x \in Int
  <2>1. Len(r) \in Nat
    BY <1>3, Samples
  <2>2. QED BY <2>1, Samples
<1>6. n = Len(out) - d
  <2>1. CASE out = << >>
    <3>1. n # 0 => n \in 1 .. n /\ n \in 1 .. Len(src)
      BY <1>5
    <3>2. n # 0 => src[n].x <= Lowest /\ src[n].x > Lowest
      BY <1>4, <2>1, <3>1
    <3>3. QED BY <1>5, <2>1, <3>1, <3>2, TransformsAssumption
  <2>2. CASE out # << >>
    <3>1. Len(out) >= 1 /\ t = out[Len(out)].x /\ t \in Int
      BY <1>5, <2>2
    <3> HIDE DEF t
    <3>2. ~(n > Len(out) - d)
      <4>1. SUFFICES ASSUME n > Len(out) - d
                     PROVE  FALSE
        OBVIOUS
      <4>2. n \in 1 .. n /\ n \in 1 .. Len(src) /\ n + d > Len(out)
        BY <1>5, <4>1
      <4>3. src[n].x <= t /\ src[n].x > t
        BY <1>1, <1>4, <1>5, <2>2, <3>1, <4>2
      <4>4. QED BY <1>5, <3>1, <4>2, <4>3
    <3>3. ~(n < Len(out) - d)
      <4>1. SUFFICES ASSUME n < Len(out) - d
                     PROVE  FALSE
        OBVIOUS
      <4>2. /\ Len(out) \in (d + 1) .. Len(out)
            /\ Len(out) - d <= Len(src) /\ out[Len(out)] = im[Len(out) - d]
        BY <1>1, <1>5, <4>1
      <4>3. Len(out) - d \in (n + 1) .. Len(src) /\ Len(out) - d \in 1 .. Len(src)
        BY <1>5, <4>1, <4>2
      <4>4. src[Len(out) - d].x > t /\ src[Len(out) - d].x = t
        BY <1>2, <1>4, <3>1, <4>2, <4>3
      <4>5. QED BY <1>5, <3>1, <4>3, <4>4
    <3>4. n \in Int /\ Len(out) - d \in Int
      BY <1>5
    <3>5. QED BY <3>2, <3>3, <3>4
  <2>3. QED BY <2>1, <2>2
<1> HIDE DEF t
<1>7. Len(r) = d + Len(src) /\ d \in Nat
  BY <1>4, <1>5, <1>6
<1>8. \A j \in 1 .. Len(src) : r[d + j] = im[j]
  <2> TAKE j \in 1 .. Len(src)
  <2>1. CASE d + j <= Len(out)
    <3>1. d + j \in (d + 1) .. Len(out) /\ (d + j) - d = j /\ d + j \in 1 .. Len(out)
      BY <1>5, <1>7, <2>1
    <3>2. QED BY <1>1, <1>4, <3>1
  <2>2. CASE ~(d + j <= Len(out))
    <3> DEFINE i == d + j - Len(out)
    <3>1. i \in 1 .. (Len(src) - n) /\ Len(out) + i = d + j /\ n + i = j
          /\ d + j \in 1 .. Len(r)
      BY <1>5, <1>6, <1>7, <2>2
    <3> HIDE DEF i
    <3>2. r[d + j].x = src[j].x /\ r[d + j].y = Append(src[j].y, nm)
      BY <1>4, <3>1
    <3>3. r[d + j] \in Sample
      BY <1>3, <3>1, Samples
    <3>4. QED BY <1>2, <3>2, <3>3 DEF Sample
  <2>3. QED BY <2>1, <2>2
<1>9. Trim(r, w) \in Seq(Sample)
  BY <1>3, TrimSound
<1>10. PICK m \in 0 .. Len(r) :
         /\ r # << >> => m < Len(r)
         /\ Len(Trim(r, w)) = Len(r) - m
         /\ \A i \in 1 .. Len(Trim(r, w)) : Trim(r, w)[i] = r[m + i]
         /\ \A k \in 0 .. (m - 1) :
              w # Highest /\ Len(r) - k > 2 /\ Final(r).x - r[k + 1].x > w
         /\ w # Highest /\ r # << >> => Stops(r, w, m)
  BY <1>3, TrimPoint
<1>11. m = d
  <2>1. CASE src = << >>
    <3>1. d = 0 /\ Len(r) = 0
      BY <1>1, <1>5, <1>7, <2>1
    <3>2. QED BY <1>10, <3>1
  <2>2. CASE src # << >>
    <3>1. /\ Len(src) >= 1 /\ Len(r) >= 1 /\ r # << >> /\ Final(r) = im[Len(src)]
          /\ Final(r).x = Final(src).x /\ Final(src).x \in Int
      <4>1. Len(src) \in 1 .. Len(src) /\ Len(r) >= 1
        BY <1>5, <1>7, <2>2
      <4>2. r # << >> /\ Final(r) = r[Len(r)]
        BY <1>3, <4>1, Samples
      <4>3. Len(r) = d + Len(src) /\ r[Len(r)] = im[Len(src)]
        BY <1>7, <1>8, <4>1
      <4>4. im[Len(src)].x = src[Len(src)].x /\ src[Len(src)].x \in Int
            /\ Final(src) = src[Len(src)]
        BY <1>2, <1>5, <2>2, <4>1
      <4>5. QED BY <4>1, <4>2, <4>3, <4>4
    <3>2. ~(m < d)
      <4>1. SUFFICES ASSUME m < d
                     PROVE  FALSE
        OBVIOUS
      <4>2. m + 1 \in 1 .. d /\ m + 1 \in 1 .. Len(out)
        BY <1>5, <1>7, <4>1
      <4>3. /\ w # Highest /\ Len(src) >= 2 /\ Final(src).x - out[m + 1].x > w
            /\ r[m + 1] = out[m + 1]
        BY <1>1, <1>4, <4>2
      <4>4. Stops(r, w, m)
        BY <1>10, <3>1, <4>3
      <4>5. QED BY <1>5, <1>7, <3>1, <4>1, <4>2, <4>3, <4>4 DEF Stops
    <3>3. ~(m > d)
      <4>1. SUFFICES ASSUME m > d
                     PROVE  FALSE
        OBVIOUS
      <4>2. d \in 0 .. (m - 1) /\ d + 1 = d + 1 /\ 1 \in 1 .. Len(src)
        BY <1>7, <3>1, <4>1
      <4>3. w # Highest /\ Len(r) - d > 2 /\ Final(r).x - r[d + 1].x > w
        BY <1>10, <4>2
      <4>4. Stops(src, w, 0)
        BY <2>2, <4>3, StopsAtOnce
      <4>5. r[d + 1].x = src[1].x /\ src[1].x \in Int
        BY <1>2, <1>5, <1>8, <4>2
      <4>6. Len(src) - 0 <= 2 \/ Final(src).x - src[1].x <= w
        BY <4>4 DEF Stops
      <4>7. QED BY <1>5, <1>7, <3>1, <4>3, <4>5, <4>6
    <3>4. QED BY <1>7, <3>2, <3>3
  <2>3. QED BY <2>1, <2>2
<1>12. Len(Trim(r, w)) = Len(im) /\ \A i \in 1 .. Len(im) : Trim(r, w)[i] = im[i]
  BY <1>2, <1>5, <1>7, <1>8, <1>10, <1>11
<1>13. Trim(r, w) = im
  BY <1>2, <1>9, <1>12, SeqEqual
<1>14. QED BY <1>13 DEF r, im

\* A limit drops as many samples of an image as of the series.
LEMMA TrimImage ==
  ASSUME NEW src \in Seq(Sample), NEW nm \in Nat, NEW w \in Int
  PROVE  Trim(Image(nm, src), w) = Image(nm, Trim(src, w))
<1> DEFINE im == Image(nm, src)
           s == Trim(src, w)
           r == Trim(im, w)
<1>1. /\ im \in Seq(Sample) /\ Len(im) = Len(src)
      /\ \A i \in 1 .. Len(src) : im[i] = [x |-> src[i].x, y |-> Append(src[i].y, nm)]
                                  /\ im[i].x = src[i].x
      /\ (im = << >> <=> src = << >>)
      /\ (src # << >> => Final(im).x = Final(src).x)
  BY Imaged
<1> HIDE DEF im
<1>2. s \in Seq(Sample) /\ r \in Seq(Sample)
  BY <1>1, TrimSound
<1>3. PICK n \in 0 .. Len(src) :
        /\ src # << >> => n < Len(src)
        /\ Len(s) = Len(src) - n
        /\ \A i \in 1 .. Len(s) : s[i] = src[n + i]
        /\ \A k \in 0 .. (n - 1) :
             w # Highest /\ Len(src) - k > 2 /\ Final(src).x - src[k + 1].x > w
        /\ w # Highest /\ src # << >> => Stops(src, w, n)
  BY TrimPoint
<1>4. PICK m \in 0 .. Len(im) :
        /\ im # << >> => m < Len(im)
        /\ Len(r) = Len(im) - m
        /\ \A i \in 1 .. Len(r) : r[i] = im[m + i]
        /\ \A k \in 0 .. (m - 1) :
             w # Highest /\ Len(im) - k > 2 /\ Final(im).x - im[k + 1].x > w
        /\ w # Highest /\ im # << >> => Stops(im, w, m)
  BY <1>1, TrimPoint
<1> HIDE DEF s, r
<1>5. /\ Len(src) \in Nat /\ \A i \in 1 .. Len(src) : src[i].x \in Int
      /\ (src # << >> => Len(src) >= 1) /\ (src = << >> => Len(src) = 0)
  BY Samples
<1>6. n \in Int /\ m \in Int
  OBVIOUS
<1>7. ~(n < m)
  <2>1. SUFFICES ASSUME n < m
                 PROVE  FALSE
    OBVIOUS
  <2>2. n \in 0 .. (m - 1) /\ n + 1 \in 1 .. Len(src) /\ im # << >> /\ src # << >>
    BY <1>1, <1>4, <1>5, <2>1
  <2>3. w # Highest /\ Len(src) - n > 2 /\ Final(src).x - src[n + 1].x > w
    BY <1>1, <1>4, <2>2
  <2>4. Stops(src, w, n) /\ Final(src).x = src[Len(src)].x /\ Len(src) \in 1 .. Len(src)
    BY <1>3, <1>5, <2>2, <2>3 DEF Final
  <2>5. QED BY <1>5, <2>2, <2>3, <2>4 DEF Stops
<1>8. ~(m < n)
  <2>1. SUFFICES ASSUME m < n
                 PROVE  FALSE
    OBVIOUS
  <2>2. m \in 0 .. (n - 1) /\ m + 1 \in 1 .. Len(src) /\ im # << >> /\ src # << >>
    BY <1>1, <1>3, <1>4, <1>5, <2>1
  <2>3. w # Highest /\ Len(src) - m > 2 /\ Final(im).x - im[m + 1].x > w
    BY <1>1, <1>3, <2>2
  <2>4. Stops(im, w, m) /\ Final(im).x = src[Len(src)].x /\ Len(src) \in 1 .. Len(src)
    BY <1>1, <1>4, <1>5, <2>2, <2>3 DEF Final
  <2>5. im[m + 1].x = src[m + 1].x /\ Len(im) = Len(src)
    BY <1>1, <2>2
  <2>6. Len(src) - m <= 2 \/ Final(im).x - src[m + 1].x <= w
    BY <2>4, <2>5 DEF Stops
  <2>7. Final(im).x \in Int /\ src[m + 1].x \in Int /\ m \in Int /\ Len(src) \in Int
    BY <1>5, <2>2, <2>4
  <2>8. QED BY <2>3, <2>5, <2>6, <2>7
<1>9. n = m
  BY <1>6, <1>7, <1>8
<1>10. /\ Image(nm, s) \in Seq(Sample) /\ Len(Image(nm, s)) = Len(s)
       /\ \A i \in 1 .. Len(s) :
            Image(nm, s)[i] = [x |-> s[i].x, y |-> Append(s[i].y, nm)]
  BY <1>2, Imaged
<1>11. \A i \in 1 .. Len(r) : r[i] = Image(nm, s)[i]
  <2> TAKE i \in 1 .. Len(r)
  <2>1. i \in 1 .. Len(s) /\ n + i \in 1 .. Len(src)
    BY <1>1, <1>3, <1>4, <1>5, <1>9
  <2>2. r[i] = im[n + i] /\ s[i] = src[n + i]
    BY <1>3, <1>4, <1>9, <2>1
  <2>3. QED BY <1>1, <1>10, <2>1, <2>2
<1>12. r = Image(nm, s)
  BY <1>1, <1>2, <1>3, <1>4, <1>9, <1>10, <1>11, SeqEqual
<1>13. QED BY <1>12 DEF r, s, im

\* An image, and an empty series, follow the series.
LEMMA ImageFollows ==
  ASSUME NEW src \in Seq(Sample), NEW nm \in Nat, NEW w \in Int
  PROVE  Follows(nm, Image(nm, src), src, w) /\ Follows(nm, << >>, src, w)
<1> DEFINE im == Image(nm, src)
<1>1. /\ im \in Seq(Sample) /\ Len(im) = Len(src) /\ Len(src) \in Nat
      /\ (im = << >> <=> src = << >>)
      /\ (src # << >> => Final(im).x = Final(src).x /\ Final(src).x \in Int)
  <2>1. Len(src) \in Nat /\ (src # << >> => Final(src).x \in Int)
    BY Samples
  <2>2. QED BY <2>1, Imaged
<1>2. Follows(nm, im, src, w)
  <2> HIDE DEF im
  <2>1. im # << >> => src # << >> /\ Final(im).x <= Final(src).x
    BY <1>1
  <2>2. /\ 0 \in 0 .. Len(im)
        /\ \A i \in 1 .. 0 : w # Highest /\ Len(src) >= 2 /\ Final(src).x - im[i].x > w
        /\ \A i \in (0 + 1) .. Len(im) : i - 0 <= Len(src) /\ im[i] = im[i - 0]
        /\ \A j \in 1 .. Len(src) : im # << >> /\ j + 0 > Len(im) => src[j].x > Final(im).x
    BY <1>1
  <2>3. QED BY <2>1, <2>2 DEF Follows, im
<1>3. Follows(nm, << >>, src, w)
  <2>1. Len(<< >>) = 0 /\ 0 \in 0 .. Len(<< >>)
    OBVIOUS
  <2>2. QED BY <2>1 DEF Follows
<1>4. QED BY <1>2, <1>3

\* What follows a series still does when the series has got later samples and
\* is trimmed.
LEMMA StillFollows ==
  ASSUME NEW out \in Seq(Sample), NEW src \in Seq(Sample), NEW more \in Seq(Sample),
         NEW nm \in Nat, NEW w \in Int,
         GoesOn(src, more), Follows(nm, out, src, w)
  PROVE  Follows(nm, out, Trim(more, w), w)
<1> DEFINE s == Trim(more, w)
<1>1. PICK d \in 0 .. Len(out) :
        /\ \A i \in 1 .. d : w # Highest /\ Len(src) >= 2 /\ Final(src).x - out[i].x > w
        /\ \A i \in (d + 1) .. Len(out) : i - d <= Len(src) /\ out[i] = Image(nm, src)[i - d]
        /\ \A j \in 1 .. Len(src) : out # << >> /\ j + d > Len(out) => src[j].x > Final(out).x
  BY DEF Follows
<1>2. out # << >> => src # << >> /\ Final(out).x <= Final(src).x
  BY DEF Follows
<1>3. s \in Seq(Sample) /\ (s = << >> <=> more = << >>) /\ (more # << >> => Final(s) = Final(more))
  BY TrimSound
<1>4. PICK n \in 0 .. Len(more) :
        /\ more # << >> => n < Len(more)
        /\ Len(s) = Len(more) - n
        /\ \A i \in 1 .. Len(s) : s[i] = more[n + i]
        /\ \A k \in 0 .. (n - 1) :
             w # Highest /\ Len(more) - k > 2 /\ Final(more).x - more[k + 1].x > w
  BY TrimPoint
<1> HIDE DEF s
<1>5. /\ Len(src) \in Nat /\ Len(out) \in Nat /\ Len(more) \in Nat
      /\ (out = << >> <=> Len(out) = 0) /\ (src = << >> <=> Len(src) = 0)
      /\ (more = << >> <=> Len(more) = 0)
      /\ \A i \in 1 .. Len(out) : out[i].x \in Int
      /\ \A i \in 1 .. Len(src) : src[i].x \in Int
      /\ \A i \in 1 .. Len(more) : more[i].x \in Int
      /\ (out # << >> => Final(out).x \in Int)
      /\ (src # << >> => Final(src).x \in Int /\ Final(src) = src[Len(src)])
      /\ (more # << >> => Final(more).x \in Int /\ Final(more) = more[Len(more)])
  <2>1. /\ Len(src) \in Nat /\ Len(out) \in Nat /\ Len(more) \in Nat
        /\ \A i \in 1 .. Len(out) : out[i].x \in Int
        /\ \A i \in 1 .. Len(src) : src[i].x \in Int
        /\ \A i \in 1 .. Len(more) : more[i].x \in Int
    BY Samples
  <2>2. /\ (out # << >> => Len(out) >= 1 /\ Final(out) = out[Len(out)])
        /\ (src # << >> => Len(src) >= 1 /\ Final(src) = src[Len(src)])
        /\ (more # << >> => Len(more) >= 1 /\ Final(more) = more[Len(more)])
        /\ (out = << >> => Len(out) = 0) /\ (src = << >> => Len(src) = 0)
        /\ (more = << >> => Len(more) = 0)
    BY Samples
  <2>3. QED BY <2>1, <2>2
<1>6. /\ Len(more) >= Len(src) /\ \A i \in 1 .. Len(src) : more[i] = src[i]
      /\ src # << >> => \A i \in (Len(src) + 1) .. Len(more) : more[i].x > Final(src).x
  BY DEF GoesOn
<1>7. src # << >> => more # << >> /\ Final(src).x <= Final(more).x
  <2> SUFFICES ASSUME src # << >>
               PROVE  more # << >> /\ Final(src).x <= Final(more).x
    OBVIOUS
  <2>1. more # << >> /\ Len(more) \in 1 .. Len(more)
    BY <1>5, <1>6
  <2>2. CASE Len(more) = Len(src)
    BY <1>5, <1>6, <2>1, <2>2
  <2>3. CASE Len(more) # Len(src)
    <3>1. Len(more) \in (Len(src) + 1) .. Len(more)
      BY <1>5, <1>6, <2>3
    <3>2. QED BY <1>5, <1>6, <2>1, <3>1
  <2>4. QED BY <2>2, <2>3
<1>8. out # << >> => s # << >> /\ Final(out).x <= Final(s).x
  BY <1>2, <1>3, <1>5, <1>7
<1> DEFINE e == IF d + n <= Len(out) THEN d + n ELSE Len(out)
<1>9. e \in 0 .. Len(out) /\ e >= d /\ e <= d + n
  BY <1>5
<1>10. ASSUME NEW i \in 1 .. e
       PROVE  w # Highest /\ Len(s) >= 2 /\ Final(s).x - out[i].x > w
  <2>1. i \in 1 .. Len(out) /\ out[i].x \in Int /\ out # << >> /\ src # << >>
    BY <1>2, <1>5, <1>9
  <2>2. Final(s) = Final(more) /\ Final(src).x <= Final(s).x /\ Final(s).x \in Int
    BY <1>3, <1>5, <1>7, <2>1
  <2>3. CASE i <= d
    <3>1. w # Highest /\ Len(src) >= 2 /\ Final(src).x - out[i].x > w
      BY <1>1, <2>3
    <3>2. Len(s) >= 2
      <4>1. CASE n = 0
        BY <1>4, <1>5, <1>6, <3>1, <4>1
      <4>2. CASE n # 0
        <5>1. n - 1 \in 0 .. (n - 1)
          BY <4>2
        <5>2. Len(more) - (n - 1) > 2
          BY <1>4, <5>1
        <5>3. QED BY <1>4, <1>5, <5>2
      <4>3. QED BY <4>1, <4>2
    <3>3. QED BY <1>5, <2>1, <2>2, <3>1, <3>2
  <2>4. CASE ~(i <= d)
    <3> DEFINE k == i - d - 1
    <3>1. i \in (d + 1) .. Len(out) /\ k \in 0 .. (n - 1) /\ k + 1 = i - d
      BY <1>9, <2>1, <2>4
    <3>2. k + 1 \in 1 .. Len(src) /\ out[i] = Image(nm, src)[k + 1]
      BY <1>1, <1>5, <3>1
    <3> HIDE DEF k
    <3>3. out[i].x = more[k + 1].x
      <4>1. \A j \in 1 .. Len(src) : Image(nm, src)[j].x = src[j].x
        BY Imaged
      <4>2. QED BY <1>6, <3>2, <4>1
    <3>4. w # Highest /\ Final(more).x - more[k + 1].x > w
      BY <1>4, <3>1
    <3>5. n - 1 \in 0 .. (n - 1)
      BY <3>1
    <3>6. Len(more) - (n - 1) > 2
      BY <1>4, <3>5
    <3>7. QED BY <1>4, <1>5, <2>2, <3>3, <3>4, <3>6
  <2>5. QED BY <2>3, <2>4
<1>11. ASSUME NEW i \in (e + 1) .. Len(out)
       PROVE  i - e <= Len(s) /\ out[i] = Image(nm, s)[i - e]
  <2>1. e = d + n /\ i \in (d + 1) .. Len(out)
    BY <1>5
  <2>2. i - d <= Len(src) /\ out[i] = Image(nm, src)[i - d]
    BY <1>1, <2>1
  <2>3. /\ i - d \in 1 .. Len(src) /\ i - d \in 1 .. Len(more) /\ i - e \in 1 .. Len(s)
        /\ n + (i - e) = i - d
    BY <1>4, <1>5, <1>6, <2>1, <2>2
  <2>4. s[i - e] = src[i - d]
    BY <1>4, <1>6, <2>3
  <2>5. Image(nm, s)[i - e] = Image(nm, src)[i - d]
    <3>1. \A a \in 1 .. Len(s), b \in 1 .. Len(src) :
            s[a] = src[b] => Image(nm, s)[a] = Image(nm, src)[b]
      BY <1>3, ImageAt
    <3>2. QED BY <2>3, <2>4, <3>1
  <2>6. QED BY <2>2, <2>3, <2>5
<1>12. ASSUME NEW j \in 1 .. Len(s), out # << >>, j + e > Len(out)
       PROVE  s[j].x > Final(out).x
  <2>1. n + j \in 1 .. Len(more) /\ s[j] = more[n + j] /\ n + j + d > Len(out)
    BY <1>4, <1>5, <1>12
  <2>2. CASE n + j <= Len(src)
    <3>1. n + j \in 1 .. Len(src) /\ (n + j) + d > Len(out)
      BY <1>5, <2>1, <2>2
    <3>2. QED BY <1>1, <1>6, <1>12, <2>1, <3>1
  <2>3. CASE ~(n + j <= Len(src))
    <3>1. n + j \in (Len(src) + 1) .. Len(more) /\ src # << >>
      BY <1>2, <1>5, <1>12, <2>1, <2>3
    <3>2. more[n + j].x > Final(src).x /\ Final(out).x <= Final(src).x
      BY <1>2, <1>6, <1>12, <3>1
    <3>3. QED BY <1>5, <1>12, <2>1, <3>1, <3>2
  <2>4. QED BY <2>2, <2>3
<1> HIDE DEF e
<1>13. Follows(nm, out, s, w)
  BY <1>8, <1>9, <1>10, <1>11, <1>12 DEF Follows
<1>14. QED BY <1>13 DEF s

\* What follows a series still does when it is trimmed itself: it keeps what
\* the series has kept.
LEMMA TrimmedFollows ==
  ASSUME NEW out \in Seq(Sample), NEW src \in Seq(Sample), NEW nm \in Nat, NEW w \in Int,
         Trim(src, w) = src, Follows(nm, out, src, w)
  PROVE  Follows(nm, Trim(out, w), src, w)
<1> DEFINE r == Trim(out, w)
<1>1. PICK d \in 0 .. Len(out) :
        /\ \A i \in 1 .. d : w # Highest /\ Len(src) >= 2 /\ Final(src).x - out[i].x > w
        /\ \A i \in (d + 1) .. Len(out) : i - d <= Len(src) /\ out[i] = Image(nm, src)[i - d]
        /\ \A j \in 1 .. Len(src) : out # << >> /\ j + d > Len(out) => src[j].x > Final(out).x
  BY DEF Follows
<1>2. out # << >> => src # << >> /\ Final(out).x <= Final(src).x
  BY DEF Follows
<1>3. r \in Seq(Sample) /\ (r = << >> <=> out = << >>) /\ (out # << >> => Final(r) = Final(out))
  BY TrimSound
<1>4. PICK n \in 0 .. Len(out) :
        /\ Len(r) = Len(out) - n
        /\ \A i \in 1 .. Len(r) : r[i] = out[n + i]
        /\ \A k \in 0 .. (n - 1) :
             w # Highest /\ Len(out) - k > 2 /\ Final(out).x - out[k + 1].x > w
  BY TrimPoint
<1> HIDE DEF r
<1>5. /\ Len(src) \in Nat /\ Len(out) \in Nat
      /\ \A i \in 1 .. Len(out) : out[i].x \in Int
      /\ \A i \in 1 .. Len(src) : src[i].x \in Int
      /\ (out # << >> => Final(out).x \in Int) /\ (out = << >> => Len(out) = 0)
      /\ (src # << >> => Final(src).x \in Int)
  BY Samples
<1>6. n <= d
  <2>1. SUFFICES ASSUME ~(n <= d)
                 PROVE  FALSE
    OBVIOUS
  <2>2. d \in 0 .. (n - 1) /\ d + 1 \in 1 .. Len(out) /\ d + 1 \in (d + 1) .. Len(out)
        /\ (d + 1) - d = 1
    BY <1>5, <2>1
  <2>3. w # Highest /\ Len(out) - d > 2 /\ Final(out).x - out[d + 1].x > w
    BY <1>4, <2>2
  <2>4. out # << >> /\ src # << >> /\ Final(out).x <= Final(src).x
    BY <1>2, <1>5, <2>2
  <2>5. out[d + 1] = Image(nm, src)[1] /\ 1 \in 1 .. Len(src)
    BY <1>1, <1>5, <2>2
  <2>6. out[d + 1].x = src[1].x
    <3>1. \A j \in 1 .. Len(src) : Image(nm, src)[j].x = src[j].x
      BY Imaged
    <3>2. QED BY <2>5, <3>1
  <2>7. Len(src) > 2
    <3>1. Len(out) \in (d + 1) .. Len(out)
      BY <1>5, <2>2
    <3>2. QED BY <1>1, <1>5, <2>3, <3>1
  <2>8. Stops(src, w, 0)
    BY <2>3, <2>4, StopsAtOnce
  <2>9. Final(src).x - src[1].x <= w
    BY <1>5, <2>7, <2>8 DEF Stops
  <2>10. QED BY <1>5, <2>3, <2>4, <2>5, <2>6, <2>9
<1> DEFINE e == d - n
<1>7. e \in 0 .. Len(r) /\ e + n = d
  BY <1>4, <1>5, <1>6
<1> HIDE DEF e
<1>8. r # << >> => src # << >> /\ Final(r).x <= Final(src).x
  BY <1>2, <1>3
<1>9. ASSUME NEW i \in 1 .. e
      PROVE  w # Highest /\ Len(src) >= 2 /\ Final(src).x - r[i].x > w
  <2>1. n + i \in 1 .. d /\ i \in 1 .. Len(r)
    BY <1>7
  <2>2. QED BY <1>1, <1>4, <2>1
<1>10. ASSUME NEW i \in (e + 1) .. Len(r)
       PROVE  i - e <= Len(src) /\ r[i] = Image(nm, src)[i - e]
  <2>1. n + i \in (d + 1) .. Len(out) /\ (n + i) - d = i - e /\ i \in 1 .. Len(r)
    BY <1>4, <1>5, <1>7
  <2>2. QED BY <1>1, <1>4, <2>1
<1>11. ASSUME NEW j \in 1 .. Len(src), r # << >>, j + e > Len(r)
       PROVE  src[j].x > Final(r).x
  <2>1. j + d > Len(out)
    BY <1>4, <1>5, <1>7, <1>11
  <2>2. QED BY <1>1, <1>3, <1>11, <2>1
<1>12. Follows(nm, r, src, w)
  BY <1>7, <1>8, <1>9, <1>10, <1>11 DEF Follows
<1>13. QED BY <1>12 DEF r

\* calculate adds later samples only.
LEMMA ExtendGoesOn ==
  ASSUME NEW out \in Seq(Sample), NEW src \in Seq(Sample), NEW nm \in Nat, Sorted(src)
  PROVE  Extend(nm, out, src) \in Seq(Sample) /\ GoesOn(out, Extend(nm, out, src))
<1> DEFINE r == Extend(nm, out, src)
           t == IF out = << >> THEN Lowest ELSE Final(out).x
<1>1. r \in Seq(Sample)
  BY Extended
<1>2. PICK n \in 0 .. Len(src) :
        /\ Len(r) = Len(out) + (Len(src) - n)
        /\ \A i \in 1 .. Len(out) : r[i] = out[i]
        /\ \A i \in 1 .. (Len(src) - n) :
             r[Len(out) + i].x = src[n + i].x /\ r[Len(out) + i].y = Append(src[n + i].y, nm)
        /\ \A i \in 1 .. n : src[i].x <= t
        /\ \A i \in (n + 1) .. Len(src) : src[i].x > t
  BY Extended
<1> HIDE DEF r, t
<1>3. /\ Len(src) \in Nat /\ Len(out) \in Nat /\ n \in Nat /\ n <= Len(src)
      /\ Len(r) = Len(out) + (Len(src) - n)
  <2>1. Len(src) \in Nat /\ Len(out) \in Nat
    BY Samples
  <2>2. QED BY <1>2, <2>1
<1>4. ASSUME out # << >>, NEW i \in (Len(out) + 1) .. Len(r)
      PROVE  r[i].x > Final(out).x
  <2> DEFINE k == i - Len(out)
  <2>1. k \in 1 .. (Len(src) - n) /\ Len(out) + k = i /\ n + k \in (n + 1) .. Len(src)
    BY <1>3
  <2> HIDE DEF k
  <2>2. QED BY <1>2, <1>4, <2>1 DEF t
<1>5. GoesOn(out, r)
  <2>1. Len(r) >= Len(out)
    BY <1>3
  <2>2. QED BY <1>2, <1>4, <2>1 DEF GoesOn
<1>6. QED BY <1>1, <1>5 DEF r

\* MergeData puts a sample that is later behind the others.
LEMMA MergedGoesOn ==
  ASSUME NEW q \in Seq(Sample), NEW s \in Sample, q = << >> \/ Final(q).x < s.x,
         NEW r \in Merged(q, s)
  PROVE  r \in Seq(Sample) /\ GoesOn(q, r)
<1>1. /\ Len(q) \in Nat /\ (q = << >> => Len(q) = 0) /\ s.x \in Int
      /\ (q # << >> => Len(q) >= 1 /\ Final(q) = q[Len(q)] /\ q[Len(q)].x \in Int)
  BY Samples DEF Sample
<1>2. ~(Len(q) = 1 /\ q[1].x = s.x)
  BY <1>1
<1>3. PICK n \in 0 .. Len(q) : r = Insert(q, n, s)
                              /\ \A i, j \in 1 .. Len(r) : i <= j => r[i].x <= r[j].x
  BY <1>2 DEF Merged
<1>4. /\ r \in Seq(Sample) /\ Len(r) = Len(q) + 1
      /\ \A i \in 1 .. Len(r) :
           r[i] = IF i <= n THEN q[i] ELSE IF i = n + 1 THEN s ELSE q[i - 1]
  <2>1. r = Insert(q, n, s)
    BY <1>3
  <2>2. QED BY <2>1, Inserted
<1>5. n = Len(q)
  <2>1. SUFFICES ASSUME n # Len(q)
                 PROVE  FALSE
    OBVIOUS
  <2>2. n + 1 \in 1 .. Len(r) /\ Len(r) \in 1 .. Len(r) /\ n + 1 <= Len(r) /\ q # << >>
        /\ Len(r) - 1 = Len(q) /\ Len(r) # n + 1 /\ ~(Len(r) <= n)
    BY <1>1, <1>4, <2>1
  <2>3. r[n + 1] = s /\ r[Len(r)] = q[Len(q)]
    BY <1>4, <2>2
  <2>4. r[n + 1].x <= r[Len(r)].x
    BY <1>3, <2>2
  <2>5. QED BY <1>1, <2>2, <2>3, <2>4
<1>6. \A i \in 1 .. Len(q) : r[i] = q[i]
  BY <1>1, <1>4, <1>5
<1>7. ASSUME q # << >>, NEW i \in (Len(q) + 1) .. Len(r)
      PROVE  r[i].x > Final(q).x
  <2>1. i = n + 1 /\ i \in 1 .. Len(r) /\ ~(i <= n)
    BY <1>1, <1>4, <1>5
  <2>2. r[i] = s
    BY <1>4, <2>1
  <2>3. QED BY <1>1, <1>7, <2>2
<1>8. QED BY <1>1, <1>4, <1>6, <1>7 DEF GoesOn

\* What the invariant says of the series.
LEMMA SeriesFacts ==
  ASSUME IInv
  PROVE  /\ series \in [Names -> Seq(Sample)] /\ order \in [Functions -> Nat] /\ limit \in Int
         /\ \A n \in Names : Sorted(series[n]) /\ Sound(series[n], stamp)
         /\ \A n \in Names : \A i \in 1 .. Len(series[n]) : series[n][i].x > Lowest
<1>1. /\ series \in [Names -> Seq(Sample)] /\ order \in [Functions -> Nat] /\ limit \in Int
      /\ stamp \in Seq(Times) /\ \A n \in Names : Sound(series[n], stamp)
  BY InvParts DEF Good, Types
<1>2. ASSUME NEW n \in Names, NEW i \in 1 .. Len(series[n])
      PROVE  series[n][i].x > Lowest
  <2>1. series[n][i].y[1] \in 1 .. Len(stamp) /\ series[n][i].x = stamp[series[n][i].y[1]]
    BY <1>1 DEF Sound, Sourced
  <2>2. series[n][i].x \in Times
    BY <1>1, <2>1, ElementOfSeq
  <2>3. QED BY <2>2, TransformsAssumption
<1>3. QED BY <1>1, <1>2 DEF Sound

\* A function that is calculated mirrors its source then.
LEMMA CalculatedMirrors ==
  ASSUME IInv, NEW f \in Functions, NEW nm \in Nat, NEW out \in Seq(Sample),
         Follows(nm, out, series[Link[f]], limit), Trim(series[Link[f]], limit) = series[Link[f]]
  PROVE  Trim(Extend(nm, out, series[Link[f]]), limit) = Image(nm, series[Link[f]])
<1>1. Link[f] \in Names
  BY LinkType
<1>2. QED BY <1>1, SeriesFacts, CatchesUp

LEMMA CalculateInStep ==
  ASSUME IInv, Mirroring, NEW g \in Functions, Calculate(g)
  PROVE  Mirroring'
<1> DEFINE src == series[Link[g]]
           new == Trim(Extend(order[g], series[g], src), limit)
<1>1. /\ step = "functions" /\ g \in pending /\ pending' = pending \ {g}
      /\ \A h \in pending : order[g] <= order[h]
      /\ series' = [series EXCEPT ![g] = new]
      /\ UNCHANGED <<limit, streaming, order, step, again, disturbed>>
  BY DEF Calculate, plotting
<1>2. /\ series \in [Names -> Seq(Sample)] /\ order \in [Functions -> Nat] /\ limit \in Int
      /\ \A n \in Names : Sorted(series[n])
      /\ \A n \in Names : Trim(series[n], limit) = series[n]
      /\ ~streaming => limit = Highest
  BY <1>1, SeriesFacts DEF Mirroring, Tight
<1>3. /\ g \in Names /\ Link[g] \in Names /\ g # Base
      /\ src \in Seq(Sample) /\ Sorted(src) /\ series[g] \in Seq(Sample)
  BY <1>2, LinkType
<1>4. /\ Extend(order[g], series[g], src) \in Seq(Sample)
      /\ GoesOn(series[g], Extend(order[g], series[g], src))
  BY <1>2, <1>3, ExtendGoesOn
<1>5. new \in Seq(Sample) /\ Trim(new, limit) = new
  BY <1>2, <1>4, TrimSound, TrimTwice
<1> HIDE DEF new
<1>6. \A n \in Names : series'[n] = IF n = g THEN new ELSE series[n]
  BY <1>1, <1>2
<1>7. Tight'
  BY <1>1, <1>2, <1>5, <1>6 DEF Tight
<1>8. ASSUME NEW f \in Functions, Exists(f), After(f), f \notin disturbed
      PROVE  InStep(f)'
  <2>1. InStep(f) /\ f \in Names /\ Link[f] \in Names
    BY <1>8, LinkType DEF Mirroring
  <2>2. Done(f)' <=> f \notin pending'
    BY <1>1 DEF Done
  <2>3. CASE f = g
    <3>1. Link[f] # g
      BY <1>2, <1>3, <1>8, <2>3 DEF After
    <3>2. Follows(order[g], series[g], src, limit)
      BY <1>1, <2>1, <2>3 DEF InStep
    <3>3. new = Image(order[g], src)
      BY <1>2, <1>3, <3>2, CalculatedMirrors DEF new
    <3>4. Mirrors(f)'
      BY <1>1, <1>6, <2>1, <2>3, <3>1, <3>3 DEF Mirrors
    <3>5. QED BY <1>1, <2>3, <3>4 DEF InStep
  <2>4. CASE f # g /\ Link[f] = g
    <3>1. order[g] < order[f] /\ f \in pending
      <4>1. order[g] < order[f] /\ order[f] \in Nat /\ order[g] \in Nat
        BY <1>2, <1>3, <1>8, <2>4 DEF After
      <4>2. f \notin pending => order[f] <= order[g]
        BY <1>1 DEF IInv, InOrder
      <4>3. QED BY <4>1, <4>2
    <3>2. Follows(order[f], series[f], series[g], limit)
      BY <1>1, <2>1, <2>4, <3>1 DEF InStep
    <3>3. Follows(order[f], series[f], new, limit)
      BY <1>2, <1>3, <1>4, <2>1, <3>2, StillFollows DEF new
    <3>4. Follows(order[f], series[f], series[Link[f]], limit)'
      BY <1>1, <1>6, <2>1, <2>4, <3>3
    <3>5. QED BY <1>1, <2>2, <2>4, <3>1, <3>4 DEF InStep
  <2>5. CASE f # g /\ Link[f] # g
    <3>1. series'[f] = series[f] /\ series'[Link[f]] = series[Link[f]]
      BY <1>6, <2>1, <2>5
    <3>2. Mirrors(f) => Mirrors(f)'
      BY <1>1, <3>1 DEF Mirrors
    <3>3. Follows(order[f], series[f], series[Link[f]], limit)
            => Follows(order[f], series[f], series[Link[f]], limit)'
      BY <1>1, <3>1
    <3>4. QED BY <1>1, <2>1, <2>2, <2>5, <3>2, <3>3 DEF InStep, Done
  <2>6. QED BY <2>3, <2>4, <2>5
<1>9. \A f \in Functions : (Exists(f) /\ After(f) /\ f \notin disturbed)'
                             => Exists(f) /\ After(f) /\ f \notin disturbed
  BY <1>1 DEF Exists, After
<1>10. QED BY <1>1, <1>2, <1>7, <1>8, <1>9 DEF Mirroring

\* After a move every function follows its source.
LEMMA MovedInStep ==
  ASSUME IInv, Mirroring, step = "move", NEW all \in [Names -> Seq(Sample)],
         series' = [n \in Names |-> Trim(all[n], limit)],
         step' = "functions", pending' = {f \in Functions : Exists(f)},
         UNCHANGED <<limit, order, streaming>>,
         \A f \in Functions : Exists(f) /\ f \notin disturbed' =>
           f \notin disturbed /\ all[f] = series[f] /\ GoesOn(series[Link[f]], all[Link[f]])
  PROVE  Mirroring'
<1>1. /\ series \in [Names -> Seq(Sample)] /\ order \in [Functions -> Nat] /\ limit \in Int
      /\ \A n \in Names : series'[n] = Trim(all[n], limit) /\ all[n] \in Seq(Sample)
  BY SeriesFacts
<1>2. Tight'
  BY <1>1, TrimTwice DEF Tight
<1>3. ASSUME NEW f \in Functions, (Exists(f) /\ After(f) /\ f \notin disturbed)'
      PROVE  InStep(f)'
  <2>1. /\ Exists(f) /\ After(f) /\ f \notin disturbed /\ all[f] = series[f]
        /\ GoesOn(series[Link[f]], all[Link[f]])
        /\ f \in Names /\ Link[f] \in Names /\ order[f] \in Nat
    BY <1>1, <1>3, LinkType DEF Exists, After
  <2>2. series[f] = << >> \/ series[f] = Image(order[f], series[Link[f]])
    BY <2>1 DEF Mirroring, InStep, Mirrors
  <2>3. Follows(order[f], series[f], series[Link[f]], limit)
    BY <1>1, <2>1, <2>2, ImageFollows
  <2> DEFINE src == Trim(all[Link[f]], limit)
  <2>4. src \in Seq(Sample) /\ Trim(src, limit) = src
    BY <1>1, <2>1, TrimSound, TrimTwice
  <2>5. Follows(order[f], series[f], src, limit)
    BY <1>1, <2>1, <2>3, StillFollows
  <2> HIDE DEF src
  <2>6. Follows(order[f], Trim(series[f], limit), src, limit)
    BY <1>1, <2>1, <2>4, <2>5, TrimmedFollows
  <2>7. Follows(order[f], series[f], series[Link[f]], limit)'
    BY <1>1, <2>1, <2>6 DEF src
  <2>8. f \in pending'
    BY <2>1
  <2>9. QED BY <2>7, <2>8 DEF InStep, Done
<1>4. QED BY <1>2, <1>3 DEF Mirroring

\* The sample that is received at time t.
LEMMA SampleOfTime ==
  ASSUME IInv, NEW t \in Times
  PROVE  Numbered(<<t>>)[1] \in Sample /\ Numbered(<<t>>)[1].x = t
<1>1. stamp \in Seq(Times) /\ t \in Int
  BY TransformsAssumption DEF IInv, TypeOK
<1>2. Len(stamp) + 1 \in Nat
  BY <1>1, LenProperties
<1>3. <<Len(stamp) + 1>> \in Seq(Nat)
  BY <1>2
<1>4. Numbered(<<t>>)[1] = [x |-> t, y |-> <<Len(stamp) + 1>>]
  BY DEF Numbered
<1>5. [x |-> t, y |-> <<Len(stamp) + 1>>] \in Sample
  BY <1>1, <1>3 DEF Sample
<1>6. [x |-> t, y |-> <<Len(stamp) + 1>>].x = t
  OBVIOUS
<1>7. QED BY <1>4, <1>5, <1>6, Zenon

LEMMA MoveInStep == ASSUME IInv, Mirroring, Move PROVE Mirroring'
<1>1. /\ step = "move" /\ step' = "functions" /\ pending' = {f \in Functions : Exists(f)}
      /\ UNCHANGED <<limit, order, streaming>>
      /\ ~streaming => limit = Highest
  BY DEF Move, Mirroring
<1>2. /\ series \in [Names -> Seq(Sample)] /\ limit \in Int
      /\ \A n \in Names : GoesOn(series[n], series[n])
  <2>1. \A q \in Seq(Sample) : Len(q) \in Nat
    BY Samples
  <2>2. \A q \in Seq(Sample) : GoesOn(q, q)
    BY <2>1 DEF GoesOn
  <2>3. QED BY <2>2, SeriesFacts
<1>3. CASE /\ UNCHANGED <<stamp, disturbed>>
           /\ series' = IF streaming THEN [n \in Names |-> Trim(series[n], limit)] ELSE series
  <2>1. ~streaming => series = [n \in Names |-> Trim(series[n], limit)]
    BY <1>1, <1>2 DEF Trim
  <2>2. series' = [n \in Names |-> Trim(series[n], limit)]
    BY <1>3, <2>1
  <2>3. \A f \in Functions : f \in Names /\ Link[f] \in Names
    BY LinkType
  <2>4. QED BY <1>1, <1>2, <1>3, <2>2, <2>3, MovedInStep
<1>4. ASSUME NEW t \in Times, NEW q \in Merged(series[Base], Numbered(<<t>>)[1]),
             series' = [n \in Names |-> Trim(IF n = Base THEN q ELSE series[n], limit)],
             disturbed' = IF series[Base] = << >> \/ Final(series[Base]).x < t THEN disturbed
                          ELSE IF Final(series[Base]).x = t THEN disturbed \union FromBase
                          ELSE disturbed \union FromBase \union {Base}
      PROVE  Mirroring'
  <2> DEFINE all == [n \in Names |-> IF n = Base THEN q ELSE series[n]]
  <2>1. q \in Seq(Sample)
    <3>1. Sound(series[Base], stamp)
      BY SeriesFacts, LinkType
    <3>2. QED BY <1>4, <3>1, MergedSound DEF IInv
  <2>2. /\ all \in [Names -> Seq(Sample)]
        /\ series' = [n \in Names |-> Trim(all[n], limit)]
        /\ all[Base] = q
        /\ \A n \in Names : n # Base => all[n] = series[n]
    BY <1>2, <1>4, <2>1, LinkType
  <2> HIDE DEF all
  <2>3. Numbered(<<t>>)[1] \in Sample /\ Numbered(<<t>>)[1].x = t
    BY SampleOfTime
  <2>4. \A f \in Functions : Exists(f) /\ f \notin disturbed' =>
          f \notin disturbed /\ all[f] = series[f] /\ GoesOn(series[Link[f]], all[Link[f]])
    <3> SUFFICES ASSUME NEW f \in Functions, Exists(f), f \notin disturbed'
                 PROVE  /\ f \notin disturbed /\ all[f] = series[f]
                        /\ GoesOn(series[Link[f]], all[Link[f]])
      OBVIOUS
    <3>1. f \in Names /\ Link[f] \in Names /\ f # Base
      BY LinkType
    <3>2. f \notin disturbed /\ all[f] = series[f]
      BY <1>4, <2>2, <3>1
    <3>3. CASE Link[f] # Base
      BY <1>2, <2>2, <3>1, <3>2, <3>3
    <3>4. CASE Link[f] = Base
      <4>1. series[Base] = << >> \/ Final(series[Base]).x < t
        BY <1>4, <3>4 DEF FromBase
      <4>2. GoesOn(series[Base], q)
        BY <1>2, <1>4, <2>3, <3>1, <3>4, <4>1, MergedGoesOn
      <4>3. QED BY <2>2, <3>2, <3>4, <4>2
    <3>5. QED BY <3>3, <3>4
  <2>5. QED BY <1>1, <2>2, <2>4, MovedInStep
<1>5. QED BY <1>3, <1>4 DEF Move

LEMMA LimitInStep ==
  ASSUME IInv, Mirroring, NEW l \in Limits, StartStreaming(l) \/ SetLimit(l)
  PROVE  Mirroring'
<1>1. /\ step = "idle" /\ limit' = l /\ l \in Int /\ streaming' = TRUE
      /\ series' = [n \in Names |-> Trim(series[n], l)]
      /\ UNCHANGED <<order, step, disturbed, again, pending>>
  <2>1. CASE StartStreaming(l)
    BY <2>1, Bounds DEF StartStreaming, plotting
  <2>2. CASE SetLimit(l)
    BY <2>2, Bounds DEF SetLimit, plotting, IInv, TypeOK
  <2>3. QED BY <2>1, <2>2
<1>2. series \in [Names -> Seq(Sample)] /\ order \in [Functions -> Nat]
  BY SeriesFacts
<1>3. \A n \in Names : series'[n] = Trim(series[n], l)
  BY <1>1
<1>4. Tight'
  BY <1>1, <1>2, <1>3, TrimTwice DEF Tight
<1>5. ASSUME NEW f \in Functions, (Exists(f) /\ After(f) /\ f \notin disturbed)'
      PROVE  InStep(f)'
  <2>1. /\ Exists(f) /\ After(f) /\ f \notin disturbed
        /\ f \in Names /\ Link[f] \in Names /\ order[f] \in Nat
    BY <1>1, <1>2, <1>5, LinkType DEF Exists, After
  <2>2. series[f] = Image(order[f], series[Link[f]])
    BY <1>1, <2>1 DEF Mirroring, InStep, Mirrors, Done
  <2>3. Mirrors(f)'
    BY <1>1, <1>2, <1>3, <2>1, <2>2, TrimImage DEF Mirrors
  <2>4. QED BY <1>1, <2>3 DEF InStep
<1>6. QED BY <1>1, <1>4, <1>5 DEF Mirroring

LEMMA PlainInStep ==
  ASSUME Mirroring,
         StopStreaming \/ Replot \/ SetTransform \/ StartCurve \/ NextPoint \/ EndCurve
  PROVE  Mirroring'
<1> USE DEF plotting, counts, Mirroring, Tight, InStep, Mirrors, Done, Exists, After
<1>1. CASE StopStreaming
  BY <1>1 DEF StopStreaming, Trim
<1>2. CASE Replot
  BY <1>2 DEF Replot
<1>3. CASE SetTransform
  <2>1. \A f \in Functions : f # Base
    BY LinkType
  <2>2. QED BY <1>3, <2>1 DEF SetTransform, ResetCurve
<1>4. CASE StartCurve
  BY <1>4 DEF StartCurve
<1>5. CASE NextPoint
  BY <1>5 DEF NextPoint
<1>6. CASE EndCurve
  BY <1>6 DEF EndCurve
<1>7. QED BY <1>1, <1>2, <1>3, <1>4, <1>5, <1>6

LEMMA LoadInStep ==
  ASSUME IInv, Mirroring, NEW times \in Files, Load(times) \/ Import(times)
  PROVE  Mirroring'
<1>1. CASE Load(times)
  <2>1. /\ step' = "curve" /\ again' = TRUE /\ limit = Highest
        /\ UNCHANGED <<order, streaming, limit>>
        /\ \A f \in Functions : Exists(f) => series'[f] = << >>
    BY <1>1, LinkType DEF Load, ResetCurve, Mirroring
  <2>2. Tight'
    BY <2>1 DEF Tight, Trim
  <2>3. QED BY <2>1, <2>2 DEF Mirroring, InStep, Done, Exists
<1>2. CASE Import(times)
  <2>1. /\ step = "idle" /\ step' = "move"
        /\ UNCHANGED <<order, streaming, limit>>
        /\ \A f \in Functions : f \notin disturbed' => f \notin disturbed /\ f \notin FromBase
        /\ \A n \in Names : n # Base => series'[n] = series[n]
    BY <1>2, SeriesFacts DEF Import
  <2>2. ASSUME NEW f \in Functions, (Exists(f) /\ After(f) /\ f \notin disturbed)'
        PROVE  InStep(f)'
    <3>1. /\ Exists(f) /\ After(f) /\ f \notin disturbed /\ Link[f] # Base
          /\ f \in Names /\ Link[f] \in Names /\ f # Base
      BY <2>1, <2>2, LinkType DEF Exists, After, FromBase
    <3>2. Mirrors(f)
      BY <2>1, <3>1 DEF Mirroring, InStep, Done
    <3>3. Mirrors(f)'
      BY <2>1, <3>1, <3>2 DEF Mirrors
    <3>4. QED BY <2>1, <3>3 DEF InStep, Done
  <2>3. QED BY <2>1, <2>2 DEF Mirroring
<1>3. QED BY <1>1, <1>2

\* A function is made, or made again, for its source as it is.
LEMMA MadeInStep ==
  ASSUME IInv, Mirroring, step = "idle", NEW f \in Functions, NEW nm \in Nat,
         order' = [order EXCEPT ![f] = nm],
         series' = [series EXCEPT ![f] = Trim(Extend(nm, << >>, series[Link[f]]), limit)],
         disturbed' = (disturbed \ {f}) \union Dependents(f),
         UNCHANGED <<limit, streaming>>,
         step' \in {"idle", "move"}
  PROVE  Mirroring'
<1> DEFINE src == series[Link[f]]
           new == Trim(Extend(nm, << >>, src), limit)
<1>1. /\ series \in [Names -> Seq(Sample)] /\ order \in [Functions -> Nat] /\ limit \in Int
      /\ \A n \in Names : Trim(series[n], limit) = series[n]
      /\ f \in Names /\ Link[f] \in Names /\ f # Base
      /\ ~streaming => limit = Highest
  BY SeriesFacts, LinkType DEF Mirroring, Tight
<1>2. new = Image(nm, src)
  <2>1. << >> \in Seq(Sample) /\ Follows(nm, << >>, src, limit)
    BY <1>1, ImageFollows
  <2>2. QED BY <1>1, <2>1, CalculatedMirrors
<1>3. Trim(new, limit) = new
  <2>1. Trim(Image(nm, src), limit) = Image(nm, src)
    BY <1>1, TrimImage
  <2>2. QED BY <1>2, <2>1
<1> HIDE DEF new
<1>4. \A n \in Names : series'[n] = IF n = f THEN new ELSE series[n]
  BY <1>1 DEF new
<1>5. Tight'
  BY <1>1, <1>3, <1>4 DEF Tight
<1>6. ASSUME NEW g \in Functions, (Exists(g) /\ After(g) /\ g \notin disturbed)'
      PROVE  Mirrors(g)'
  <2>1. /\ g \in Names /\ Link[g] \in Names /\ (Link[g] = Base \/ Link[g] \in Functions)
        /\ g \notin Dependents(f)
    BY <1>6, LinkType DEF Names
  <2>2. Link[g] # f
    BY <2>1 DEF Dependents
  <2>3. CASE g = f
    BY <1>1, <1>2, <1>4, <2>1, <2>2, <2>3 DEF Mirrors
  <2>4. CASE g # f
    <3>1. g \notin disturbed /\ order'[g] = order[g]
      BY <1>1, <1>6, <2>4
    <3>2. Exists(g) /\ After(g)
      <4>1. Link[g] \in Functions => order'[Link[g]] = order[Link[g]]
        BY <1>1, <2>2
      <4>2. QED BY <1>6, <2>1, <3>1, <4>1 DEF Exists, After
    <3>3. Mirrors(g)
      BY <3>1, <3>2 DEF Mirroring, InStep, Done
    <3>4. QED BY <1>4, <2>1, <2>2, <2>4, <3>1, <3>3 DEF Mirrors
  <2>5. QED BY <2>3, <2>4
<1>7. QED BY <1>1, <1>5, <1>6 DEF Mirroring, InStep

LEMMA CreateInStep ==
  ASSUME IInv, Mirroring, NEW f \in Functions, Create(f) \/ Refresh(f)
  PROVE  Mirroring'
<1>1. order \in [Functions -> Nat] /\ created \in Nat
  BY InvParts DEF Types
<1>2. CASE Create(f)
  <2>1. /\ created + 1 \in Nat /\ step = "idle" /\ step' = "idle"
        /\ order' = [order EXCEPT ![f] = created + 1]
        /\ series' = [series EXCEPT ![f] = Trim(Extend(created + 1, << >>, series[Link[f]]), limit)]
        /\ disturbed' = (disturbed \ {f}) \union Dependents(f)
        /\ UNCHANGED <<limit, streaming>>
    BY <1>1, <1>2 DEF Create
  <2>2. QED BY <2>1, MadeInStep
<1>3. CASE Refresh(f)
  <2>1. /\ order[f] \in Nat /\ order' = [order EXCEPT ![f] = order[f]]
        /\ step = "idle" /\ step' = "move"
        /\ series' = [series EXCEPT ![f] = Trim(Extend(order[f], << >>, series[Link[f]]), limit)]
        /\ disturbed' = (disturbed \ {f}) \union Dependents(f)
        /\ UNCHANGED <<limit, streaming>>
    BY <1>1, <1>3 DEF Refresh
  <2>2. QED BY <2>1, MadeInStep
<1>4. QED BY <1>2, <1>3

LEMMA DeleteInStep ==
  ASSUME IInv, Mirroring, (\E n \in Names : Delete(n)) \/ ClearBuffer
  PROVE  Mirroring'
<1>1. series \in [Names -> Seq(Sample)] /\ order \in [Functions -> Nat]
  BY SeriesFacts
<1>2. ASSUME NEW n \in Names, Delete(n)
      PROVE  Mirroring'
  <2>1. /\ step = "idle" /\ step' = "idle" /\ UNCHANGED <<limit, streaming>>
        /\ \A m \in Names : series'[m] = IF m = n THEN << >> ELSE series[m]
        /\ order' = [f \in Functions |-> IF f = n THEN 0 ELSE order[f]]
        /\ disturbed' = (disturbed \ {n}) \union Dependents(n)
    BY <1>1, <1>2 DEF Delete
  <2>2. Tight'
    BY <2>1 DEF Tight, Trim, Mirroring
  <2>3. ASSUME NEW g \in Functions, (Exists(g) /\ After(g) /\ g \notin disturbed)'
        PROVE  Mirrors(g)'
    <3>1. /\ g \in Names /\ Link[g] \in Names /\ (Link[g] = Base \/ Link[g] \in Functions)
          /\ Link[g] # n /\ g # n /\ g \notin disturbed
      BY <2>1, <2>3, LinkType DEF Names, Dependents, Exists
    <3>2. order'[g] = order[g] /\ (Link[g] \in Functions => order'[Link[g]] = order[Link[g]])
      BY <2>1, <3>1
    <3>3. Mirrors(g)
      BY <2>1, <2>3, <3>1, <3>2 DEF Mirroring, InStep, Done, Exists, After
    <3>4. series'[g] = series[g] /\ series'[Link[g]] = series[Link[g]]
      BY <2>1, <3>1
    <3>5. QED BY <3>2, <3>3, <3>4 DEF Mirrors
  <2>4. QED BY <2>1, <2>2, <2>3 DEF Mirroring, InStep
<1>3. CASE ClearBuffer
  <2>1. /\ step = "idle" /\ step' = "idle" /\ UNCHANGED <<limit, streaming, order>>
        /\ \A m \in Names : series'[m] = << >>
    BY <1>3 DEF ClearBuffer
  <2>2. Tight'
    BY <2>1 DEF Tight, Trim
  <2>3. \A nm \in Nat : Image(nm, << >>) = << >>
    <3>1. << >> \in Seq(Sample)
      OBVIOUS
    <3>2. QED BY <3>1, Imaged
  <2>4. \A f \in Functions : Mirrors(f)'
    BY <1>1, <2>1, <2>3, LinkType DEF Mirrors
  <2>5. QED BY <2>1, <2>2, <2>4 DEF Mirroring, InStep
<1>4. QED BY <1>2, <1>3

LEMMA StepMirroring == IInv /\ Mirroring /\ [Next]_vars => Mirroring'
<1> SUFFICES ASSUME IInv, Mirroring, [Next]_vars
             PROVE  Mirroring'
  OBVIOUS
<1>1. CASE User
  <2>1. CASE \E l \in Limits : StartStreaming(l) \/ SetLimit(l)
    BY <2>1, LimitInStep
  <2>2. CASE \E times \in Files : Load(times) \/ Import(times)
    BY <2>2, LoadInStep
  <2>3. CASE \E f \in Functions : Create(f) \/ Refresh(f)
    BY <2>3, CreateInStep
  <2>4. QED BY <1>1, <2>1, <2>2, <2>3, DeleteInStep, PlainInStep DEF User
<1>2. CASE UNCHANGED vars
  BY <1>2
  DEF vars, plotting, counts, Mirroring, Tight, InStep, Mirrors, Done, Exists, After
<1>3. QED BY <1>1, <1>2, MoveInStep, CalculateInStep, PlainInStep DEF Next

\* Between replots, the series of a function that was calculated step by step,
\* and trimmed after each, is what the function gives for the whole of its
\* source, unless the source changed behind it (CustomFunction::calculate).
THEOREM AlwaysMirrorsSource == Spec => []MirrorsSource
<1>1. Init => Mirroring
  BY DEF Init, Mirroring, Tight, Trim, Exists
<1>2. IInv /\ Mirroring => MirrorsSource
  BY DEF Mirroring, InStep, Mirrors, Done, MirrorsSource
<1>3. QED BY <1>1, <1>2, StepMirroring, Invariant, PTL DEF Spec

-----------------------------------------------------------------------------
\* What the curve shows: CurveShowsAll.

\* A sample that is not before the curve goes behind it.
LEMMA PushedBehind ==
  ASSUME NEW c \in Seq(Sample), Sorted(c), NEW p \in Sample,
         c # << >> => Final(c).x <= p.x
  PROVE  /\ Push(c, p) \in Seq(Sample) /\ Len(Push(c, p)) = Len(c) + 1
         /\ \A i \in 1 .. Len(c) : Push(c, p)[i] = c[i]
         /\ Push(c, p)[Len(c) + 1] = p
         /\ Push(c, p) # << >> /\ Final(Push(c, p)) = p
<1> DEFINE n == UpTo(c, p.x)
           r == Push(c, p)
<1>1. /\ p.x \in Int /\ Len(c) \in Nat /\ \A i \in 1 .. Len(c) : c[i].x \in Int
      /\ (c # << >> => Len(c) >= 1 /\ Final(c) = c[Len(c)]) /\ (c = << >> => Len(c) = 0)
  BY Samples DEF Sample
<1>2. /\ n \in 0 .. Len(c)
      /\ \A i \in (n + 1) .. Len(c) : c[i].x > p.x
  BY <1>1, UpToSplits
<1>3. r = Insert(c, n, p)
  BY DEF Push
<1> HIDE DEF n, r
<1>4. n = Len(c)
  <2>1. SUFFICES ASSUME n # Len(c)
                 PROVE  FALSE
    OBVIOUS
  <2>2. Len(c) \in (n + 1) .. Len(c) /\ Len(c) \in 1 .. Len(c) /\ c # << >>
    BY <1>1, <1>2, <2>1
  <2>3. c[Len(c)].x > p.x /\ c[Len(c)].x <= p.x /\ c[Len(c)].x \in Int
    BY <1>1, <1>2, <2>2
  <2>4. QED BY <1>1, <2>3
<1>5. /\ r \in Seq(Sample) /\ Len(r) = Len(c) + 1
      /\ \A i \in 1 .. Len(r) :
           r[i] = IF i <= n THEN c[i] ELSE IF i = n + 1 THEN p ELSE c[i - 1]
  <2>1. n \in 0 .. Len(c)
    BY <1>2
  <2>2. /\ Insert(c, n, p) \in Seq(Sample)
        /\ Len(Insert(c, n, p)) = Len(c) + 1
        /\ \A i \in 1 .. Len(Insert(c, n, p)) :
             Insert(c, n, p)[i] = IF i <= n THEN c[i] ELSE IF i = n + 1 THEN p ELSE c[i - 1]
    BY <2>1, Inserted
  <2>3. QED BY <1>3, <2>2, Zenon
<1>6. r[Len(c) + 1] = p /\ \A i \in 1 .. Len(c) : r[i] = c[i]
  BY <1>1, <1>4, <1>5
<1>7. r # << >> /\ Final(r) = p
  <2>1. Len(r) # 0 /\ Final(r) = r[Len(c) + 1]
    BY <1>1, <1>5 DEF Final
  <2>2. QED BY <1>5, <1>6, <2>1, EmptySeq
<1>8. QED BY <1>5, <1>6, <1>7 DEF r

\* What is in view stays in view when the curve is trimmed at its front.
LEMMA TrimInView ==
  ASSUME NEW c \in Seq(Sample), Sorted(c), NEW b \in Seq(Sample), NEW w \in Int,
         NEW i \in 1 .. Len(b), i < Len(b), InView(c, b, i)
  PROVE  InView(Trim(c, w), b, i)
<1> DEFINE r == Trim(c, w)
<1>1. r \in Seq(Sample) /\ (r = << >> <=> c = << >>)
  BY TrimSound
<1>2. PICK n \in 0 .. Len(c) :
        /\ c # << >> => n < Len(c)
        /\ Len(r) = Len(c) - n
        /\ \A j \in 1 .. Len(r) : r[j] = c[n + j]
  BY Trimmed
<1> HIDE DEF r
<1>3. /\ Len(c) \in Nat /\ (c # << >> => Len(c) >= 1) /\ (c = << >> => Len(c) = 0)
      /\ \A j \in 1 .. Len(c) : c[j].x \in Int
      /\ b[i].x \in Int
  BY Samples
<1>4. ASSUME c # << >>
      PROVE  /\ r # << >> /\ n + 1 \in 1 .. Len(c) /\ r[1] = c[n + 1]
             /\ \A j \in 1 .. (n + 1) : c[j].x <= r[1].x
  <2>1. n + 1 \in 1 .. Len(c) /\ 1 \in 1 .. Len(r) /\ r # << >>
    BY <1>1, <1>2, <1>3, <1>4
  <2>2. r[1] = c[n + 1]
    BY <1>2, <2>1
  <2>3. \A j \in 1 .. (n + 1) : j \in 1 .. Len(c) /\ j <= n + 1
    BY <2>1
  <2>4. QED BY <2>1, <2>2, <2>3 DEF Sorted
<1>5. ASSUME \E j \in 1 .. Len(c) : c[j] = b[i]
      PROVE  InView(r, b, i)
  <2>1. PICK j \in 1 .. Len(c) : c[j] = b[i]
    BY <1>5
  <2>2. c # << >>
    BY <1>3
  <2>3. CASE j <= n + 1
    BY <1>4, <2>1, <2>2, <2>3 DEF InView
  <2>4. CASE j > n + 1
    <3>1. j - n \in 1 .. Len(r) /\ n + (j - n) = j
      BY <1>2, <1>3, <2>4
    <3>2. r[j - n] = b[i]
      BY <1>2, <2>1, <3>1
    <3>3. QED BY <3>1, <3>2 DEF InView
  <2>5. QED BY <1>2, <1>3, <2>3, <2>4
<1>6. ASSUME c # << >>, b[i].x <= c[1].x
      PROVE  InView(r, b, i)
  <2>1. 1 \in 1 .. (n + 1) /\ r[1].x \in Int /\ c[1].x \in Int
    BY <1>3, <1>4, <1>6
  <2>2. c[1].x <= r[1].x /\ r # << >>
    BY <1>4, <1>6, <2>1
  <2>3. QED BY <1>3, <1>6, <2>1, <2>2 DEF InView
<1>7. QED BY <1>5, <1>6 DEF InView, r

\* getIndexFromX finds the first sample of a time the series has, and the first
\* sample for a time before all.
LEMMA IndexWhere ==
  ASSUME NEW q \in Seq(Sample), Sorted(q), q # << >>, NEW t \in Int,
         (\E i \in 1 .. Len(q) : q[i].x = t) \/ (\A i \in 1 .. Len(q) : q[i].x > t)
  PROVE  /\ IndexFromX(q, t) \in 1 .. Len(q)
         /\ \A i \in 1 .. Len(q) : IF i < IndexFromX(q, t) THEN q[i].x < t ELSE q[i].x >= t
<1> DEFINE first == CHOOSE i \in 1 .. Len(q) :
                      q[i].x >= t /\ \A j \in 1 .. (i - 1) : q[j].x < t
<1>1. Len(q) \in Nat /\ Len(q) >= 1 /\ \A i \in 1 .. Len(q) : q[i].x \in Int
  BY Samples
<1>2. \E i \in 1 .. Len(q) : q[i].x >= t
  <2>1. 1 \in 1 .. Len(q)
    BY <1>1
  <2>2. QED BY <1>1, <2>1
<1>3. first \in 1 .. Len(q) /\ q[first].x >= t /\ \A j \in 1 .. (first - 1) : q[j].x < t
  <2> DEFINE K == {i \in 1 .. Len(q) : q[i].x >= t}
  <2>1. PICK l \in K : \A k \in K : l <= k
    <3>1. K \subseteq Nat /\ K # {}
      BY <1>1, <1>2
    <3>2. QED BY <3>1, LeastOne
  <2>2. l \in 1 .. Len(q) /\ q[l].x >= t /\ \A j \in 1 .. (l - 1) : q[j].x < t
    <3>1. \A j \in 1 .. (l - 1) : j \in 1 .. Len(q) /\ ~(l <= j)
      BY <1>1
    <3>2. QED BY <1>1, <2>1, <3>1
  <2>3. QED BY <2>2
<1>4. IndexFromX(q, t) = IF first > 1 /\ Distance(q[first - 1].x, t) < Distance(q[first].x, t)
                          THEN first - 1 ELSE first
  BY <1>2 DEF IndexFromX
<1> HIDE DEF first
<1>5. IndexFromX(q, t) = first
  <2>1. CASE \E i \in 1 .. Len(q) : q[i].x = t
    <3>1. PICK i \in 1 .. Len(q) : q[i].x = t
      BY <2>1
    <3>2. first <= i
      BY <1>1, <1>3, <3>1
    <3>3. q[first].x = t
      <4>1. q[first].x <= q[i].x /\ q[first].x \in Int
        BY <1>1, <1>3, <3>2 DEF Sorted
      <4>2. QED BY <1>3, <3>1, <4>1
    <3>4. Distance(q[first].x, t) = 0
      BY <3>3 DEF Distance
    <3>5. first > 1 => Distance(q[first - 1].x, t) >= 0 /\ Distance(q[first - 1].x, t) \in Int
      <4>1. first > 1 => q[first - 1].x \in Int
        BY <1>1, <1>3
      <4>2. QED BY <4>1 DEF Distance
    <3>6. QED BY <1>4, <3>4, <3>5
  <2>2. CASE \A i \in 1 .. Len(q) : q[i].x > t
    <3>1. ~(first > 1)
      <4>1. first > 1 => 1 \in 1 .. (first - 1) /\ 1 \in 1 .. Len(q)
        BY <1>1, <1>3
      <4>2. first > 1 => q[1].x < t /\ q[1].x > t /\ q[1].x \in Int
        BY <1>1, <1>3, <2>2, <4>1
      <4>3. QED BY <4>2
    <3>2. QED BY <1>4, <3>1
  <2>3. QED BY <2>1, <2>2
<1>6. \A i \in 1 .. Len(q) : IF i < first THEN q[i].x < t ELSE q[i].x >= t
  <2> TAKE i \in 1 .. Len(q)
  <2>1. CASE i < first
    BY <1>1, <1>3, <2>1
  <2>2. CASE ~(i < first)
    <3>1. q[first].x <= q[i].x /\ q[first].x \in Int /\ q[i].x \in Int
      BY <1>1, <1>3, <2>2 DEF Sorted
    <3>2. QED BY <1>3, <2>2, <3>1
  <2>3. QED BY <2>1, <2>2
<1>7. QED BY <1>3, <1>5, <1>6

\* A series that still has the time the curve ends at, and got nothing new
\* before it.
LEMMA AwaitedIf ==
  ASSUME NEW b \in Seq(Sample), NEW r \in Seq(Sample), Sorted(r), curve \in Seq(Sample),
         Settled(b),
         b # << >> => \E i \in 1 .. Len(r) : r[i].x = Final(b).x,
         b # << >> => \A i \in 1 .. Len(r) :
                        r[i].x < Final(b).x => \E k \in 1 .. Len(b) : r[i] = b[k]
  PROVE  Awaited(r)
<1>1. /\ Len(r) \in Nat /\ (r = << >> => Len(r) = 0)
      /\ \A i \in 1 .. Len(r) : r[i].x \in Int
      /\ b # << >> => Final(b).x \in Int
  BY Samples
<1>2. CASE b = << >>
  BY <1>2 DEF Settled, Awaited
<1>3. CASE b # << >>
  <2>1. curve # << >> /\ Final(curve).x = Final(b).x
    BY <1>3 DEF Settled
  <2>2. PICK m \in 1 .. Len(r) : r[m].x = Final(b).x
    BY <1>3
  <2>3. r # << >>
    BY <1>1
  <2>4. ASSUME NEW i \in 1 .. Len(r), r[i].x < Final(curve).x
        PROVE  InView(curve, r, i)
    <3>1. PICK k \in 1 .. Len(b) : r[i] = b[k]
      BY <1>3, <2>1, <2>4
    <3>2. i < Len(r)
      <4>1. ~(m <= i)
        <5>1. m <= i => r[m].x <= r[i].x
          BY DEF Sorted
        <5>2. QED BY <1>1, <1>3, <2>1, <2>2, <2>4, <5>1
      <4>2. QED BY <1>1, <4>1
    <3>3. InView(curve, b, k)
      BY DEF Settled
    <3>4. QED BY <3>1, <3>2, <3>3 DEF InView
  <2>5. QED BY <2>1, <2>2, <2>3, <2>4 DEF Awaited
<1>4. QED BY <1>2, <1>3

\* A curve that shows a series shows what is left of it.
LEMMA TrimSettled ==
  ASSUME NEW b \in Seq(Sample), NEW w \in Int, Settled(b)
  PROVE  Settled(Trim(b, w))
<1> DEFINE r == Trim(b, w)
<1>1. r \in Seq(Sample) /\ (r = << >> <=> b = << >>) /\ (b # << >> => Final(r) = Final(b))
  BY TrimSound
<1>2. PICK n \in 0 .. Len(b) :
        Len(r) = Len(b) - n /\ \A j \in 1 .. Len(r) : r[j] = b[n + j]
  BY Trimmed
<1> HIDE DEF r
<1>3. ASSUME NEW i \in 1 .. Len(r)
      PROVE  InView(curve, r, i)
  <2>1. Len(b) \in Nat
    BY Samples
  <2>2. n + i \in 1 .. Len(b) /\ r[i] = b[n + i] /\ (n + i < Len(b) => i < Len(r))
    BY <1>2, <2>1
  <2>3. InView(curve, b, n + i)
    BY <2>2 DEF Settled
  <2>4. QED BY <2>2, <2>3 DEF InView
<1>4. Settled(r)
  BY <1>1, <1>3 DEF Settled
<1>5. QED BY <1>4 DEF r

\* Types and order of what the curve is about.
LEMMA CurveFacts ==
  ASSUME IInv
  PROVE  /\ curve \in Seq(Sample) /\ Sorted(curve) /\ limit \in Int /\ last \in Int
         /\ at \in Nat /\ at > 0
         /\ Base \in Names /\ series \in [Names -> Seq(Sample)]
         /\ series[Base] \in Seq(Sample) /\ Sorted(series[Base])
         /\ \A i \in 1 .. Len(series[Base]) : series[Base][i].x > Lowest
<1>1. /\ curve \in Seq(Sample) /\ Sorted(curve) /\ limit \in Int /\ last \in Int
      /\ at \in Nat /\ at > 0
  BY InvParts DEF Good, Types
<1>2. QED BY <1>1, SeriesFacts, LinkType

\* r is q with s at the place after n.
HasInserted(r, q, n, s) ==
  /\ Len(r) = Len(q) + 1
  /\ \A i \in 1 .. Len(r) :
       r[i] = IF i <= n THEN q[i] ELSE IF i = n + 1 THEN s ELSE q[i - 1]

\* Inserted, as a fact about all series and places.
LEMMA InsertedAnywhere ==
  \A q \in Seq(Sample), s \in Sample : \A n \in 0 .. Len(q) : HasInserted(Insert(q, n, s), q, n, s)
<1> TAKE q \in Seq(Sample), s \in Sample
<1> TAKE n \in 0 .. Len(q)
<1> QED BY Inserted, Zenon DEF HasInserted

\* MergeData leaves a late enough sample behind the end the curve has reached.
LEMMA MergedAwaited ==
  ASSUME IInv, Settled(series[Base]), NEW s \in Sample, NEW q \in Merged(series[Base], s),
         q \in Seq(Sample), series[Base] = << >> \/ Final(series[Base]).x <= s.x
  PROVE  Awaited(Trim(q, limit))
<1> DEFINE b == series[Base]
           r == Trim(q, limit)
<1>1. /\ b \in Seq(Sample) /\ Sorted(b) /\ limit \in Int /\ curve \in Seq(Sample)
  BY CurveFacts
<1>2. /\ Len(b) \in Nat /\ (b = << >> => Len(b) = 0) /\ Len(q) \in Nat
      /\ (b # << >> => Len(b) >= 1 /\ Final(b) = b[Len(b)] /\ b[Len(b)].x \in Int)
      /\ \A i \in 1 .. Len(b) : b[i].x \in Int
  BY <1>1, Samples
<1>3. s.x \in Int
  BY DEF Sample
<1>4. q = <<s>> \/ \E n \in 0 .. Len(b) : q = Insert(b, n, s)
  BY DEF Merged
<1>5. q = <<s>> => (Len(b) = 1 /\ b[1].x = s.x) \/ Len(b) = 0
  <2>1. SUFFICES ASSUME q = <<s>>, ~(Len(b) = 1 /\ b[1].x = s.x)
                 PROVE  Len(b) = 0
    OBVIOUS
  <2>2. PICK n \in 0 .. Len(b) : q = Insert(b, n, s)
    BY <2>1 DEF Merged
  <2>3. Len(q) = Len(b) + 1
    BY <1>1, <2>2, Inserted
  <2>4. Len(q) = 1
    BY <2>1
  <2>5. QED BY <1>2, <2>3, <2>4
<1>6. Sorted(q)
  <2>1. CASE q = <<s>>
    <3>1. \A i \in 1 .. Len(q) : i = 1
      BY <2>1
    <3>2. q[1].x <= q[1].x
      BY <1>3, <2>1
    <3>3. QED BY <3>1, <3>2 DEF Sorted
  <2>2. CASE q # <<s>>
    BY <2>2 DEF Merged, Sorted
  <2>3. QED BY <2>1, <2>2
<1>7. /\ r \in Seq(Sample) /\ Sorted(r) /\ (q # << >> => r # << >> /\ Final(r) = Final(q))
  BY <1>1, <1>6, TrimSound
<1>8. PICK m \in 0 .. Len(q) :
        /\ q # << >> => m < Len(q)
        /\ Len(r) = Len(q) - m
        /\ \A i \in 1 .. Len(r) : r[i] = q[m + i]
        /\ \A k \in 0 .. (m - 1) :
             limit # Highest /\ Len(q) - k > 2 /\ Final(q).x - q[k + 1].x > limit
  BY <1>1, TrimPoint
<1> HIDE DEF r
<1>9. ASSUME b # << >>, q = <<s>>
      PROVE  /\ \E i \in 1 .. Len(r) : r[i].x = Final(b).x
             /\ \A i \in 1 .. Len(r) : r[i].x < Final(b).x => \E k \in 1 .. Len(b) : r[i] = b[k]
  <2>1. Len(b) = 1 /\ Final(b).x = s.x /\ Len(q) = 1 /\ q[1] = s /\ q # << >>
    BY <1>2, <1>5, <1>9
  <2>2. Len(r) = 1 /\ m = 0
    BY <1>8, <2>1
  <2>3. r[1] = s /\ 1 \in 1 .. Len(r) /\ \A i \in 1 .. Len(r) : i = 1
    BY <1>8, <2>1, <2>2
  <2>4. QED BY <1>3, <2>1, <2>3
<1>10. ASSUME b # << >>, NEW n \in 0 .. Len(b), q = Insert(b, n, s)
       PROVE  /\ \E i \in 1 .. Len(r) : r[i].x = Final(b).x
              /\ \A i \in 1 .. Len(r) : r[i].x < Final(b).x => \E k \in 1 .. Len(b) : r[i] = b[k]
  <2>1. /\ Len(q) = Len(b) + 1
        /\ \A i \in 1 .. Len(q) :
             q[i] = IF i <= n THEN b[i] ELSE IF i = n + 1 THEN s ELSE b[i - 1]
    <3>1. b \in Seq(Sample) /\ n \in 0 .. Len(b) /\ s \in Sample
      BY <1>1
    <3>2. HasInserted(q, b, n, s)
      <4> HIDE DEF b
      <4>1. QED BY <1>10, <3>1, InsertedAnywhere, Zenon
    <3>3. QED BY <3>2, Zenon DEF HasInserted
  <2>2. Len(b) >= 1 /\ Final(b) = b[Len(b)] /\ Final(b).x <= s.x
    BY <1>2, <1>10
  <2>3. \E i \in 1 .. Len(r) : r[i].x = Final(b).x
    <3>1. CASE n < Len(b)
      <4>1. Len(q) \in 1 .. Len(q) /\ ~(Len(q) <= n) /\ Len(q) # n + 1 /\ Len(q) - 1 = Len(b)
        BY <1>2, <2>1, <3>1
      <4>2. q[Len(q)] = b[Len(b)]
        BY <2>1, <4>1
      <4>3. q # << >> /\ Len(r) >= 1 /\ Len(r) \in 1 .. Len(r) /\ m + Len(r) = Len(q)
        BY <1>2, <1>8, <2>1
      <4>4. r[Len(r)] = q[Len(q)]
        BY <1>8, <4>3
      <4>5. QED BY <2>2, <4>2, <4>3, <4>4
    <3>2. CASE n = Len(b)
      <4>1. m <= Len(b) - 1
        <5>1. CASE m = 0
          BY <1>2, <2>2, <5>1
        <5>2. CASE m # 0
          <6>1. m - 1 \in 0 .. (m - 1)
            BY <5>2
          <6>2. Len(q) - (m - 1) > 2
            BY <1>8, <6>1
          <6>3. QED BY <1>2, <2>1, <6>2
        <5>3. QED BY <5>1, <5>2
      <4>2. /\ Len(b) - m \in 1 .. Len(r) /\ m + (Len(b) - m) = Len(b)
            /\ Len(b) \in 1 .. Len(q) /\ Len(b) <= n
        BY <1>2, <1>8, <2>1, <2>2, <3>2, <4>1
      <4>3. r[Len(b) - m] = b[Len(b)]
        BY <1>8, <2>1, <4>2
      <4>4. QED BY <2>2, <4>2, <4>3
    <3>3. QED BY <1>2, <3>1, <3>2
  <2>4. ASSUME NEW i \in 1 .. Len(r), r[i].x < Final(b).x
        PROVE  \E k \in 1 .. Len(b) : r[i] = b[k]
    <3>1. m + i \in 1 .. Len(q) /\ r[i] = q[m + i]
      BY <1>2, <1>8
    <3>2. m + i # n + 1
      <4>1. m + i = n + 1 => r[i] = s
        BY <2>1, <3>1
      <4>2. QED BY <1>2, <1>3, <2>2, <2>4, <4>1
    <3>3. CASE m + i <= n
      BY <1>2, <2>1, <3>1, <3>3
    <3>4. CASE m + i > n + 1
      <4>1. (m + i) - 1 \in 1 .. Len(b) /\ r[i] = b[(m + i) - 1]
        BY <1>2, <2>1, <3>1, <3>4
      <4>2. QED BY <4>1
    <3>5. QED BY <1>2, <3>2, <3>3, <3>4
  <2>5. QED BY <2>3, <2>4
<1>11. Awaited(r)
  BY <1>1, <1>4, <1>7, <1>9, <1>10, AwaitedIf
<1>12. QED BY <1>11 DEF r

LEMMA MoveShows == ASSUME IInv, Showing, Move PROVE Showing'
<1> USE DEF plotting, counts
<1> DEFINE b == series[Base]
<1>1. /\ step = "move" /\ step' = "functions" /\ UNCHANGED <<curve, last>>
  BY DEF Move
<1>2. /\ b \in Seq(Sample) /\ Sorted(b) /\ limit \in Int /\ curve \in Seq(Sample)
      /\ Base \in Names /\ series \in [Names -> Seq(Sample)]
  BY CurveFacts
<1>3. Base \notin disturbed => Settled(b)
  BY <1>1 DEF Showing
<1>4. (curve = << >> => last = Lowest)'
  BY <1>1 DEF Showing
<1>5. \A r \in Seq(Sample) :
        Base \notin disturbed /\ Awaited(r) /\ series'[Base] = r => Awaited(series[Base])'
  BY <1>1 DEF Awaited, InView
<1>6. CASE /\ UNCHANGED <<stamp, disturbed>>
           /\ series' = IF streaming THEN [n \in Names |-> Trim(series[n], limit)] ELSE series
  <2>1. series'[Base] \in {b, Trim(b, limit)}
    BY <1>2, <1>6
  <2>2. ASSUME Base \notin disturbed, NEW r \in {b, Trim(b, limit)}
        PROVE  r \in Seq(Sample) /\ Awaited(r)
    <3>1. r \in Seq(Sample) /\ Sorted(r) /\ Settled(r)
      BY <1>2, <1>3, <2>2, TrimSound, TrimSettled
    <3>2. r # << >> => Len(r) \in 1 .. Len(r) /\ r[Len(r)].x = Final(r).x
      BY <3>1, Samples
    <3>3. QED BY <1>2, <3>1, <3>2, AwaitedIf
  <2>3. QED BY <1>1, <1>4, <1>5, <1>6, <2>1, <2>2 DEF Showing
<1>7. ASSUME NEW t \in Times, NEW q \in Merged(series[Base], Numbered(<<t>>)[1]),
             series' = [n \in Names |-> Trim(IF n = Base THEN q ELSE series[n], limit)],
             disturbed' = IF series[Base] = << >> \/ Final(series[Base]).x < t THEN disturbed
                          ELSE IF Final(series[Base]).x = t THEN disturbed \union FromBase
                          ELSE disturbed \union FromBase \union {Base}
      PROVE  Showing'
  <2>1. series'[Base] = Trim(q, limit)
    BY <1>2, <1>7
  <2>2. q \in Seq(Sample)
    <3>1. Sound(series[Base], stamp)
      BY SeriesFacts, LinkType
    <3>2. QED BY <1>7, <3>1, MergedSound DEF IInv
  <2>3. Numbered(<<t>>)[1] \in Sample /\ Numbered(<<t>>)[1].x = t
    BY SampleOfTime
  <2>4. ASSUME Base \notin disturbed'
        PROVE  Awaited(series[Base])'
    <3>1. t \in Int /\ (b # << >> => Final(b).x \in Int)
      BY <1>2, Samples, TransformsAssumption
    <3>2. Base \notin disturbed /\ (b = << >> \/ Final(b).x <= t)
      BY <1>7, <2>4, <3>1
    <3>3. Awaited(Trim(q, limit)) /\ Trim(q, limit) \in Seq(Sample)
      BY <1>2, <1>3, <1>7, <2>2, <2>3, <3>2, MergedAwaited, TrimSound
    <3>4. QED BY <1>5, <2>1, <3>2, <3>3
  <2>5. QED BY <1>1, <1>4, <2>4 DEF Showing
<1>8. QED BY <1>6, <1>7 DEF Move

LEMMA StartCurveShows == ASSUME IInv, Showing, StartCurve PROVE Showing'
<1> DEFINE b == series[Base]
           dst == Trim(curve, limit)
           from == IF dst = << >> THEN last ELSE Final(dst).x
<1>1. /\ step = "functions" /\ step' = "curve" /\ UNCHANGED <<series, disturbed>>
      /\ IF b = << >> THEN at' = 1 /\ UNCHANGED <<curve, last>>
         ELSE curve' = dst /\ last' = from /\ at' = IndexFromX(b, from)
  BY DEF StartCurve
<1>2. /\ b \in Seq(Sample) /\ Sorted(b) /\ limit \in Int /\ last \in Int
      /\ curve \in Seq(Sample) /\ Sorted(curve)
      /\ \A i \in 1 .. Len(b) : b[i].x > Lowest
  BY CurveFacts
<1>3. /\ dst \in Seq(Sample) /\ (dst = << >> <=> curve = << >>)
      /\ (curve # << >> => Final(dst) = Final(curve))
  BY <1>2, TrimSound
<1>4. (curve = << >> => last = Lowest) /\ (Base \notin disturbed => Awaited(b))
  BY <1>1 DEF Showing
<1> HIDE DEF dst
<1>5. (curve = << >> => last = Lowest)'
  BY <1>1, <1>3, <1>4
<1>6. ASSUME Base \notin disturbed
      PROVE  InLoop(series[Base])'
  <2>1. CASE b = << >>
    <3>1. series'[Base] = << >> /\ curve' = << >>
      BY <1>1, <1>4, <1>6, <2>1 DEF Awaited
    <3>2. QED BY <3>1 DEF InLoop
  <2>2. CASE b # << >>
    <3>1. curve' = dst /\ last' = from /\ at' = IndexFromX(b, from) /\ series'[Base] = b
      BY <1>1, <2>2
    <3>2. from \in Int /\ (dst # << >> => Final(dst).x = from)
      BY <1>2, <1>3, Samples
    <3>3. (\E i \in 1 .. Len(b) : b[i].x = from) \/ (\A i \in 1 .. Len(b) : b[i].x > from)
      <4>1. CASE curve = << >>
        BY <1>2, <1>3, <1>4, <4>1
      <4>2. CASE curve # << >>
        BY <1>3, <1>4, <1>6, <4>2 DEF Awaited
      <4>3. QED BY <4>1, <4>2
    <3> HIDE DEF from
    <3>4. /\ at' \in 1 .. Len(b)
          /\ \A i \in 1 .. Len(b) : IF i < at' THEN b[i].x < from ELSE b[i].x >= from
      BY <1>2, <2>2, <3>1, <3>2, <3>3, IndexWhere
    <3>5. Len(b) \in Nat /\ \A i \in 1 .. Len(b) : b[i].x \in Int
      BY <1>2, Samples
    <3>6. ASSUME NEW i \in 1 .. Len(b), i < at'
          PROVE  InView(dst, b, i)
      <4>1. b[i].x < from /\ i < Len(b)
        BY <3>4, <3>5, <3>6
      <4>2. curve # << >>
        <5>1. SUFFICES ASSUME curve = << >>
                       PROVE  FALSE
          OBVIOUS
        <5>2. from = Lowest
          BY <1>3, <1>4, <5>1 DEF from
        <5>3. QED BY <1>2, <3>2, <3>5, <4>1, <5>2
      <4>3. InView(curve, b, i)
        BY <1>3, <1>4, <1>6, <3>2, <4>1, <4>2 DEF Awaited
      <4>4. QED BY <1>2, <4>1, <4>3, TrimInView DEF dst
    <3>7. ~(at' > Len(b))
      BY <3>4, <3>5
    <3>8. QED BY <2>2, <3>1, <3>2, <3>4, <3>6, <3>7 DEF InLoop
  <2>3. QED BY <2>1, <2>2
<1>7. QED BY <1>1, <1>5, <1>6 DEF Showing

LEMMA PointShows == ASSUME IInv, Showing, NextPoint, Shift = 0 PROVE Showing'
<1> USE DEF plotting, counts
<1> DEFINE b == series[Base]
           p == b[at]
           c == Push(curve, p)
<1>1. /\ step = "curve" /\ step' = "curve" /\ UNCHANGED <<series, disturbed>>
      /\ at <= Len(b) /\ at' = at + 1
      /\ IF p.x >= last
           THEN curve' = Trim(Push(curve, [x |-> p.x + Shift, y |-> p.y]), limit) /\ last' = p.x
           ELSE UNCHANGED <<curve, last>>
  BY DEF NextPoint
<1>2. /\ b \in Seq(Sample) /\ Sorted(b) /\ limit \in Int /\ last \in Int
      /\ curve \in Seq(Sample) /\ Sorted(curve) /\ at \in Nat /\ at > 0
  BY CurveFacts
<1>3. /\ Len(b) \in Nat /\ at \in 1 .. Len(b) /\ p \in Sample /\ p.x \in Int
      /\ \A i \in 1 .. Len(b) : b[i].x \in Int
  <2>1. Len(b) \in Nat /\ at \in 1 .. Len(b)
    BY <1>1, <1>2, Samples
  <2>2. QED BY <1>2, <2>1, Samples
<1> HIDE DEF p
<1>4. [x |-> p.x + Shift, y |-> p.y] = p
  BY <1>3 DEF Sample
<1>5. c \in Seq(Sample) /\ Sorted(c) /\ c # << >>
  <2>1. c \in Seq(Sample) /\ Sorted(c)
    BY <1>2, <1>3, PushSorted
  <2>2. Len(c) # 0
    <3>1. PICK n \in 0 .. Len(curve) : c = Insert(curve, n, p)
      BY <1>2, <1>3, UpToSplits DEF Push
    <3>2. Len(c) = Len(curve) + 1 /\ Len(curve) \in Nat
      BY <1>2, <1>3, <3>1, Inserted, Samples
    <3>3. QED BY <3>2
  <2>3. QED BY <2>1, <2>2
<1>6. (curve = << >> => last = Lowest)'
  <2>1. p.x >= last => curve' # << >>
    BY <1>1, <1>2, <1>4, <1>5, TrimSound
  <2>2. QED BY <1>1, <2>1 DEF Showing
<1>7. ASSUME Base \notin disturbed
      PROVE  InLoop(series[Base])'
  <2>1. InLoop(b)
    BY <1>1, <1>7 DEF Showing
  <2>2. p.x >= last
    BY <1>2, <1>3, <2>1 DEF InLoop, p
  <2>3. curve' = Trim(c, limit) /\ last' = p.x
    BY <1>1, <1>4, <2>2
  <2>4. curve # << >> => Final(curve).x <= p.x
    BY <1>2, <1>3, <2>1, <2>2 DEF InLoop
  <2>5. /\ Len(c) = Len(curve) + 1 /\ Len(curve) \in Nat
        /\ \A i \in 1 .. Len(curve) : c[i] = curve[i]
        /\ Final(c) = p
    BY <1>2, <1>3, <2>4, PushedBehind, Samples
  <2> HIDE DEF c
  <2>6. curve' # << >> /\ Final(curve') = p /\ curve' \in Seq(Sample)
    BY <1>2, <1>5, <2>3, <2>5, TrimSound
  <2>7. ASSUME NEW i \in 1 .. Len(b), i < at
        PROVE  InView(curve', b, i)
    <3>1. InView(curve, b, i) /\ i < Len(b)
      BY <1>1, <1>2, <1>3, <2>1, <2>7 DEF InLoop
    <3>2. InView(c, b, i)
      <4>1. CASE \E j \in 1 .. Len(curve) : curve[j] = b[i]
        <5>1. PICK j \in 1 .. Len(curve) : curve[j] = b[i]
          BY <4>1
        <5>2. j \in 1 .. Len(c) /\ c[j] = b[i]
          BY <2>5, <5>1
        <5>3. QED BY <5>2 DEF InView
      <4>2. CASE curve # << >> /\ b[i].x <= curve[1].x
        <5>1. 1 \in 1 .. Len(curve)
          BY <1>2, <4>2, Samples
        <5>2. c[1] = curve[1]
          BY <2>5, <5>1
        <5>3. QED BY <1>5, <3>1, <4>2, <5>2 DEF InView
      <4>3. QED BY <3>1, <4>1, <4>2 DEF InView
    <3>3. QED BY <1>2, <1>5, <2>3, <3>1, <3>2, TrimInView
  <2>8. InView(curve', b, at)
    <3>1. Len(curve') \in 1 .. Len(curve') /\ curve'[Len(curve')] = p
      BY <2>6, Samples
    <3>2. QED BY <3>1 DEF InView, p
  <2>9. \A i \in 1 .. Len(b) : i > at => b[i].x >= p.x
    BY <1>2, <1>3 DEF Sorted, p
  <2>10. \A i \in 1 .. Len(b) : IF i < at' THEN InView(curve', b, i) ELSE b[i].x >= last'
    <3> TAKE i \in 1 .. Len(b)
    <3>1. CASE i < at
      BY <1>1, <1>2, <2>7, <3>1
    <3>2. CASE i = at
      BY <1>1, <1>2, <2>8, <3>2
    <3>3. CASE i > at
      BY <1>1, <1>2, <2>3, <2>9, <3>3
    <3>4. QED BY <1>2, <3>1, <3>2, <3>3
  <2>11. at' > Len(b) => last' = Final(b).x
    BY <1>1, <1>2, <1>3, <2>3 DEF Final, p
  <2>12. series'[Base] = b /\ b # << >>
    BY <1>1, <1>3
  <2>13. QED BY <2>3, <2>6, <2>10, <2>11, <2>12 DEF InLoop
<1>8. QED BY <1>1, <1>6, <1>7 DEF Showing

\* The curve is made anew, for whatever the series is then.
LEMMA ResetShows ==
  ASSUME IInv, IInv', (\E times \in Files : Load(times)) \/ SetTransform
  PROVE  Showing'
<1>1. curve' = << >> /\ last' = Lowest /\ at' = 1 /\ step' = "curve"
  BY DEF Load, SetTransform, ResetCurve
<1>2. \A i \in 1 .. Len(series'[Base]) : series'[Base][i].x >= Lowest
  <2>1. stamp' \in Seq(Times) /\ Sourced(series'[Base], stamp')
    BY InvParts, LinkType DEF Good, Sound
  <2>2. \A i \in 1 .. Len(series'[Base]) : series'[Base][i].x \in Times
    BY <2>1, ElementOfSeq DEF Sourced
  <2>3. \A t \in Times : t >= Lowest
    BY TransformsAssumption
  <2>4. QED BY <2>2, <2>3
<1>3. ~(series'[Base] # << >> /\ 1 > Len(series'[Base]))
  <2>1. series'[Base] \in Seq(Sample)
    BY InvParts, LinkType DEF Good
  <2>2. QED BY <2>1, Samples
<1>4. ~(\E i \in 1 .. Len(series'[Base]) : i < 1)
  OBVIOUS
<1>5. InLoop(series[Base])'
  BY <1>1, <1>2, <1>3, <1>4 DEF InLoop
<1>6. QED BY <1>1, <1>5 DEF Showing

\* What leaves the base series and the curve alone.
LEMMA AsideShows ==
  ASSUME Showing, series'[Base] = series[Base], UNCHANGED <<curve, last>>,
         Base \notin disturbed' => Base \notin disturbed,
         (step \in {"idle", "functions"} /\ step' = step) \/ (step = "idle" /\ step' = "move")
  PROVE  Showing'
<1>1. Settled(series[Base]) => Settled(series[Base])'
  BY DEF Settled, InView
<1>2. Awaited(series[Base]) => Awaited(series[Base])'
  BY DEF Awaited, InView
<1>3. CASE step \in {"idle", "functions"} /\ step' = step
  BY <1>1, <1>2, <1>3 DEF Showing
<1>4. CASE step = "idle" /\ step' = "move"
  BY <1>1, <1>4 DEF Showing
<1>5. QED BY <1>3, <1>4

LEMMA UserShows == ASSUME IInv, IInv', Showing, User PROVE Showing'
<1> USE DEF plotting, counts
<1>1. series \in [Names -> Seq(Sample)] /\ Base \in Names /\ \A f \in Functions : f # Base
  BY SeriesFacts, LinkType
<1>2. ASSUME NEW l \in Limits, StartStreaming(l) \/ SetLimit(l)
      PROVE  Showing'
  <2>1. /\ step = "idle" /\ UNCHANGED <<curve, last, step, disturbed>>
        /\ series'[Base] = Trim(series[Base], l)
    BY <1>1, <1>2 DEF StartStreaming, SetLimit
  <2>2. Settled(series[Base]) => Settled(Trim(series[Base], l))
    BY <1>1, Bounds, TrimSettled
  <2>3. Settled(Trim(series[Base], l)) => Settled(series[Base])'
    BY <2>1 DEF Settled, InView
  <2>4. QED BY <2>1, <2>2, <2>3 DEF Showing
<1>3. CASE StopStreaming
  BY <1>3, AsideShows DEF StopStreaming
<1>4. CASE Replot
  BY <1>4, AsideShows DEF Replot
<1>5. ASSUME NEW times \in Files, Load(times) \/ Import(times)
      PROVE  Showing'
  <2>1. CASE Load(times)
    BY <2>1, ResetShows
  <2>2. CASE Import(times)
    BY <2>2 DEF Import, Showing
  <2>3. QED BY <1>5, <2>1, <2>2
<1>6. ASSUME NEW f \in Functions, Create(f) \/ Refresh(f)
      PROVE  Showing'
  <2>1. /\ series'[Base] = series[Base] /\ UNCHANGED <<curve, last>>
        /\ Base \notin disturbed' => Base \notin disturbed
        /\ step = "idle" /\ step' \in {"idle", "move"}
    BY <1>1, <1>6 DEF Create, Refresh
  <2>2. QED BY <2>1, AsideShows
<1>7. ASSUME NEW n \in Names, Delete(n)
      PROVE  Showing'
  <2>1. CASE n = Base
    <3>1. series'[Base] = << >> /\ curve' = << >> /\ last' = Lowest /\ step' = "idle"
      BY <1>1, <1>7, <2>1 DEF Delete
    <3>2. QED BY <3>1 DEF Showing, Settled
  <2>2. CASE n # Base
    <3>1. /\ series'[Base] = series[Base] /\ UNCHANGED <<curve, last>>
          /\ Base \notin disturbed' => Base \notin disturbed
          /\ step = "idle" /\ step' = "idle"
      BY <1>1, <1>7, <2>2 DEF Delete
    <3>2. QED BY <3>1, AsideShows
  <2>3. QED BY <2>1, <2>2
<1>8. CASE ClearBuffer
  <2>1. series'[Base] = << >> /\ curve' = << >> /\ last' = Lowest /\ step' = "idle"
    BY <1>1, <1>8 DEF ClearBuffer
  <2>2. QED BY <2>1 DEF Showing, Settled
<1>9. CASE SetTransform
  BY <1>9, ResetShows
<1>10. QED BY <1>2, <1>3, <1>4, <1>5, <1>6, <1>7, <1>8, <1>9 DEF User

LEMMA EndCurveShows == ASSUME IInv, Showing, EndCurve PROVE Showing'
<1>1. /\ step = "curve" /\ step' \in {"idle", "move"} /\ at > Len(series[Base])
      /\ UNCHANGED <<series, curve, last, disturbed>>
  BY DEF EndCurve
<1>2. Len(series[Base]) \in Nat /\ at \in Nat
  BY CurveFacts, Samples
<1>3. InLoop(series[Base]) => Settled(series[Base])
  BY <1>1, <1>2 DEF InLoop, Settled
<1>4. Settled(series[Base]) => Settled(series[Base])'
  BY <1>1 DEF Settled, InView
<1>5. QED BY <1>1, <1>3, <1>4 DEF Showing

LEMMA StepShows ==
  ASSUME IInv, IInv', Showing, [Next]_vars, Shift = 0
  PROVE  Showing'
<1>1. ASSUME NEW f \in Functions, Calculate(f)
      PROVE  Showing'
  <2>1. f # Base /\ series \in [Names -> Seq(Sample)] /\ Base \in Names
    BY SeriesFacts, LinkType
  <2>2. /\ series'[Base] = series[Base] /\ UNCHANGED <<curve, last, disturbed, step>>
        /\ step = "functions"
    BY <1>1, <2>1 DEF Calculate, plotting
  <2>3. QED BY <2>2, AsideShows
<1>2. CASE UNCHANGED vars
  BY <1>2 DEF vars, plotting, Showing, Settled, Awaited, InLoop, InView
<1>3. QED
  BY <1>1, <1>2, UserShows, MoveShows, StartCurveShows, PointShows, EndCurveShows DEF Next

\* A curve whose transform shifts no time shows, between replots, every sample
\* of a series that came in the order of time, up to the last one, for any
\* limit and however its samples were trimmed (TransformFunction_SISO).
THEOREM CurveAlwaysShowsAll ==
  ASSUME Shift = 0 PROVE Spec => []CurveShowsAll
<1>1. Init => Showing
  <2>1. Init => series[Base] = << >>
    BY LinkType DEF Init
  <2>2. QED BY <2>1 DEF Init, Showing, Settled
<1>2. IInv /\ IInv' /\ Showing /\ [Next]_vars => Showing'
  BY StepShows
<1>3. IInv /\ Showing => CurveShowsAll
  BY InvParts DEF Good, Showing, Settled, CurveShowsAll, Sorted
<1>4. QED BY <1>1, <1>2, <1>3, Invariant, PTL DEF Spec

=============================================================================
