------------------------------ MODULE EwmProofs -------------------------------
(****************************************************************************)
(* Proofs about Ewm, for any capacity, window and percentile: what the      *)
(* estimator keeps, that ticks split as they like, and that an idle mean    *)
(* falls.                                                                    *)
(****************************************************************************)
EXTENDS Ewm, FiniteSetTheorems, SequenceTheorems, WellFoundedInduction, TLAPS

------------------------------------------------------------------------------
(* Least and greatest elements *)

LEMMA HasLeast ==
  ASSUME NEW T \in SUBSET Int, T # {}, NEW b \in Int, \A t \in T : b <= t
  PROVE  \E t \in T : \A u \in T : t <= u
<1> DEFINE R == {ss \in Nat \X Nat : ss[1] < ss[2]}
           Shifted == {n \in Nat : n + b \in T}
<1>1. Shifted \subseteq Nat /\ Shifted # {}
  <2>1. PICK t \in T : TRUE
    OBVIOUS
  <2>2. t - b \in Nat /\ (t - b) + b \in T
    BY <2>1
  <2> QED BY <2>2
<1>2. IsWellFoundedOn(R, Nat)
  BY NatLessThanWellFounded DEF OpToRel
<1>3. PICK n \in Shifted : \A m \in Shifted : ~(<<m, n>> \in R)
  <2> HIDE DEF Shifted, R
  <2> QED BY <1>1, <1>2, WFMin
<1>4. ASSUME NEW m \in Shifted PROVE n <= m
  <2>1. m \in Nat /\ n \in Nat
    BY <1>3
  <2>2. ~(m < n)
    BY <1>3, <2>1
  <2> QED BY <2>1, <2>2
<1>5. ASSUME NEW u \in T PROVE n + b <= u
  <2>1. u - b \in Nat /\ (u - b) + b \in T
    OBVIOUS
  <2>2. u - b \in Shifted
    BY <2>1
  <2> QED BY <1>4, <2>2
<1> QED BY <1>3, <1>5

LEMMA HasGreatest ==
  ASSUME NEW T \in SUBSET Int, T # {}, NEW b \in Int, \A t \in T : t <= b
  PROVE  \E t \in T : \A u \in T : u <= t
<1> DEFINE Mirrored == {n \in Int : 0 - n \in T}
<1>1. Mirrored \in SUBSET Int /\ Mirrored # {} /\ \A n \in Mirrored : 0 - b <= n
  <2>1. PICK t \in T : TRUE
    OBVIOUS
  <2>2. 0 - t \in Int /\ 0 - (0 - t) \in T
    BY <2>1
  <2> QED BY <2>2
<1>2. PICK n \in Mirrored : \A m \in Mirrored : n <= m
  <2>1. 0 - b \in Int
    OBVIOUS
  <2> HIDE DEF Mirrored
  <2> QED BY <1>1, <2>1, HasLeast
<1>3. ASSUME NEW u \in T PROVE u <= 0 - n
  <2>1. 0 - u \in Mirrored
    OBVIOUS
  <2> QED BY <1>2, <2>1
<1> QED BY <1>2, <1>3

------------------------------------------------------------------------------
(* The estimate *)

\* Some value of a finite sequence of integers stands at position k when the
\* sequence is sorted: the least one that more than k values do not exceed.
LEMMA Selects ==
  ASSUME NEW N \in Nat \ {0}, NEW s \in [1 .. N -> Int], NEW b \in Int,
         \A i \in 1 .. N : s[i] \in -b .. b,
         NEW k \in 0 .. N - 1
  PROVE  \E d \in {s[i] : i \in 1 .. N} :
           /\ Cardinality({i \in 1 .. N : s[i] < d}) <= k
           /\ k < Cardinality({i \in 1 .. N : s[i] <= d})
<1> DEFINE Values == {s[i] : i \in 1 .. N}
           Below(d) == {i \in 1 .. N : s[i] < d}
           UpTo(d) == {i \in 1 .. N : s[i] <= d}
           Reach == {d \in Values : k < Cardinality(UpTo(d))}
<1>1. Values \in SUBSET Int /\ Values # {} /\ \A v \in Values : -b <= v /\ v <= b
  OBVIOUS
<1>2. -b \in Int /\ k \in Int /\ k < N
  OBVIOUS
<1>3. IsFiniteSet(1 .. N) /\ Cardinality(1 .. N) = N
  BY FS_Interval
<1>4. \A d : Cardinality(Below(d)) \in Nat /\ Cardinality(UpTo(d)) \in Nat
  <2> TAKE d
  <2>1. Below(d) \in SUBSET (1 .. N) /\ UpTo(d) \in SUBSET (1 .. N)
    OBVIOUS
  <2> HIDE DEF Below, UpTo
  <2> QED BY <1>3, <2>1, FS_Subset, FS_CardinalityType
<1>5. Reach # {}
  <2>1. PICK d \in Values : \A u \in Values : u <= d
    <3> HIDE DEF Values
    <3> QED BY <1>1, HasGreatest
  <2>2. UpTo(d) = 1 .. N
    BY <2>1
  <2>3. k < Cardinality(UpTo(d))
    BY <1>2, <1>3, <2>2
  <2> QED BY <2>1, <2>3
<1>6. PICK d \in Reach : \A u \in Reach : d <= u
  <2>1. Reach \in SUBSET Int /\ \A u \in Reach : -b <= u
    BY <1>1
  <2> HIDE DEF Reach
  <2> QED BY <1>2, <1>5, <2>1, HasLeast
<1>7. d \in Values /\ d \in Int /\ k < Cardinality(UpTo(d))
  BY <1>1, <1>6
<1>8. Cardinality(Below(d)) <= k
  <2> DEFINE Smaller == {v \in Values : v < d}
  <2>1. CASE Smaller = {}
    <3>1. Below(d) = {}
      BY <2>1
    <3>2. Cardinality(Below(d)) = 0
      BY <3>1, FS_EmptySet
    <3> QED BY <3>2
  <2>2. CASE Smaller # {}
    <3>1. Smaller \in SUBSET Int /\ \A u \in Smaller : u <= b
      BY <1>1
    <3>2. PICK v \in Smaller : \A u \in Smaller : u <= v
      <4> HIDE DEF Smaller
      <4> QED BY <2>2, <3>1, HasGreatest
    <3>3. v \in Values /\ v \in Int /\ v < d
      BY <1>1, <3>2
    <3>4. UpTo(v) = Below(d)
      <4>1. ASSUME NEW i \in 1 .. N PROVE s[i] <= v <=> s[i] < d
        <5>1. s[i] \in Int /\ s[i] \in Values
          OBVIOUS
        <5>2. s[i] < d => s[i] <= v
          BY <3>2, <5>1
        <5> QED BY <1>7, <3>3, <5>1, <5>2
      <4> QED BY <4>1
    <3>5. ~(k < Cardinality(UpTo(v)))
      <4>1. ~(d <= v)
        BY <1>7, <3>3
      <4> QED BY <1>6, <3>3, <4>1
    <3> HIDE DEF UpTo, Below
    <3> QED BY <1>2, <1>4, <3>4, <3>5
  <2> QED BY <2>1, <2>2
<1> QED BY <1>7, <1>8

LEMMA TenthIsInside ==
  ASSUME NEW n \in Nat \ {0}
  PROVE  n \div Fraction \in 0 .. n - 1
<1> DEFINE k == n \div Fraction
<1>1. Fraction \in Nat /\ Fraction >= 2
  BY FractionAssumption
<1>2. k \in Nat /\ Fraction * k <= n
  BY <1>1, Z3
<1>3. 2 * k <= n
  <2> HIDE DEF k
  <2>1. 2 * k <= Fraction * k
    BY <1>1, <1>2, Z3
  <2> QED BY <1>1, <1>2, <2>1, Z3
<1> HIDE DEF k
<1>4. k \in 0 .. n - 1
  BY <1>2, <1>3
<1> QED BY <1>4 DEF k

LEMMA P10Type ==
  ASSUME buf \in Seq(Time), Known
  PROVE  P10 \in Int
<1> DEFINE N == Len(buf) - 1
<1>1. Len(buf) \in Nat /\ buf \in [1 .. Len(buf) -> Time]
  BY LenProperties
<1>2. N \in Nat \ {0}
  BY <1>1, CapAssumption DEF Known
<1>3. N \div Fraction \in 0 .. N - 1
  BY <1>2, TenthIsInside
<1>4. /\ DOMAIN Deltas = 1 .. N
      /\ Deltas \in [1 .. N -> Int]
      /\ \A i \in 1 .. N : Deltas[i] \in -MaxTime .. MaxTime
  <2>1. ASSUME NEW i \in 1 .. N PROVE buf[i + 1] - buf[i] \in -MaxTime .. MaxTime
    <3>1. buf[i + 1] \in Time /\ buf[i] \in Time
      BY <1>1, <1>2
    <3> QED BY <3>1, TimeAssumption DEF Time
  <2>2. Deltas = [i \in 1 .. N |-> buf[i + 1] - buf[i]]
    BY DEF Deltas
  <2> HIDE DEF N
  <2> QED BY <1>2, <2>1, <2>2, TimeAssumption
<1>5. MaxTime \in Int
  BY TimeAssumption
<1>6. \E d \in {Deltas[i] : i \in 1 .. N} :
        /\ Cardinality({i \in 1 .. N : Deltas[i] < d}) <= N \div Fraction
        /\ N \div Fraction < Cardinality({i \in 1 .. N : Deltas[i] <= d})
  <2> HIDE DEF N
  <2> QED BY <1>2, <1>3, <1>4, <1>5, Selects
<1>7. P10 \in {Deltas[i] : i \in 1 .. N}
  BY <1>4, <1>6 DEF P10
<1> QED BY <1>4, <1>7

LEMMA InputResType ==
  ASSUME buf \in Seq(Time), NEW dt \in Int
  PROVE  InputRes(dt) \in Int
BY P10Type DEF InputRes, Most

------------------------------------------------------------------------------
(* Suffixes *)

LEMMA SuffixProperties ==
  ASSUME NEW s \in Seq(Time), NEW n \in 0 .. Len(s)
  PROVE  /\ SubSeq(s, n + 1, Len(s)) \in Seq(Time)
         /\ Len(SubSeq(s, n + 1, Len(s))) = Len(s) - n
         /\ \A i \in 1 .. Len(s) - n : SubSeq(s, n + 1, Len(s))[i] = s[n + i]
<1>1. Len(s) \in Nat /\ s \in [1 .. Len(s) -> Time]
  BY LenProperties
<1> DEFINE m == n + 1
           l == Len(s)
<1>2. m \in Int /\ l \in Int /\ \A i \in m .. l : s[i] \in Time
  BY <1>1
<1>3. /\ SubSeq(s, m, l) \in Seq(Time)
      /\ Len(SubSeq(s, m, l)) = IF m <= l THEN l - m + 1 ELSE 0
      /\ \A i \in 1 .. l - m + 1 : SubSeq(s, m, l)[i] = s[m + i - 1]
  <2> HIDE DEF m, l
  <2> QED BY <1>2, SubSeqProperties
<1>4. Len(SubSeq(s, n + 1, Len(s))) = Len(s) - n
  <2>0. n \in Nat /\ l \in Nat /\ n <= l
    BY <1>1
  <2>1. (IF m <= l THEN l - m + 1 ELSE 0) = l - n
    <3> HIDE DEF l
    <3>1. CASE n < l
      BY <2>0, <3>1
    <3>2. CASE n = l
      BY <2>0, <3>2
    <3> QED BY <2>0, <3>1, <3>2
  <2>2. Len(SubSeq(s, m, l)) = l - n
    BY <1>3, <2>1
  <2> QED BY <2>2
<1>5. ASSUME NEW i \in 1 .. Len(s) - n
      PROVE  SubSeq(s, n + 1, Len(s))[i] = s[n + i]
  <2>1. i \in 1 .. l - m + 1 /\ m + i - 1 = n + i
    BY <1>1
  <2>2. SubSeq(s, m, l)[i] = s[m + i - 1]
    <3> HIDE DEF m, l
    <3> QED BY <1>3, <2>1
  <2> QED BY <2>1, <2>2
<1> QED BY <1>3, <1>4, <1>5

\* What Since removes is the part before the first time that is not too old.
LEMMA SinceCuts ==
  ASSUME NEW s \in Seq(Time), NEW cutoff \in Int
  PROVE  \E n \in 0 .. Len(s) :
           /\ Since(s, cutoff) = SubSeq(s, n + 1, Len(s))
           /\ \A i \in 1 .. n : s[i] < cutoff
           /\ n < Len(s) => s[n + 1] >= cutoff
<1>1. Len(s) \in Nat /\ s \in [1 .. Len(s) -> Int]
  BY LenProperties, TimeAssumption DEF Time
<1> DEFINE Ends == {n \in 0 .. Len(s) : n < Len(s) => s[n + 1] >= cutoff}
           Cut(n) == /\ \A i \in 1 .. n : s[i] < cutoff
                     /\ n < Len(s) => s[n + 1] >= cutoff
<1>2. PICK n \in Ends : \A m \in Ends : n <= m
  <2>1. Ends \in SUBSET Int /\ Ends # {} /\ 0 \in Int /\ \A m \in Ends : 0 <= m
    <3>1. Len(s) \in Ends
      BY <1>1
    <3> QED BY <3>1
  <2> HIDE DEF Ends
  <2> QED BY <2>1, HasLeast
<1>3. n \in 0 .. Len(s) /\ (n < Len(s) => s[n + 1] >= cutoff)
  BY <1>2
<1>4. ASSUME NEW i \in 1 .. n PROVE s[i] < cutoff
  <2>1. i - 1 \in 0 .. Len(s) /\ i - 1 < Len(s) /\ (i - 1) + 1 = i /\ ~(n <= i - 1) /\ i \in 1 .. Len(s)
    BY <1>1, <1>3
  <2>2. ~(s[i] >= cutoff)
    <3>1. i - 1 \notin Ends
      BY <1>2, <2>1
    <3> QED BY <2>1, <3>1
  <2>3. s[i] \in Int
    BY <1>1, <2>1
  <2> QED BY <2>2, <2>3
<1>5. \E m \in 0 .. Len(s) : Cut(m)
  BY <1>3, <1>4
<1> DEFINE old == CHOOSE m \in 0 .. Len(s) : Cut(m)
<1>6. old \in 0 .. Len(s) /\ Cut(old)
  <2> HIDE DEF Cut
  <2> QED BY <1>5
<1>7. Since(s, cutoff) = SubSeq(s, old + 1, Len(s))
  BY DEF Since
<1> HIDE DEF old
<1> QED BY <1>6, <1>7

IsEnd(t, s) ==
  /\ Len(t) <= Len(s)
  /\ \A i \in 1 .. Len(t) : t[i] = s[Len(s) - Len(t) + i]

LEMMA EndOfEnd ==
  ASSUME NEW s \in Seq(Time), NEW t \in Seq(Time), NEW u \in Seq(Time),
         IsEnd(t, s), IsEnd(u, t)
  PROVE  IsEnd(u, s)
<1>1. Len(s) \in Nat /\ Len(t) \in Nat /\ Len(u) \in Nat
  BY LenProperties
<1>2. Len(u) <= Len(t) /\ Len(t) <= Len(s)
  BY DEF IsEnd
<1>3. ASSUME NEW i \in 1 .. Len(u)
      PROVE  u[i] = s[Len(s) - Len(u) + i]
  <2> DEFINE j == Len(t) - Len(u) + i
  <2>1. j \in 1 .. Len(t) /\ Len(s) - Len(t) + j = Len(s) - Len(u) + i
    BY <1>1, <1>2
  <2>2. u[i] = t[j]
    BY DEF IsEnd
  <2>3. t[j] = s[Len(s) - Len(t) + j]
    <3> HIDE DEF j
    <3> QED BY <2>1 DEF IsEnd
  <2> QED BY <2>1, <2>2, <2>3
<1> QED BY <1>1, <1>2, <1>3 DEF IsEnd

LEMMA EndOfConcat ==
  ASSUME NEW s \in Seq(Time), NEW t \in Seq(Time), NEW u \in Seq(Time), IsEnd(t, s)
  PROVE  IsEnd(t \o u, s \o u)
<1>1. Len(s) \in Nat /\ Len(t) \in Nat /\ Len(u) \in Nat /\ Len(t) <= Len(s)
  BY LenProperties DEF IsEnd
<1>2. /\ Len(s \o u) = Len(s) + Len(u)
      /\ \A i \in 1 .. Len(s) + Len(u) :
           (s \o u)[i] = IF i <= Len(s) THEN s[i] ELSE u[i - Len(s)]
  BY ConcatProperties
<1>3. /\ Len(t \o u) = Len(t) + Len(u)
      /\ \A i \in 1 .. Len(t) + Len(u) :
           (t \o u)[i] = IF i <= Len(t) THEN t[i] ELSE u[i - Len(t)]
  BY ConcatProperties
<1>4. ASSUME NEW i \in 1 .. Len(t) + Len(u)
      PROVE  (t \o u)[i] = (s \o u)[Len(s) - Len(t) + i]
  <2> DEFINE j == Len(s) - Len(t) + i
  <2>1. j \in 1 .. Len(s) + Len(u) /\ (i <= Len(t) <=> j <= Len(s))
        /\ j - Len(s) = i - Len(t)
    BY <1>1
  <2>2. (s \o u)[j] = IF j <= Len(s) THEN s[j] ELSE u[j - Len(s)]
    <3> HIDE DEF j
    <3> QED BY <1>2, <2>1
  <2>3. i <= Len(t) => t[i] = s[j]
    BY <1>1 DEF IsEnd
  <2> HIDE DEF j
  <2>4. (t \o u)[i] = (s \o u)[j]
    BY <1>3, <2>1, <2>2, <2>3
  <2> QED BY <2>4 DEF j
<1>5. Len(s \o u) - Len(t \o u) = Len(s) - Len(t) /\ Len(t \o u) <= Len(s \o u)
  BY <1>1, <1>2, <1>3
<1> QED BY <1>3, <1>4, <1>5 DEF IsEnd

LEMMA EndOfSum ==
  ASSUME NEW s \in Seq(Time), NEW u \in Seq(Time)
  PROVE  IsEnd(u, s \o u)
<1>1. <<>> \in Seq(Time) /\ Len(<<>>) = 0 /\ Len(s) \in Nat
  BY EmptySeq, LenProperties
<1>2. IsEnd(<<>>, s)
  BY <1>1 DEF IsEnd
<1>3. <<>> \o u = u
  BY ConcatEmptySeq
<1> QED BY <1>1, <1>2, <1>3, EndOfConcat

LEMMA SuffixIsEnd ==
  ASSUME NEW s \in Seq(Time), NEW n \in 0 .. Len(s)
  PROVE  IsEnd(SubSeq(s, n + 1, Len(s)), s)
<1>1. Len(s) \in Nat
  BY LenProperties
<1> DEFINE t == SubSeq(s, n + 1, Len(s))
<1>2. Len(t) = Len(s) - n /\ \A i \in 1 .. Len(s) - n : t[i] = s[n + i]
  BY SuffixProperties
<1>3. Len(s) - Len(t) = n /\ Len(t) <= Len(s)
  <2> HIDE DEF t
  <2> QED BY <1>1, <1>2
<1> HIDE DEF t
<1>4. IsEnd(t, s)
  BY <1>2, <1>3 DEF IsEnd
<1> QED BY <1>4 DEF t

\* What is drained of the buffer and cut off the batch.
LEMMA Drained ==
  ASSUME NEW o \in Nat, NEW n \in Nat, NEW excess, NEW d,
         excess = Most(0, o + n - Cap), d = Least(excess, o)
  PROVE  /\ d \in 0 .. o /\ excess - d \in 0 .. n
         /\ excess - d > 0 => d = o
         /\ o - d + (n - (excess - d)) = Least(Cap, o + n)
<1>1. Cap \in Nat
  BY CapAssumption
<1>2. CASE o + n <= Cap
  <2>1. excess = 0 /\ Least(Cap, o + n) = o + n
    BY <1>1, <1>2 DEF Most, Least
  <2>2. d = 0
    BY <2>1 DEF Least
  <2> QED BY <2>1, <2>2
<1>3. CASE o + n > Cap
  <2>1. excess = o + n - Cap /\ Least(Cap, o + n) = Cap
    BY <1>1, <1>3 DEF Most, Least
  <2>2. CASE excess <= o
    <3>1. d = excess
      BY <2>2 DEF Least
    <3> QED BY <1>1, <1>3, <2>1, <2>2, <3>1
  <2>3. CASE excess > o
    <3>1. d = o
      BY <1>1, <2>1, <2>3 DEF Least
    <3> QED BY <1>1, <1>3, <2>1, <2>3, <3>1
  <2> QED BY <1>1, <2>1, <2>2, <2>3
<1> QED BY <1>1, <1>2, <1>3

\* Making room takes the end of everything, as long as there is room for.
LEMMA RoomTakesEnd ==
  ASSUME NEW old \in Seq(Time), NEW new \in Seq(Time)
  PROVE  /\ Room(old, new) \in Seq(Time)
         /\ IsEnd(Room(old, new), old \o new)
         /\ Len(Room(old, new)) = Least(Cap, Len(old) + Len(new))
<1> DEFINE excess == Most(0, Len(old) + Len(new) - Cap)
           d == Least(excess, Len(old))
           x == excess - d
           a == SubSeq(old, d + 1, Len(old))
           b == SubSeq(new, x + 1, Len(new))
<1>1. Len(old) \in Nat /\ Len(new) \in Nat /\ Cap \in Nat
  BY LenProperties, CapAssumption
<1>2. /\ d \in 0 .. Len(old) /\ x \in 0 .. Len(new)
      /\ x > 0 => d = Len(old)
      /\ Len(old) - d + (Len(new) - x) = Least(Cap, Len(old) + Len(new))
  BY <1>1, Drained
<1>3. Room(old, new) = a \o b
  BY DEF Room
<1>4. /\ a \in Seq(Time) /\ Len(a) = Len(old) - d
      /\ b \in Seq(Time) /\ Len(b) = Len(new) - x
      /\ IsEnd(a, old) /\ IsEnd(b, new)
  <2> HIDE DEF d, x
  <2> QED BY <1>2, SuffixProperties, SuffixIsEnd
<1>5. a \o b \in Seq(Time) /\ Len(a \o b) = Len(a) + Len(b) /\ old \o new \in Seq(Time)
  <2> HIDE DEF a, b
  <2> QED BY <1>4, ConcatProperties
<1>6. IsEnd(a \o b, old \o new)
  <2>1. CASE x > 0
    <3>1. a = <<>>
      <4>1. Len(a) = 0
        <5> HIDE DEF a, d, x
        <5> QED BY <1>1, <1>2, <1>4, <2>1
      <4> HIDE DEF a
      <4> QED BY <1>4, <4>1, EmptySeq
    <3>2. IsEnd(new, old \o new)
      BY EndOfSum
    <3>3. a \o b = b
      <4> HIDE DEF b
      <4> QED BY <1>4, <3>1, ConcatEmptySeq
    <3>4. IsEnd(b, old \o new)
      <4> HIDE DEF b
      <4> QED BY <1>4, <1>5, <3>2, EndOfEnd
    <3> HIDE DEF a, b
    <3> QED BY <3>3, <3>4
  <2>2. CASE x = 0
    <3>1. b = new
      <4>1. SubSeq(new, 1, Len(new)) = new
        BY SubSeqFull
      <4>2. x + 1 = 1
        <5> HIDE DEF x
        <5> QED BY <2>2
      <4> HIDE DEF x
      <4> QED BY <4>1, <4>2
    <3>2. IsEnd(a \o new, old \o new)
      <4> HIDE DEF a
      <4> QED BY <1>4, EndOfConcat
    <3> HIDE DEF a, b
    <3> QED BY <3>1, <3>2
  <2> HIDE DEF x
  <2> QED BY <1>1, <1>2, <2>1, <2>2
<1> HIDE DEF a, b, d, x
<1> QED BY <1>1, <1>2, <1>3, <1>4, <1>5, <1>6

------------------------------------------------------------------------------
(* What the estimator keeps *)

\* t is the end of s, reaches back to the cutoff and no further, or is full.
Covers(t, s, cutoff) ==
  /\ IsEnd(t, s)
  /\ \A i \in 1 .. Len(t) : t[i] >= cutoff
  /\ Len(t) < Len(s) => Len(t) >= Cap \/ s[Len(s) - Len(t)] < cutoff

\* Old times and new ones, without those before the cutoff.
LEMMA SinceCovers ==
  ASSUME NEW s \in Seq(Time), NEW t \in Seq(Time), NEW u \in Seq(Time),
         NEW c \in Int, NEW cutoff \in Int, c <= cutoff,
         Increasing(s \o u), Covers(t, s, c),
         u # <<>>, u[Len(u)] >= cutoff
  PROVE  /\ Since(t, cutoff) \in Seq(Time) /\ Since(u, cutoff) \in Seq(Time)
         /\ Since(u, cutoff) # <<>>
         /\ Since(u, cutoff)[Len(Since(u, cutoff))] = u[Len(u)]
         /\ Covers(Since(t, cutoff) \o Since(u, cutoff), s \o u, cutoff)
<1> DEFINE w == s \o u
<1>1. /\ Len(s) \in Nat /\ Len(t) \in Nat /\ Len(u) \in Nat \ {0} /\ Cap \in Nat
      /\ s \in [1 .. Len(s) -> Int] /\ t \in [1 .. Len(t) -> Int]
      /\ u \in [1 .. Len(u) -> Int]
  BY LenProperties, EmptySeq, CapAssumption, TimeAssumption DEF Time
<1>2. /\ w \in Seq(Time) /\ Len(w) = Len(s) + Len(u)
      /\ \A i \in 1 .. Len(s) : w[i] = s[i]
      /\ \A i \in 1 .. Len(u) : w[Len(s) + i] = u[i]
  BY <1>1, ConcatProperties
<1>3. \A i \in 1 .. Len(w) : w[i] \in Int
  <2> HIDE DEF w
  <2> QED BY <1>2, LenProperties, TimeAssumption DEF Time
<1>4. Len(t) <= Len(s) /\ \A i \in 1 .. Len(t) : t[i] = s[Len(s) - Len(t) + i]
  BY DEF Covers, IsEnd
<1>5. PICK a \in 0 .. Len(t) :
        /\ Since(t, cutoff) = SubSeq(t, a + 1, Len(t))
        /\ \A i \in 1 .. a : t[i] < cutoff
        /\ a < Len(t) => t[a + 1] >= cutoff
  BY SinceCuts
<1>6. PICK b \in 0 .. Len(u) :
        /\ Since(u, cutoff) = SubSeq(u, b + 1, Len(u))
        /\ \A i \in 1 .. b : u[i] < cutoff
        /\ b < Len(u) => u[b + 1] >= cutoff
  BY SinceCuts
<1>m. Len(s) \in Nat /\ Len(t) \in Nat /\ Len(u) \in Nat \ {0} /\ Cap \in Nat
  BY <1>1
<1>n. a \in Nat /\ a <= Len(t) /\ b \in Nat /\ b <= Len(u)
  BY <1>m
<1>7. b < Len(u)
  <2>1. b # Len(u)
    <3> SUFFICES ASSUME b = Len(u) PROVE FALSE
      OBVIOUS
    <3>1. u[Len(u)] < cutoff /\ u[Len(u)] \in Int
      BY <1>1, <1>6
    <3> QED BY <3>1
  <2> QED BY <1>m, <1>n, <2>1
<1> DEFINE old == Since(t, cutoff)
           new == Since(u, cutoff)
<1>8. /\ old \in Seq(Time) /\ Len(old) = Len(t) - a /\ IsEnd(old, t)
      /\ new \in Seq(Time) /\ Len(new) = Len(u) - b /\ IsEnd(new, u)
      /\ \A i \in 1 .. Len(u) - b : new[i] = u[b + i]
  BY <1>5, <1>6, SuffixProperties, SuffixIsEnd
<1>9. new # <<>> /\ new[Len(new)] = u[Len(u)]
  <2>1. Len(new) \in 1 .. Len(u) - b /\ b + Len(new) = Len(u)
    <3> HIDE DEF new
    <3> QED BY <1>1, <1>7, <1>8
  <2>2. new[Len(new)] = u[b + Len(new)]
    <3> HIDE DEF new
    <3> QED BY <1>8, <2>1
  <2>3. new # <<>>
    <3> HIDE DEF new
    <3> QED BY <1>8, <2>1, EmptySeq
  <2> QED BY <2>1, <2>2, <2>3
<1> HIDE DEF old, new, w
\* If the batch has lost a part, the buffer is lost.
<1>10. b > 0 => a = Len(t)
  <2> SUFFICES ASSUME b > 0, a < Len(t) PROVE FALSE
    BY <1>m, <1>n
  <2> DEFINE j == Len(s) - Len(t) + (a + 1)
  <2>1. j \in 1 .. Len(s) /\ t[a + 1] = s[j] /\ t[a + 1] >= cutoff
    BY <1>m, <1>n, <1>4, <1>5
  <2>2. u[1] < cutoff /\ w[Len(s) + 1] = u[1]
    BY <1>1, <1>2, <1>n, <1>6
  <2>3. w[j] = s[j] /\ w[j] \in Int /\ w[Len(s) + 1] \in Int
    <3> HIDE DEF j
    <3> QED BY <1>1, <1>2, <1>3, <2>1
  <2>4. w[j] < w[Len(s) + 1]
    <3>1. j \in 1 .. Len(w) /\ Len(s) + 1 \in 1 .. Len(w) /\ j < Len(s) + 1
      BY <1>1, <1>2, <2>1
    <3> HIDE DEF j
    <3> QED BY <3>1 DEF Increasing, w
  <2> HIDE DEF j
  <2> QED BY <2>1, <2>2, <2>3, <2>4
<1>11. old \o new \in Seq(Time) /\ Len(old \o new) = Len(t) - a + (Len(u) - b)
  <2>1. old \o new \in Seq(Time) /\ Len(old \o new) = Len(old) + Len(new)
    BY <1>8, ConcatProperties
  <2> QED BY <1>8, <2>1
\* The two ends are one.
<1>12. IsEnd(old \o new, w)
  <2>1. IsEnd(old, s)
    BY <1>8, EndOfEnd DEF Covers
  <2>2. CASE b = 0
    <3>1. new = u
      BY <1>6, <2>2, SubSeqFull DEF new
    <3> QED BY <1>8, <2>1, <3>1, EndOfConcat DEF w
  <2>3. CASE b > 0
    <3>1. Len(old) = 0
      BY <1>m, <1>n, <1>8, <1>10, <2>3
    <3>2. old \o new = new
      BY <1>8, <3>1, EmptySeq, ConcatEmptySeq
    <3>3. IsEnd(u, w)
      BY EndOfSum DEF w
    <3> QED BY <1>2, <1>8, <3>2, <3>3, EndOfEnd
  <2> QED BY <2>2, <2>3
<1> DEFINE z == old \o new
           n == Len(w) - Len(z)
<1>13. n = Len(s) - Len(t) + a + b /\ n >= 0
  BY <1>1, <1>2, <1>n, <1>4, <1>11
<1>14. Len(z) > 0 /\ z[1] = w[n + 1] /\ z[1] >= cutoff
  <2>1. Len(z) > 0
    BY <1>m, <1>n, <1>7, <1>11
  <2>2. z[1] = w[n + 1]
    <3> HIDE DEF z
    <3>1. Len(z) \in Nat
      BY <1>11, LenProperties DEF z
    <3> QED BY <1>12, <2>1, <3>1 DEF IsEnd, z
  <2>3. w[n + 1] >= cutoff
    <3>1. CASE a < Len(t)
      <4>1. b = 0
        BY <1>m, <1>n, <1>10, <3>1
      <4>2. n + 1 = Len(s) - Len(t) + (a + 1) /\ n + 1 \in 1 .. Len(s) /\ a + 1 \in 1 .. Len(t)
        <5> HIDE DEF n
        <5> QED BY <1>m, <1>n, <1>4, <1>13, <3>1, <4>1
      <4>3. w[n + 1] = t[a + 1]
        <5> HIDE DEF n
        <5> QED BY <1>2, <1>4, <4>2
      <4> QED BY <1>5, <3>1, <4>3
    <3>2. CASE a = Len(t)
      <4>1. n + 1 = Len(s) + (b + 1) /\ b + 1 \in 1 .. Len(u)
        <5> HIDE DEF n
        <5> QED BY <1>m, <1>n, <1>7, <1>13, <3>2
      <4>2. w[n + 1] = u[b + 1]
        <5> HIDE DEF n
        <5> QED BY <1>2, <4>1
      <4> QED BY <1>6, <1>7, <4>2
    <3> QED BY <1>m, <1>n, <3>1, <3>2
  <2> HIDE DEF n, z
  <2> QED BY <2>1, <2>2, <2>3
<1>15. \A i \in 1 .. Len(z) : z[i] >= cutoff
  <2> HIDE DEF z
  <2>1. Len(z) \in Nat /\ Len(w) \in Nat /\ n \in Nat /\ n + Len(z) = Len(w)
    BY <1>1, <1>2, <1>11, <1>13, LenProperties DEF z
  <2> HIDE DEF n
  <2> TAKE i \in 1 .. Len(z)
  <2>2. z[i] = w[n + i]
    BY <1>12 DEF IsEnd, z, n
  <2>3. n + 1 \in 1 .. Len(w) /\ n + i \in 1 .. Len(w) /\ (i = 1 \/ n + 1 < n + i)
    BY <1>14, <2>1
  <2>4. w[n + 1] \in Int /\ w[n + i] \in Int
    BY <1>3, <2>3
  <2>5. i = 1 \/ w[n + 1] < w[n + i]
    BY <2>3 DEF Increasing, w
  <2> QED BY <1>14, <2>2, <2>4, <2>5
<1>16. n > 0 => Len(z) >= Cap \/ w[n] < cutoff
  <2>1. CASE b > 0
    <3>1. n = Len(s) + b /\ b \in 1 .. Len(u)
      <4> HIDE DEF n
      <4>1. a = Len(t)
        BY <1>10, <2>1
      <4>2. n = Len(s) + b
        BY <1>m, <1>n, <1>13, <4>1
      <4>3. b \in 1 .. Len(u)
        BY <1>m, <1>n, <2>1
      <4> QED BY <4>2, <4>3
    <3>2. w[n] = u[b]
      <4> HIDE DEF n
      <4> QED BY <1>2, <3>1
    <3>3. u[b] < cutoff
      BY <1>6, <3>1
    <3> QED BY <3>2, <3>3
  <2>2. CASE b = 0 /\ a > 0
    <3>1. n = Len(s) - Len(t) + a /\ n \in 1 .. Len(s) /\ a \in 1 .. Len(t)
      <4> HIDE DEF n
      <4> QED BY <1>m, <1>n, <1>4, <1>13, <2>2
    <3>2. w[n] = t[a]
      <4> HIDE DEF n
      <4> QED BY <1>2, <1>4, <3>1
    <3>3. t[a] < cutoff
      BY <1>5, <3>1
    <3> QED BY <3>2, <3>3
  <2>3. CASE b = 0 /\ a = 0
    <3>1. n = Len(s) - Len(t) /\ Len(z) = Len(t) + Len(u)
      <4> HIDE DEF n, z
      <4> QED BY <1>1, <1>11, <1>13, <2>3 DEF z
    <3>2. n > 0 => Len(t) >= Cap \/ s[n] < c
      <4> HIDE DEF n, z
      <4> QED BY <1>1, <3>1 DEF Covers
    <3>3. n > 0 => n \in 1 .. Len(s) /\ w[n] = s[n] /\ s[n] \in Int
      <4> HIDE DEF n, z
      <4>1. n > 0 => n \in 1 .. Len(s)
        BY <1>m, <3>1
      <4>2. \A i \in 1 .. Len(s) : w[i] = s[i] /\ s[i] \in Int
        BY <1>1, <1>2
      <4> QED BY <4>1, <4>2
    <3> HIDE DEF n, z
    <3> QED BY <1>1, <3>1, <3>2, <3>3
  <2> QED BY <1>n, <2>1, <2>2, <2>3
<1>17. Len(z) < Len(w) => n > 0
  <2> HIDE DEF z
  <2> QED BY <1>2, <1>11, <1>1 DEF z
<1>18. Covers(z, w, cutoff)
  <2> HIDE DEF z
  <2> QED BY <1>12, <1>15, <1>16, <1>17 DEF Covers, z
<1> QED BY <1>8, <1>9, <1>18 DEF old, new, w

\* The buffer after a batch, from the buffer before it.
LEMMA PushCovers ==
  ASSUME NEW s \in Seq(Time), NEW ts \in Seq(Time), NEW c \in Int,
         buf \in Seq(Time), Increasing(s \o ts), Covers(buf, s, c),
         ts # <<>>, c <= ts[Len(ts)] - Window
  PROVE  /\ PushEvents(ts) \in Seq(Time)
         /\ Len(PushEvents(ts)) <= Cap
         /\ Covers(PushEvents(ts), s \o ts, ts[Len(ts)] - Window)
<1> DEFINE cutoff == ts[Len(ts)] - Window
           old == Since(buf, cutoff)
           new == Since(ts, cutoff)
           w == s \o ts
           r == Room(old, new)
<1>1. Len(ts) \in Nat \ {0} /\ ts[Len(ts)] \in Int /\ cutoff \in Int /\ Cap \in Nat
      /\ ts[Len(ts)] >= cutoff
  BY LenProperties, EmptySeq, TimeAssumption, CapAssumption DEF Time
<1>2. old \in Seq(Time) /\ new \in Seq(Time) /\ Covers(old \o new, w, cutoff)
  <2> HIDE DEF cutoff
  <2> QED BY <1>1, SinceCovers DEF cutoff
<1>3. w \in Seq(Time) /\ old \o new \in Seq(Time) /\ Len(old \o new) = Len(old) + Len(new)
  <2> HIDE DEF old, new
  <2> QED BY <1>2, ConcatProperties
<1>4. PushEvents(ts) = r
  BY DEF PushEvents
<1> HIDE DEF cutoff, old, new, w
<1>5. r \in Seq(Time) /\ IsEnd(r, old \o new) /\ Len(r) = Least(Cap, Len(old) + Len(new))
  BY <1>2, RoomTakesEnd
<1>6. IsEnd(r, w)
  <2> HIDE DEF r
  <2> QED BY <1>2, <1>3, <1>5, EndOfEnd DEF Covers
<1> DEFINE z == old \o new
<1>7. Len(r) \in Nat /\ Len(z) \in Nat /\ Len(w) \in Nat /\ Len(r) = Least(Cap, Len(z))
      /\ z \in Seq(Time) /\ IsEnd(r, z) /\ Covers(z, w, cutoff)
  <2> HIDE DEF r
  <2> QED BY <1>2, <1>3, <1>5, LenProperties
<1> HIDE DEF r, z
<1>8. Len(r) <= Cap /\ Len(r) <= Len(z) /\ (Len(r) < Len(z) => Len(r) = Cap)
  BY <1>1, <1>7 DEF Least
<1>9. ASSUME NEW i \in 1 .. Len(r) PROVE r[i] >= cutoff
  <2> DEFINE j == Len(z) - Len(r) + i
  <2>1. j \in 1 .. Len(z)
    BY <1>7, <1>8
  <2>2. r[i] = z[j]
    BY <1>7 DEF IsEnd
  <2> HIDE DEF j
  <2> QED BY <1>7, <2>1, <2>2 DEF Covers
<1>10. Len(r) < Len(w) => Len(r) >= Cap \/ w[Len(w) - Len(r)] < cutoff
  <2>1. CASE Len(r) < Len(z)
    BY <1>1, <1>7, <1>8, <2>1
  <2>2. CASE Len(r) = Len(z)
    BY <1>7, <2>2 DEF Covers
  <2> QED BY <1>7, <1>8, <2>1, <2>2
<1> QED BY <1>4, <1>5, <1>6, <1>8, <1>9, <1>10 DEF Covers, cutoff, w

------------------------------------------------------------------------------
(* The moves of a tick *)

LEMMA MoveIs ==
  ASSUME buf \in Seq(Time), last \in Int, held \in BOOLEAN,
         NEW prev \in Int, NEW at \in Int, prev < at
  PROVE  LET transition == last + 2 * InputRes(at - prev)
         IN  /\ transition \in Int
             /\ at <= transition \/ held => Move(prev, at) = [up |-> at - prev, down |-> 0]
             /\ at > transition /\ ~held /\ prev >= transition =>
                  Move(prev, at) = [up |-> 0, down |-> at - prev]
             /\ at > transition /\ ~held /\ prev < transition =>
                  Move(prev, at) = [up |-> transition - prev, down |-> at - transition]
<1> DEFINE dt == Most(at - prev, 1)
           transition == last + 2 * InputRes(dt)
<1>1. dt = at - prev /\ dt \in Int
  BY DEF Most
<1>2. transition \in Int
  <2>1. InputRes(dt) \in Int
    BY <1>1, InputResType
  <2> HIDE DEF dt
  <2> QED BY <2>1
<1>3. Move(prev, at) = CASE at <= transition \/ held -> [up |-> dt, down |-> 0]
        [] at > transition /\ ~held /\ prev >= transition -> [up |-> 0, down |-> dt]
        [] OTHER -> [up |-> transition - prev, down |-> at - transition]
  BY DEF Move
<1>4. transition = last + 2 * InputRes(at - prev)
  BY <1>1
<1> HIDE DEF dt, transition
<1>5. CASE at <= transition \/ held
  <2>1. ~(at > transition /\ ~held)
    BY <1>2, <1>5
  <2>2. Move(prev, at) = [up |-> dt, down |-> 0]
    BY <1>3, <1>5, <2>1
  <2> QED BY <1>1, <1>2, <1>4, <1>5, <2>1, <2>2
<1>6. CASE at > transition /\ ~held /\ prev >= transition
  <2>1. ~(at <= transition \/ held) /\ ~(prev < transition)
    BY <1>2, <1>6
  <2>2. Move(prev, at) = [up |-> 0, down |-> dt]
    BY <1>3, <1>6, <2>1
  <2> QED BY <1>1, <1>2, <1>4, <1>6, <2>1, <2>2
<1>7. CASE at > transition /\ ~held /\ prev < transition
  <2>1. ~(at <= transition \/ held) /\ ~(prev >= transition)
    BY <1>2, <1>7
  <2>2. Move(prev, at) = [up |-> transition - prev, down |-> at - transition]
    BY <1>3, <2>1
  <2> QED BY <1>1, <1>2, <1>4, <1>7, <2>1, <2>2
<1> QED BY <1>2, <1>5, <1>6, <1>7

LEMMA MoveType ==
  ASSUME buf \in Seq(Time), last \in Time, held \in BOOLEAN,
         NEW prev \in Time, NEW at \in Time, prev < at
  PROVE  Move(prev, at) \in [up : 0 .. MaxTime + 1, down : 0 .. MaxTime + 1]
<1> DEFINE transition == last + 2 * InputRes(at - prev)
<1>1. prev \in 0 .. MaxTime /\ at \in 0 .. MaxTime /\ MaxTime \in Nat /\ last \in Int
  BY TimeAssumption DEF Time
<1>2. /\ transition \in Int
      /\ at <= transition \/ held => Move(prev, at) = [up |-> at - prev, down |-> 0]
      /\ at > transition /\ ~held /\ prev >= transition =>
           Move(prev, at) = [up |-> 0, down |-> at - prev]
      /\ at > transition /\ ~held /\ prev < transition =>
           Move(prev, at) = [up |-> transition - prev, down |-> at - transition]
  BY <1>1, MoveIs
<1> HIDE DEF transition
<1>3. CASE at <= transition \/ held
  BY <1>1, <1>2, <1>3
<1>4. CASE at > transition /\ ~held /\ prev >= transition
  BY <1>1, <1>2, <1>4
<1>5. CASE at > transition /\ ~held /\ prev < transition
  <2>1. transition - prev \in 0 .. MaxTime + 1 /\ at - transition \in 0 .. MaxTime + 1
    BY <1>1, <1>2, <1>5
  <2> QED BY <1>2, <1>5, <2>1
<1> QED BY <1>1, <1>2, <1>3, <1>4, <1>5

\* With a resolution and no press, the transition does not depend on the tick.
LEMMA MoveKnown ==
  ASSUME buf \in Seq(Time), last \in Int, Known, held = FALSE,
         NEW prev \in Int, NEW at \in Int, prev < at,
         NEW transition, transition = last + 2 * P10
  PROVE  /\ transition \in Int
         /\ at <= transition => Move(prev, at) = [up |-> at - prev, down |-> 0]
         /\ at > transition /\ prev >= transition =>
              Move(prev, at) = [up |-> 0, down |-> at - prev]
         /\ at > transition /\ prev < transition =>
              Move(prev, at) = [up |-> transition - prev, down |-> at - transition]
<1>1. transition = last + 2 * InputRes(at - prev)
  BY DEF InputRes
<1>2. held \in BOOLEAN /\ ~held
  OBVIOUS
<1>3. /\ transition \in Int
      /\ at <= transition \/ held => Move(prev, at) = [up |-> at - prev, down |-> 0]
      /\ at > transition /\ ~held /\ prev >= transition =>
           Move(prev, at) = [up |-> 0, down |-> at - prev]
      /\ at > transition /\ ~held /\ prev < transition =>
           Move(prev, at) = [up |-> transition - prev, down |-> at - transition]
  <2> DEFINE t == last + 2 * InputRes(at - prev)
  <2>1. /\ t \in Int
        /\ at <= t \/ held => Move(prev, at) = [up |-> at - prev, down |-> 0]
        /\ at > t /\ ~held /\ prev >= t =>
             Move(prev, at) = [up |-> 0, down |-> at - prev]
        /\ at > t /\ ~held /\ prev < t =>
             Move(prev, at) = [up |-> t - prev, down |-> at - t]
    BY <1>2, MoveIs
  <2>2. transition = t
    BY <1>1
  <2> HIDE DEF t
  <2> QED BY <2>1, <2>2
<1> QED BY <1>2, <1>3

\* A tick before the transition.
LEMMA MovesUp ==
  ASSUME buf \in Seq(Time), last \in Int, Known, held = FALSE,
         NEW prev \in Int, NEW at \in Int, prev < at,
         NEW transition, transition = last + 2 * P10,
         at <= transition
  PROVE  Move(prev, at) = [up |-> at - prev, down |-> 0]
<1>1. /\ at <= transition => Move(prev, at) = [up |-> at - prev, down |-> 0]
      /\ at > transition /\ prev >= transition =>
           Move(prev, at) = [up |-> 0, down |-> at - prev]
      /\ at > transition /\ prev < transition =>
           Move(prev, at) = [up |-> transition - prev, down |-> at - transition]
  BY MoveKnown
<1> QED BY <1>1

\* A tick after the transition.
LEMMA MovesDown ==
  ASSUME buf \in Seq(Time), last \in Int, Known, held = FALSE,
         NEW prev \in Int, NEW at \in Int, prev < at,
         NEW transition, transition = last + 2 * P10,
         at > transition, prev >= transition
  PROVE  Move(prev, at) = [up |-> 0, down |-> at - prev]
<1>1. /\ at <= transition => Move(prev, at) = [up |-> at - prev, down |-> 0]
      /\ at > transition /\ prev >= transition =>
           Move(prev, at) = [up |-> 0, down |-> at - prev]
      /\ at > transition /\ prev < transition =>
           Move(prev, at) = [up |-> transition - prev, down |-> at - transition]
  BY MoveKnown
<1> QED BY <1>1

\* A tick over the transition.
LEMMA MovesBoth ==
  ASSUME buf \in Seq(Time), last \in Int, Known, held = FALSE,
         NEW prev \in Int, NEW at \in Int, prev < at,
         NEW transition, transition = last + 2 * P10,
         at > transition, prev < transition
  PROVE  Move(prev, at) = [up |-> transition - prev, down |-> at - transition]
<1>1. /\ at <= transition => Move(prev, at) = [up |-> at - prev, down |-> 0]
      /\ at > transition /\ prev >= transition =>
           Move(prev, at) = [up |-> 0, down |-> at - prev]
      /\ at > transition /\ prev < transition =>
           Move(prev, at) = [up |-> transition - prev, down |-> at - transition]
  BY MoveKnown
<1> QED BY <1>1

\* Two ticks are as good as one.
LEMMA Splits ==
  ASSUME TypeOK
  PROVE  TickIndependent
<1> DEFINE Goal(mid, at) ==
             LET a == Move(tick, mid)
                 b == Move(mid, at)
             IN  /\ a.down = 0 \/ b.up = 0
                 /\ Move(tick, at) = [up |-> a.up + b.up, down |-> a.down + b.down]
<1> SUFFICES ASSUME Known \/ held, last # Never, tick # Never,
                    NEW mid \in tick + 1 .. MaxTime, NEW at \in tick + 1 .. MaxTime, mid < at
             PROVE  Goal(mid, at)
  BY DEF TickIndependent
<1>1. /\ buf \in Seq(Time) /\ last \in Int /\ held \in BOOLEAN
      /\ tick \in Int /\ mid \in Int /\ at \in Int /\ tick < mid /\ tick < at
  BY TimeAssumption DEF TypeOK, Time
<1>2. CASE held
  <2>1. /\ Move(tick, mid) = [up |-> mid - tick, down |-> 0]
        /\ Move(mid, at) = [up |-> at - mid, down |-> 0]
        /\ Move(tick, at) = [up |-> at - tick, down |-> 0]
    BY <1>1, <1>2, MoveIs
  <2> QED BY <1>1, <2>1
<1>3. CASE Known /\ held = FALSE
  <2> DEFINE transition == last + 2 * P10
  <2>1. transition \in Int
    BY <1>1, <1>3, MoveKnown
  <2>t. transition = last + 2 * P10
    OBVIOUS
  <2>2. CASE at <= transition
    <3>1. mid <= transition
      BY <1>1, <2>1, <2>2
    <3> HIDE DEF transition
    <3>2. Move(tick, mid) = [up |-> mid - tick, down |-> 0]
      BY <1>1, <1>3, <2>1, <2>t, <2>2, <3>1, MovesUp
    <3>3. Move(mid, at) = [up |-> at - mid, down |-> 0]
      BY <1>1, <1>3, <2>1, <2>t, <2>2, <3>1, MovesUp
    <3>4. Move(tick, at) = [up |-> at - tick, down |-> 0]
      BY <1>1, <1>3, <2>1, <2>t, <2>2, <3>1, MovesUp
    <3> QED BY <2>1, <1>1, <3>1, <3>2, <3>3, <3>4
  <2>3. CASE at > transition /\ mid < transition
    <3>1. mid <= transition /\ tick < transition
      BY <1>1, <2>1, <2>3
    <3> HIDE DEF transition
    <3>2. Move(tick, mid) = [up |-> mid - tick, down |-> 0]
      BY <1>1, <1>3, <2>1, <2>t, <2>3, <3>1, MovesUp
    <3>3. Move(mid, at) = [up |-> transition - mid, down |-> at - transition]
      BY <1>1, <1>3, <2>1, <2>t, <2>3, <3>1, MovesBoth
    <3>4. Move(tick, at) = [up |-> transition - tick, down |-> at - transition]
      BY <1>1, <1>3, <2>1, <2>t, <2>3, <3>1, MovesBoth
    <3> QED BY <2>1, <1>1, <3>1, <3>2, <3>3, <3>4
  <2>4. CASE mid = transition
    <3>1. mid <= transition /\ tick < transition /\ mid >= transition /\ at > transition
      BY <1>1, <2>1, <2>4
    <3> HIDE DEF transition
    <3>2. Move(tick, mid) = [up |-> mid - tick, down |-> 0]
      BY <1>1, <1>3, <2>1, <2>t, <3>1, MovesUp
    <3>3. Move(mid, at) = [up |-> 0, down |-> at - mid]
      BY <1>1, <1>3, <2>1, <2>t, <3>1, MovesDown
    <3>4. Move(tick, at) = [up |-> transition - tick, down |-> at - transition]
      BY <1>1, <1>3, <2>1, <2>t, <3>1, MovesBoth
    <3> QED BY <2>1, <1>1, <2>4, <3>1, <3>2, <3>3, <3>4
  <2>5. CASE mid > transition /\ tick < transition
    <3>1. mid >= transition /\ at > transition
      BY <1>1, <2>1, <2>5
    <3> HIDE DEF transition
    <3>2. Move(tick, mid) = [up |-> transition - tick, down |-> mid - transition]
      BY <1>1, <1>3, <2>1, <2>t, <2>5, <3>1, MovesBoth
    <3>3. Move(mid, at) = [up |-> 0, down |-> at - mid]
      BY <1>1, <1>3, <2>1, <2>t, <2>5, <3>1, MovesDown
    <3>4. Move(tick, at) = [up |-> transition - tick, down |-> at - transition]
      BY <1>1, <1>3, <2>1, <2>t, <2>5, <3>1, MovesBoth
    <3> QED BY <2>1, <1>1, <3>1, <3>2, <3>3, <3>4
  <2>6. CASE tick >= transition
    <3>1. mid >= transition /\ mid > transition /\ at > transition
      BY <1>1, <2>1, <2>6
    <3> HIDE DEF transition
    <3>2. Move(tick, mid) = [up |-> 0, down |-> mid - tick]
      BY <1>1, <1>3, <2>1, <2>t, <2>6, <3>1, MovesDown
    <3>3. Move(mid, at) = [up |-> 0, down |-> at - mid]
      BY <1>1, <1>3, <2>1, <2>t, <2>6, <3>1, MovesDown
    <3>4. Move(tick, at) = [up |-> 0, down |-> at - tick]
      BY <1>1, <1>3, <2>1, <2>t, <2>6, <3>1, MovesDown
    <3> QED BY <2>1, <1>1, <3>1, <3>2, <3>3, <3>4
  <2> HIDE DEF transition, Goal
  <2> QED BY <1>1, <2>1, <2>2, <2>3, <2>4, <2>5, <2>6
<1> QED BY <1>1, <1>2, <1>3

------------------------------------------------------------------------------
(* The inductive invariant *)

Newest == IF log = <<>> THEN last = Never ELSE last = log[Len(log)]

Released == pending = 0 /\ move.down > 0 /\ Known => tick >= last + 2 * P10

IInv == TypeOK /\ Newest /\ Windowed /\ Released

\* Windowed, of any buffer, history and last event.
Keeps(b, s, at) ==
  LET n == Len(s) - Len(b)
  IN  /\ Len(b) <= Cap /\ n >= 0 /\ Increasing(s)
      /\ \A i \in 1 .. Len(b) : b[i] = s[n + i] /\ b[i] >= at - Window
      /\ n > 0 => Len(b) = Cap \/ s[n] < at - Window

LEMMA KeepsCovers ==
  ASSUME NEW b \in Seq(Time), NEW s \in Seq(Time), NEW at \in Int
  PROVE  Keeps(b, s, at) <=> /\ Increasing(s) /\ Len(b) <= Cap
                             /\ Covers(b, s, at - Window)
<1> DEFINE n == Len(s) - Len(b)
<1>1. Len(b) \in Nat /\ Len(s) \in Nat /\ Cap \in Nat /\ n \in Int
  BY LenProperties, CapAssumption
<1>2. n >= 0 <=> Len(b) <= Len(s)
  BY <1>1
<1>3. n > 0 <=> Len(b) < Len(s)
  BY <1>1
<1>4. Len(b) <= Cap => (Len(b) = Cap <=> Len(b) >= Cap)
  BY <1>1
<1>5. Keeps(b, s, at) <=> /\ Len(b) <= Cap /\ n >= 0 /\ Increasing(s)
                          /\ \A i \in 1 .. Len(b) : b[i] = s[n + i] /\ b[i] >= at - Window
                          /\ n > 0 => Len(b) = Cap \/ s[n] < at - Window
  BY DEF Keeps
<1>6. Covers(b, s, at - Window) <=>
        /\ Len(b) <= Len(s)
        /\ \A i \in 1 .. Len(b) : b[i] = s[n + i]
        /\ \A i \in 1 .. Len(b) : b[i] >= at - Window
        /\ Len(b) < Len(s) => Len(b) >= Cap \/ s[n] < at - Window
  BY DEF Covers, IsEnd
<1> HIDE DEF n
<1> QED BY <1>2, <1>3, <1>4, <1>5, <1>6

\* What a batch has that was not seen before comes after everything that was.
LEMMA TakenBatch ==
  ASSUME log \in Seq(Time), last \in Int, Newest, Increasing(log),
         NEW ts \in Seq(Time), Increasing(ts), Since(ts, last + 1) # <<>>
  PROVE  /\ Since(ts, last + 1) \in Seq(Time)
         /\ Increasing(log \o Since(ts, last + 1))
         /\ Since(ts, last + 1)[Len(Since(ts, last + 1))] \in Time
         /\ last < Since(ts, last + 1)[Len(Since(ts, last + 1))]
<1> DEFINE from == Since(ts, last + 1)
<1>1. PICK n \in 0 .. Len(ts) :
        /\ from = SubSeq(ts, n + 1, Len(ts))
        /\ n < Len(ts) => ts[n + 1] >= last + 1
  <2>1. last + 1 \in Int
    OBVIOUS
  <2> QED BY <2>1, SinceCuts
<1>2. /\ from \in Seq(Time) /\ Len(from) = Len(ts) - n
      /\ \A i \in 1 .. Len(ts) - n : from[i] = ts[n + i]
  BY <1>1, SuffixProperties
<1> HIDE DEF from
<1>3. /\ Len(ts) \in Nat /\ Len(from) \in Nat \ {0} /\ Len(log) \in Nat /\ n \in Nat
      /\ n < Len(ts)
  <2>1. Len(from) # 0
    BY <1>2, EmptySeq DEF from
  <2>2. Len(ts) \in Nat /\ Len(from) \in Nat /\ Len(log) \in Nat
    BY <1>2, LenProperties
  <2>3. n \in Nat /\ n <= Len(ts)
    BY <2>2
  <2>4. Len(from) = Len(ts) - n
    BY <1>2
  <2> QED BY <2>1, <2>2, <2>3, <2>4
<1>4. /\ \A i \in 1 .. Len(ts) : ts[i] \in Int
      /\ \A i \in 1 .. Len(from) : from[i] \in Time /\ from[i] \in Int
      /\ \A i \in 1 .. Len(log) : log[i] \in Int
  <2>1. \A t \in Time : t \in Int
    BY TimeAssumption DEF Time
  <2>2. from \in Seq(Time)
    BY <1>2
  <2>3. /\ \A i \in 1 .. Len(ts) : ts[i] \in Time
        /\ \A i \in 1 .. Len(from) : from[i] \in Time
        /\ \A i \in 1 .. Len(log) : log[i] \in Time
    BY <2>2, LenProperties
  <2> QED BY <2>1, <2>3
<1>5. ASSUME NEW i \in 1 .. Len(from), NEW j \in 1 .. Len(from), i < j
      PROVE  from[i] < from[j]
  <2>1. n + i \in 1 .. Len(ts) /\ n + j \in 1 .. Len(ts) /\ n + i < n + j
    BY <1>2, <1>3, <1>5
  <2>2. ts[n + i] < ts[n + j]
    BY <2>1 DEF Increasing
  <2> QED BY <1>2, <2>2
<1>6. ASSUME NEW i \in 1 .. Len(from) PROVE last < from[i]
  <2>1. 1 \in 1 .. Len(from) /\ (i = 1 \/ 1 < i)
    BY <1>3
  <2>2. from[1] = ts[n + 1]
    BY <1>2, <2>1
  <2>3. from[1] >= last + 1
    BY <1>1, <1>3, <2>2
  <2>4. i = 1 \/ from[1] < from[i]
    BY <1>5, <2>1
  <2>5. from[1] \in Int /\ from[i] \in Int
    BY <1>4, <2>1
  <2> QED BY <2>3, <2>4, <2>5
<1>7. ASSUME NEW i \in 1 .. Len(log) PROVE log[i] <= last
  <2>1. log # <<>> /\ Len(log) \in 1 .. Len(log) /\ (i = Len(log) \/ i < Len(log))
    BY <1>3, EmptySeq
  <2>2. last = log[Len(log)]
    BY <2>1 DEF Newest
  <2>3. i = Len(log) \/ log[i] < log[Len(log)]
    BY <2>1 DEF Increasing
  <2>4. log[i] \in Int
    BY <1>4
  <2> QED BY <2>2, <2>3, <2>4
<1>8. /\ Len(log \o from) = Len(log) + Len(from)
      /\ \A i \in 1 .. Len(log) + Len(from) :
           (log \o from)[i] = IF i <= Len(log) THEN log[i] ELSE from[i - Len(log)]
  BY <1>2, ConcatProperties
<1>9. ASSUME NEW i \in 1 .. Len(log \o from), NEW j \in 1 .. Len(log \o from), i < j
      PROVE  (log \o from)[i] < (log \o from)[j]
  <2>1. CASE j <= Len(log)
    <3>1. i \in 1 .. Len(log) /\ j \in 1 .. Len(log) /\ i <= Len(log)
      BY <1>3, <1>9, <2>1
    <3>2. log[i] < log[j]
      BY <1>9, <3>1 DEF Increasing
    <3> QED BY <1>8, <2>1, <3>1, <3>2
  <2>2. CASE i > Len(log)
    <3>1. /\ i - Len(log) \in 1 .. Len(from) /\ j - Len(log) \in 1 .. Len(from)
          /\ i - Len(log) < j - Len(log) /\ ~(i <= Len(log)) /\ ~(j <= Len(log))
      BY <1>3, <1>8, <1>9, <2>2
    <3>2. from[i - Len(log)] < from[j - Len(log)]
      BY <1>5, <3>1
    <3> QED BY <1>8, <3>1, <3>2
  <2>3. CASE i <= Len(log) /\ j > Len(log)
    <3>1. i \in 1 .. Len(log) /\ j - Len(log) \in 1 .. Len(from) /\ ~(j <= Len(log))
      BY <1>3, <1>8, <2>3
    <3>2. log[i] <= last /\ last < from[j - Len(log)]
      BY <1>6, <1>7, <3>1
    <3>3. log[i] \in Int /\ from[j - Len(log)] \in Int
      BY <1>4, <3>1
    <3>4. log[i] < from[j - Len(log)]
      BY <3>2, <3>3
    <3>5. (log \o from)[i] = log[i] /\ (log \o from)[j] = from[j - Len(log)]
      BY <1>8, <2>3, <3>1
    <3> QED BY <3>4, <3>5
  <2> QED BY <1>3, <1>8, <2>1, <2>2, <2>3
<1>10. Len(from) \in 1 .. Len(from)
  BY <1>3
<1>11. from \in Seq(Time) /\ Increasing(log \o from) /\ from[Len(from)] \in Time
       /\ last < from[Len(from)]
  BY <1>2, <1>4, <1>6, <1>9, <1>10 DEF Increasing
<1> QED BY <1>11 DEF from

LEMMA StartsWell == Init => IInv
<1> SUFFICES ASSUME Init PROVE IInv
  OBVIOUS
<1>1. buf = <<>> /\ log = <<>> /\ Len(buf) = 0 /\ Len(log) = 0
      /\ buf \in Seq(Time) /\ log \in Seq(Time)
  BY EmptySeq DEF Init
<1>2. MaxTime \in Nat /\ Cap \in Nat
  BY TimeAssumption, CapAssumption
<1>3. TypeOK
  <2>1. move \in [up : 0 .. MaxTime + 1, down : 0 .. MaxTime + 1]
    BY <1>2 DEF Init, Still
  <2>2. now \in Time /\ pending \in 0 .. Len(log)
    BY <1>1, <1>2 DEF Init, Time
  <2>3. Len(buf) <= Cap
    BY <1>1, <1>2
  <2> QED BY <1>1, <2>1, <2>2, <2>3 DEF Init, TypeOK
<1>4. Newest
  BY <1>1 DEF Init, Newest
<1>5. Windowed
  BY <1>1, <1>2 DEF Windowed, Increasing
<1>6. Released
  BY DEF Init, Released, Still
<1> QED BY <1>3, <1>4, <1>5, <1>6 DEF IInv

\* What the estimate is made of has not changed.
LEMMA SameEstimate ==
  ASSUME buf' = buf
  PROVE  P10' = P10 /\ (Known' <=> Known)
BY DEF P10, Deltas, Known

LEMMA WhatTypeOKSays ==
  ASSUME TypeOK
  PROVE  /\ buf \in Seq(Time) /\ log \in Seq(Time) /\ last \in Int /\ held \in BOOLEAN
         /\ Len(log) \in Nat /\ pending \in Nat /\ pending <= Len(log)
         /\ move.down \in Int /\ move.up \in Int
         /\ last # Never => last \in Time
         /\ tick # Never => tick \in Time
BY LenProperties, TimeAssumption DEF TypeOK, Time, Never

LEMMA FeedKeeps ==
  ASSUME IInv, NEW ts, NEW active \in BOOLEAN, Feed(ts, active)
  PROVE  IInv'
<1> DEFINE from == Since(ts, last + 1)
<1>1. ts \in Seq(Time) /\ Increasing(ts) /\ held' = active /\ UNCHANGED <<tick, move, now>>
  BY DEF Feed
<1>2. TypeOK /\ Newest /\ Windowed /\ Released
  BY DEF IInv
<1>3. /\ buf \in Seq(Time) /\ log \in Seq(Time) /\ last \in Int
      /\ Len(log) \in Nat /\ pending \in Nat /\ pending <= Len(log)
  BY <1>2, WhatTypeOKSays
<1>4. CASE from = <<>>
  <2>1. UNCHANGED <<buf, last, pending, log>>
    BY <1>4 DEF Feed
  <2>2. TypeOK'
    BY <1>1, <1>2, <2>1 DEF TypeOK
  <2>3. Newest' /\ Windowed'
    BY <1>2, <2>1 DEF Newest, Windowed
  <2>4. Released'
    BY <1>1, <1>2, <2>1, SameEstimate DEF Released
  <2> QED BY <2>2, <2>3, <2>4 DEF IInv
<1>5. CASE from # <<>>
  <2>1. /\ buf' = PushEvents(from) /\ last' = from[Len(from)]
        /\ pending' = pending + Len(from) /\ log' = log \o from
    BY <1>5 DEF Feed
  <2>2. Increasing(log) /\ Covers(buf, log, last - Window)
    <3>1. Keeps(buf, log, last)
      BY <1>2 DEF Windowed, Keeps
    <3> QED BY <1>3, <3>1, KeepsCovers
  <2>3. /\ from \in Seq(Time) /\ Increasing(log \o from)
        /\ from[Len(from)] \in Time /\ last < from[Len(from)]
    BY <1>1, <1>2, <1>3, <1>5, <2>2, TakenBatch
  <2> HIDE DEF from
  <2>4. Len(from) \in Nat \ {0} /\ log \o from \in Seq(Time)
        /\ Len(log \o from) = Len(log) + Len(from)
        /\ \A i \in 1 .. Len(log) + Len(from) :
             (log \o from)[i] = IF i <= Len(log) THEN log[i] ELSE from[i - Len(log)]
    BY <1>3, <1>5, <2>3, LenProperties, EmptySeq, ConcatProperties
  <2>5. last - Window \in Int /\ last - Window <= from[Len(from)] - Window
    BY <1>3, <2>3, TimeAssumption DEF Time
  <2>6. /\ buf' \in Seq(Time) /\ Len(buf') <= Cap
        /\ Covers(buf', log', last' - Window)
    BY <1>3, <1>5, <2>1, <2>2, <2>3, <2>5, PushCovers
  <2>7. log' \in Seq(Time) /\ last' \in Time /\ last' \in Int
    BY <2>1, <2>3, <2>4, TimeAssumption DEF Time
  <2>8. pending' \in Nat /\ pending' > 0 /\ pending' \in 0 .. Len(log')
    BY <1>3, <2>1, <2>4
  <2>9. TypeOK'
    BY <1>1, <1>2, <2>6, <2>7, <2>8 DEF TypeOK
  <2>10. Newest'
    <3> DEFINE w == log \o from
    <3>1. /\ Len(w) \in 1 .. Len(log) + Len(from) /\ Len(w) = Len(log) + Len(from)
          /\ ~(Len(w) <= Len(log)) /\ Len(w) - Len(log) = Len(from)
      BY <1>3, <2>4
    <3>2. w[Len(w)] = from[Len(from)]
      <4> HIDE DEF w
      <4> QED BY <2>4, <3>1 DEF w
    <3>3. w # <<>>
      <4> HIDE DEF w
      <4> QED BY <1>3, <2>4, <3>1, EmptySeq
    <3> HIDE DEF w
    <3>4. log' = w
      BY <2>1 DEF w
    <3> QED BY <2>1, <3>2, <3>3, <3>4 DEF Newest
  <2>11. Windowed'
    <3>1. Increasing(log')
      BY <2>1, <2>3
    <3>2. Keeps(buf', log', last')
      BY <2>6, <2>7, <3>1, KeepsCovers
    <3> QED BY <3>2 DEF Windowed, Keeps
  <2>12. Released'
    BY <2>8 DEF Released
  <2> QED BY <2>9, <2>10, <2>11, <2>12 DEF IInv
<1> QED BY <1>4, <1>5

LEMMA ComputeKeeps ==
  ASSUME IInv, tick < now, ComputeFps
  PROVE  IInv'
<1>1. /\ pending' = 0 /\ tick' = now /\ UNCHANGED <<buf, last, held, now, log>>
      /\ move' = IF last = Never \/ tick = Never THEN Still ELSE Move(tick, now)
  BY DEF ComputeFps
<1>2. TypeOK /\ Newest /\ Windowed /\ Released
  BY DEF IInv
<1>3. /\ buf \in Seq(Time) /\ last \in Int /\ held \in BOOLEAN /\ Len(log) \in Nat
      /\ last # Never => last \in Time
      /\ tick # Never => tick \in Time
  BY <1>2, WhatTypeOKSays
<1>4. now \in Time /\ now \in Int /\ Time \subseteq Int /\ MaxTime \in Nat
  BY <1>2, TimeAssumption DEF TypeOK, Time
<1>5. move' \in [up : 0 .. MaxTime + 1, down : 0 .. MaxTime + 1]
  <2>1. CASE last = Never \/ tick = Never
    <3>1. move' = Still
      BY <1>1, <2>1
    <3> QED BY <1>4, <3>1 DEF Still
  <2>2. CASE last # Never /\ tick # Never
    <3>1. move' = Move(tick, now)
      BY <1>1, <2>2
    <3>2. last \in Time /\ tick \in Time
      BY <1>3, <2>2
    <3> QED BY <1>3, <1>4, <3>1, <3>2, MoveType
  <2> QED BY <2>1, <2>2
<1>6. TypeOK'
  <2>1. pending' \in 0 .. Len(log')
    BY <1>1, <1>3
  <2> QED BY <1>1, <1>2, <1>4, <1>5, <2>1 DEF TypeOK
<1>7. Newest' /\ Windowed'
  BY <1>1, <1>2 DEF Newest, Windowed
<1>8. Released'
  <2> SUFFICES ASSUME move'.down > 0, Known' PROVE tick' >= last' + 2 * P10'
    BY DEF Released
  <2>1. P10' = P10 /\ Known
    BY <1>1, SameEstimate
  <2>2. last # Never /\ tick # Never /\ move' = Move(tick, now)
    <3>1. ~(last = Never \/ tick = Never)
      <4>1. SUFFICES ASSUME last = Never \/ tick = Never PROVE FALSE
        OBVIOUS
      <4>2. move' = Still
        BY <1>1, <4>1
      <4> QED BY <4>2 DEF Still
    <3> QED BY <1>1, <3>1
  <2>3. tick \in Int
    BY <1>3, <1>4, <2>2
  <2> DEFINE transition == last + 2 * P10
  <2>4. transition \in Int
    BY <1>3, <2>1, P10Type
  <2>5. CASE now > transition
    BY <1>1, <1>4, <2>1, <2>4, <2>5
  <2>6. CASE now <= transition \/ held
    <3>1. Move(tick, now) = [up |-> now - tick, down |-> 0]
      <4>1. transition = last + 2 * InputRes(now - tick)
        BY <2>1 DEF InputRes
      <4> HIDE DEF transition
      <4> QED BY <1>3, <1>4, <2>3, <2>6, <4>1, MoveIs
    <3> QED BY <2>2, <3>1
  <2> HIDE DEF transition
  <2> QED BY <1>4, <2>4, <2>5, <2>6
<1> QED BY <1>6, <1>7, <1>8 DEF IInv

LEMMA AdvanceKeeps ==
  ASSUME IInv, Advance
  PROVE  IInv'
<1>1. TypeOK /\ Newest /\ Windowed /\ Released
  BY DEF IInv
<1>2. now < MaxTime /\ now' = now + 1 /\ UNCHANGED <<buf, last, tick, held, pending, move, log>>
  BY DEF Advance
<1>3. now' \in Time
  BY <1>1, <1>2, TimeAssumption DEF TypeOK, Time
<1>4. TypeOK'
  BY <1>1, <1>2, <1>3 DEF TypeOK
<1>5. Newest' /\ Windowed'
  BY <1>1, <1>2 DEF Newest, Windowed
<1>6. Released'
  BY <1>1, <1>2, SameEstimate DEF Released
<1> QED BY <1>4, <1>5, <1>6 DEF IInv

LEMMA StutterKeeps ==
  ASSUME IInv, UNCHANGED vars
  PROVE  IInv'
<1>1. TypeOK /\ Newest /\ Windowed /\ Released
  BY DEF IInv
<1>2. UNCHANGED <<buf, last, tick, held, pending, move, now, log>>
  BY DEF vars
<1>3. TypeOK' /\ Newest' /\ Windowed'
  BY <1>1, <1>2 DEF TypeOK, Newest, Windowed
<1>4. Released'
  BY <1>1, <1>2, SameEstimate DEF Released
<1> QED BY <1>3, <1>4 DEF IInv

LEMMA StepKeeps == IInv /\ [Next]_vars => IInv'
<1> SUFFICES ASSUME IInv, [Next]_vars PROVE IInv'
  OBVIOUS
<1>1. CASE \E S \in SUBSET (Most(last, 1) .. now), active \in BOOLEAN : Feed(Sorted(S), active)
  BY <1>1, FeedKeeps
<1>2. CASE tick < now /\ ComputeFps
  BY <1>2, ComputeKeeps
<1>3. CASE Advance
  BY <1>3, AdvanceKeeps
<1>4. CASE UNCHANGED vars
  BY <1>4, StutterKeeps
<1> QED BY <1>1, <1>2, <1>3, <1>4 DEF Next

\* The invariant holds in every state: each step of feed_events, compute_fps
\* and the clock keeps it.
THEOREM Invariance == Spec => []IInv
<1>1. Init => IInv
  BY StartsWell
<1>2. IInv /\ [Next]_vars => IInv'
  BY StepKeeps
<1> QED BY <1>1, <1>2, PTL DEF Spec

\* The variables of DeviceEwm and its estimator keep their types; the buffer
\* stays within RESOLUTION_BUF_CAP and a tick moves y by no more than its
\* length.
THEOREM TypeCorrect == Spec => []TypeOK
<1>1. IInv => TypeOK
  BY DEF IInv
<1> QED BY <1>1, Invariance, PTL

\* push_events keeps exactly the newest of the timestamps that the capacity
\* and the window allow, in whatever batches observe_batch hands them over.
THEOREM WindowedAlways == Spec => []Windowed
<1>1. IInv => Windowed
  BY DEF IInv
<1> QED BY <1>1, Invariance, PTL

\* Two ticks of compute_fps move y as the one tick that spans them does.
THEOREM TickIndependentAlways == Spec => []TickIndependent
<1>1. IInv => TickIndependent
  BY Splits DEF IInv
<1> QED BY <1>1, Invariance, PTL

\* Once a tick has let y fall and the resolution is known, no later tick
\* raises it before another event or a press.
THEOREM IdleFallsAlways == Spec => IdleFalls
<1> DEFINE Falls == tick' # tick /\ pending = 0 /\ move.down > 0 /\ Known /\ ~held =>
                      move'.up = 0
<1>1. IInv /\ [Next]_vars => [Falls]_vars
  <2> SUFFICES ASSUME IInv, [Next]_vars, tick' # tick, pending = 0, move.down > 0,
                      Known, ~held
               PROVE  move'.up = 0
    OBVIOUS
  <2>1. tick < now /\ ComputeFps
    BY DEF Next, Feed, Advance, vars
  <2>2. move' = IF last = Never \/ tick = Never THEN Still ELSE Move(tick, now)
    BY <2>1 DEF ComputeFps
  <2>3. TypeOK /\ Released
    BY DEF IInv
  <2>4. CASE last = Never \/ tick = Never
    <3>1. move' = Still
      BY <2>2, <2>4
    <3> QED BY <3>1 DEF Still
  <2>5. CASE last # Never /\ tick # Never
    <3> DEFINE transition == last + 2 * P10
    <3>1. move' = Move(tick, now)
      BY <2>2, <2>5
    <3>2. buf \in Seq(Time) /\ last \in Int /\ held = FALSE /\ tick \in Int /\ now \in Int
      BY <2>3, <2>5, WhatTypeOKSays, TimeAssumption DEF TypeOK, Time
    <3>3. tick >= transition
      BY <2>3 DEF Released
    <3>t. transition = last + 2 * P10
      OBVIOUS
    <3>4. transition \in Int
      BY <3>2, P10Type
    <3> HIDE DEF transition
    <3>5. now > transition
      BY <2>1, <3>2, <3>3, <3>4
    <3>6. Move(tick, now) = [up |-> 0, down |-> now - tick]
      BY <2>1, <3>2, <3>3, <3>t, <3>5, MoveKnown
    <3> QED BY <3>1, <3>6
  <2> QED BY <2>4, <2>5
<1> QED BY <1>1, Invariance, PTL DEF Spec, IdleFalls

==============================================================================
