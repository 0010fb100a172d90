------------------------- MODULE InputParsingProofs --------------------------
(****************************************************************************)
(* Proofs about InputParsing, for every set of keys, every size of the      *)
(* kernel's queue and of the buffer, and every clock.                       *)
(*                                                                          *)
(* process_batch is a recursion over the events of a read.  What it        *)
(* computes is proved by the least number of events for which it would be   *)
(* false (LeastElement), in place of a rule of induction.                   *)
(****************************************************************************)
EXTENDS InputParsing, SequenceTheorems, WellFoundedInduction, TLAPS

Ascending(s) == \A i, j \in 1 .. Len(s) : i < j => s[i] < s[j]

\* No event before the i-th has its timestamp or a later one.
OpensTime(events, i) == \A j \in 1 .. i - 1 : events[j].ts < events[i].ts

\* Times in the queue do not fall, and those counted are not ahead of them.
Ordered ==
  /\ \A i, j \in 1 .. Len(queue) : i <= j => queue[i].ts <= queue[j].ts
  /\ \A i \in 1 .. Len(queue) : queue[i].ts <= now
  /\ Ascending(resolution)
  /\ \A r \in ToSet(resolution) :
       r <= now /\ \A i \in 1 .. Len(queue) : r <= queue[i].ts

\* What the watcher will know once it has processed all that is queued.
Followed ==
  /\ active <=> ActiveIndefinitely(pressed, lastValue)
  /\ ~lost => /\ Batch(queue).pressed = keysDown \intersect heard
              /\ Batch(queue).lastValue = Reported

\* A time that is promised has been counted, or the event that will count is queued.
Counted ==
  /\ ToSet(resolution) \subseteq moved
  /\ \A i \in 1 .. Len(queue) : Keeps(queue[i]) => queue[i].ts \in moved
  /\ ~lost =>
       \A t \in moved \ masked :
         \/ t \in ToSet(resolution)
         \/ \E i \in 1 .. Len(queue) :
              queue[i].ts = t /\ Keeps(queue[i]) /\ OpensTime(queue, i)

\* The first event of the newest time has been an activity, or has masked it.
NowMarked == now # 0 => now \in moved \union masked

IInv == TypeOK /\ Ordered /\ Followed /\ Counted /\ NowMarked

------------------------------------------------------------------------------
(* Recursion and induction over the events of a read *)

LEMMA LeastElement ==
  ASSUME NEW S \in SUBSET Nat, S # {}
  PROVE  \E x \in S : \A y \in S : x <= y
<1> DEFINE R == {ss \in Nat \X Nat : ss[1] < ss[2]}
<1>1. IsWellFoundedOn(R, Nat)
  BY NatLessThanWellFounded DEF OpToRel
<1> HIDE DEF R
<1>2. PICK x \in S : \A y \in S : ~(<<y, x>> \in R)
  BY <1>1, WFMin
<1>3. ASSUME NEW y \in S PROVE x <= y
  <2>1. x \in Nat /\ y \in Nat
    OBVIOUS
  <2>2. ~(y < x)
    BY <1>2, <2>1 DEF R
  <2> QED BY <2>1, <2>2
<1> QED BY <1>2, <1>3

\* A set that has zero, and with a number the next, has all.
LEMMA StepByStep ==
  ASSUME NEW n \in Nat, NEW S, 0 \in S, \A i \in 0 .. n - 1 : i \in S => i + 1 \in S
  PROVE  0 .. n \subseteq S
<1> DEFINE Missing == {i \in 0 .. n : i \notin S}
<1> SUFFICES ASSUME Missing # {} PROVE FALSE
  OBVIOUS
<1>1. Missing \in SUBSET Nat
  OBVIOUS
<1>2. PICK m \in Missing : \A i \in Missing : m <= i
  <2> HIDE DEF Missing
  <2> QED BY <1>1, LeastElement
<1>3. m - 1 \in 0 .. n - 1 /\ m - 1 \in 0 .. n /\ (m - 1) + 1 = m
  BY <1>2
<1>4. m - 1 \in S
  BY <1>2, <1>3
<1> QED BY <1>2, <1>3, <1>4

After(start, events, f, i) == IF i = 0 THEN start ELSE Processed(f[i - 1], events[i])

SolvesTo(start, events, n, f) == f = [i \in 0 .. n |-> After(start, events, f, i)]

\* The recursion has a solution, and so Outcomes is one.
LEMMA OutcomesExist ==
  ASSUME NEW start, NEW events, NEW n \in Nat
  PROVE  \E f : SolvesTo(start, events, n, f)
<1> DEFINE Solved == {k \in 0 .. n : \E g : SolvesTo(start, events, k, g)}
<1>1. 0 \in Solved
  <2> DEFINE g == [i \in 0 .. 0 |-> start]
  <2>1. SolvesTo(start, events, 0, g)
    BY DEF SolvesTo, After
  <2> HIDE DEF g
  <2> QED BY <2>1
<1>2. ASSUME NEW k \in 0 .. n - 1, k \in Solved PROVE k + 1 \in Solved
  <2>1. PICK g : SolvesTo(start, events, k, g)
    BY <1>2
  <2> DEFINE h == [i \in 0 .. k + 1 |->
                     IF i = k + 1 THEN Processed(g[k], events[k + 1]) ELSE g[i]]
  <2>2. \A i \in 0 .. k : h[i] = g[i]
    OBVIOUS
  <2>3. ASSUME NEW i \in 0 .. k + 1 PROVE h[i] = After(start, events, h, i)
    <3>1. CASE i = k + 1
      <4>1. i # 0 /\ i - 1 = k /\ k \in 0 .. k
        BY <3>1
      <4>2. h[i - 1] = g[k]
        BY <2>2, <4>1
      <4>3. h[i] = Processed(g[k], events[k + 1])
        BY <3>1
      <4> HIDE DEF h
      <4> QED BY <3>1, <4>1, <4>2, <4>3 DEF After
    <3>2. CASE i # k + 1
      <4>1. i \in 0 .. k /\ (i # 0 => i - 1 \in 0 .. k)
        BY <3>2
      <4>2. h[i] = g[i] /\ (i # 0 => h[i - 1] = g[i - 1])
        BY <2>2, <4>1
      <4>3. g[i] = After(start, events, g, i)
        BY <2>1, <4>1 DEF SolvesTo
      <4> HIDE DEF h
      <4> QED BY <4>2, <4>3 DEF After
    <3> QED BY <3>1, <3>2
  <2>4. h = [i \in 0 .. k + 1 |-> h[i]]
    OBVIOUS
  <2> HIDE DEF h
  <2>5. SolvesTo(start, events, k + 1, h)
    BY <2>3, <2>4 DEF SolvesTo
  <2> QED BY <2>5
<1>3. n \in Solved
  <2> HIDE DEF Solved
  <2> QED BY <1>1, <1>2, StepByStep
<1> QED BY <1>3

LEMMA OutcomesRecursion ==
  ASSUME NEW start, NEW events, Len(events) \in Nat
  PROVE  /\ Outcomes(start, events)[0] = start
         /\ \A i \in 1 .. Len(events) :
              Outcomes(start, events)[i] = Processed(Outcomes(start, events)[i - 1], events[i])
<1> DEFINE f == Outcomes(start, events)
           n == Len(events)
<1>1. f = CHOOSE g : SolvesTo(start, events, n, g)
  BY DEF Outcomes, SolvesTo, After
<1>2. \E g : SolvesTo(start, events, n, g)
  BY OutcomesExist
<1>3. SolvesTo(start, events, n, f)
  <2> HIDE DEF f, n
  <2> QED BY <1>1, <1>2
<1> HIDE DEF f, n
<1>4. \A i \in 0 .. n : f[i] = After(start, events, f, i)
  BY <1>3 DEF SolvesTo
<1>5. n \in Nat
  BY DEF n
<1>6. f[0] = start
  BY <1>4, <1>5 DEF After
<1>7. ASSUME NEW i \in 1 .. n PROVE f[i] = Processed(f[i - 1], events[i])
  <2>1. i \in 0 .. n /\ i # 0
    BY <1>5
  <2> QED BY <1>4, <2>1 DEF After
<1> QED BY <1>6, <1>7 DEF f, n

------------------------------------------------------------------------------
(* What an event changes *)

Outcome ==
  [pressed : SUBSET Keys, lastValue : {-1} \union Positions, overflowed : BOOLEAN,
   prevTs : {-1} \union Time, timestamps : Seq(Time)]

LEMMA EventFields ==
  ASSUME NEW ev \in Event
  PROVE  /\ ev.ts \in Time /\ ev.value \in 0 .. 2
         /\ ev.type = "key" => ev.code \in Keys
         /\ ev.type \in {"syn", "dropped", "msc", "abs", "key", "rel"}
BY DEF Event

LEMMA TimesAreNumbers == Time \subseteq Nat /\ 0 \notin Time /\ -1 \notin Time /\ MaxTime \in Nat
BY BoundsAssumption DEF Time

LEMMA ProcessedType ==
  ASSUME NEW a \in Outcome, NEW ev \in Event
  PROVE  Processed(a, ev) \in Outcome
<1>1. /\ a.pressed \in SUBSET Keys /\ a.lastValue \in {-1} \union Positions
      /\ a.overflowed \in BOOLEAN /\ a.timestamps \in Seq(Time)
  BY DEF Outcome
<1>2. PressedAfter(a.pressed, ev) \in SUBSET Keys \/ ev.type # "key"
  BY <1>1, EventFields DEF PressedAfter
<1>3. (IF ev.type = "key" THEN PressedAfter(a.pressed, ev) ELSE a.pressed) \in SUBSET Keys
  BY <1>1, <1>2
<1>4. (IF ev.type = "abs" THEN ev.value ELSE a.lastValue) \in {-1} \union Positions
  BY <1>1, EventFields DEF Positions
<1>5. (a.overflowed \/ ev.type = "dropped") \in BOOLEAN
  OBVIOUS
<1>6. ev.ts \in {-1} \union Time
  BY EventFields
<1>7. (IF Keeps(ev) /\ ev.ts # a.prevTs
       THEN Append(a.timestamps, ev.ts) ELSE a.timestamps) \in Seq(Time)
  BY <1>1, EventFields, AppendProperties
<1> QED BY <1>3, <1>4, <1>5, <1>6, <1>7 DEF Processed, Outcome

LEMMA OutcomesType ==
  ASSUME NEW start \in Outcome, NEW events \in Seq(Event), NEW i \in 0 .. Len(events)
  PROVE  Outcomes(start, events)[i] \in Outcome
<1> DEFINE f == Outcomes(start, events)
           n == Len(events)
           S == {k \in 0 .. n : f[k] \in Outcome}
<1>1. n \in Nat /\ \A k \in 1 .. n : events[k] \in Event
  BY LenProperties
<1>2. f[0] = start /\ \A k \in 1 .. n : f[k] = Processed(f[k - 1], events[k])
  BY <1>1, OutcomesRecursion
<1>3. i \in 0 .. n
  OBVIOUS
<1> HIDE DEF f, n
<1>4. 0 \in S
  BY <1>1, <1>2
<1>5. ASSUME NEW k \in 0 .. n - 1, k \in S PROVE k + 1 \in S
  <2>1. k + 1 \in 1 .. n /\ k + 1 \in 0 .. n /\ (k + 1) - 1 = k
    BY <1>1
  <2>2. f[k + 1] = Processed(f[k], events[k + 1])
    BY <1>2, <2>1
  <2> QED BY <1>1, <1>5, <2>1, <2>2, ProcessedType
<1>6. 0 .. n \subseteq S
  <2> HIDE DEF S
  <2> QED BY <1>1, <1>4, <1>5, StepByStep
<1> QED BY <1>3, <1>6 DEF f

------------------------------------------------------------------------------
(* Keys and axis: what is known does not depend on how the reads are cut *)

SameState(a, b) == a.pressed = b.pressed /\ a.lastValue = b.lastValue

\* What an event makes of the keys and of the axis.
LEMMA ProcessedState ==
  ASSUME NEW a, NEW ev
  PROVE  /\ Processed(a, ev).pressed =
              IF ev.type = "key" THEN PressedAfter(a.pressed, ev) ELSE a.pressed
         /\ Processed(a, ev).lastValue =
              IF ev.type = "abs" THEN ev.value ELSE a.lastValue
BY DEF Processed

\* Two reads that go through the same events agree, wherever the events lie.
LEMMA SameEventsSameState ==
  ASSUME NEW a, NEW s, Len(s) \in Nat, NEW b, NEW t, Len(t) \in Nat,
         NEW k \in Nat, k + Len(t) <= Len(s),
         \A i \in 1 .. Len(t) : t[i] = s[k + i],
         SameState(Outcomes(a, s)[k], b)
  PROVE  \A i \in 0 .. Len(t) : SameState(Outcomes(a, s)[k + i], Outcomes(b, t)[i])
<1> DEFINE f == Outcomes(a, s)
           g == Outcomes(b, t)
           m == Len(t)
           S == {i \in 0 .. m : SameState(f[k + i], g[i])}
<1>1. \A i \in 1 .. Len(s) : f[i] = Processed(f[i - 1], s[i])
  BY OutcomesRecursion
<1>2. g[0] = b /\ \A i \in 1 .. m : g[i] = Processed(g[i - 1], t[i])
  BY OutcomesRecursion
<1>3. SameState(f[k], b)
  OBVIOUS
<1>4. m \in Nat /\ k + m <= Len(s) /\ \A i \in 1 .. m : t[i] = s[k + i]
  OBVIOUS
<1> HIDE DEF f, g, m
<1>5. 0 \in S
  <2>1. k + 0 = k /\ 0 \in 0 .. m
    BY <1>4
  <2> QED BY <1>2, <1>3, <2>1
<1>6. ASSUME NEW i \in 0 .. m - 1, i \in S PROVE i + 1 \in S
  <2>1. /\ i + 1 \in 0 .. m /\ i + 1 \in 1 .. m /\ (i + 1) - 1 = i
        /\ k + (i + 1) \in 1 .. Len(s) /\ (k + (i + 1)) - 1 = k + i
    BY <1>4
  <2>2. f[k + (i + 1)] = Processed(f[k + i], t[i + 1])
    BY <1>1, <1>4, <2>1
  <2>3. g[i + 1] = Processed(g[i], t[i + 1])
    BY <1>2, <2>1
  <2>4. SameState(f[k + i], g[i])
    BY <1>6
  <2>5. SameState(f[k + (i + 1)], g[i + 1])
    BY <2>2, <2>3, <2>4, ProcessedState DEF SameState
  <2> QED BY <2>1, <2>5
<1>7. 0 .. m \subseteq S
  <2> HIDE DEF S
  <2> QED BY <1>4, <1>5, <1>6, StepByStep
<1> QED BY <1>7 DEF f, g, m

------------------------------------------------------------------------------
(* The timestamps of a batch *)

Sorted(events) == \A i, j \in 1 .. Len(events) : i <= j => events[i].ts <= events[j].ts

LEMMA ToSetFacts ==
  ASSUME NEW T, NEW s \in Seq(T)
  PROVE  /\ Len(s) \in Nat
         /\ ToSet(s) \subseteq T
         /\ ToSet(s) = {s[i] : i \in 1 .. Len(s)}
         /\ \A x : x \in ToSet(s) <=> \E i \in 1 .. Len(s) : x = s[i]
<1>1. Len(s) \in Nat /\ DOMAIN s = 1 .. Len(s) /\ \A i \in 1 .. Len(s) : s[i] \in T
  BY LenProperties, ElementOfSeq
<1> QED BY <1>1 DEF ToSet

LEMMA ToSetAppend ==
  ASSUME NEW s \in Seq(Time), NEW x \in Time
  PROVE  ToSet(Append(s, x)) = ToSet(s) \union {x}
<1>1. Append(s, x) \in Seq(Time) /\ Len(Append(s, x)) = Len(s) + 1 /\ Len(s) \in Nat
  BY AppendProperties, LenProperties
<1>2. /\ \A i \in 1 .. Len(s) : Append(s, x)[i] = s[i]
      /\ Append(s, x)[Len(s) + 1] = x
  BY AppendProperties
<1>3. ToSet(Append(s, x)) = {Append(s, x)[i] : i \in 1 .. Len(s) + 1}
  BY <1>1, ToSetFacts
<1>4. ToSet(s) = {s[i] : i \in 1 .. Len(s)}
  BY ToSetFacts
<1>5. 1 .. Len(s) + 1 = (1 .. Len(s)) \union {Len(s) + 1}
  BY <1>1
<1> QED BY <1>2, <1>3, <1>4, <1>5

LEMMA AscendingAppend ==
  ASSUME NEW s \in Seq(Time), NEW x \in Time,
         Ascending(s), \A y \in ToSet(s) : y < x
  PROVE  Ascending(Append(s, x))
<1>1. Len(Append(s, x)) = Len(s) + 1 /\ Len(s) \in Nat
  BY AppendProperties, LenProperties
<1>2. /\ \A i \in 1 .. Len(s) : Append(s, x)[i] = s[i]
      /\ Append(s, x)[Len(s) + 1] = x
  BY AppendProperties
<1>3. \A i \in 1 .. Len(s) : s[i] < x
  BY ToSetFacts
<1>4. ASSUME NEW i \in 1 .. Len(s) + 1, NEW j \in 1 .. Len(s) + 1, i < j
      PROVE  Append(s, x)[i] < Append(s, x)[j]
  <2>1. i \in 1 .. Len(s)
    BY <1>1, <1>4
  <2>2. j = Len(s) + 1 \/ j \in 1 .. Len(s)
    BY <1>1
  <2> QED BY <1>2, <1>3, <1>4, <2>1, <2>2 DEF Ascending
<1> QED BY <1>1, <1>4 DEF Ascending

\* What the timestamps say of the first i events.
Stamped(events, i, o) ==
  /\ o.prevTs = IF i = 0 THEN -1 ELSE events[i].ts
  /\ Ascending(o.timestamps)
  /\ \A x \in ToSet(o.timestamps) : \E j \in 1 .. i : x = events[j].ts /\ Keeps(events[j])
  /\ \A j \in 1 .. i :
       Keeps(events[j]) /\ OpensTime(events, j) => events[j].ts \in ToSet(o.timestamps)

LEMMA StampedStep ==
  ASSUME NEW s \in Seq(Event), Sorted(s), NEW i \in 0 .. Len(s) - 1,
         NEW a \in Outcome, Stamped(s, i, a)
  PROVE  Stamped(s, i + 1, Processed(a, s[i + 1]))
<1> DEFINE ev == s[i + 1]
           b == Processed(a, ev)
<1>1. Len(s) \in Nat /\ i \in Nat /\ i + 1 \in 1 .. Len(s) /\ i + 1 # 0
  BY LenProperties
<1>2. \A j \in 1 .. Len(s) : s[j] \in Event /\ s[j].ts \in Nat /\ s[j].ts \in Time
  BY ElementOfSeq, EventFields, TimesAreNumbers
<1>3. a.timestamps \in Seq(Time)
  BY DEF Outcome
<1>4. b.prevTs = ev.ts
  BY DEF Processed
<1>5. b.timestamps = IF Keeps(ev) /\ ev.ts # a.prevTs
                     THEN Append(a.timestamps, ev.ts) ELSE a.timestamps
  BY DEF Processed
<1>6. \A j \in 1 .. i + 1 : j \in 1 .. i \/ j = i + 1
  BY <1>1
<1>7. 1 .. i \subseteq 1 .. i + 1
  BY <1>1
<1>8. ev \in Event /\ ev.ts \in Time
  BY <1>1, <1>2
<1>9. /\ a.prevTs = IF i = 0 THEN -1 ELSE s[i].ts
      /\ Ascending(a.timestamps)
      /\ \A x \in ToSet(a.timestamps) : \E j \in 1 .. i : x = s[j].ts /\ Keeps(s[j])
      /\ \A j \in 1 .. i :
           Keeps(s[j]) /\ OpensTime(s, j) => s[j].ts \in ToSet(a.timestamps)
  BY DEF Stamped
<1>10. \A j \in 1 .. i : j \in 1 .. Len(s) /\ i # 0 /\ i \in 1 .. Len(s) /\ j <= i /\ i <= i + 1
  BY <1>1
<1>11. CASE Keeps(ev) /\ ev.ts # a.prevTs
  <2>1. b.timestamps = Append(a.timestamps, ev.ts)
    BY <1>5, <1>11
  <2>2. ToSet(b.timestamps) = ToSet(a.timestamps) \union {ev.ts}
    BY <1>3, <1>8, <2>1, ToSetAppend
  <2>3. \A j \in 1 .. i : s[j].ts < ev.ts
    <3> TAKE j \in 1 .. i
    <3>1. s[j].ts <= s[i].ts /\ s[i].ts <= ev.ts
      BY <1>1, <1>10 DEF Sorted
    <3>2. s[i].ts # ev.ts
      BY <1>9, <1>10, <1>11
    <3>3. s[j].ts \in Nat /\ s[i].ts \in Nat /\ ev.ts \in Nat
      BY <1>1, <1>2, <1>10
    <3> HIDE DEF ev
    <3> QED BY <3>1, <3>2, <3>3
  <2>4. \A y \in ToSet(a.timestamps) : y < ev.ts
    BY <1>9, <2>3
  <2>5. Ascending(b.timestamps)
    BY <1>3, <1>8, <1>9, <2>1, <2>4, AscendingAppend
  <2> HIDE DEF b
  <2>6. \A x \in ToSet(b.timestamps) : \E j \in 1 .. i + 1 : x = s[j].ts /\ Keeps(s[j])
    <3> TAKE x \in ToSet(b.timestamps)
    <3>1. CASE x = ev.ts
      <4>1. i + 1 \in 1 .. i + 1
        BY <1>1
      <4> QED BY <1>11, <3>1, <4>1
    <3>2. CASE x \in ToSet(a.timestamps)
      BY <1>7, <1>9, <3>2
    <3> QED BY <2>2, <3>1, <3>2
  <2>7. \A j \in 1 .. i + 1 :
          Keeps(s[j]) /\ OpensTime(s, j) => s[j].ts \in ToSet(b.timestamps)
    BY <1>6, <1>9, <2>2
  <2> QED BY <1>1, <1>4, <2>5, <2>6, <2>7 DEF Stamped, b
<1>12. CASE ~(Keeps(ev) /\ ev.ts # a.prevTs)
  <2>1. b.timestamps = a.timestamps
    BY <1>5, <1>12
  <2>2. ~(Keeps(ev) /\ OpensTime(s, i + 1))
    <3> SUFFICES ASSUME Keeps(ev), OpensTime(s, i + 1) PROVE FALSE
      OBVIOUS
    <3>1. ev.ts = a.prevTs
      BY <1>12
    <3>2. CASE i = 0
      BY <1>8, <1>9, <3>1, <3>2, TimesAreNumbers
    <3>3. CASE i # 0
      <4>1. i \in 1 .. (i + 1) - 1 /\ i \in 1 .. Len(s)
        BY <1>1, <3>3
      <4>2. s[i].ts < ev.ts
        BY <4>1 DEF OpensTime
      <4>3. s[i].ts \in Nat /\ s[i].ts = ev.ts
        BY <1>2, <1>9, <3>1, <3>3, <4>1
      <4> HIDE DEF ev
      <4> QED BY <4>2, <4>3
    <3> QED BY <3>2, <3>3
  <2> HIDE DEF b
  <2>3. \A x \in ToSet(b.timestamps) : \E j \in 1 .. i + 1 : x = s[j].ts /\ Keeps(s[j])
    BY <1>7, <1>9, <2>1
  <2>4. \A j \in 1 .. i + 1 :
          Keeps(s[j]) /\ OpensTime(s, j) => s[j].ts \in ToSet(b.timestamps)
    BY <1>6, <1>9, <2>1, <2>2
  <2> QED BY <1>1, <1>4, <1>9, <2>1, <2>3, <2>4 DEF Stamped, b
<1> QED BY <1>11, <1>12

LEMMA BatchIsStamped ==
  ASSUME NEW start \in Outcome, start.prevTs = -1, start.timestamps = <<>>,
         NEW s \in Seq(Event), Sorted(s)
  PROVE  Stamped(s, Len(s), Outcomes(start, s)[Len(s)])
<1> DEFINE f == Outcomes(start, s)
           n == Len(s)
           S == {i \in 0 .. n : Stamped(s, i, f[i])}
<1>1. n \in Nat
  BY LenProperties
<1>2. f[0] = start /\ \A i \in 1 .. n : f[i] = Processed(f[i - 1], s[i])
  BY <1>1, OutcomesRecursion
<1>3. \A i \in 0 .. n : f[i] \in Outcome
  BY OutcomesType
<1> HIDE DEF f
<1>4. 0 \in S
  <2>1. ToSet(start.timestamps) = {}
    BY DEF ToSet
  <2>2. Ascending(start.timestamps)
    BY DEF Ascending
  <2> QED BY <1>1, <1>2, <2>1, <2>2 DEF Stamped
<1>5. ASSUME NEW i \in 0 .. n - 1, i \in S PROVE i + 1 \in S
  <2>1. i + 1 \in 0 .. n /\ i + 1 \in 1 .. n /\ (i + 1) - 1 = i /\ i \in 0 .. n
    BY <1>1
  <2>2. f[i + 1] = Processed(f[i], s[i + 1])
    BY <1>2, <2>1
  <2>3. Stamped(s, i + 1, f[i + 1])
    BY <1>3, <1>5, <2>1, <2>2, StampedStep
  <2> QED BY <2>1, <2>3
<1>6. 0 .. n \subseteq S
  <2> HIDE DEF S, n
  <2> QED BY <1>1, <1>4, <1>5, StepByStep
<1> QED BY <1>1, <1>6 DEF f

------------------------------------------------------------------------------
(* The timestamps that the EWM takes *)

\* observe_batch takes just the timestamps after the last one it has.
LEMMA FreshFacts ==
  ASSUME NEW ts \in Seq(Time), Ascending(ts), NEW last \in Nat
  PROVE  /\ Fresh(ts, last) \in Seq(Time)
         /\ Ascending(Fresh(ts, last))
         /\ \A x \in Time : x \in ToSet(Fresh(ts, last)) <=> x \in ToSet(ts) /\ x > last
<1> DEFINE newer == {i \in DOMAIN ts : ts[i] > last}
           first == CHOOSE i \in newer : \A j \in newer : i <= j
<1>1. Len(ts) \in Nat /\ DOMAIN ts = 1 .. Len(ts) /\ \A i \in 1 .. Len(ts) : ts[i] \in Time
  BY LenProperties, ElementOfSeq
<1>2. \A x \in Time : x \in Nat
  BY TimesAreNumbers
<1>3. \A x : x \in ToSet(ts) <=> \E i \in 1 .. Len(ts) : x = ts[i]
  BY ToSetFacts
<1>4. CASE newer = {}
  <2>1. Fresh(ts, last) = <<>>
    BY <1>4 DEF Fresh
  <2>2. <<>> \in Seq(Time) /\ Ascending(<<>>) /\ ToSet(<<>>) = {}
    BY DEF Ascending, ToSet
  <2>3. ASSUME NEW x \in Time, x \in ToSet(ts), x > last PROVE FALSE
    <3>1. PICK i \in 1 .. Len(ts) : x = ts[i]
      BY <1>3, <2>3
    <3>2. i \in newer
      BY <1>1, <2>3, <3>1
    <3> QED BY <1>4, <3>2
  <2> QED BY <2>1, <2>2, <2>3
<1>5. CASE newer # {}
  <2>1. Fresh(ts, last) = SubSeq(ts, first, Len(ts))
    BY <1>5 DEF Fresh
  <2>2. newer \in SUBSET Nat
    BY <1>1
  <2>3. \E i \in newer : \A j \in newer : i <= j
    <3> HIDE DEF newer
    <3> QED BY <1>5, <2>2, LeastElement
  <2>4. first \in newer /\ \A j \in newer : first <= j
    <3> HIDE DEF newer
    <3> QED BY <2>3
  <2>5. first \in 1 .. Len(ts) /\ ts[first] > last
    BY <1>1, <2>4
  <2>6. \A i \in 1 .. Len(ts) : ts[i] > last => first <= i
    BY <1>1, <2>4
  <2> HIDE DEF first, newer
  <2> DEFINE u == SubSeq(ts, first, Len(ts))
             m == Len(ts) - first + 1
  <2>7. /\ u \in Seq(Time) /\ Len(u) = m /\ m \in Nat
        /\ \A i \in 1 .. m : u[i] = ts[first + i - 1]
    BY <1>1, <2>5, SubSeqProperties
  <2>8. Fresh(ts, last) = u
    BY <2>1
  <2> HIDE DEF u
  <2>9. \A x : x \in ToSet(u) <=> \E i \in 1 .. m : x = u[i]
    BY <2>7, ToSetFacts
  <2>10. Ascending(u)
    <3>1. \A i \in 1 .. m : first + i - 1 \in 1 .. Len(ts)
      BY <1>1, <2>5
    <3>2. \A i, j \in 1 .. m : i < j => first + i - 1 < first + j - 1
      BY <2>5
    <3> QED BY <2>7, <3>1, <3>2 DEF Ascending
  <2>11. ASSUME NEW x \in Time
         PROVE  x \in ToSet(u) <=> x \in ToSet(ts) /\ x > last
    <3>1. ASSUME x \in ToSet(u) PROVE x \in ToSet(ts) /\ x > last
      <4>1. PICK i \in 1 .. m : x = u[i]
        BY <2>9, <3>1
      <4>2. first + i - 1 \in 1 .. Len(ts) /\ first <= first + i - 1 /\ x = ts[first + i - 1]
        BY <1>1, <2>5, <2>7, <4>1
      <4>3. first = first + i - 1 \/ first < first + i - 1
        BY <1>1, <2>5
      <4>4. ts[first] <= x
        <5>1. ts[first] \in Nat /\ x \in Nat
          BY <1>1, <1>2, <2>5
        <5> QED BY <2>5, <4>2, <4>3, <5>1 DEF Ascending
      <4>5. ts[first] \in Nat /\ x \in Nat
        BY <1>1, <1>2, <2>5
      <4> QED BY <1>3, <2>5, <4>2, <4>4, <4>5
    <3>2. ASSUME x \in ToSet(ts), x > last PROVE x \in ToSet(u)
      <4>1. PICK i \in 1 .. Len(ts) : x = ts[i]
        BY <1>3, <3>2
      <4>2. first <= i
        BY <2>6, <3>2, <4>1
      <4>3. (i - first) + 1 \in 1 .. m /\ first + ((i - first) + 1) - 1 = i
        BY <1>1, <2>5, <4>2
      <4>4. u[(i - first) + 1] = x
        BY <2>7, <4>1, <4>3
      <4> QED BY <2>9, <4>3, <4>4
    <3> QED BY <3>1, <3>2
  <2> QED BY <2>7, <2>8, <2>10, <2>11
<1> QED BY <1>4, <1>5

LEMMA ToSetConcat ==
  ASSUME NEW s \in Seq(Time), NEW t \in Seq(Time)
  PROVE  ToSet(s \o t) = ToSet(s) \union ToSet(t)
<1>1. /\ s \o t \in Seq(Time) /\ Len(s \o t) = Len(s) + Len(t)
      /\ Len(s) \in Nat /\ Len(t) \in Nat
      /\ \A i \in 1 .. Len(s) : (s \o t)[i] = s[i]
      /\ \A i \in 1 .. Len(t) : (s \o t)[Len(s) + i] = t[i]
  BY ConcatProperties, LenProperties
<1>2. /\ \A x : x \in ToSet(s) <=> \E i \in 1 .. Len(s) : x = s[i]
      /\ \A x : x \in ToSet(t) <=> \E i \in 1 .. Len(t) : x = t[i]
  BY ToSetFacts
<1> DEFINE u == s \o t
<1>3. /\ u \in Seq(Time) /\ Len(u) = Len(s) + Len(t)
      /\ \A i \in 1 .. Len(s) : u[i] = s[i]
      /\ \A i \in 1 .. Len(t) : u[Len(s) + i] = t[i]
  BY <1>1
<1> HIDE DEF u
<1>4. \A x : x \in ToSet(u) <=> \E i \in 1 .. Len(s) + Len(t) : x = u[i]
  BY <1>3, ToSetFacts
<1>5. ASSUME NEW x \in ToSet(u) PROVE x \in ToSet(s) \union ToSet(t)
  <2>1. PICK i \in 1 .. Len(s) + Len(t) : x = u[i]
    BY <1>4, <1>5
  <2>2. i \in 1 .. Len(s) \/ (i - Len(s) \in 1 .. Len(t) /\ Len(s) + (i - Len(s)) = i)
    BY <1>1
  <2> QED BY <1>2, <1>3, <2>1, <2>2
<1>6. ASSUME NEW x \in ToSet(s) \union ToSet(t) PROVE x \in ToSet(u)
  <2>1. CASE x \in ToSet(s)
    <3>1. PICK i \in 1 .. Len(s) : x = s[i]
      BY <1>2, <2>1
    <3>2. i \in 1 .. Len(s) + Len(t)
      BY <1>1
    <3> QED BY <1>3, <1>4, <3>1, <3>2
  <2>2. CASE x \in ToSet(t)
    <3>1. PICK i \in 1 .. Len(t) : x = t[i]
      BY <1>2, <2>2
    <3>2. Len(s) + i \in 1 .. Len(s) + Len(t)
      BY <1>1
    <3> QED BY <1>3, <1>4, <3>1, <3>2
  <2> QED BY <2>1, <2>2
<1> QED BY <1>5, <1>6 DEF u

LEMMA AscendingConcat ==
  ASSUME NEW s \in Seq(Time), NEW t \in Seq(Time), Ascending(s), Ascending(t),
         \A x \in ToSet(s), y \in ToSet(t) : x < y
  PROVE  Ascending(s \o t)
<1>1. /\ Len(s \o t) = Len(s) + Len(t)
      /\ Len(s) \in Nat /\ Len(t) \in Nat
      /\ \A i \in 1 .. Len(s) : (s \o t)[i] = s[i]
      /\ \A i \in 1 .. Len(t) : (s \o t)[Len(s) + i] = t[i]
  BY ConcatProperties, LenProperties
<1>2. (\A i \in 1 .. Len(s) : s[i] \in ToSet(s)) /\ (\A i \in 1 .. Len(t) : t[i] \in ToSet(t))
  BY ToSetFacts
<1>3. ASSUME NEW i \in 1 .. Len(s) + Len(t)
      PROVE  i \in 1 .. Len(s) \/ (i - Len(s) \in 1 .. Len(t) /\ Len(s) + (i - Len(s)) = i)
  BY <1>1
<1>4. ASSUME NEW i \in 1 .. Len(s) + Len(t), NEW j \in 1 .. Len(s) + Len(t), i < j
      PROVE  (s \o t)[i] < (s \o t)[j]
  <2>1. CASE i \in 1 .. Len(s) /\ j \in 1 .. Len(s)
    BY <1>1, <1>4, <2>1 DEF Ascending
  <2>2. CASE i \in 1 .. Len(s) /\ j - Len(s) \in 1 .. Len(t)
    <3>1. (s \o t)[j] = t[j - Len(s)]
      BY <1>1, <1>3, <2>2
    <3> QED BY <1>1, <1>2, <2>2, <3>1
  <2>3. CASE i - Len(s) \in 1 .. Len(t) /\ j - Len(s) \in 1 .. Len(t)
    <3>1. (s \o t)[i] = t[i - Len(s)] /\ (s \o t)[j] = t[j - Len(s)]
      BY <1>1, <1>3, <2>3
    <3>2. i - Len(s) < j - Len(s)
      BY <1>1, <1>4
    <3> QED BY <2>3, <3>1, <3>2 DEF Ascending
  <2>4. ~(i - Len(s) \in 1 .. Len(t) /\ j \in 1 .. Len(s))
    BY <1>1, <1>4
  <2> QED BY <1>3, <2>1, <2>2, <2>3, <2>4
<1> QED BY <1>1, <1>4 DEF Ascending

\* What the EWM has is ascending, and its last is no less than any other.
LEMMA LastEventFacts ==
  ASSUME resolution \in Seq(Time), Ascending(resolution)
  PROVE  /\ LastEvent \in Nat
         /\ \A r \in ToSet(resolution) : r <= LastEvent
         /\ LastEvent = 0 \/ LastEvent \in ToSet(resolution)
<1>1. Len(resolution) \in Nat /\ \A i \in 1 .. Len(resolution) : resolution[i] \in Time
  BY LenProperties, ElementOfSeq
<1>2. ToSet(resolution) = {resolution[i] : i \in 1 .. Len(resolution)}
  BY ToSetFacts
<1>3. \A x \in Time : x \in Nat
  BY TimesAreNumbers
<1>4. CASE resolution = <<>>
  <2>1. LastEvent = 0
    BY <1>4 DEF LastEvent
  <2>2. ToSet(resolution) = {}
    BY <1>4 DEF ToSet
  <2> QED BY <2>1, <2>2
<1>5. CASE resolution # <<>>
  <2>1. Len(resolution) \in 1 .. Len(resolution)
    BY <1>1, <1>5, EmptySeq
  <2>2. LastEvent = resolution[Len(resolution)]
    BY <1>5 DEF LastEvent, Last
  <2>3. LastEvent \in ToSet(resolution) /\ LastEvent \in Nat
    BY <1>1, <1>2, <1>3, <2>1, <2>2
  <2>4. ASSUME NEW i \in 1 .. Len(resolution) PROVE resolution[i] <= LastEvent
    <3>1. resolution[i] \in Nat
      BY <1>1, <1>3
    <3>2. i < Len(resolution) \/ i = Len(resolution)
      BY <1>1
    <3> QED BY <2>1, <2>2, <2>3, <2>4, <3>1, <3>2 DEF Ascending
  <2> QED BY <1>2, <2>3, <2>4
<1> QED BY <1>4, <1>5

------------------------------------------------------------------------------
(* The kernel queues a packet *)

\* process_event_specialized keeps just the events that are activity.
LEMMA KeepsIsActivity ==
  ASSUME NEW ev \in Event
  PROVE  Keeps(ev) <=> IsActivity(ev)
BY EventFields DEF Keeps, IsActivity, KeyKept

LEMMA BatchStartType ==
  ASSUME TypeOK
  PROVE  BatchStart \in Outcome /\ BatchStart.prevTs = -1 /\ BatchStart.timestamps = <<>>
BY DEF TypeOK, BatchStart, Outcome

LEMMA BatchNext ==
  Batch(queue)' = Outcomes(BatchStart', queue')[Len(queue')]
BY DEF Batch, Outcomes

LEMMA SameStart ==
  ASSUME pressed' = pressed, lastValue' = lastValue
  PROVE  BatchStart' = BatchStart
BY DEF BatchStart

LEMMA Constructors ==
  ASSUME NEW t \in Time
  PROVE  /\ Syn(t) \in Event /\ Dropped(t) \in Event /\ Msc(t) \in Event /\ Rel(t) \in Event
         /\ \A pos \in Positions : Abs(t, pos) \in Event
         /\ \A k \in Keys, value \in 0 .. 2 : Key(t, k, value) \in Event
BY DEF Syn, Dropped, Msc, Rel, Abs, Key, Event, Positions

IsPacket(packet, t) ==
  /\ packet \in Seq(Event) /\ Len(packet) \in 2 .. 3
  /\ \A i \in 1 .. Len(packet) : packet[i].ts = t
  /\ Last(packet) = Syn(t)

\* With the packet, the watcher will know what the packet makes of what it knew.
LEMMA PacketFollowed ==
  ASSUME TypeOK, NEW packet, NEW t, IsPacket(packet, t), Queue(packet, t), ~lost'
  PROVE  ~lost /\ SameState(Batch(queue)', Outcomes(Batch(queue), packet)[Len(packet)])
<1>1. queue' = queue \o packet /\ lost' = lost
  BY DEF Queue
<1>2. BatchStart' = BatchStart
  BY SameStart DEF Queue, watcher
<1>3. queue \in Seq(Event) /\ packet \in Seq(Event)
  BY DEF TypeOK, IsPacket
<1> DEFINE s == queue \o packet
<1>4. /\ Len(queue) \in Nat /\ Len(packet) \in Nat /\ Len(s) = Len(queue) + Len(packet)
      /\ \A i \in 1 .. Len(queue) : s[i] = queue[i]
      /\ \A i \in 1 .. Len(packet) : s[Len(queue) + i] = packet[i]
  BY <1>3, ConcatProperties, LenProperties
<1>5. Batch(queue)' = Outcomes(BatchStart, s)[Len(s)]
  BY <1>1, <1>2, BatchNext
<1> HIDE DEF s
<1>6. SameState(Outcomes(BatchStart, s)[Len(queue)], Batch(queue))
  <2>1. Outcomes(BatchStart, s)[0] = BatchStart
    BY <1>4, OutcomesRecursion
  <2>2. \A i \in 1 .. Len(queue) : queue[i] = s[0 + i]
    BY <1>4
  <2>3. \A i \in 0 .. Len(queue) :
          SameState(Outcomes(BatchStart, s)[0 + i], Outcomes(BatchStart, queue)[i])
    <3>1. SameState(Outcomes(BatchStart, s)[0], BatchStart)
      BY <2>1 DEF SameState
    <3>2. Len(s) \in Nat /\ 0 \in Nat /\ 0 + Len(queue) <= Len(s)
      BY <1>4
    <3> QED BY <1>4, <2>2, <3>1, <3>2, SameEventsSameState
  <2>4. Len(queue) \in 0 .. Len(queue) /\ 0 + Len(queue) = Len(queue)
    BY <1>4
  <2> QED BY <2>3, <2>4 DEF Batch
<1>7. \A i \in 0 .. Len(packet) :
        SameState(Outcomes(BatchStart, s)[Len(queue) + i], Outcomes(Batch(queue), packet)[i])
  <2>1. Len(s) \in Nat /\ Len(queue) + Len(packet) <= Len(s)
    BY <1>4
  <2>2. \A i \in 1 .. Len(packet) : packet[i] = s[Len(queue) + i]
    BY <1>4
  <2> QED BY <1>4, <1>6, <2>1, <2>2, SameEventsSameState
<1>8. Len(packet) \in 0 .. Len(packet)
  BY <1>4
<1> QED BY <1>1, <1>4, <1>5, <1>7, <1>8

LEMMA TwoEvents ==
  ASSUME NEW o, NEW a, NEW b
  PROVE  Outcomes(o, <<a, b>>)[2] = Processed(Processed(o, a), b)
<1>1. Len(<<a, b>>) = 2 /\ <<a, b>>[1] = a /\ <<a, b>>[2] = b
  OBVIOUS
<1>2. 1 \in 1 .. 2 /\ 2 \in 1 .. 2 /\ 2 - 1 = 1 /\ 1 - 1 = 0
  OBVIOUS
<1> DEFINE s == <<a, b>>
<1>3. Len(s) = 2 /\ s[1] = a /\ s[2] = b
  BY <1>1
<1> HIDE DEF s
<1>4. Len(s) \in Nat
  BY <1>3
<1>5. /\ Outcomes(o, s)[0] = o
      /\ \A i \in 1 .. Len(s) : Outcomes(o, s)[i] = Processed(Outcomes(o, s)[i - 1], s[i])
  BY <1>4, OutcomesRecursion
<1> QED BY <1>2, <1>3, <1>5 DEF s

LEMMA ThreeEvents ==
  ASSUME NEW o, NEW a, NEW b, NEW c
  PROVE  Outcomes(o, <<a, b, c>>)[3] = Processed(Processed(Processed(o, a), b), c)
<1>1. Len(<<a, b, c>>) = 3 /\ <<a, b, c>>[1] = a /\ <<a, b, c>>[2] = b /\ <<a, b, c>>[3] = c
  OBVIOUS
<1>2. /\ 1 \in 1 .. 3 /\ 2 \in 1 .. 3 /\ 3 \in 1 .. 3
      /\ 3 - 1 = 2 /\ 2 - 1 = 1 /\ 1 - 1 = 0
  OBVIOUS
<1> DEFINE s == <<a, b, c>>
<1>3. Len(s) = 3 /\ s[1] = a /\ s[2] = b /\ s[3] = c
  BY <1>1
<1> HIDE DEF s
<1>4. Len(s) \in Nat
  BY <1>3
<1>5. /\ Outcomes(o, s)[0] = o
      /\ \A i \in 1 .. Len(s) : Outcomes(o, s)[i] = Processed(Outcomes(o, s)[i - 1], s[i])
  BY <1>4, OutcomesRecursion
<1> QED BY <1>2, <1>3, <1>5 DEF s

\* A packet marks its time, one way or the other.
LEMMA PacketMarks ==
  ASSUME TypeOK, NowMarked, NEW packet, NEW t \in NextTime,
         IsPacket(packet, t), Queue(packet, t)
  PROVE  NowMarked'
<1>1. /\ now' = t
      /\ moved' = IF \E i \in DOMAIN packet : IsActivity(packet[i])
                  THEN moved \union {t} ELSE moved
      /\ masked' = IF t > now /\ ~IsActivity(packet[1]) THEN masked \union {t} ELSE masked
  BY DEF Queue
<1>2. now \in Nat /\ t \in Nat /\ t # 0 /\ (t = now \/ t = now + 1)
  BY TimesAreNumbers, BoundsAssumption DEF TypeOK, NextTime
<1>3. CASE t = now
  BY <1>1, <1>2, <1>3 DEF NowMarked
<1>4. CASE t > now
  <2>1. packet \in Seq(Event) /\ Len(packet) \in 2 .. 3
    BY DEF IsPacket
  <2>2. 1 \in DOMAIN packet
    BY <2>1, LenProperties
  <2> QED BY <1>1, <1>4, <2>2 DEF NowMarked
<1> QED BY <1>2, <1>3, <1>4

\* The queue with a packet behind it.
LEMMA PacketFits ==
  ASSUME TypeOK, Ordered, Counted, NowMarked, NEW packet, NEW t \in NextTime,
         IsPacket(packet, t), Queue(packet, t), Len(queue) + Len(packet) <= KernelCap
  PROVE  /\ queue' \in Seq(Event) /\ Len(queue') <= KernelCap
         /\ Ordered' /\ Counted'
<1>1. /\ queue' = queue \o packet /\ lost' = lost /\ now' = t
      /\ masked' = IF t > now /\ ~IsActivity(packet[1]) THEN masked \union {t} ELSE masked
      /\ moved' = IF \E i \in DOMAIN packet : IsActivity(packet[i])
                  THEN moved \union {t} ELSE moved
      /\ resolution' = resolution
  BY DEF Queue, watcher
<1>2. queue \in Seq(Event) /\ packet \in Seq(Event) /\ resolution \in Seq(Time)
  BY DEF TypeOK, IsPacket
<1> DEFINE s == queue \o packet
           m == Len(queue)
<1>3. /\ m \in Nat /\ Len(packet) \in 2 .. 3 /\ Len(s) = m + Len(packet)
      /\ \A i \in 1 .. m : s[i] = queue[i]
      /\ \A i \in 1 .. Len(packet) : s[m + i] = packet[i] /\ packet[i].ts = t
      /\ DOMAIN packet = 1 .. Len(packet)
      /\ s \in Seq(Event)
  BY <1>2, ConcatProperties, LenProperties DEF IsPacket
<1>4. /\ now \in Nat /\ t \in Nat /\ t \in Time /\ now <= t
      /\ KernelCap \in Nat /\ 0 <= now /\ Len(s) <= KernelCap
  BY <1>3, TimesAreNumbers, BoundsAssumption DEF TypeOK, NextTime
<1>5. \A i \in 1 .. m : queue[i] \in Event /\ queue[i].ts \in Nat
  BY <1>2, ElementOfSeq, EventFields, TimesAreNumbers
<1>6. \A i \in 1 .. Len(packet) : packet[i] \in Event
  BY <1>2, ElementOfSeq
<1>7. queue' = s
  BY <1>1
<1>8. ToSet(resolution)' = ToSet(resolution) /\ Ascending(resolution)' = Ascending(resolution)
  BY <1>1 DEF ToSet, Ascending
<1>9. \A r \in ToSet(resolution) : r \in Nat
  BY <1>2, ToSetFacts, TimesAreNumbers
<1> HIDE DEF s, m
<1>10. \A i \in 1 .. Len(s) :
         \/ i \in 1 .. m /\ s[i] = queue[i]
         \/ i - m \in 1 .. Len(packet) /\ i > m /\ s[i] = packet[i - m]
  <2> TAKE i \in 1 .. Len(s)
  <2>1. i \in 1 .. m \/ (i - m \in 1 .. Len(packet) /\ i > m /\ m + (i - m) = i)
    BY <1>3
  <2> QED BY <1>3, <2>1
<1>11. \A i \in 1 .. m : queue[i].ts <= now
  BY DEF Ordered, m
<1>12. \A i \in 1 .. Len(s) :
         \/ i \in 1 .. m /\ s[i].ts = queue[i].ts /\ s[i].ts \in Nat /\ s[i].ts <= now
         \/ i > m /\ s[i].ts = t
  BY <1>3, <1>5, <1>10, <1>11
<1>13. Ordered'
  <2>1. \A i, j \in 1 .. Len(s) : i <= j => s[i].ts <= s[j].ts
    <3> SUFFICES ASSUME NEW i \in 1 .. Len(s), NEW j \in 1 .. Len(s), i <= j
                 PROVE  s[i].ts <= s[j].ts
      OBVIOUS
    <3>1. CASE i \in 1 .. m /\ j \in 1 .. m
      BY <1>12, <3>1, <1>3 DEF Ordered, m
    <3>2. CASE i \in 1 .. m /\ j > m
      <4>1. s[i].ts \in Nat /\ s[i].ts <= now /\ s[j].ts = t
        BY <1>3, <1>12, <3>2
      <4> QED BY <1>4, <4>1
    <3>3. CASE i > m /\ j > m
      <4>1. s[i].ts = t /\ s[j].ts = t
        BY <1>3, <1>12, <3>3
      <4> QED BY <1>4, <4>1
    <3>4. ~(i > m /\ j \in 1 .. m)
      BY <1>3
    <3>5. (i \in 1 .. m \/ i > m) /\ (j \in 1 .. m \/ j > m)
      BY <1>3
    <3> QED BY <3>1, <3>2, <3>3, <3>4, <3>5
  <2>2. \A i \in 1 .. Len(s) : s[i].ts <= t
    <3> TAKE i \in 1 .. Len(s)
    <3> QED BY <1>4, <1>12
  <2>3. Ascending(resolution)
    BY DEF Ordered
  <2>4. ASSUME NEW r \in ToSet(resolution)
        PROVE  r <= t /\ \A i \in 1 .. Len(s) : r <= s[i].ts
    <3>1. r \in Nat /\ r <= now /\ \A i \in 1 .. m : r <= queue[i].ts
      BY <1>9 DEF Ordered, m
    <3>2. r <= t
      BY <1>4, <3>1
    <3>3. ASSUME NEW i \in 1 .. Len(s) PROVE r <= s[i].ts
      BY <1>12, <3>1, <3>2
    <3> QED BY <3>2, <3>3
  <2> QED BY <1>1, <1>7, <1>8, <2>1, <2>2, <2>3, <2>4 DEF Ordered
<1>14. moved \subseteq moved' /\ moved' \subseteq moved \union {t} /\ masked \subseteq masked'
  BY <1>1
<1>15. Counted'
  <2>1. ToSet(resolution) \subseteq moved'
    BY <1>14 DEF Counted
  <2>2. ASSUME NEW i \in 1 .. Len(s), Keeps(s[i]) PROVE s[i].ts \in moved'
    <3>1. CASE i \in 1 .. m /\ s[i] = queue[i]
      BY <1>14, <2>2, <3>1 DEF Counted, m
    <3>2. CASE i - m \in 1 .. Len(packet) /\ s[i] = packet[i - m]
      <4>1. IsActivity(packet[i - m]) /\ s[i].ts = t
        BY <1>3, <1>6, <2>2, <3>2, KeepsIsActivity
      <4> QED BY <1>1, <1>3, <3>2, <4>1
    <3> QED BY <1>10, <3>1, <3>2
  <2>3. ASSUME ~lost', NEW x \in moved' \ masked'
        PROVE  \/ x \in ToSet(resolution)
               \/ \E i \in 1 .. Len(s) : s[i].ts = x /\ Keeps(s[i]) /\ OpensTime(s, i)
    <3>1. CASE x \in moved
      <4>1. \/ x \in ToSet(resolution)
            \/ \E i \in 1 .. m : queue[i].ts = x /\ Keeps(queue[i]) /\ OpensTime(queue, i)
        BY <1>1, <1>14, <2>3, <3>1 DEF Counted, m
      <4>2. ASSUME NEW i \in 1 .. m, queue[i].ts = x, Keeps(queue[i]), OpensTime(queue, i)
            PROVE  i \in 1 .. Len(s) /\ s[i].ts = x /\ Keeps(s[i]) /\ OpensTime(s, i)
        <5>1. i \in 1 .. Len(s) /\ \A j \in 1 .. i - 1 : j \in 1 .. m
          BY <1>3
        <5> QED BY <1>3, <4>2, <5>1 DEF OpensTime
      <4> QED BY <4>1, <4>2
    <3>2. CASE x \notin moved
      <4>1. x = t /\ t > now /\ IsActivity(packet[1])
        <5>1. x = t /\ t \notin masked' /\ t \notin masked
          BY <1>14, <2>3, <3>2
        <5>2. t # now
          BY <1>4, <3>2, <5>1, TimesAreNumbers DEF NowMarked
        <5> QED BY <1>1, <1>4, <5>1, <5>2
      <4>2. 1 \in 1 .. Len(packet) /\ m + 1 \in 1 .. Len(s) /\ s[m + 1] = packet[1]
        <5>1. 1 \in 1 .. Len(packet) /\ m + 1 \in 1 .. Len(s)
          BY <1>3
        <5> QED BY <1>3, <5>1
      <4>3. Keeps(s[m + 1]) /\ s[m + 1].ts = x
        BY <1>3, <1>6, <4>1, <4>2, KeepsIsActivity
      <4>4. OpensTime(s, m + 1)
        <5> SUFFICES ASSUME NEW j \in 1 .. (m + 1) - 1 PROVE s[j].ts < s[m + 1].ts
          BY DEF OpensTime
        <5>1. j \in 1 .. m /\ j \in 1 .. Len(s) /\ ~(j > m)
          BY <1>3
        <5>2. s[j].ts \in Nat /\ s[j].ts <= now
          BY <1>12, <5>1
        <5> QED BY <1>4, <4>1, <4>3, <5>2
      <4> QED BY <4>2, <4>3, <4>4
    <3> QED BY <3>1, <3>2
  <2> QED BY <1>7, <1>8, <2>1, <2>2, <2>3 DEF Counted
<1> QED BY <1>3, <1>4, <1>7, <1>13, <1>15

\* The kernel drops what it held.
LEMMA PacketOverflows ==
  ASSUME TypeOK, Ordered, Counted, NEW packet, NEW t \in NextTime,
         IsPacket(packet, t), Queue(packet, t), ~(Len(queue) + Len(packet) <= KernelCap)
  PROVE  /\ queue' \in Seq(Event) /\ Len(queue') <= KernelCap
         /\ lost' = TRUE /\ Ordered' /\ Counted'
<1>1. /\ queue' = <<Dropped(t), Syn(t)>> /\ lost' = TRUE /\ now' = t
      /\ moved \subseteq moved'
      /\ resolution' = resolution
  BY DEF Queue, watcher, IsPacket
<1>2. resolution \in Seq(Time) /\ t \in Time
  BY DEF TypeOK, NextTime
<1>3. Syn(t) \in Event /\ Dropped(t) \in Event
  BY <1>2, Constructors
<1>4. queue' \in Seq(Event) /\ Len(queue') = 2 /\ 1 .. 2 = {1, 2}
  BY <1>1, <1>3
<1>5. /\ queue'[1].ts = t /\ queue'[2].ts = t
      /\ ~Keeps(queue'[1]) /\ ~Keeps(queue'[2])
  BY <1>1 DEF Syn, Dropped, Keeps
<1>6. 2 <= KernelCap
  BY BoundsAssumption
<1>7. now \in Nat /\ t \in Nat /\ now <= t
  BY <1>2, TimesAreNumbers DEF TypeOK, NextTime
<1>8. ToSet(resolution)' = ToSet(resolution) /\ Ascending(resolution)' = Ascending(resolution)
  BY <1>1 DEF ToSet, Ascending
<1>9. ASSUME NEW r \in ToSet(resolution) PROVE r <= t
  <2>1. r \in Nat
    BY <1>2, ToSetFacts, TimesAreNumbers
  <2>2. r <= now
    BY DEF Ordered
  <2> QED BY <1>7, <2>1, <2>2
<1>10. \A i \in 1 .. Len(queue') : queue'[i].ts = t /\ ~Keeps(queue'[i])
  BY <1>4, <1>5
<1>11. Ordered'
  BY <1>1, <1>7, <1>8, <1>9, <1>10 DEF Ordered
<1>12. Counted'
  BY <1>1, <1>8, <1>10 DEF Counted
<1> QED BY <1>1, <1>4, <1>6, <1>11, <1>12

\* All that a packet leaves of the invariant, but for the state it reports.
LEMMA PacketQueued ==
  ASSUME IInv, NEW packet, NEW t \in NextTime, IsPacket(packet, t), Queue(packet, t),
         keysDown' \subseteq Keys, position' \in Positions, heard' \subseteq Keys,
         axisHeard' \in BOOLEAN
  PROVE  /\ TypeOK' /\ Ordered' /\ Counted' /\ NowMarked'
         /\ active' = ActiveIndefinitely(pressed, lastValue)'
<1> USE DEF IInv
<1>1. /\ queue' \in Seq(Event) /\ Len(queue') <= KernelCap
      /\ Ordered' /\ Counted' /\ lost' \in BOOLEAN
  <2>1. CASE Len(queue) + Len(packet) <= KernelCap
    <3>1. lost' = lost
      BY <2>1 DEF Queue
    <3> QED BY <2>1, <3>1, PacketFits DEF TypeOK
  <2>2. CASE ~(Len(queue) + Len(packet) <= KernelCap)
    BY <2>2, PacketOverflows
  <2> QED BY <2>1, <2>2
<1>2. t \in Time /\ now' = t
  BY DEF NextTime, Queue
<1>3. now' \in 0 .. MaxTime
  BY <1>2, BoundsAssumption DEF Time
<1>4. masked' \subseteq Time /\ moved' \subseteq Time
  BY <1>2 DEF TypeOK, Queue
<1>5. /\ scratchLen' = scratchLen /\ pressed' = pressed /\ lastValue' = lastValue
      /\ overflowed' = overflowed /\ active' = active /\ resolution' = resolution
      /\ isPointer' = isPointer
  BY DEF Queue, watcher
<1>6. TypeOK'
  BY <1>1, <1>3, <1>4, <1>5 DEF TypeOK
<1>7. active' = ActiveIndefinitely(pressed, lastValue)'
  BY <1>5 DEF Followed, TypeOK, ActiveIndefinitely
<1> QED BY <1>1, <1>6, <1>7, PacketMarks

\* A packet that reports what happened to the device keeps the invariant.
LEMMA PacketReported ==
  ASSUME IInv, NEW packet, NEW t \in NextTime, IsPacket(packet, t), Queue(packet, t),
         keysDown' \subseteq Keys, position' \in Positions, heard' \subseteq Keys,
         axisHeard' \in BOOLEAN,
         NEW o, o = Outcomes(Batch(queue), packet)[Len(packet)],
         ~lost => /\ o.pressed = keysDown' \intersect heard'
                  /\ o.lastValue = Reported'
  PROVE  IInv'
<1>1. /\ TypeOK' /\ Ordered' /\ Counted' /\ NowMarked'
      /\ active' = ActiveIndefinitely(pressed, lastValue)'
  BY PacketQueued
<1>2. ASSUME ~lost' PROVE SameState(Batch(queue)', o) /\ ~lost
  BY <1>2, PacketFollowed DEF IInv
<1>3. Followed'
  BY <1>1, <1>2 DEF Followed, SameState
<1> QED BY <1>1, <1>3 DEF IInv

LEMMA PacketOfTwo ==
  ASSUME NEW t \in Time, NEW a \in Event, a.ts = t
  PROVE  IsPacket(<<a, Syn(t)>>, t) /\ Len(<<a, Syn(t)>>) = 2
<1>1. Syn(t) \in Event /\ Syn(t).ts = t
  BY Constructors DEF Syn
<1>2. ASSUME NEW i \in 1 .. 2 PROVE <<a, Syn(t)>>[i].ts = t
  <2>1. i = 1 \/ i = 2
    OBVIOUS
  <2> QED BY <1>1, <2>1
<1>3. Last(<<a, Syn(t)>>) = Syn(t) /\ Len(<<a, Syn(t)>>) = 2
  BY DEF Last
<1>4. <<a, Syn(t)>> \in Seq(Event)
  BY <1>1
<1> QED BY <1>2, <1>3, <1>4 DEF IsPacket

LEMMA PacketOfThree ==
  ASSUME NEW t \in Time, NEW a \in Event, NEW b \in Event, a.ts = t, b.ts = t
  PROVE  IsPacket(<<a, b, Syn(t)>>, t) /\ Len(<<a, b, Syn(t)>>) = 3
<1>1. Syn(t) \in Event /\ Syn(t).ts = t
  BY Constructors DEF Syn
<1>2. ASSUME NEW i \in 1 .. 3 PROVE <<a, b, Syn(t)>>[i].ts = t
  <2>1. i = 1 \/ i = 2 \/ i = 3
    OBVIOUS
  <2> QED BY <1>1, <2>1
<1>3. Last(<<a, b, Syn(t)>>) = Syn(t) /\ Len(<<a, b, Syn(t)>>) = 3
  BY DEF Last
<1>4. <<a, b, Syn(t)>> \in Seq(Event)
  BY <1>1
<1> QED BY <1>2, <1>3, <1>4 DEF IsPacket

\* Only events of keys and of the axis change what the watcher knows.
LEMMA OtherState ==
  ASSUME NEW o, NEW ev, ev.type \notin {"key", "abs"}
  PROVE  SameState(Processed(o, ev), o)
BY ProcessedState DEF SameState

LEMMA AxisState ==
  ASSUME NEW o, NEW t, NEW pos
  PROVE  /\ Processed(o, Abs(t, pos)).pressed = o.pressed
         /\ Processed(o, Abs(t, pos)).lastValue = pos
<1>1. Abs(t, pos).type = "abs" /\ Abs(t, pos).value = pos
  BY DEF Abs
<1> QED BY <1>1, ProcessedState

LEMMA KeyState ==
  ASSUME NEW o, NEW t, NEW k, NEW value
  PROVE  /\ Processed(o, Key(t, k, value)).lastValue = o.lastValue
         /\ value = 1 => Processed(o, Key(t, k, value)).pressed = o.pressed \union {k}
         /\ value = 0 => Processed(o, Key(t, k, value)).pressed = o.pressed \ {k}
         /\ value = 2 => Processed(o, Key(t, k, value)).pressed = o.pressed
<1> DEFINE ev == Key(t, k, value)
<1>1. ev.type = "key" /\ ev.value = value /\ ev.code = k
  BY DEF Key
<1> HIDE DEF ev
<1>2. Processed(o, ev).pressed = PressedAfter(o.pressed, ev) /\ Processed(o, ev).lastValue = o.lastValue
  BY <1>1, ProcessedState
<1>3. /\ value = 1 => PressedAfter(o.pressed, ev) = o.pressed \union {k}
      /\ value = 0 => PressedAfter(o.pressed, ev) = o.pressed \ {k}
      /\ value = 2 => PressedAfter(o.pressed, ev) = o.pressed
  BY <1>1 DEF PressedAfter
<1> QED BY <1>2, <1>3 DEF ev

LEMMA SynState ==
  ASSUME NEW o, NEW t
  PROVE  SameState(Processed(o, Syn(t)), o)
<1>1. Syn(t).type = "syn"
  BY DEF Syn
<1> QED BY <1>1, OtherState

LEMMA KeyEvent ==
  ASSUME NEW t \in Time, NEW k \in Keys, NEW value \in 0 .. 2
  PROVE  Key(t, k, value) \in Event /\ Key(t, k, value).ts = t
BY Constructors DEF Key

LEMMA PressOrReleaseKeeps ==
  ASSUME IInv, NEW k \in Keys, PressOrRelease(k)
  PROVE  IInv'
<1> DEFINE value == IF k \in keysDown THEN 0 ELSE 1
<1>1. PICK t \in NextTime :
        /\ keysDown' = IF k \in keysDown THEN keysDown \ {k} ELSE keysDown \union {k}
        /\ heard' = heard \union {k}
        /\ \/ Queue(<<Msc(t), Key(t, k, value), Syn(t)>>, t) /\ UNCHANGED <<position, axisHeard>>
           \/ Queue(<<Key(t, k, value), Syn(t)>>, t) /\ UNCHANGED <<position, axisHeard>>
           \/ \E pos \in Positions \ {position} :
                /\ Queue(<<Abs(t, pos), Key(t, k, value), Syn(t)>>, t)
                /\ position' = pos /\ axisHeard' = TRUE
  BY DEF PressOrRelease
<1>2. /\ keysDown \subseteq Keys /\ heard \subseteq Keys /\ position \in Positions /\ t \in Time
      /\ keysDown' \subseteq Keys /\ heard' \subseteq Keys /\ value \in 0 .. 2
      /\ axisHeard \in BOOLEAN
  BY <1>1 DEF IInv, TypeOK, NextTime
<1>3. /\ k \in keysDown => value = 0 /\ keysDown' = keysDown \ {k}
      /\ k \notin keysDown => value = 1 /\ keysDown' = keysDown \union {k}
      /\ heard' = heard \union {k}
  BY <1>1
<1> HIDE DEF value
<1> DEFINE key == Key(t, k, value)
           b == Batch(queue)
<1>4. key \in Event /\ key.ts = t
  BY <1>2, KeyEvent
<1>5. Msc(t) \in Event /\ Msc(t).ts = t
  BY <1>2, Constructors DEF Msc
<1>6. ~lost => b.pressed = keysDown \intersect heard /\ b.lastValue = Reported
  BY DEF IInv, Followed
<1> HIDE DEF key, b
<1>7. ASSUME NEW a, a.pressed = keysDown \intersect heard
       PROVE  Processed(a, key).pressed = keysDown' \intersect heard'
  <2>1. CASE k \in keysDown
    <3>1. Processed(a, key).pressed = a.pressed \ {k}
      BY <1>3, <2>1, KeyState DEF key
    <3> QED BY <1>3, <1>7, <2>1, <3>1
  <2>2. CASE k \notin keysDown
    <3>1. Processed(a, key).pressed = a.pressed \union {k}
      BY <1>3, <2>2, KeyState DEF key
    <3> QED BY <1>3, <1>7, <2>2, <3>1
  <2> QED BY <2>1, <2>2
<1>8. CASE Queue(<<Msc(t), key, Syn(t)>>, t) /\ UNCHANGED <<position, axisHeard>>
  <2> DEFINE o == Processed(Processed(Processed(b, Msc(t)), key), Syn(t))
             packet == <<Msc(t), key, Syn(t)>>
  <2>1. IsPacket(packet, t) /\ Len(packet) = 3
    BY <1>2, <1>4, <1>5, PacketOfThree
  <2>2. o = Outcomes(Batch(queue), packet)[Len(packet)]
    BY <2>1, ThreeEvents DEF b
  <2>3. ~lost => o.pressed = keysDown' \intersect heard' /\ o.lastValue = Reported'
    <3> SUFFICES ASSUME ~lost
                 PROVE  o.pressed = keysDown' \intersect heard' /\ o.lastValue = Reported'
      OBVIOUS
    <3>1. SameState(Processed(b, Msc(t)), b)
      BY OtherState DEF Msc
    <3>2. Processed(b, Msc(t)).pressed = keysDown \intersect heard
      BY <1>6, <3>1 DEF SameState
    <3>3. Processed(Processed(b, Msc(t)), key).pressed = keysDown' \intersect heard'
      BY <1>7, <3>2
    <3>4. Processed(Processed(b, Msc(t)), key).lastValue = b.lastValue
      BY <3>1, KeyState DEF SameState, key
    <3>5. SameState(o, Processed(Processed(b, Msc(t)), key))
      BY SynState
    <3>6. Reported' = Reported
      BY <1>8 DEF Reported
    <3> QED BY <1>6, <3>3, <3>4, <3>5, <3>6 DEF SameState
  <2>4. Queue(packet, t)
    BY <1>8
  <2> HIDE DEF o, packet
  <2> QED BY <1>2, <1>8, <2>1, <2>2, <2>3, <2>4, PacketReported
<1>9. CASE Queue(<<key, Syn(t)>>, t) /\ UNCHANGED <<position, axisHeard>>
  <2> DEFINE o == Processed(Processed(b, key), Syn(t))
             packet == <<key, Syn(t)>>
  <2>1. IsPacket(packet, t) /\ Len(packet) = 2
    BY <1>2, <1>4, PacketOfTwo
  <2>2. o = Outcomes(Batch(queue), packet)[Len(packet)]
    BY <2>1, TwoEvents DEF b
  <2>3. ~lost => o.pressed = keysDown' \intersect heard' /\ o.lastValue = Reported'
    <3> SUFFICES ASSUME ~lost
                 PROVE  o.pressed = keysDown' \intersect heard' /\ o.lastValue = Reported'
      OBVIOUS
    <3>1. Processed(b, key).pressed = keysDown' \intersect heard'
      BY <1>6, <1>7
    <3>2. Processed(b, key).lastValue = b.lastValue
      BY KeyState DEF key
    <3>3. SameState(o, Processed(b, key))
      BY SynState
    <3>4. Reported' = Reported
      BY <1>9 DEF Reported
    <3> QED BY <1>6, <3>1, <3>2, <3>3, <3>4 DEF SameState
  <2>4. Queue(packet, t)
    BY <1>9
  <2> HIDE DEF o, packet
  <2> QED BY <1>2, <1>9, <2>1, <2>2, <2>3, <2>4, PacketReported
<1>10. ASSUME NEW pos \in Positions \ {position},
             Queue(<<Abs(t, pos), key, Syn(t)>>, t), position' = pos, axisHeard' = TRUE
      PROVE  IInv'
  <2> DEFINE o == Processed(Processed(Processed(b, Abs(t, pos)), key), Syn(t))
             packet == <<Abs(t, pos), key, Syn(t)>>
  <2>1. Abs(t, pos) \in Event /\ Abs(t, pos).ts = t
    BY <1>2, Constructors DEF Abs
  <2>2. IsPacket(packet, t) /\ Len(packet) = 3
    BY <1>2, <1>4, <2>1, PacketOfThree
  <2>3. o = Outcomes(Batch(queue), packet)[Len(packet)]
    BY <2>2, ThreeEvents DEF b
  <2>4. ~lost => o.pressed = keysDown' \intersect heard' /\ o.lastValue = Reported'
    <3> SUFFICES ASSUME ~lost
                 PROVE  o.pressed = keysDown' \intersect heard' /\ o.lastValue = Reported'
      OBVIOUS
    <3>1. /\ Processed(b, Abs(t, pos)).pressed = keysDown \intersect heard
          /\ Processed(b, Abs(t, pos)).lastValue = pos
      BY <1>6, AxisState
    <3>2. Processed(Processed(b, Abs(t, pos)), key).pressed = keysDown' \intersect heard'
      BY <1>7, <3>1
    <3>3. Processed(Processed(b, Abs(t, pos)), key).lastValue = pos
      BY <3>1, KeyState DEF key
    <3>4. SameState(o, Processed(Processed(b, Abs(t, pos)), key))
      BY SynState
    <3>5. Reported' = pos
      BY <1>10 DEF Reported
    <3> QED BY <3>2, <3>3, <3>4, <3>5 DEF SameState
  <2>5. Queue(packet, t) /\ position' \in Positions /\ axisHeard' \in BOOLEAN
    BY <1>10
  <2> HIDE DEF o, packet
  <2> QED BY <1>2, <2>2, <2>3, <2>4, <2>5, PacketReported
<1> QED BY <1>1, <1>8, <1>9, <1>10 DEF key

LEMMA RepeatKeeps ==
  ASSUME IInv, NEW k \in Keys, Repeat(k)
  PROVE  IInv'
<1>1. PICK t \in NextTime : Queue(<<Key(t, k, 2), Syn(t)>>, t)
  BY DEF Repeat
<1>2. t \in Time /\ 2 \in 0 .. 2
  BY DEF NextTime
<1> DEFINE b == Batch(queue)
           o == Processed(Processed(b, Key(t, k, 2)), Syn(t))
           packet == <<Key(t, k, 2), Syn(t)>>
<1>3. IsPacket(packet, t) /\ Len(packet) = 2
  BY <1>2, KeyEvent, PacketOfTwo
<1>4. o = Outcomes(Batch(queue), packet)[Len(packet)]
  BY <1>3, TwoEvents
<1>5. SameState(Processed(b, Key(t, k, 2)), b) /\ SameState(o, Processed(b, Key(t, k, 2)))
  BY KeyState, SynState DEF SameState
<1>6. /\ keysDown' = keysDown /\ position' = position /\ heard' = heard
      /\ keysDown \subseteq Keys /\ position \in Positions /\ heard \subseteq Keys
      /\ axisHeard' \in BOOLEAN /\ Reported' = Reported
  BY DEF Repeat, IInv, TypeOK, Reported
<1>7. ~lost => b.pressed = keysDown \intersect heard /\ b.lastValue = Reported
  BY DEF IInv, Followed
<1>8. ~lost => o.pressed = keysDown' \intersect heard' /\ o.lastValue = Reported'
  BY <1>5, <1>6, <1>7 DEF SameState
<1>9. Queue(packet, t)
  BY <1>1
<1> HIDE DEF b, o, packet
<1> QED BY <1>3, <1>4, <1>6, <1>8, <1>9, PacketReported

LEMMA MovePointerKeeps ==
  ASSUME IInv, MovePointer
  PROVE  IInv'
<1>1. PICK t \in NextTime : Queue(<<Rel(t), Syn(t)>>, t)
  BY DEF MovePointer
<1>2. t \in Time /\ Rel(t) \in Event /\ Rel(t).ts = t
  BY Constructors DEF NextTime, Rel
<1> DEFINE b == Batch(queue)
           o == Processed(Processed(b, Rel(t)), Syn(t))
           packet == <<Rel(t), Syn(t)>>
<1>3. IsPacket(packet, t) /\ Len(packet) = 2
  BY <1>2, PacketOfTwo
<1>4. o = Outcomes(Batch(queue), packet)[Len(packet)]
  BY <1>3, TwoEvents
<1>5. SameState(Processed(b, Rel(t)), b) /\ SameState(o, Processed(b, Rel(t)))
  BY OtherState, SynState DEF Rel
<1>6. /\ keysDown' = keysDown /\ position' = position /\ heard' = heard
      /\ keysDown \subseteq Keys /\ position \in Positions /\ heard \subseteq Keys
      /\ axisHeard' \in BOOLEAN /\ Reported' = Reported
  BY DEF MovePointer, IInv, TypeOK, Reported
<1>7. ~lost => b.pressed = keysDown \intersect heard /\ b.lastValue = Reported
  BY DEF IInv, Followed
<1>8. ~lost => o.pressed = keysDown' \intersect heard' /\ o.lastValue = Reported'
  BY <1>5, <1>6, <1>7 DEF SameState
<1>9. Queue(packet, t)
  BY <1>1
<1> HIDE DEF b, o, packet
<1> QED BY <1>3, <1>4, <1>6, <1>8, <1>9, PacketReported

LEMMA MoveAxisKeeps ==
  ASSUME IInv, MoveAxis
  PROVE  IInv'
<1>1. PICK t \in NextTime, pos \in Positions \ {position} :
        Queue(<<Abs(t, pos), Syn(t)>>, t) /\ position' = pos
  BY DEF MoveAxis
<1>2. t \in Time /\ Abs(t, pos) \in Event /\ Abs(t, pos).ts = t
  BY Constructors DEF NextTime, Abs
<1> DEFINE b == Batch(queue)
           o == Processed(Processed(b, Abs(t, pos)), Syn(t))
           packet == <<Abs(t, pos), Syn(t)>>
<1>3. IsPacket(packet, t) /\ Len(packet) = 2
  BY <1>2, PacketOfTwo
<1>4. o = Outcomes(Batch(queue), packet)[Len(packet)]
  BY <1>3, TwoEvents
<1>5. /\ Processed(b, Abs(t, pos)).pressed = b.pressed
      /\ Processed(b, Abs(t, pos)).lastValue = pos
      /\ SameState(o, Processed(b, Abs(t, pos)))
  BY AxisState, SynState
<1>6. /\ keysDown' = keysDown /\ position' = pos /\ heard' = heard
      /\ keysDown \subseteq Keys /\ pos \in Positions /\ heard \subseteq Keys
      /\ axisHeard' \in BOOLEAN /\ Reported' = pos
  BY <1>1 DEF MoveAxis, IInv, TypeOK, Reported
<1>7. ~lost => b.pressed = keysDown \intersect heard
  BY DEF IInv, Followed
<1>8. ~lost => o.pressed = keysDown' \intersect heard' /\ o.lastValue = Reported'
  BY <1>5, <1>6, <1>7 DEF SameState
<1>9. Queue(packet, t)
  BY <1>1
<1> HIDE DEF b, o, packet
<1> QED BY <1>3, <1>4, <1>6, <1>8, <1>9, PacketReported

------------------------------------------------------------------------------
(* A read *)

\* What a read takes and what it leaves.
IsCut(n, read, rest) ==
  /\ n \in 1 .. Len(queue) /\ n <= scratchLen
  /\ n = scratchLen => scratchLen <= Len(queue)
  /\ read \in Seq(Event) /\ Len(read) = n
  /\ rest \in Seq(Event) /\ Len(rest) = Len(queue) - n
  /\ \A i \in 1 .. n : read[i] = queue[i]
  /\ \A i \in 1 .. Len(queue) - n : rest[i] = queue[n + i]

LEMMA ReadCuts ==
  ASSUME TypeOK, queue # <<>>, NEW n, n = (IF Len(queue) < scratchLen THEN Len(queue) ELSE scratchLen)
  PROVE  IsCut(n, SubSeq(queue, 1, n), SubSeq(queue, n + 1, Len(queue)))
<1>1. queue \in Seq(Event) /\ scratchLen \in 1 .. 2 * KernelCap /\ KernelCap \in Nat
  BY BoundsAssumption DEF TypeOK
<1>2. Len(queue) \in Nat \ {0}
  BY <1>1, EmptySeq
<1>3. n \in 1 .. Len(queue) /\ n <= scratchLen /\ (n = scratchLen => scratchLen <= Len(queue))
  BY <1>1, <1>2
<1> DEFINE read == SubSeq(queue, 1, n)
           rest == SubSeq(queue, n + 1, Len(queue))
<1>4. /\ read \in Seq(Event) /\ Len(read) = n
      /\ \A i \in 1 .. n : read[i] = queue[i]
  <2>1. 1 <= n /\ n \in 1 .. Len(queue) /\ n - 1 + 1 = n
    BY <1>2, <1>3
  <2>2. \A i \in 1 .. n : i \in 1 .. Len(queue) /\ 1 + i - 1 = i
    BY <1>2, <1>3
  <2> QED BY <1>1, <1>2, <2>1, <2>2, SubSeqProperties
<1>5. /\ rest \in Seq(Event) /\ Len(rest) = Len(queue) - n
      /\ \A i \in 1 .. Len(queue) - n : rest[i] = queue[n + i]
  <2> DEFINE m == n + 1
             l == Len(queue)
  <2>1. m \in Int /\ l \in Int /\ \A i \in m .. l : queue[i] \in Event
    <3>1. \A i \in m .. l : i \in 1 .. Len(queue)
      BY <1>2, <1>3
    <3> QED BY <1>1, <1>2, <1>3, <3>1, ElementOfSeq
  <2>2. /\ SubSeq(queue, m, l) \in Seq(Event)
        /\ Len(SubSeq(queue, m, l)) = IF m <= l THEN l - m + 1 ELSE 0
        /\ \A i \in 1 .. l - m + 1 : SubSeq(queue, m, l)[i] = queue[m + i - 1]
    <3> HIDE DEF m, l
    <3> QED BY <2>1, SubSeqProperties
  <2>3. Len(rest) = Len(queue) - n
    BY <1>2, <1>3, <2>2
  <2>4. ASSUME NEW i \in 1 .. Len(queue) - n PROVE rest[i] = queue[n + i]
    <3>1. i \in 1 .. l - m + 1 /\ m + i - 1 = n + i
      BY <1>2, <1>3
    <3> QED BY <2>2, <3>1
  <2> QED BY <2>2, <2>3, <2>4
<1> QED BY <1>3, <1>4, <1>5 DEF IsCut

\* The keys and the axis: the rest of the queue will make of what the read has
\* left what the whole queue would have made before.
LEMMA CutFollowed ==
  ASSUME TypeOK, NEW n, NEW read, NEW rest, IsCut(n, read, rest),
         queue' = rest,
         pressed' = Outcomes(BatchStart, read)[n].pressed,
         lastValue' = Outcomes(BatchStart, read)[n].lastValue
  PROVE  SameState(Batch(queue)', Batch(queue))
<1>1. queue \in Seq(Event) /\ Len(queue) \in Nat
  BY LenProperties DEF TypeOK
<1>2. /\ n \in 1 .. Len(queue) /\ Len(read) = n /\ Len(rest) = Len(queue) - n
      /\ \A i \in 1 .. n : read[i] = queue[i]
      /\ \A i \in 1 .. Len(queue) - n : rest[i] = queue[n + i]
  BY DEF IsCut
<1>3. n \in Nat /\ Len(read) \in Nat /\ Len(rest) \in Nat /\ n + Len(rest) = Len(queue)
  BY <1>1, <1>2
<1> DEFINE f == Outcomes(BatchStart, queue)
           g == Outcomes(BatchStart, read)
           next == BatchStart'
<1>4. SameState(f[n], g[n])
  <2>1. f[0] = BatchStart
    BY <1>1, OutcomesRecursion
  <2>2. SameState(f[0], BatchStart) /\ 0 \in Nat /\ 0 + Len(read) <= Len(queue)
    BY <1>1, <1>2, <2>1 DEF SameState
  <2>3. \A i \in 1 .. Len(read) : read[i] = queue[0 + i]
    BY <1>2, <1>3
  <2>4. \A i \in 0 .. Len(read) : SameState(f[0 + i], g[i])
    BY <1>1, <1>3, <2>2, <2>3, SameEventsSameState
  <2>5. n \in 0 .. Len(read) /\ 0 + n = n
    BY <1>2, <1>3
  <2> HIDE DEF f, g
  <2> QED BY <2>4, <2>5
<1>5. next.pressed = pressed' /\ next.lastValue = lastValue'
  BY DEF BatchStart
<1>6. SameState(f[n], next)
  <2>1. SameState(g[n], next)
    <3> HIDE DEF next
    <3> QED BY <1>5 DEF SameState
  <2> QED BY <1>4, <2>1 DEF SameState
<1>7. Batch(queue)' = Outcomes(next, rest)[Len(rest)]
  BY BatchNext
<1> HIDE DEF next
<1>8. \A i \in 0 .. Len(rest) : SameState(f[n + i], Outcomes(next, rest)[i])
  <2>1. n + Len(rest) <= Len(queue) /\ \A i \in 1 .. Len(rest) : rest[i] = queue[n + i]
    BY <1>1, <1>2, <1>3
  <2> QED BY <1>1, <1>3, <1>6, <2>1, SameEventsSameState
<1>9. Len(rest) \in 0 .. Len(rest)
  BY <1>3
<1>10. SameState(f[Len(queue)], Outcomes(next, rest)[Len(rest)])
  <2> HIDE DEF f
  <2> QED BY <1>3, <1>8, <1>9
<1> QED BY <1>7, <1>10 DEF SameState, Batch

\* The timestamps of the read that the EWM takes.
LEMMA CutCounted ==
  ASSUME IInv, NEW n, NEW read, NEW rest, IsCut(n, read, rest),
         NEW o, o \in Outcome, Stamped(read, n, o),
         NEW fresh, fresh = Fresh(o.timestamps, LastEvent),
         queue' = rest, resolution' = resolution \o fresh,
         now' = now, lost' = lost, masked' = masked, moved' = moved
  PROVE  resolution' \in Seq(Time) /\ Ordered' /\ Counted'
<1>1. /\ queue \in Seq(Event) /\ Len(queue) \in Nat /\ resolution \in Seq(Time)
      /\ now \in Nat /\ moved \subseteq Time
  BY BoundsAssumption, LenProperties DEF IInv, TypeOK
<1>2. /\ n \in 1 .. Len(queue) /\ Len(read) = n /\ Len(rest) = Len(queue) - n
      /\ \A i \in 1 .. n : read[i] = queue[i]
      /\ \A i \in 1 .. Len(queue) - n : rest[i] = queue[n + i]
  BY DEF IsCut
<1>3. \A i \in 1 .. n : i \in 1 .. Len(queue)
  BY <1>1, <1>2
<1>4. \A i \in 1 .. Len(rest) : n + i \in 1 .. Len(queue) /\ rest[i] = queue[n + i]
  BY <1>1, <1>2
<1>5. /\ \A i, j \in 1 .. Len(queue) : i <= j => queue[i].ts <= queue[j].ts
      /\ \A i \in 1 .. Len(queue) : queue[i].ts <= now
      /\ Ascending(resolution)
      /\ \A r \in ToSet(resolution) : r <= now
      /\ \A r \in ToSet(resolution), i \in 1 .. Len(queue) : r <= queue[i].ts
  BY DEF IInv, Ordered
<1>6. /\ o.timestamps \in Seq(Time) /\ Ascending(o.timestamps)
      /\ \A x \in ToSet(o.timestamps) : \E j \in 1 .. n : x = read[j].ts /\ Keeps(read[j])
      /\ \A j \in 1 .. n :
           Keeps(read[j]) /\ OpensTime(read, j) => read[j].ts \in ToSet(o.timestamps)
  BY DEF Stamped, Outcome
<1>7. /\ LastEvent \in Nat
      /\ \A r \in ToSet(resolution) : r <= LastEvent
      /\ LastEvent = 0 \/ LastEvent \in ToSet(resolution)
  BY <1>1, <1>5, LastEventFacts
<1>8. /\ fresh \in Seq(Time) /\ Ascending(fresh)
      /\ \A x \in Time : x \in ToSet(fresh) <=> x \in ToSet(o.timestamps) /\ x > LastEvent
  BY <1>6, <1>7, FreshFacts
<1>9. ToSet(fresh) \subseteq Time /\ ToSet(resolution) \subseteq Time
  BY <1>1, <1>8, ToSetFacts
<1>10. resolution' \in Seq(Time) /\ ToSet(resolution)' = ToSet(resolution) \union ToSet(fresh)
  <2>1. resolution \o fresh \in Seq(Time)
    BY <1>1, <1>8, ConcatProperties
  <2>2. ToSet(resolution \o fresh) = ToSet(resolution) \union ToSet(fresh)
    BY <1>1, <1>8, ToSetConcat
  <2>3. ToSet(resolution)' = ToSet(resolution')
    BY DEF ToSet
  <2> QED BY <2>1, <2>2, <2>3
<1>11. \A x \in ToSet(fresh) :
         \E j \in 1 .. n : j \in 1 .. Len(queue) /\ x = queue[j].ts /\ Keeps(queue[j])
  <2> TAKE x \in ToSet(fresh)
  <2>1. x \in ToSet(o.timestamps)
    BY <1>8, <1>9
  <2>2. PICK j \in 1 .. n : x = read[j].ts /\ Keeps(read[j])
    BY <1>6, <2>1
  <2> QED BY <1>2, <1>3, <2>2
<1>12. Ascending(resolution)'
  <2>1. ASSUME NEW x \in ToSet(resolution), NEW y \in ToSet(fresh) PROVE x < y
    <3>1. x \in Nat /\ y \in Nat
      BY <1>9, TimesAreNumbers
    <3>2. x <= LastEvent /\ LastEvent < y
      BY <1>7, <1>8, <1>9, <3>1
    <3> QED BY <1>7, <3>1, <3>2
  <2>2. Ascending(resolution \o fresh)
    BY <1>1, <1>5, <1>8, <2>1, AscendingConcat
  <2>3. Ascending(resolution)' = Ascending(resolution')
    BY DEF Ascending
  <2> QED BY <2>2, <2>3
<1>13. Ordered'
  <2>1. \A i, j \in 1 .. Len(rest) : i <= j => rest[i].ts <= rest[j].ts
    <3> SUFFICES ASSUME NEW i \in 1 .. Len(rest), NEW j \in 1 .. Len(rest), i <= j
                 PROVE  rest[i].ts <= rest[j].ts
      OBVIOUS
    <3>1. n + i <= n + j
      BY <1>2
    <3> QED BY <1>4, <1>5, <3>1
  <2>2. \A i \in 1 .. Len(rest) : rest[i].ts <= now
    BY <1>4, <1>5
  <2>3. \A r \in ToSet(resolution) :
          r <= now /\ \A i \in 1 .. Len(rest) : r <= rest[i].ts
    BY <1>4, <1>5
  <2>4. ASSUME NEW r \in ToSet(fresh)
        PROVE  r <= now /\ \A i \in 1 .. Len(rest) : r <= rest[i].ts
    <3>1. PICK j \in 1 .. n : j \in 1 .. Len(queue) /\ r = queue[j].ts
      BY <1>11
    <3>2. \A i \in 1 .. Len(rest) : j <= n + i
      BY <1>1, <1>2
    <3> QED BY <1>4, <1>5, <3>1, <3>2
  <2> QED BY <1>10, <1>12, <2>1, <2>2, <2>3, <2>4 DEF Ordered
<1>14. Counted'
  <2>1. ToSet(resolution) \union ToSet(fresh) \subseteq moved
    <3>1. ToSet(resolution) \subseteq moved
      BY DEF IInv, Counted
    <3>2. \A i \in 1 .. Len(queue) : Keeps(queue[i]) => queue[i].ts \in moved
      BY DEF IInv, Counted
    <3> QED BY <1>11, <3>1, <3>2
  <2>2. \A i \in 1 .. Len(rest) : Keeps(rest[i]) => rest[i].ts \in moved
    BY <1>4 DEF IInv, Counted
  <2>3. ASSUME ~lost, NEW x \in moved \ masked
        PROVE  \/ x \in ToSet(resolution) \union ToSet(fresh)
               \/ \E i \in 1 .. Len(rest) : rest[i].ts = x /\ Keeps(rest[i]) /\ OpensTime(rest, i)
    <3>1. CASE x \in ToSet(resolution)
      BY <3>1
    <3>2. ASSUME NEW i \in 1 .. Len(queue),
                 queue[i].ts = x, Keeps(queue[i]), OpensTime(queue, i), i <= n
          PROVE  x \in ToSet(resolution) \union ToSet(fresh)
      <4>1. i \in 1 .. n /\ read[i] = queue[i]
        BY <1>2, <3>2
      <4>2. OpensTime(read, i)
        <5>1. \A j \in 1 .. i - 1 : j \in 1 .. n
          BY <1>2, <4>1
        <5> QED BY <1>2, <3>2, <4>1, <5>1 DEF OpensTime
      <4>3. x \in ToSet(o.timestamps)
        BY <1>6, <3>2, <4>1, <4>2
      <4>4. x \in Time /\ x \in Nat /\ x # 0
        BY <1>1, TimesAreNumbers
      <4>5. CASE x > LastEvent
        BY <1>8, <4>3, <4>4, <4>5
      <4>6. CASE ~(x > LastEvent)
        <5>1. LastEvent # 0
          BY <1>7, <4>4, <4>6
        <5>2. LastEvent \in ToSet(resolution)
          BY <1>7, <5>1
        <5>3. LastEvent <= x
          BY <1>5, <3>2, <5>2
        <5>4. x = LastEvent
          BY <1>7, <4>4, <4>6, <5>3
        <5> QED BY <5>2, <5>4
      <4> QED BY <4>5, <4>6
    <3>3. ASSUME NEW i \in 1 .. Len(queue),
                 queue[i].ts = x, Keeps(queue[i]), OpensTime(queue, i), ~(i <= n)
          PROVE  \E j \in 1 .. Len(rest) : rest[j].ts = x /\ Keeps(rest[j]) /\ OpensTime(rest, j)
      <4>1. i - n \in 1 .. Len(rest) /\ n + (i - n) = i
        BY <1>1, <1>2, <3>3
      <4>2. rest[i - n] = queue[i]
        BY <1>4, <4>1
      <4>3. OpensTime(rest, i - n)
        <5>1. \A j \in 1 .. (i - n) - 1 : j \in 1 .. Len(rest) /\ n + j \in 1 .. i - 1
          BY <1>1, <1>2, <4>1
        <5> QED BY <1>4, <3>3, <4>2, <5>1 DEF OpensTime
      <4> QED BY <3>3, <4>1, <4>2, <4>3
    <3>4. \/ x \in ToSet(resolution)
          \/ \E i \in 1 .. Len(queue) :
               queue[i].ts = x /\ Keeps(queue[i]) /\ OpensTime(queue, i)
      BY <2>3 DEF IInv, Counted
    <3> QED BY <3>1, <3>2, <3>3, <3>4
  <2> QED BY <1>10, <2>1, <2>2, <2>3 DEF Counted
<1> QED BY <1>10, <1>13, <1>14

LEMMA ReadKeeps ==
  ASSUME IInv, Read
  PROVE  IInv'
<1> DEFINE n == IF Len(queue) < scratchLen THEN Len(queue) ELSE scratchLen
           read == SubSeq(queue, 1, n)
           rest == SubSeq(queue, n + 1, Len(queue))
           o == Outcomes(BatchStart, read)[n]
           fresh == Fresh(o.timestamps, LastEvent)
<1>1. queue # <<>> /\ TypeOK
  BY DEF Read, IInv
<1>2. IsCut(n, read, rest)
  <2>1. n = IF Len(queue) < scratchLen THEN Len(queue) ELSE scratchLen
    OBVIOUS
  <2> HIDE DEF n
  <2> QED BY <1>1, <2>1, ReadCuts
<1>3. Len(read) = n
  BY <1>2 DEF IsCut
<1>4. Batch(read) = o
  BY <1>3 DEF Batch
<1>5. /\ queue' = rest
      /\ scratchLen' = Grown(scratchLen, n)
      /\ pressed' = o.pressed
      /\ lastValue' = o.lastValue
      /\ overflowed' = o.overflowed
      /\ active' = ActiveIndefinitely(o.pressed, o.lastValue)
      /\ resolution' = resolution \o fresh
      /\ UNCHANGED kernel
  BY <1>4 DEF Read
<1> HIDE DEF n, read, rest, fresh
<1>6. /\ read \in Seq(Event) /\ rest \in Seq(Event) /\ n \in Nat
      /\ n <= scratchLen /\ n <= Len(queue) /\ Len(rest) <= Len(queue)
      /\ Len(queue) \in Nat /\ Len(queue) <= KernelCap
  BY <1>1, <1>2, LenProperties DEF IsCut, TypeOK
<1>7. Sorted(read)
  <2>1. \A i \in 1 .. Len(read) : i \in 1 .. Len(queue) /\ read[i] = queue[i]
    BY <1>2, <1>6 DEF IsCut
  <2> QED BY <2>1 DEF IInv, Ordered, Sorted
<1>8. BatchStart \in Outcome /\ BatchStart.prevTs = -1 /\ BatchStart.timestamps = <<>>
  BY <1>1, BatchStartType
<1>9. o \in Outcome
  <2>1. n \in 0 .. Len(read)
    BY <1>3, <1>6
  <2> QED BY <1>6, <1>8, <2>1, OutcomesType
<1>10. Stamped(read, n, o)
  BY <1>3, <1>6, <1>7, <1>8, BatchIsStamped
<1>11. SameState(Batch(queue)', Batch(queue))
  BY <1>1, <1>2, <1>5, CutFollowed
<1> HIDE DEF o
<1>12. /\ now' = now /\ keysDown' = keysDown /\ position' = position /\ isPointer' = isPointer
       /\ lost' = lost /\ heard' = heard /\ axisHeard' = axisHeard
       /\ masked' = masked /\ moved' = moved
  BY <1>5 DEF kernel
<1>13. fresh = Fresh(o.timestamps, LastEvent)
  BY DEF fresh, o
<1>14. resolution' \in Seq(Time) /\ Ordered' /\ Counted'
  BY <1>2, <1>5, <1>9, <1>10, <1>12, <1>13, CutCounted
<1>15. scratchLen' \in 1 .. 2 * KernelCap
  <2>1. scratchLen \in 1 .. 2 * KernelCap /\ KernelCap \in Nat
    BY <1>1, BoundsAssumption DEF TypeOK
  <2>2. CASE n = scratchLen
    BY <1>5, <1>6, <2>1, <2>2 DEF Grown
  <2>3. CASE n # scratchLen
    BY <1>5, <2>1, <2>3 DEF Grown
  <2> QED BY <2>2, <2>3
<1>16. TypeOK'
  <2>1. queue' \in Seq(Event) /\ Len(queue') <= KernelCap
    <3>1. Len(rest) \in Nat /\ KernelCap \in Nat
      BY <1>6, LenProperties, BoundsAssumption
    <3> QED BY <1>5, <1>6, <3>1
  <2>2. pressed' \subseteq Keys /\ lastValue' \in {-1} \union Positions /\ overflowed' \in BOOLEAN
    BY <1>5, <1>9 DEF Outcome
  <2>3. active' \in BOOLEAN
    BY <1>5 DEF ActiveIndefinitely
  <2> QED BY <1>1, <1>12, <1>14, <1>15, <2>1, <2>2, <2>3 DEF TypeOK
<1>17. Followed'
  <2>1. active' = ActiveIndefinitely(pressed, lastValue)'
    BY <1>5, <1>12 DEF ActiveIndefinitely
  <2>2. Reported' = Reported
    BY <1>12 DEF Reported
  <2> QED BY <1>11, <1>12, <2>1, <2>2 DEF IInv, Followed, SameState
<1>18. NowMarked'
  BY <1>12 DEF IInv, NowMarked
<1> QED BY <1>14, <1>16, <1>17, <1>18 DEF IInv

------------------------------------------------------------------------------
(* The invariant *)

LEMMA IInvInit == Init => IInv
<1> SUFFICES ASSUME Init PROVE IInv
  OBVIOUS
<1> USE DEF Init
<1>1. TypeOK
  <2>1. KernelCap \in Nat /\ InitialLen \in 1 .. KernelCap /\ MaxTime \in Nat
    BY BoundsAssumption
  <2>2. scratchLen \in 1 .. 2 * KernelCap /\ now \in 0 .. MaxTime /\ 0 <= KernelCap
    BY <2>1
  <2>3. queue \in Seq(Event) /\ Len(queue) = 0 /\ resolution \in Seq(Time)
    OBVIOUS
  <2>4. lastValue \in {-1} \union Positions
    OBVIOUS
  <2> QED BY <2>2, <2>3, <2>4 DEF TypeOK
<1>2. /\ Len(queue) = 0 /\ queue = <<>> /\ resolution = <<>> /\ Len(resolution) = 0
      /\ ToSet(resolution) = {} /\ moved = {}
  BY DEF ToSet
<1>3. Ordered
  BY <1>2 DEF Ordered, Ascending
<1>4. Batch(queue) = BatchStart
  <2>1. Len(queue) \in Nat
    BY <1>2
  <2>2. Outcomes(BatchStart, queue)[0] = BatchStart
    BY <2>1, OutcomesRecursion
  <2> QED BY <1>2, <2>2 DEF Batch
<1>5. Followed
  <2>1. active = FALSE /\ pressed = {} /\ lastValue = -1 /\ heard = {} /\ Reported = -1
    BY DEF Reported
  <2>2. ~ActiveIndefinitely(pressed, lastValue)
    BY <2>1 DEF ActiveIndefinitely, Deadzone
  <2>3. BatchStart.pressed = {} /\ BatchStart.lastValue = -1
    BY <2>1 DEF BatchStart
  <2> QED BY <1>4, <2>1, <2>2, <2>3 DEF Followed
<1>6. Counted
  BY <1>2 DEF Counted
<1>7. NowMarked
  BY DEF NowMarked
<1> QED BY <1>1, <1>3, <1>5, <1>6, <1>7 DEF IInv

LEMMA StutterKeeps ==
  ASSUME IInv, UNCHANGED vars
  PROVE  IInv'
<1>1. TypeOK' /\ Ordered' /\ Counted' /\ NowMarked'
  BY DEF IInv, TypeOK, Ordered, Counted, NowMarked, Ascending, ToSet, vars, kernel, watcher
<1>2. BatchStart' = BatchStart
  BY SameStart DEF vars, watcher
<1>3. Batch(queue)' = Batch(queue)
  BY <1>2, BatchNext DEF vars, Batch
<1>4. Followed'
  BY <1>3 DEF IInv, Followed, Reported, ActiveIndefinitely, vars, kernel, watcher
<1> QED BY <1>1, <1>4 DEF IInv

LEMMA IInvStep == IInv /\ [Next]_vars => IInv'
<1> SUFFICES ASSUME IInv, [Next]_vars PROVE IInv'
  OBVIOUS
<1>1. ASSUME NEW k \in Keys, PressOrRelease(k) PROVE IInv'
  BY <1>1, PressOrReleaseKeeps
<1>2. ASSUME NEW k \in Keys, Repeat(k) PROVE IInv'
  BY <1>2, RepeatKeeps
<1>3. CASE MoveAxis
  BY <1>3, MoveAxisKeeps
<1>4. CASE MovePointer
  BY <1>4, MovePointerKeeps
<1>5. CASE Read
  BY <1>5, ReadKeeps
<1>6. CASE UNCHANGED vars
  BY <1>6, StutterKeeps
<1> QED BY <1>1, <1>2, <1>3, <1>4, <1>5, <1>6 DEF Next

LEMMA Invariance == Spec => []IInv
<1>1. Init => IInv
  BY IInvInit
<1>2. IInv /\ [Next]_vars => IInv'
  BY IInvStep
<1> QED BY <1>1, <1>2, PTL DEF Spec

------------------------------------------------------------------------------
(* Theorems *)

\* The buffer of a watcher doubles whenever a read fills it, but never beyond
\* twice the kernel's queue, and what is queued, tracked and counted is made of
\* the device's events and keys.
THEOREM TypeCorrect == Spec => []TypeOK
<1>1. IInv => TypeOK
  BY DEF IInv
<1> QED BY <1>1, Invariance, PTL

\* The timestamps a watcher hands to the EWM grow strictly, however packets are
\* split between reads and whatever the kernel drops: what the EWM asserts of
\* every batch (ewm.rs:23-30) holds of all that comes from input_parsing.rs.
THEOREM StrictlyIncreasingAlways == Spec => []StrictlyIncreasing
<1>1. IInv => StrictlyIncreasing
  <2> SUFFICES ASSUME IInv PROVE StrictlyIncreasing
    OBVIOUS
  <2>1. Ascending(resolution) /\ Len(resolution) \in Nat
    BY LenProperties DEF IInv, Ordered, TypeOK
  <2> QED BY <2>1 DEF StrictlyIncreasing, Ascending
<1> QED BY <1>1, Invariance, PTL

\* Unless the kernel has dropped events, a watcher that has read everything
\* knows the keys that are down, of those it has heard of, and the position of
\* an axis that has moved since the open, and calls the device active just when
\* one of these keys is down or the axis of a pad is beyond its deadzone.
THEOREM StateMatchesAlways == Spec => []StateMatches
<1>1. IInv => StateMatches
  <2> SUFFICES ASSUME IInv, Drained
               PROVE  /\ pressed = keysDown \intersect heard
                      /\ lastValue = Reported
                      /\ active <=> \/ keysDown \intersect heard # {}
                                    \/ ~isPointer /\ axisHeard /\ position > Deadzone
    BY DEF StateMatches
  <2>1. queue = <<>> /\ ~lost /\ Len(queue) = 0 /\ Len(queue) \in Nat
    BY DEF Drained
  <2>2. Batch(queue) = BatchStart
    BY <2>1, OutcomesRecursion DEF Batch
  <2>3. BatchStart.pressed = pressed /\ BatchStart.lastValue = lastValue
    BY DEF BatchStart
  <2>4. pressed = keysDown \intersect heard /\ lastValue = Reported
    BY <2>1, <2>2, <2>3 DEF IInv, Followed
  <2>5. active <=> pressed # {} \/ (~isPointer /\ lastValue > Deadzone)
    BY DEF IInv, Followed, ActiveIndefinitely
  <2>6. lastValue > Deadzone <=> axisHeard /\ position > Deadzone
    BY <2>4 DEF IInv, TypeOK, Positions, Deadzone, Reported
  <2> QED BY <2>4, <2>5, <2>6
<1> QED BY <1>1, Invariance, PTL

\* Unless the kernel has dropped events, every time of an activity is in the EWM
\* once everything is read, if the first event of that time was an activity;
\* and no time is there, read or not, dropped or not, without an activity.
THEOREM CountsActivityAlways == Spec => []CountsActivity
<1>1. IInv => CountsActivity
  <2> SUFFICES ASSUME IInv, Drained
               PROVE  moved \ masked \subseteq ToSet(resolution) /\ ToSet(resolution) \subseteq moved
    BY DEF CountsActivity
  <2>1. ~lost /\ Len(queue) = 0
    BY DEF Drained
  <2> QED BY <2>1 DEF IInv, Counted
<1> QED BY <1>1, Invariance, PTL

==============================================================================
