--------------------------- MODULE LatePollProofs ---------------------------
(****************************************************************************)
(* A loop that computes has been preceded by every watcher it interrupted,   *)
(* and a watcher's period stays below what has lost events, for any number   *)
(* of devices and loops and any size of the channel, queues and periods.     *)
(****************************************************************************)
EXTENDS LatePoll, FiniteSetTheorems, SequenceTheorems, TLAPS

\* d is queued, and ahead of l if that is queued too.
Ahead(q, d, l) ==
  \E i \in DOMAIN q : q[i] = d /\ \A j \in DOMAIN q : q[j] = l => i < j

------------------------------------------------------------------------------
(* Queues *)

\* Every order of a finite set is a sequence of its elements, each once.
LEMMA Enumerates ==
  ASSUME NEW S, IsFiniteSet(S), NEW s \in SetToSeqs(S)
  PROVE  s \in Seq(S) /\ IsInjective(s) /\ ToSet(s) = S
<1> DEFINE D == 1 .. Cardinality(S)
<1>1. Cardinality(S) \in Nat
  BY FS_CardinalityType
<1>2. s \in [D -> S] /\ \A i, j \in D : i # j => s[i] # s[j]
  BY DEF SetToSeqs
<1>3. s \in Seq(S)
  BY <1>1, <1>2
<1>4. IsInjective(s)
  BY <1>2 DEF IsInjective
<1>5. s \in Injection(D, S)
  BY <1>2, <1>4, Zenon DEF Injection, IsInjective
<1>6. Cardinality(D) = Cardinality(S)
  <2>1. Cardinality(1 .. Cardinality(S)) = IF 1 > Cardinality(S) THEN 0 ELSE Cardinality(S) - 1 + 1
    BY <1>1, FS_Interval
  <2> QED BY <1>1, <2>1
<1>7. s \in Surjection(D, S)
  BY <1>5, <1>6, FS_Injection
<1>8. ToSet(s) = S
  BY <1>2, <1>7 DEF Surjection, ToSet
<1> QED BY <1>3, <1>4, <1>8

LEMMA Reversed ==
  ASSUME NEW S, NEW q \in Seq(S), IsInjective(q)
  PROVE  /\ Reverse(q) \in Seq(S) /\ IsInjective(Reverse(q))
         /\ ToSet(Reverse(q)) = ToSet(q)
<1> DEFINE r == Reverse(q)
           n == Len(q)
<1>1. /\ n \in Nat /\ DOMAIN q = 1 .. n /\ \A i \in 1 .. n : q[i] \in S
  BY LenProperties, ElementOfSeq
<1>2. r = [i \in 1 .. n |-> q[(n - i) + 1]]
  BY DEF Reverse
<1> HIDE DEF r, n
<1>3. \A i \in 1 .. n : (n - i) + 1 \in 1 .. n /\ (n - ((n - i) + 1)) + 1 = i
  BY <1>1
<1>4. r \in [1 .. n -> S] /\ DOMAIN r = 1 .. n
  BY <1>1, <1>2, <1>3
<1>5. r \in Seq(S)
  BY <1>1, <1>4, SeqDef
<1>6. IsInjective(r)
  <2> SUFFICES ASSUME NEW i \in 1 .. n, NEW j \in 1 .. n, r[i] = r[j] PROVE i = j
    BY <1>4 DEF IsInjective
  <2>1. q[(n - i) + 1] = q[(n - j) + 1]
    BY <1>2
  <2>2. (n - i) + 1 = (n - j) + 1
    BY <1>1, <1>3, <2>1 DEF IsInjective
  <2> QED BY <1>1, <2>2
<1>7. ToSet(r) = ToSet(q)
  <2>1. ASSUME NEW i \in 1 .. n PROVE r[i] \in ToSet(q) /\ q[i] \in ToSet(r)
    <3>1. r[i] = q[(n - i) + 1] /\ r[(n - i) + 1] = q[i]
      BY <1>2, <1>3
    <3> QED BY <1>1, <1>3, <1>4, <3>1 DEF ToSet
  <2> QED BY <1>1, <1>4, <2>1 DEF ToSet
<1> QED BY <1>5, <1>6, <1>7 DEF r

LEMMA Joined ==
  ASSUME NEW S, NEW q \in Seq(S), NEW r \in Seq(S), IsInjective(q), IsInjective(r),
         ToSet(q) \cap ToSet(r) = {}
  PROVE  /\ q \o r \in Seq(S) /\ IsInjective(q \o r)
         /\ ToSet(q \o r) = ToSet(q) \union ToSet(r)
<1> DEFINE c == q \o r
           m == Len(q)
           n == Len(r)
<1>1. /\ m \in Nat /\ n \in Nat /\ DOMAIN q = 1 .. m /\ DOMAIN r = 1 .. n
      /\ c \in Seq(S) /\ Len(c) = m + n /\ DOMAIN c = 1 .. m + n
      /\ \A i \in 1 .. m + n : c[i] = IF i <= m THEN q[i] ELSE r[i - m]
  BY LenProperties, ConcatProperties
<1> HIDE DEF c, m, n
<1>2. \A i \in 1 .. m, j \in 1 .. n : q[i] # r[j]
  BY <1>1 DEF ToSet
<1>3. IsInjective(c)
  <2> SUFFICES ASSUME NEW a \in 1 .. m + n, NEW b \in 1 .. m + n, c[a] = c[b]
               PROVE  a = b
    BY <1>1 DEF IsInjective
  <2>1. CASE a <= m /\ b <= m
    BY <1>1, <2>1 DEF IsInjective
  <2>2. CASE a > m /\ b > m
    <3>1. a - m \in 1 .. n /\ b - m \in 1 .. n
      BY <1>1, <2>2
    <3>2. r[a - m] = r[b - m]
      BY <1>1, <2>2
    <3>3. a - m = b - m
      BY <1>1, <3>1, <3>2 DEF IsInjective
    <3> QED BY <1>1, <3>3
  <2>3. CASE a <= m /\ b > m
    BY <1>1, <1>2, <2>3
  <2>4. CASE a > m /\ b <= m
    BY <1>1, <1>2, <2>4
  <2> QED BY <1>1, <2>1, <2>2, <2>3, <2>4
<1>4. ToSet(c) = ToSet(q) \union ToSet(r)
  <2>1. \A i \in 1 .. m : i \in 1 .. m + n /\ c[i] = q[i]
    BY <1>1
  <2>2. \A j \in 1 .. n : m + j \in 1 .. m + n /\ c[m + j] = r[j]
    <3> SUFFICES ASSUME NEW j \in 1 .. n
                 PROVE  m + j \in 1 .. m + n /\ c[m + j] = r[j]
      OBVIOUS
    <3>1. m + j \in 1 .. m + n /\ ~(m + j <= m) /\ (m + j) - m = j
      BY <1>1
    <3> QED BY <1>1, <3>1
  <2>3. \A i \in 1 .. m + n : i \in 1 .. m \/ (i - m \in 1 .. n /\ c[i] = r[i - m])
    BY <1>1
  <2>4. ToSet(c) \subseteq ToSet(q) \union ToSet(r)
    BY <1>1, <2>1, <2>3 DEF ToSet
  <2>5. ToSet(q) \subseteq ToSet(c)
    BY <1>1, <2>1 DEF ToSet
  <2>6. ToSet(r) \subseteq ToSet(c)
    <3> SUFFICES ASSUME NEW j \in 1 .. n
                 PROVE  r[j] \in ToSet(c)
      BY <1>1 DEF ToSet
    <3>1. m + j \in DOMAIN c /\ c[m + j] = r[j]
      BY <1>1, <2>2
    <3> QED BY <3>1 DEF ToSet
  <2> QED BY <2>4, <2>5, <2>6
<1> QED BY <1>1, <1>3, <1>4 DEF c

LEMMA Popped ==
  ASSUME NEW S, NEW q \in Seq(S), IsInjective(q), q # <<>>
  PROVE  /\ Tail(q) \in Seq(S) /\ IsInjective(Tail(q))
         /\ ToSet(Tail(q)) = ToSet(q) \ {Head(q)}
         /\ Head(q) \in ToSet(q)
<1> DEFINE t == Tail(q)
           n == Len(q)
<1>1. /\ n \in Nat \ {0} /\ DOMAIN q = 1 .. n
      /\ t \in Seq(S) /\ DOMAIN t = 1 .. n - 1
      /\ \A i \in 1 .. n - 1 : t[i] = q[i + 1]
      /\ Head(q) = q[1]
  BY LenProperties, HeadTailProperties, EmptySeq
<1> HIDE DEF t, n
<1>2. \A i \in 1 .. n - 1 : i + 1 \in 1 .. n /\ i + 1 # 1
  BY <1>1
<1>3. IsInjective(t)
  <2> SUFFICES ASSUME NEW a \in 1 .. n - 1, NEW b \in 1 .. n - 1, t[a] = t[b]
               PROVE  a = b
    BY <1>1 DEF IsInjective
  <2>1. a + 1 = b + 1
    BY <1>1, <1>2 DEF IsInjective
  <2> QED BY <1>1, <2>1
<1>4. ToSet(t) = ToSet(q) \ {Head(q)}
  <2>1. \A i \in 1 .. n : i = 1 \/ (i - 1 \in 1 .. n - 1 /\ t[i - 1] = q[i])
    BY <1>1
  <2>2. \A i \in 1 .. n - 1 : q[i + 1] # q[1]
    BY <1>1, <1>2 DEF IsInjective
  <2>3. ToSet(t) \subseteq ToSet(q) \ {Head(q)}
    <3> SUFFICES ASSUME NEW i \in 1 .. n - 1
                 PROVE  t[i] \in ToSet(q) /\ t[i] # Head(q)
      BY <1>1 DEF ToSet
    <3>1. i + 1 \in DOMAIN q /\ q[i + 1] = t[i]
      BY <1>1, <1>2
    <3> QED BY <1>1, <2>2, <3>1 DEF ToSet
  <2>4. ToSet(q) \ {Head(q)} \subseteq ToSet(t)
    <3> SUFFICES ASSUME NEW i \in 1 .. n, q[i] # Head(q)
                 PROVE  q[i] \in ToSet(t)
      BY <1>1 DEF ToSet
    <3>1. i - 1 \in DOMAIN t /\ t[i - 1] = q[i]
      BY <1>1, <2>1
    <3> QED BY <3>1 DEF ToSet
  <2> QED BY <2>3, <2>4
<1>5. Head(q) \in ToSet(q)
  BY <1>1 DEF ToSet
<1> QED BY <1>1, <1>3, <1>4, <1>5 DEF t

LEMMA AheadJoined ==
  ASSUME NEW S, NEW q \in Seq(S), NEW r \in Seq(S), NEW d, NEW l, Ahead(q, d, l)
  PROVE  Ahead(q \o r, d, l)
<1>1. /\ Len(q) \in Nat /\ Len(r) \in Nat /\ DOMAIN q = 1 .. Len(q)
      /\ DOMAIN (q \o r) = 1 .. Len(q) + Len(r)
      /\ \A i \in 1 .. Len(q) + Len(r) : (q \o r)[i] = IF i <= Len(q) THEN q[i] ELSE r[i - Len(q)]
  BY LenProperties, ConcatProperties
<1>2. PICK i \in 1 .. Len(q) : q[i] = d /\ \A j \in 1 .. Len(q) : q[j] = l => i < j
  BY <1>1 DEF Ahead
<1>3. i \in 1 .. Len(q) + Len(r) /\ (q \o r)[i] = d
  BY <1>1, <1>2
<1>4. \A j \in 1 .. Len(q) + Len(r) : (q \o r)[j] = l => i < j
  <2> SUFFICES ASSUME NEW j \in 1 .. Len(q) + Len(r), (q \o r)[j] = l
               PROVE  i < j
    OBVIOUS
  <2>1. CASE j <= Len(q)
    <3>1. j \in 1 .. Len(q) /\ q[j] = l
      BY <1>1, <2>1
    <3> QED BY <1>2, <3>1
  <2>2. CASE j > Len(q)
    BY <1>1, <2>2
  <2> QED BY <1>1, <2>1, <2>2
<1> QED BY <1>1, <1>3, <1>4 DEF Ahead

LEMMA AheadPopped ==
  ASSUME NEW S, NEW q \in Seq(S), q # <<>>, NEW d, NEW l, Ahead(q, d, l), Head(q) # d
  PROVE  Ahead(Tail(q), d, l)
<1>1. /\ Len(q) \in Nat \ {0} /\ DOMAIN q = 1 .. Len(q)
      /\ DOMAIN Tail(q) = 1 .. Len(q) - 1
      /\ \A i \in 1 .. Len(q) - 1 : Tail(q)[i] = q[i + 1]
      /\ Head(q) = q[1]
  BY LenProperties, HeadTailProperties, EmptySeq
<1>2. PICK i \in 1 .. Len(q) : q[i] = d /\ \A j \in 1 .. Len(q) : q[j] = l => i < j
  BY <1>1 DEF Ahead
<1>3. i - 1 \in 1 .. Len(q) - 1 /\ Tail(q)[i - 1] = d
  BY <1>1, <1>2
<1>4. \A j \in 1 .. Len(q) - 1 : Tail(q)[j] = l => i - 1 < j
  <2> SUFFICES ASSUME NEW j \in 1 .. Len(q) - 1, Tail(q)[j] = l
               PROVE  i - 1 < j
    OBVIOUS
  <2>1. j + 1 \in 1 .. Len(q) /\ q[j + 1] = l
    BY <1>1
  <2>2. i < j + 1
    BY <1>2, <2>1
  <2> QED BY <1>1, <2>2
<1> QED BY <1>1, <1>3, <1>4 DEF Ahead

LEMMA AheadOfAbsent ==
  ASSUME NEW q, NEW d \in ToSet(q), NEW l, l \notin ToSet(q)
  PROVE  Ahead(q, d, l)
BY DEF Ahead, ToSet

LEMMA Appended ==
  ASSUME NEW S, NEW q \in Seq(S), IsInjective(q), NEW e \in S, e \notin ToSet(q)
  PROVE  /\ Append(q, e) \in Seq(S) /\ IsInjective(Append(q, e))
         /\ ToSet(Append(q, e)) = ToSet(q) \union {e}
         /\ \A d, l : Ahead(q, d, l) => Ahead(Append(q, e), d, l)
<1>1. <<e>> \in Seq(S) /\ IsInjective(<<e>>) /\ ToSet(<<e>>) = {e}
  BY DEF IsInjective, ToSet
<1>2. Append(q, e) = q \o <<e>>
  BY AppendIsConcat
<1> DEFINE r == <<e>>
<1>3. r \in Seq(S) /\ IsInjective(r) /\ ToSet(r) = {e} /\ Append(q, e) = q \o r
  BY <1>1, <1>2
<1> HIDE DEF r
<1>4. /\ q \o r \in Seq(S) /\ IsInjective(q \o r)
      /\ ToSet(q \o r) = ToSet(q) \union ToSet(r)
  <2>1. ToSet(q) \cap ToSet(r) = {}
    BY <1>3
  <2> QED BY <1>3, <2>1, Joined
<1>5. \A d, l : Ahead(q, d, l) => Ahead(q \o r, d, l)
  BY <1>3, AheadJoined
<1> QED BY <1>3, <1>4, <1>5

\* Waking adds the woken to the queue, behind what is there.
LEMMA WokenAppends ==
  ASSUME NEW q \in Seq(Tasks), IsInjective(q), NEW S \in SUBSET Tasks, NEW r \in Woken(q, S)
  PROVE  /\ r \in Seq(Tasks) /\ IsInjective(r)
         /\ ToSet(r) = ToSet(q) \union S
         /\ \A d, l : Ahead(q, d, l) => Ahead(r, d, l)
<1>1. PICK s \in SetToSeqs(S \ ToSet(q)) : r = q \o s
  BY DEF Woken
<1>2. IsFiniteSet(S \ ToSet(q))
  BY TasksAssumption, FS_Union, FS_Subset DEF Tasks
<1>3. s \in Seq(S \ ToSet(q)) /\ IsInjective(s) /\ ToSet(s) = S \ ToSet(q)
  BY <1>2, Enumerates
<1>4. s \in Seq(Tasks)
  <2>1. S \ ToSet(q) \subseteq Tasks
    OBVIOUS
  <2> QED BY <1>3, <2>1, SeqMonotonic, Zenon
<1>5. r \in Seq(Tasks) /\ IsInjective(r) /\ ToSet(r) = ToSet(q) \union ToSet(s)
  BY <1>1, <1>3, <1>4, Joined
<1>6. \A d, l : Ahead(q, d, l) => Ahead(r, d, l)
  BY <1>1, <1>4, AheadJoined
<1> QED BY <1>3, <1>5, <1>6

------------------------------------------------------------------------------
(* The invariant *)

StateOK ==
  /\ node \in [Devices -> NodeState]
  /\ io \in [Devices -> Reactor]
  /\ watcher \in [Devices -> WatcherState]
  /\ loop \in [Loops -> LoopState]
  /\ owed \in [Loops -> SUBSET Devices]
  /\ lostAt \in [Devices -> 1 .. Never]

\* A loop that is off is not queued, and only a loop that yielded is deferred.
WaitInv ==
  \A l \in Loops :
    /\ loop[l].at = "off" => l \notin ToSet(runq)
    /\ l \in ToSet(deferred) => loop[l].at = "yielded"

\* The ceiling is below what has lost events, and the period within it.
PeriodInv ==
  \A d \in Devices : watcher[d].at # "panicked" =>
    1 <= watcher[d].period /\ watcher[d].period <= watcher[d].ceiling
    /\ watcher[d].ceiling < lostAt[d]

\* Who owes a loop a read is reading, or queued ahead of it.
AheadInv ==
  \A l \in Loops : \A d \in owed[l] :
    /\ loop[l].at = "yielded"
    /\ \/ watcher[d].at = "reading"
       \/ watcher[d].at = "debouncing" /\ Ahead(runq, d, l)

IInv == TypeOK /\ WaitInv /\ PeriodInv /\ AheadInv

LEMMA TypeParts == TypeOK <=> QueuesOK /\ StateOK
BY DEF TypeOK, StateOK

LEMMA InitInv == Init => IInv
<1> SUFFICES ASSUME Init PROVE IInv
  OBVIOUS
<1>1. QueuesOK
  BY DEF Init, QueuesOK, IsInjective, ToSet
<1>2. StateOK
  <2>1. 0 \in 0 .. QueueCap /\ 0 \in 0 .. Capacity + 1 /\ Never \in 1 .. Never
        /\ StartPeriod \in Period /\ LongestPeriod \in Period
    BY SizeAssumption, PeriodAssumption DEF Never, Period
  <2>2. node \in [Devices -> NodeState] /\ io \in [Devices -> Reactor]
    BY <2>1 DEF Init, NodeState, Reactor
  <2>3. watcher \in [Devices -> WatcherState]
    BY <2>1 DEF Init, WatcherState
  <2> QED BY <2>1, <2>2, <2>3 DEF Init, StateOK, LoopState
<1>3. WaitInv
  BY DEF Init, WaitInv, ToSet
<1>4. PeriodInv
  BY PeriodAssumption DEF Init, PeriodInv, Never
<1>5. AheadInv
  BY DEF Init, AheadInv
<1> QED BY <1>1, <1>2, <1>3, <1>4, <1>5, TypeParts DEF IInv

------------------------------------------------------------------------------
(* The types *)

LEMMA PanicFree == 
  ASSUME IInv, NEW d \in Devices, watcher[d].at # "panicked"
  PROVE  /\ watcher[d].period \in 1 .. LongestPeriod
         /\ watcher[d].ceiling \in watcher[d].period .. LongestPeriod
         /\ lostAt[d] \in watcher[d].ceiling + 1 .. Never
<1>1. watcher[d] \in WatcherState /\ lostAt[d] \in 1 .. Never
  BY DEF IInv, TypeOK
<1>2. watcher[d].period \in 0 .. LongestPeriod /\ watcher[d].ceiling \in 0 .. LongestPeriod
  BY <1>1 DEF WatcherState, Period
<1>3. 1 <= watcher[d].period /\ watcher[d].period <= watcher[d].ceiling
      /\ watcher[d].ceiling < lostAt[d]
  BY DEF IInv, PeriodInv
<1> QED BY <1>1, <1>2, <1>3, PeriodAssumption DEF Never

\* What the feedback does to a period that is not zero.
LEMMA Feedback ==
  ASSUME NEW p \in Nat \ {0}, NEW c \in Nat, p <= c
  PROVE  /\ Lesser(2 * p, c) \in p .. c
         /\ (p * 4) \div 5 \in 0 .. p - 1
         /\ Lesser(c, (p * 4) \div 5) = (p * 4) \div 5
BY DEF Lesser

------------------------------------------------------------------------------
(* The queues *)

LEMMA QueueStep ==
  ASSUME IInv, [Next]_vars
  PROVE  QueuesOK' /\ WaitInv'
<1>1. QueuesOK /\ StateOK /\ WaitInv
  BY TypeParts DEF IInv
<1>2. /\ runq \in Seq(Tasks) /\ IsInjective(runq)
      /\ deferred \in Seq(Loops) /\ IsInjective(deferred)
      /\ ToSet(runq) \cap ToSet(deferred) = {}
  BY <1>1 DEF QueuesOK
<1>3. ToSet(deferred) \subseteq Loops /\ ToSet(runq) \subseteq Tasks
  BY <1>2, LenProperties, ElementOfSeq DEF ToSet
<1>4. /\ \A l \in Loops : loop[l].at = "off" => l \notin ToSet(runq)
      /\ \A l \in Loops : l \in ToSet(deferred) => loop[l].at = "yielded"
  BY <1>1 DEF WaitInv
<1>5. ASSUME UNCHANGED <<runq, deferred, loop>>
      PROVE  QueuesOK' /\ WaitInv'
  BY <1>1, <1>5 DEF QueuesOK, WaitInv
<1>6. ASSUME runq # <<>>
      PROVE  /\ Tail(runq) \in Seq(Tasks) /\ IsInjective(Tail(runq))
             /\ ToSet(Tail(runq)) = ToSet(runq) \ {Head(runq)}
             /\ Head(runq) \in ToSet(runq)
  BY <1>2, <1>6, Popped
<1>7. ASSUME NEW d \in Devices, BecomesReady(d) \/ EndsWait(d)
      PROVE  QueuesOK' /\ WaitInv'
  <2>1. runq # <<>> /\ runq' = Tail(runq) /\ deferred' = deferred /\ loop' = loop
    BY <1>7 DEF BecomesReady, EndsWait, Runs
  <2> QED BY <1>1, <1>2, <1>6, <2>1 DEF QueuesOK, WaitInv
<1>8. ASSUME NEW l \in Loops, Computes(l)
      PROVE  QueuesOK' /\ WaitInv'
  <2>1. /\ runq # <<>> /\ Head(runq) = l /\ runq' = Tail(runq) /\ deferred' = deferred
        /\ \E at \in {"ticker", "off"} : loop' = [loop EXCEPT ![l].at = at]
    BY <1>8 DEF Computes, Runs
  <2>2. l \notin ToSet(runq') /\ l \notin ToSet(deferred')
    BY <1>2, <1>6, <2>1
  <2>3. \A k \in Loops : k # l => loop'[k] = loop[k]
    BY <1>1, <2>1 DEF StateOK
  <2>4. QueuesOK'
    BY <1>2, <1>6, <2>1 DEF QueuesOK
  <2>5. \A k \in Loops : loop'[k].at = "off" => k \notin ToSet(runq')
    BY <1>4, <1>6, <2>1, <2>2, <2>3
  <2>6. \A k \in Loops : k \in ToSet(deferred') => loop'[k].at = "yielded"
    BY <1>4, <2>1, <2>2, <2>3
  <2> QED BY <2>4, <2>5, <2>6 DEF WaitInv
<1>9. ASSUME NEW l \in Loops, Interrupts(l)
      PROVE  QueuesOK' /\ WaitInv'
  <2>1. /\ runq # <<>> /\ Head(runq) = l
        /\ runq' \in Woken(Tail(runq), Listening)
        /\ deferred' = Append(deferred, l)
        /\ loop' = [loop EXCEPT ![l] = [at |-> "yielded", fired |-> FALSE]]
    BY <1>9 DEF Interrupts, Runs
  <2>2. Listening \in SUBSET Tasks /\ l \notin Listening
    BY TasksAssumption DEF Listening, Tasks
  <2>3. /\ runq' \in Seq(Tasks) /\ IsInjective(runq')
        /\ ToSet(runq') = (ToSet(runq) \ {l}) \union Listening
    BY <1>6, <2>1, <2>2, WokenAppends
  <2>4. l \notin ToSet(deferred)
    BY <1>2, <1>6, <2>1
  <2>5. /\ deferred' \in Seq(Loops) /\ IsInjective(deferred')
        /\ ToSet(deferred') = ToSet(deferred) \union {l}
    BY <1>2, <2>1, <2>4, Appended
  <2>6. QueuesOK'
    BY <1>2, <1>3, <2>2, <2>3, <2>5, TasksAssumption DEF QueuesOK, Listening
  <2>7. loop'[l].at = "yielded" /\ \A k \in Loops : k # l => loop'[k] = loop[k]
    BY <1>1, <2>1 DEF StateOK
  <2>8. \A k \in Loops : k \notin Listening
    BY TasksAssumption DEF Listening
  <2> QED BY <1>4, <2>3, <2>5, <2>6, <2>7, <2>8 DEF WaitInv
<1>10. ASSUME NEW l \in Loops, Join(l)
       PROVE  QueuesOK' /\ WaitInv'
  <2>1. /\ loop[l].at = "off" /\ runq' = Append(runq, l) /\ deferred' = deferred
        /\ loop' = [loop EXCEPT ![l] = [at |-> "ticker", fired |-> TRUE]]
    BY <1>10 DEF Join
  <2>2. l \in Tasks /\ l \notin ToSet(runq) /\ l \notin ToSet(deferred)
    BY <1>4, <2>1 DEF Tasks
  <2>3. /\ runq' \in Seq(Tasks) /\ IsInjective(runq')
        /\ ToSet(runq') = ToSet(runq) \union {l}
    BY <1>2, <2>1, <2>2, Appended
  <2>4. QueuesOK'
    BY <1>2, <2>1, <2>2, <2>3 DEF QueuesOK
  <2>5. loop'[l].at = "ticker" /\ \A k \in Loops : k # l => loop'[k] = loop[k]
    BY <1>1, <2>1 DEF StateOK
  <2> QED BY <1>4, <2>1, <2>2, <2>3, <2>4, <2>5 DEF WaitInv
<1>11. ASSUME NEW expired \in SUBSET Timed, Park(expired)
       PROVE  QueuesOK' /\ WaitInv'
  <2> DEFINE W == {d \in Readable : watcher[d].at = "readiness"}
  <2>1. W \in SUBSET Tasks /\ expired \in SUBSET Tasks
    BY DEF Readable, Timed, Tasks
  <2>2. PICK q \in Woken(runq, W) : \E r \in Woken(q, expired) : runq' = r \o Reverse(deferred)
    BY <1>11 DEF Park
  <2>3. PICK r \in Woken(q, expired) : runq' = r \o Reverse(deferred)
    BY <2>2
  <2>4. q \in Seq(Tasks) /\ IsInjective(q) /\ ToSet(q) = ToSet(runq) \union W
    BY <1>2, <2>1, WokenAppends
  <2>5. r \in Seq(Tasks) /\ IsInjective(r) /\ ToSet(r) = ToSet(q) \union expired
    BY <2>1, <2>4, WokenAppends
  <2>6. \A l \in Loops : /\ l \notin W
                         /\ l \in expired => loop[l].at = "ticker"
    BY TasksAssumption DEF Readable, Timed
  <2>7. ToSet(r) \cap ToSet(deferred) = {}
    <3> SUFFICES ASSUME NEW l \in ToSet(deferred)
                 PROVE  l \notin ToSet(r)
      OBVIOUS
    <3>1. l \in Loops /\ loop[l].at = "yielded" /\ l \notin ToSet(runq)
      BY <1>2, <1>3, <1>4
    <3> QED BY <2>4, <2>5, <2>6, <3>1
  <2>8. /\ Reverse(deferred) \in Seq(Tasks) /\ IsInjective(Reverse(deferred))
        /\ ToSet(Reverse(deferred)) = ToSet(deferred)
    BY <1>2, Reversed, SeqMonotonic DEF Tasks
  <2>9. /\ runq' \in Seq(Tasks) /\ IsInjective(runq')
        /\ ToSet(runq') = ToSet(r) \union ToSet(deferred)
    BY <1>2, <2>3, <2>5, <2>7, <2>8, Joined
  <2>10. deferred' = <<>>
    BY <1>11 DEF Park
  <2>11. ToSet(deferred') = {} /\ deferred' \in Seq(Loops) /\ IsInjective(deferred')
    BY <2>10 DEF ToSet, IsInjective
  <2>12. \A l \in Loops : loop'[l].at = loop[l].at
    BY <1>1, <1>11 DEF Park, StateOK, LoopState
  <2>13. \A l \in Loops : loop[l].at = "off" => l \notin ToSet(runq')
    BY <1>4, <2>4, <2>5, <2>6, <2>9
  <2> QED BY <2>9, <2>11, <2>12, <2>13 DEF QueuesOK, WaitInv
<1>12. CASE UNCHANGED vars
  BY <1>5, <1>12 DEF vars
<1>13. ASSUME NEW d \in Devices,
              Arrive(d) \/ Unplug(d) \/ Read(d) \/ Drained(d) \/ ReadFails(d)
       PROVE  QueuesOK' /\ WaitInv'
  BY <1>5, <1>13 DEF Arrive, Unplug, Read, Drained, ReadFails
<1> QED BY <1>7, <1>8, <1>9, <1>10, <1>11, <1>12, <1>13 DEF Next, WatcherStep, LoopStep

------------------------------------------------------------------------------
(* The state *)

LEMMA WatcherFields ==
  ASSUME NEW w \in WatcherState
  PROVE  /\ w.period \in Period /\ w.ceiling \in Period
         /\ w.rx \in 0 .. Capacity + 1
         /\ Debouncing(w) \in WatcherState
         /\ [w EXCEPT !.fired = TRUE] \in WatcherState
         /\ [w EXCEPT !.rx = Lesser(@ + 1, Capacity + 1)] \in WatcherState
         /\ \A b \in BOOLEAN : [w EXCEPT !.at = "reading", !.rx = 0, !.fired = FALSE,
                                         !.interrupted = b] \in WatcherState
         /\ [w EXCEPT !.at = "readiness", !.interrupted = FALSE] \in WatcherState
         /\ [w EXCEPT !.at = "ended"] \in WatcherState
<1>1. w.period \in Period /\ w.ceiling \in Period /\ w.rx \in 0 .. Capacity + 1
  BY DEF WatcherState
<1>2. 0 \in 0 .. Capacity + 1 /\ Lesser(w.rx + 1, Capacity + 1) \in 0 .. Capacity + 1
  BY <1>1, SizeAssumption DEF Lesser
<1>3. [w EXCEPT !.rx = Lesser(@ + 1, Capacity + 1)] \in WatcherState
  BY <1>2 DEF WatcherState
<1>4. Debouncing(w) \in WatcherState /\ [w EXCEPT !.fired = TRUE] \in WatcherState
  BY DEF WatcherState, Debouncing
<1>5. \A b \in BOOLEAN : [w EXCEPT !.at = "reading", !.rx = 0, !.fired = FALSE,
                                  !.interrupted = b] \in WatcherState
  BY <1>2 DEF WatcherState
<1>6. [w EXCEPT !.at = "readiness", !.interrupted = FALSE] \in WatcherState
      /\ [w EXCEPT !.at = "ended"] \in WatcherState
  BY DEF WatcherState
<1> QED BY <1>1, <1>3, <1>4, <1>5, <1>6

\* A watcher that reads keeps a period that is positive and within its ceiling,
\* or panics with a period of zero.
LEMMA FeedbackKeeps ==
  ASSUME IInv, NEW d \in Devices, watcher[d].at = "reading"
  PROVE  LET w == watcher[d]
         IN  /\ w.period \in 1 .. Never
             /\ Expanded(w) \in WatcherState /\ Shrunk(w) \in WatcherState
             /\ Expanded(w).at = "reading" /\ Shrunk(w).at \in {"reading", "panicked"}
             /\ Expanded(w).ceiling = w.ceiling /\ Expanded(w).period \in 1 .. w.ceiling
             /\ Shrunk(w).ceiling = Shrunk(w).period
             /\ Shrunk(w).period \in 0 .. w.period - 1
             /\ Shrunk(w).at = "reading" => Shrunk(w).period # 0
<1> DEFINE w == watcher[d]
           target == (w.period * 4) \div 5
<1>1. w \in WatcherState
  BY DEF IInv, TypeOK
<1>2. w.period \in 1 .. LongestPeriod /\ w.ceiling \in w.period .. LongestPeriod
      /\ LongestPeriod \in Nat
  BY PanicFree, PeriodAssumption
<1>3. /\ Lesser(2 * w.period, w.ceiling) \in w.period .. w.ceiling
      /\ target \in 0 .. w.period - 1
      /\ Lesser(w.ceiling, target) = target
  <2>1. w.period \in Nat \ {0} /\ w.ceiling \in Nat /\ w.period <= w.ceiling
    BY <1>2
  <2> QED BY <2>1, Feedback
<1>4. Lesser(2 * w.period, w.ceiling) \in Period /\ target \in Period
  BY <1>2, <1>3 DEF Period
<1> HIDE DEF target
<1>5. Expanded(w) \in WatcherState
  BY <1>1, <1>4 DEF WatcherState, Expanded
<1>6. Shrunk(w) = [w EXCEPT !.period = target, !.ceiling = Lesser(@, target),
                            !.at = IF target = 0 THEN "panicked" ELSE @]
  BY DEF Shrunk, target
<1>7. Shrunk(w) \in WatcherState
  BY <1>1, <1>3, <1>4, <1>6 DEF WatcherState
<1>8. /\ Expanded(w).at = "reading"
      /\ Expanded(w).ceiling = w.ceiling /\ Expanded(w).period = Lesser(2 * w.period, w.ceiling)
  BY <1>1 DEF WatcherState, Expanded
<1>9. /\ Shrunk(w).at = IF target = 0 THEN "panicked" ELSE "reading"
      /\ Shrunk(w).ceiling = target /\ Shrunk(w).period = target
  BY <1>1, <1>3, <1>6 DEF WatcherState
<1>10. w.period \in 1 .. Never /\ Expanded(w).period \in 1 .. w.ceiling
  BY <1>2, <1>3, <1>8 DEF Never
<1> QED BY <1>3, <1>5, <1>7, <1>8, <1>9, <1>10

LEMMA StateStep ==
  ASSUME IInv, [Next]_vars
  PROVE  StateOK'
<1>1. StateOK
  BY TypeParts DEF IInv
<1>2. /\ node \in [Devices -> NodeState] /\ io \in [Devices -> Reactor]
      /\ watcher \in [Devices -> WatcherState] /\ loop \in [Loops -> LoopState]
      /\ owed \in [Loops -> SUBSET Devices] /\ lostAt \in [Devices -> 1 .. Never]
  BY <1>1 DEF StateOK
<1>3. \A S : \A d \in Devices : \A f \in [Devices -> S] : \A v \in S :
        [f EXCEPT ![d] = v] \in [Devices -> S]
  OBVIOUS
<1>4. ASSUME NEW d \in Devices
      PROVE  \A n \in 0 .. QueueCap :
               /\ [node[d] EXCEPT !.queued = n, !.edge = TRUE] \in NodeState
               /\ [node[d] EXCEPT !.queued = n, !.edge = TRUE, !.lost = TRUE] \in NodeState
               /\ [node[d] EXCEPT !.queued = n, !.lost = FALSE] \in NodeState
  BY <1>2 DEF NodeState
<1>5. ASSUME NEW d \in Devices
      PROVE  /\ [node[d] EXCEPT !.present = FALSE, !.edge = TRUE] \in NodeState
             /\ [node[d] EXCEPT !.edge = FALSE] \in NodeState
             /\ node[d].queued \in 0 .. QueueCap
  BY <1>2 DEF NodeState
<1>6. ASSUME NEW d \in Devices
      PROVE  [io[d] EXCEPT !.stale = FALSE] \in Reactor /\ [io[d] EXCEPT !.ready = FALSE] \in Reactor
  BY <1>2 DEF Reactor
<1>7. ASSUME NEW d \in Devices, Arrive(d)
      PROVE  StateOK'
  <2>1. \/ /\ node[d].queued < QueueCap
           /\ node' = [node EXCEPT ![d] =
                [node[d] EXCEPT !.queued = node[d].queued + 1, !.edge = TRUE]]
        \/ node' = [node EXCEPT ![d] =
                [node[d] EXCEPT !.queued = 2, !.edge = TRUE, !.lost = TRUE]]
    BY <1>2, <1>7 DEF Arrive
  <2>2. node[d].queued \in 0 .. QueueCap /\ QueueCap \in Nat \ {0, 1}
    BY <1>5, SizeAssumption
  <2> DEFINE k == node[d].queued
  <2> HIDE DEF k
  <2>3. 2 \in 0 .. QueueCap /\ (k < QueueCap => k + 1 \in 0 .. QueueCap)
    BY <2>2 DEF k
  <2>4. node' \in [Devices -> NodeState]
    <3>1. [node[d] EXCEPT !.queued = 2, !.edge = TRUE, !.lost = TRUE] \in NodeState
      BY <1>4, <2>3
    <3>2. k < QueueCap => [node[d] EXCEPT !.queued = k + 1, !.edge = TRUE] \in NodeState
      BY <1>4, <2>3
    <3> QED BY <1>2, <2>1, <3>1, <3>2 DEF k
  <2> QED BY <1>1, <1>7, <2>4 DEF Arrive, StateOK, history
<1>8. ASSUME NEW d \in Devices, Unplug(d)
      PROVE  StateOK'
  <2>1. node' = [node EXCEPT ![d] = [node[d] EXCEPT !.present = FALSE, !.edge = TRUE]]
    BY <1>2, <1>8 DEF Unplug
  <2>2. node' \in [Devices -> NodeState]
    BY <1>2, <1>5, <2>1
  <2> QED BY <1>1, <1>8, <2>2 DEF Unplug, StateOK, history
<1>9. ASSUME NEW d \in Devices, BecomesReady(d)
      PROVE  StateOK'
  <2>1. /\ io' = [io EXCEPT ![d] = [io[d] EXCEPT !.stale = FALSE]]
        /\ watcher' = [watcher EXCEPT ![d] = Debouncing(watcher[d])]
    BY <1>2, <1>9 DEF BecomesReady
  <2>2. io' \in [Devices -> Reactor] /\ watcher' \in [Devices -> WatcherState]
    BY <1>2, <1>6, <2>1, WatcherFields
  <2> QED BY <1>1, <1>9, <2>2 DEF BecomesReady, StateOK, history
<1>10. ASSUME NEW d \in Devices, EndsWait(d)
       PROVE  StateOK'
  <2> DEFINE b == ~watcher[d].fired /\ watcher[d].rx <= Capacity
  <2>1. watcher' = [watcher EXCEPT ![d] =
          [watcher[d] EXCEPT !.at = "reading", !.rx = 0, !.fired = FALSE, !.interrupted = b]]
    BY <1>2, <1>10 DEF EndsWait
  <2>2. b \in BOOLEAN
    OBVIOUS
  <2> HIDE DEF b
  <2>3. watcher' \in [Devices -> WatcherState]
    BY <1>2, <2>1, <2>2, WatcherFields
  <2> QED BY <1>1, <1>10, <2>3 DEF EndsWait, StateOK, history
<1>11. ASSUME NEW d \in Devices, Read(d)
       PROVE  StateOK'
  <2> DEFINE n == node[d].queued - Lesser(node[d].queued, BufLen)
  <2>1. n \in 0 .. QueueCap
    <3>1. \A k \in 0 .. QueueCap : k - Lesser(k, BufLen) \in 0 .. QueueCap
      BY SizeAssumption DEF Lesser
    <3>2. node[d].queued \in 0 .. QueueCap
      BY <1>5
    <3> QED BY <3>1, <3>2
  <2>2. node' = [node EXCEPT ![d] = [node[d] EXCEPT !.queued = n, !.lost = FALSE]]
    BY <1>2, <1>11 DEF Read
  <2> HIDE DEF n
  <2>3. node' \in [Devices -> NodeState]
    BY <1>2, <1>4, <2>1, <2>2
  <2>4. watcher[d].at = "reading"
    BY <1>11 DEF Read
  <2>5. /\ watcher[d].period \in 1 .. Never
        /\ Expanded(watcher[d]) \in WatcherState /\ Shrunk(watcher[d]) \in WatcherState
    BY <2>4, FeedbackKeeps
  <2>6. /\ watcher' \in {watcher, [watcher EXCEPT ![d] = Expanded(watcher[d])],
                         [watcher EXCEPT ![d] = Shrunk(watcher[d])]}
        /\ lostAt' \in {lostAt, [lostAt EXCEPT ![d] = Lesser(lostAt[d], watcher[d].period)]}
        /\ owed' \in {owed, [l \in Loops |-> owed[l] \ {d}]}
    BY <1>11 DEF Read, history
  <2>7. watcher' \in [Devices -> WatcherState]
    BY <1>2, <2>5, <2>6
  <2>8. Lesser(lostAt[d], watcher[d].period) \in 1 .. Never
    BY <1>2, <2>5 DEF Lesser
  <2>9. lostAt' \in [Devices -> 1 .. Never]
    BY <1>2, <2>6, <2>8
  <2>10. owed' \in [Loops -> SUBSET Devices]
    BY <1>2, <2>6
  <2> QED BY <1>1, <1>11, <2>3, <2>7, <2>9, <2>10 DEF Read, StateOK
<1>12. ASSUME NEW d \in Devices, Drained(d)
       PROVE  StateOK'
  <2>1. /\ io' \in {[io EXCEPT ![d] = [io[d] EXCEPT !.stale = FALSE]],
                    [io EXCEPT ![d] = [io[d] EXCEPT !.ready = FALSE]]}
        /\ watcher' \in {[watcher EXCEPT ![d] = Debouncing(watcher[d])],
                         [watcher EXCEPT ![d] = [watcher[d] EXCEPT !.at = "readiness",
                                                                  !.interrupted = FALSE]]}
    BY <1>2, <1>12 DEF Drained
  <2>2. io' \in [Devices -> Reactor]
    BY <1>2, <1>6, <2>1
  <2>3. watcher' \in [Devices -> WatcherState]
    <3>1. /\ Debouncing(watcher[d]) \in WatcherState
          /\ [watcher[d] EXCEPT !.at = "readiness", !.interrupted = FALSE] \in WatcherState
      BY <1>2, WatcherFields
    <3> QED BY <1>2, <2>1, <3>1
  <2>4. owed' \in [Loops -> SUBSET Devices]
    BY <1>2, <1>12 DEF Drained
  <2> QED BY <1>1, <1>12, <2>2, <2>3, <2>4 DEF Drained, StateOK
<1>13. ASSUME NEW d \in Devices, ReadFails(d)
       PROVE  StateOK'
  <2>1. watcher' = [watcher EXCEPT ![d] = [watcher[d] EXCEPT !.at = "ended"]]
    BY <1>2, <1>13 DEF ReadFails
  <2>2. watcher' \in [Devices -> WatcherState]
    BY <1>2, <2>1, WatcherFields
  <2>3. owed' \in [Loops -> SUBSET Devices]
    BY <1>2, <1>13 DEF ReadFails
  <2> QED BY <1>1, <1>13, <2>2, <2>3 DEF ReadFails, StateOK
<1>14. ASSUME NEW l \in Loops, Join(l) \/ Computes(l)
       PROVE  StateOK'
  <2>1. loop' \in [Loops -> LoopState]
    <3>1. \A at \in {"ticker", "off"} : [loop[l] EXCEPT !.at = at] \in LoopState
      BY <1>2 DEF LoopState
    <3>2. [at |-> "ticker", fired |-> TRUE] \in LoopState
      BY DEF LoopState
    <3>3. CASE Join(l)
      BY <1>2, <3>2, <3>3 DEF Join
    <3>4. CASE Computes(l)
      <4>1. PICK at \in {"ticker", "off"} : loop' = [loop EXCEPT ![l] = [loop[l] EXCEPT !.at = at]]
        BY <1>2, <3>4 DEF Computes
      <4> QED BY <1>2, <3>1, <4>1
    <3> QED BY <1>14, <3>3, <3>4
  <2>2. owed' \in [Loops -> SUBSET Devices]
    BY <1>2, <1>14 DEF Join, Computes, history
  <2> QED BY <1>1, <1>14, <2>1, <2>2 DEF Join, Computes, StateOK, history
<1>15. ASSUME NEW l \in Loops, Interrupts(l)
       PROVE  StateOK'
  <2>1. loop' \in [Loops -> LoopState]
    BY <1>2, <1>15 DEF Interrupts, LoopState
  <2>2. watcher' \in [Devices -> WatcherState]
    BY <1>2, <1>15, WatcherFields DEF Interrupts
  <2>3. owed' \in [Loops -> SUBSET Devices]
    BY <1>2, <1>15 DEF Interrupts, Listening
  <2> QED BY <1>1, <1>15, <2>1, <2>2, <2>3 DEF Interrupts, StateOK
<1>16. ASSUME NEW expired \in SUBSET Timed, Park(expired)
       PROVE  StateOK'
  <2>1. node' \in [Devices -> NodeState]
    BY <1>2, <1>5, <1>16 DEF Park
  <2>2. io' \in [Devices -> Reactor]
    BY <1>2, <1>16 DEF Park, Reactor
  <2>3. watcher' \in [Devices -> WatcherState]
    BY <1>2, <1>16, WatcherFields DEF Park
  <2>4. loop' \in [Loops -> LoopState]
    BY <1>2, <1>16 DEF Park, LoopState
  <2> QED BY <1>1, <1>16, <2>1, <2>2, <2>3, <2>4 DEF Park, StateOK, history
<1>17. CASE UNCHANGED vars
  BY <1>1, <1>17 DEF StateOK, vars
<1> QED BY <1>7, <1>8, <1>9, <1>10, <1>11, <1>12, <1>13, <1>14, <1>15, <1>16, <1>17
        DEF Next, WatcherStep, LoopStep

------------------------------------------------------------------------------
(* The feedback *)

LEMMA PeriodStep ==
  ASSUME IInv, [Next]_vars
  PROVE  PeriodInv'
<1>1. PeriodInv
  BY DEF IInv
<1>2. /\ watcher \in [Devices -> WatcherState] /\ lostAt \in [Devices -> 1 .. Never]
      /\ owed \in [Loops -> SUBSET Devices]
  BY DEF IInv, TypeOK
<1>3. ASSUME lostAt' = lostAt,
             \A d \in Devices : /\ watcher'[d].period = watcher[d].period
                                /\ watcher'[d].ceiling = watcher[d].ceiling
                                /\ watcher[d].at = "panicked" => watcher'[d].at = "panicked"
      PROVE  PeriodInv'
  BY <1>1, <1>3 DEF PeriodInv
<1>4. ASSUME NEW d \in Devices, BecomesReady(d) \/ EndsWait(d) \/ Drained(d) \/ ReadFails(d)
      PROVE  PeriodInv'
  <2>1. watcher[d].at # "panicked" /\ lostAt' = lostAt
    BY <1>4 DEF BecomesReady, EndsWait, Drained, ReadFails, history
  <2>2. \A e \in Devices : e # d => watcher'[e] = watcher[e]
    BY <1>2, <1>4 DEF BecomesReady, EndsWait, Drained, ReadFails
  <2>3. watcher'[d].period = watcher[d].period /\ watcher'[d].ceiling = watcher[d].ceiling
    <3>1. Debouncing(watcher[d]).period = watcher[d].period
          /\ Debouncing(watcher[d]).ceiling = watcher[d].ceiling
      BY <1>2 DEF Debouncing, WatcherState
    <3>2. CASE BecomesReady(d)
      BY <1>2, <3>1, <3>2 DEF BecomesReady
    <3>3. CASE EndsWait(d)
      BY <1>2, <3>3 DEF EndsWait, WatcherState
    <3>4. CASE Drained(d)
      BY <1>2, <3>1, <3>4 DEF Drained, WatcherState
    <3>5. CASE ReadFails(d)
      BY <1>2, <3>5 DEF ReadFails, WatcherState
    <3> QED BY <1>4, <3>2, <3>3, <3>4, <3>5
  <2> QED BY <1>3, <2>1, <2>2, <2>3
<1>5. ASSUME NEW d \in Devices, Read(d)
      PROVE  PeriodInv'
  <2> DEFINE w == watcher[d]
  <2>1. w.at = "reading"
    BY <1>5 DEF Read
  <2>2. /\ w.period \in 1 .. LongestPeriod /\ w.ceiling \in w.period .. LongestPeriod
        /\ lostAt[d] \in w.ceiling + 1 .. Never /\ Never \in Nat /\ LongestPeriod \in Nat
    BY <2>1, PanicFree, PeriodAssumption DEF Never
  <2>3. /\ Expanded(w).at = "reading" /\ Shrunk(w).at \in {"reading", "panicked"}
        /\ Expanded(w).ceiling = w.ceiling /\ Expanded(w).period \in 1 .. w.ceiling
        /\ Shrunk(w).ceiling = Shrunk(w).period
        /\ Shrunk(w).period \in 0 .. w.period - 1
        /\ Shrunk(w).at = "reading" => Shrunk(w).period # 0
    BY <2>1, FeedbackKeeps
  <2>4. SUFFICES ASSUME NEW e \in Devices, watcher'[e].at # "panicked"
                 PROVE  1 <= watcher'[e].period /\ watcher'[e].period <= watcher'[e].ceiling
                        /\ watcher'[e].ceiling < lostAt'[e]
    BY DEF PeriodInv
  <2>5. CASE e # d
    <3>1. watcher'[e] = watcher[e] /\ lostAt'[e] = lostAt[e]
      BY <1>2, <1>5, <2>5 DEF Read, history
    <3> QED BY <1>1, <2>4, <3>1 DEF PeriodInv
  <2>6. CASE e = d /\ watcher' = watcher /\ lostAt' = lostAt
    BY <1>1, <2>4, <2>6 DEF PeriodInv
  <2>7. CASE e = d /\ watcher' = [watcher EXCEPT ![d] = Expanded(w)] /\ lostAt' = lostAt
    <3>1. watcher'[d] = Expanded(w)
      BY <1>2, <2>7
    <3> QED BY <2>2, <2>3, <2>7, <3>1
  <2>8. CASE e = d /\ watcher' = [watcher EXCEPT ![d] = Shrunk(w)]
             /\ lostAt' = [lostAt EXCEPT ![d] = Lesser(@, w.period)]
    <3>1. watcher'[d] = Shrunk(w) /\ lostAt'[d] = Lesser(lostAt[d], w.period)
      BY <1>2, <2>8
    <3>2. Shrunk(w).at = "reading"
      BY <2>3, <2>4, <2>8, <3>1
    <3>3. Shrunk(w).period \in 1 .. w.period - 1
      BY <2>2, <2>3, <3>2
    <3>4. w.period - 1 < Lesser(lostAt[d], w.period)
      BY <2>2 DEF Lesser
    <3>5. Lesser(lostAt[d], w.period) \in Nat
      BY <2>2 DEF Lesser
    <3> QED BY <2>2, <2>3, <2>8, <3>1, <3>3, <3>4, <3>5
  <2> QED BY <1>5, <2>5, <2>6, <2>7, <2>8 DEF Read, history
<1>6. ASSUME NEW l \in Loops, Interrupts(l)
      PROVE  PeriodInv'
  <2>1. \A d \in Devices : /\ watcher'[d].period = watcher[d].period
                           /\ watcher'[d].ceiling = watcher[d].ceiling
                           /\ watcher[d].at = "panicked" => watcher'[d].at = "panicked"
    BY <1>2, <1>6 DEF Interrupts, WatcherState
  <2> QED BY <1>3, <1>6, <2>1 DEF Interrupts
<1>7. ASSUME NEW expired \in SUBSET Timed, Park(expired)
      PROVE  PeriodInv'
  <2>1. \A d \in Devices : /\ watcher'[d].period = watcher[d].period
                           /\ watcher'[d].ceiling = watcher[d].ceiling
                           /\ watcher[d].at = "panicked" => watcher'[d].at = "panicked"
    BY <1>2, <1>7 DEF Park, WatcherState
  <2> QED BY <1>3, <1>7, <2>1 DEF Park, history
<1>8. ASSUME UNCHANGED <<watcher, lostAt>>
      PROVE  PeriodInv'
  BY <1>3, <1>8
<1>9. ASSUME NEW d \in Devices, Arrive(d) \/ Unplug(d)
      PROVE  PeriodInv'
  BY <1>8, <1>9 DEF Arrive, Unplug, history
<1>10. ASSUME NEW l \in Loops, Join(l) \/ Computes(l)
       PROVE  PeriodInv'
  BY <1>8, <1>10 DEF Join, Computes, history
<1>11. CASE UNCHANGED vars
  BY <1>8, <1>11 DEF vars
<1> QED BY <1>4, <1>5, <1>6, <1>7, <1>9, <1>10, <1>11 DEF Next, WatcherStep, LoopStep

------------------------------------------------------------------------------
(* The order of the queue *)

LEMMA AheadStep ==
  ASSUME IInv, [Next]_vars
  PROVE  AheadInv'
<1>1. QueuesOK /\ StateOK /\ WaitInv /\ AheadInv
  BY TypeParts DEF IInv
<1>2. /\ runq \in Seq(Tasks) /\ IsInjective(runq)
      /\ deferred \in Seq(Loops) /\ IsInjective(deferred)
      /\ watcher \in [Devices -> WatcherState] /\ loop \in [Loops -> LoopState]
      /\ owed \in [Loops -> SUBSET Devices]
  BY <1>1 DEF QueuesOK, StateOK
<1>3. ASSUME NEW l \in Loops, NEW d \in owed[l]
      PROVE  /\ d \in Devices /\ d # l /\ d \notin Loops
             /\ loop[l].at = "yielded"
             /\ \/ watcher[d].at = "reading"
                \/ watcher[d].at = "debouncing" /\ Ahead(runq, d, l)
  BY <1>1, <1>2, TasksAssumption DEF AheadInv
<1>4. ASSUME UNCHANGED <<runq, watcher, loop, owed>>
      PROVE  AheadInv'
  BY <1>1, <1>4 DEF AheadInv
\* A step that takes d from those that owe, and nobody else's place.
<1>5. ASSUME NEW d \in Devices, runq' = runq, loop' = loop,
             \A e \in Devices : e # d => watcher'[e] = watcher[e],
             \A l \in Loops : owed'[l] \subseteq owed[l],
             \A l \in Loops : d \in owed'[l] => watcher'[d].at = "reading"
      PROVE  AheadInv'
  <2> SUFFICES ASSUME NEW l \in Loops, NEW e \in owed'[l]
               PROVE  /\ loop'[l].at = "yielded"
                      /\ \/ watcher'[e].at = "reading"
                         \/ watcher'[e].at = "debouncing" /\ Ahead(runq', e, l)
    BY DEF AheadInv
  <2>1. e \in owed[l]
    BY <1>5
  <2> QED BY <1>3, <1>5, <2>1
\* A step that takes the head off the queue, which owes nothing afterwards or
\* reads.
<1>6. ASSUME NEW t \in Tasks, runq # <<>>, Head(runq) = t, runq' = Tail(runq), Idle,
             \A l \in Loops : l # t => loop'[l] = loop[l],
             \A e \in Devices : e # t => watcher'[e] = watcher[e],
             \A l \in Loops : owed'[l] \subseteq owed[l],
             \A l \in Loops : l = t => owed'[l] = {},
             \A l \in Loops : t \in owed'[l] => watcher'[t].at = "reading"
      PROVE  AheadInv'
  <2> SUFFICES ASSUME NEW l \in Loops, NEW e \in owed'[l]
               PROVE  /\ loop'[l].at = "yielded"
                      /\ \/ watcher'[e].at = "reading"
                         \/ watcher'[e].at = "debouncing" /\ Ahead(runq', e, l)
    BY DEF AheadInv
  <2>1. e \in owed[l] /\ l # t
    BY <1>6
  <2>2. e \in Devices /\ loop'[l].at = "yielded"
    BY <1>3, <1>6, <2>1
  <2>3. CASE e = t
    BY <1>6, <2>2, <2>3
  <2>4. CASE e # t
    <3>1. watcher[e].at # "reading"
      BY <1>6, <2>2 DEF Idle
    <3>2. watcher[e].at = "debouncing" /\ Ahead(runq, e, l)
      BY <1>3, <2>1, <3>1
    <3>3. Ahead(Tail(runq), e, l)
      BY <1>2, <1>6, <2>4, <3>2, AheadPopped
    <3> QED BY <1>6, <2>2, <2>4, <3>2, <3>3
  <2> QED BY <2>3, <2>4
<1>7. ASSUME NEW d \in Devices, BecomesReady(d)
      PROVE  AheadInv'
  <2>1. /\ runq # <<>> /\ Head(runq) = d /\ runq' = Tail(runq) /\ Idle /\ loop' = loop
        /\ watcher[d].at = "readiness" /\ owed' = owed /\ d \in Tasks
    BY <1>7 DEF BecomesReady, Runs, history, Tasks
  <2>2. \A e \in Devices : e # d => watcher'[e] = watcher[e]
    BY <1>2, <1>7 DEF BecomesReady
  <2>3. \A l \in Loops : d \notin owed[l]
    BY <1>3, <2>1
  <2>4. \A l \in Loops : l # d
    BY TasksAssumption
  <2> QED BY <1>6, <2>1, <2>2, <2>3, <2>4
<1>8. ASSUME NEW d \in Devices, EndsWait(d)
      PROVE  AheadInv'
  <2>1. /\ runq # <<>> /\ Head(runq) = d /\ runq' = Tail(runq) /\ Idle /\ loop' = loop
        /\ owed' = owed /\ d \in Tasks
    BY <1>8 DEF EndsWait, Runs, history, Tasks
  <2>2. /\ \A e \in Devices : e # d => watcher'[e] = watcher[e]
        /\ watcher'[d].at = "reading"
    BY <1>2, <1>8 DEF EndsWait, WatcherState
  <2>3. \A l \in Loops : l # d
    BY TasksAssumption
  <2> QED BY <1>6, <2>1, <2>2, <2>3
<1>9. ASSUME NEW l \in Loops, Computes(l)
      PROVE  AheadInv'
  <2>1. /\ runq # <<>> /\ Head(runq) = l /\ runq' = Tail(runq) /\ Idle /\ watcher' = watcher
        /\ owed' = [owed EXCEPT ![l] = {}] /\ l \in Tasks
    BY <1>9 DEF Computes, Runs, Tasks
  <2>2. \A k \in Loops : k # l => loop'[k] = loop[k]
    BY <1>2, <1>9 DEF Computes
  <2>3. /\ \A k \in Loops : owed'[k] \subseteq owed[k]
        /\ owed'[l] = {}
        /\ \A k \in Loops : l \notin owed'[k]
    BY <1>2, <2>1, TasksAssumption
  <2> QED BY <1>6, <2>1, <2>2, <2>3
<1>10. ASSUME NEW d \in Devices, Read(d)
       PROVE  AheadInv'
  <2>1. runq' = runq /\ loop' = loop /\ watcher[d].at = "reading"
    BY <1>10 DEF Read
  <2>2. \A e \in Devices : e # d => watcher'[e] = watcher[e]
    BY <1>2, <1>10 DEF Read
  <2>3. Expanded(watcher[d]).at = "reading" /\ Shrunk(watcher[d]).at \in {"reading", "panicked"}
    BY <2>1, FeedbackKeeps
  <2>4. \/ owed' = owed /\ watcher'[d].at = "reading"
        \/ owed' = [l \in Loops |-> owed[l] \ {d}]
    BY <1>2, <1>10, <2>1, <2>3 DEF Read, history
  <2>5. /\ \A l \in Loops : owed'[l] \subseteq owed[l]
        /\ \A l \in Loops : d \in owed'[l] => watcher'[d].at = "reading"
    BY <2>4
  <2> QED BY <1>5, <2>1, <2>2, <2>5
<1>11. ASSUME NEW d \in Devices, Drained(d) \/ ReadFails(d)
       PROVE  AheadInv'
  <2>1. /\ runq' = runq /\ loop' = loop /\ owed' = [l \in Loops |-> owed[l] \ {d}]
        /\ \A e \in Devices : e # d => watcher'[e] = watcher[e]
    BY <1>2, <1>11 DEF Drained, ReadFails
  <2> QED BY <1>5, <2>1
<1>12. ASSUME NEW l \in Loops, Join(l)
       PROVE  AheadInv'
  <2>1. /\ loop[l].at = "off" /\ runq' = Append(runq, l) /\ watcher' = watcher /\ owed' = owed
        /\ l \in Tasks
    BY <1>12 DEF Join, history, Tasks
  <2>2. \A k \in Loops : k # l => loop'[k] = loop[k]
    BY <1>2, <1>12 DEF Join
  <2>3. l \notin ToSet(runq)
    BY <1>1, <2>1 DEF WaitInv
  <2>4. \A d, k : Ahead(runq, d, k) => Ahead(runq', d, k)
    BY <1>2, <2>1, <2>3, Appended
  <2>5. owed[l] = {}
    BY <1>3, <2>1
  <2> QED BY <1>3, <2>1, <2>2, <2>4, <2>5 DEF AheadInv
<1>13. ASSUME NEW l \in Loops, Interrupts(l)
       PROVE  AheadInv'
  <2>1. /\ runq # <<>> /\ Head(runq) = l /\ Idle
        /\ runq' \in Woken(Tail(runq), Listening)
        /\ loop' = [loop EXCEPT ![l] = [at |-> "yielded", fired |-> FALSE]]
        /\ owed' = [owed EXCEPT ![l] = Listening]
    BY <1>13 DEF Interrupts, Runs
  <2>2. \A d \in Devices : watcher'[d].at = watcher[d].at
    BY <1>2, <1>13 DEF Interrupts, WatcherState
  <2>3. /\ Tail(runq) \in Seq(Tasks) /\ IsInjective(Tail(runq))
        /\ ToSet(Tail(runq)) = ToSet(runq) \ {l}
    BY <1>2, <2>1, Popped
  <2>4. Listening \in SUBSET Tasks /\ l \notin Listening
    BY TasksAssumption DEF Listening, Tasks
  <2>5. /\ ToSet(runq') = (ToSet(runq) \ {l}) \union Listening
        /\ \A d, k : Ahead(Tail(runq), d, k) => Ahead(runq', d, k)
    BY <2>1, <2>3, <2>4, WokenAppends
  <2> SUFFICES ASSUME NEW k \in Loops, NEW d \in owed'[k]
               PROVE  /\ loop'[k].at = "yielded"
                      /\ \/ watcher'[d].at = "reading"
                         \/ watcher'[d].at = "debouncing" /\ Ahead(runq', d, k)
    BY DEF AheadInv
  <2>6. CASE k = l
    <3>1. d \in Listening /\ loop'[l].at = "yielded"
      BY <1>2, <2>1, <2>6
    <3>2. Ahead(runq', d, l)
      BY <2>4, <2>5, <3>1, AheadOfAbsent
    <3> QED BY <2>2, <2>6, <3>1, <3>2 DEF Listening
  <2>7. CASE k # l
    <3>1. d \in owed[k] /\ loop'[k] = loop[k]
      BY <1>2, <2>1, <2>7
    <3>2. d \in Devices /\ d # l /\ loop[k].at = "yielded"
      BY <1>3, <3>1, TasksAssumption
    <3>3. watcher[d].at = "debouncing" /\ Ahead(runq, d, k)
      BY <1>3, <2>1, <3>1, <3>2 DEF Idle
    <3>4. Ahead(runq', d, k)
      BY <1>2, <2>1, <2>5, <3>2, <3>3, AheadPopped
    <3> QED BY <2>2, <3>1, <3>2, <3>3, <3>4
  <2> QED BY <2>6, <2>7
<1>14. ASSUME NEW expired \in SUBSET Timed, Park(expired)
       PROVE  AheadInv'
  <2> DEFINE W == {d \in Readable : watcher[d].at = "readiness"}
  <2>1. W \in SUBSET Tasks /\ expired \in SUBSET Tasks
    BY DEF Readable, Timed, Tasks
  <2>2. PICK q \in Woken(runq, W) : \E r \in Woken(q, expired) : runq' = r \o Reverse(deferred)
    BY <1>14 DEF Park
  <2>3. PICK r \in Woken(q, expired) : runq' = r \o Reverse(deferred)
    BY <2>2
  <2>4. /\ q \in Seq(Tasks) /\ IsInjective(q)
        /\ \A d, k : Ahead(runq, d, k) => Ahead(q, d, k)
    BY <1>2, <2>1, WokenAppends
  <2>5. /\ r \in Seq(Tasks)
        /\ \A d, k : Ahead(q, d, k) => Ahead(r, d, k)
    BY <2>1, <2>4, WokenAppends
  <2>6. Reverse(deferred) \in Seq(Tasks)
    BY <1>2, Reversed, SeqMonotonic DEF Tasks
  <2>7. \A d, k : Ahead(runq, d, k) => Ahead(runq', d, k)
    BY <2>3, <2>4, <2>5, <2>6, AheadJoined
  <2>8. /\ owed' = owed
        /\ \A l \in Loops : loop'[l].at = loop[l].at
        /\ \A d \in Devices : watcher'[d].at = watcher[d].at
    BY <1>2, <1>14 DEF Park, history, LoopState, WatcherState
  <2> QED BY <1>3, <2>7, <2>8 DEF AheadInv
<1>15. ASSUME NEW d \in Devices, Arrive(d) \/ Unplug(d)
       PROVE  AheadInv'
  BY <1>4, <1>15 DEF Arrive, Unplug, history
<1>16. CASE UNCHANGED vars
  BY <1>4, <1>16 DEF vars
<1> QED BY <1>7, <1>8, <1>9, <1>10, <1>11, <1>12, <1>13, <1>14, <1>15, <1>16
        DEF Next, WatcherStep, LoopStep

------------------------------------------------------------------------------
(* Wakeups *)

HasWork(d) ==
  \/ watcher[d].at = "readiness" /\ io[d].ready
  \/ watcher[d].at = "debouncing" /\ (watcher[d].fired \/ watcher[d].rx > 0)

LoopHasWork(l) == loop[l].at = "yielded" \/ (loop[l].at = "ticker" /\ loop[l].fired)

EdgeComes(d) ==
  watcher[d].at = "readiness" /\ (node[d].queued > 0 \/ ~node[d].present) =>
    node[d].edge \/ io[d].ready

\* A timer or a message is there only for a task that waits for it.
Rested(d) == watcher[d].at # "debouncing" => ~watcher[d].fired /\ watcher[d].rx = 0

WakeInv ==
  /\ \A d \in Devices : (d \in ToSet(runq) <=> HasWork(d)) /\ EdgeComes(d) /\ Rested(d)
  /\ \A l \in Loops :
       /\ l \in ToSet(runq) \union ToSet(deferred) <=> LoopHasWork(l)
       /\ loop[l].at # "ticker" => ~loop[l].fired

LEMMA WakeInit == Init => WakeInv
BY DEF Init, WakeInv, HasWork, LoopHasWork, EdgeComes, Rested, ToSet

\* The step of one watcher.
LEMMA OneWatcher ==
  ASSUME IInv, WakeInv, NEW d \in Devices,
         loop' = loop, deferred' = deferred,
         \A e \in Devices \ {d} :
           watcher'[e] = watcher[e] /\ io'[e] = io[e] /\ node'[e] = node[e],
         ToSet(runq') \ {d} = ToSet(runq) \ {d},
         d \in ToSet(runq') <=> HasWork(d)', EdgeComes(d)', Rested(d)'
  PROVE  WakeInv'
<1>1. ToSet(runq)' = ToSet(runq') /\ ToSet(deferred)' = ToSet(deferred)
  BY DEF ToSet
<1>2. ASSUME NEW e \in Devices, e # d
      PROVE  (e \in ToSet(runq') <=> HasWork(e)') /\ EdgeComes(e)' /\ Rested(e)'
  <2>1. watcher'[e] = watcher[e] /\ io'[e] = io[e] /\ node'[e] = node[e]
    BY <1>2
  <2>2. (HasWork(e)' <=> HasWork(e)) /\ EdgeComes(e)' /\ Rested(e)'
    BY <2>1 DEF WakeInv, HasWork, EdgeComes, Rested
  <2> QED BY <1>2, <2>2 DEF WakeInv
<1>3. ASSUME NEW l \in Loops
      PROVE  /\ l \in ToSet(runq') \union ToSet(deferred) <=> LoopHasWork(l)'
             /\ loop'[l].at # "ticker" => ~loop'[l].fired
  <2>1. l # d
    BY TasksAssumption
  <2>2. LoopHasWork(l)' <=> LoopHasWork(l)
    BY DEF LoopHasWork
  <2> QED BY <2>1, <2>2 DEF WakeInv
<1> QED BY <1>1, <1>2, <1>3 DEF WakeInv

LEMMA WakeStep ==
  ASSUME IInv, WakeInv, [Next]_vars
  PROVE  WakeInv'
<1>1. /\ runq \in Seq(Tasks) /\ IsInjective(runq)
      /\ deferred \in Seq(Loops) /\ IsInjective(deferred)
      /\ ToSet(runq) \cap ToSet(deferred) = {}
      /\ node \in [Devices -> NodeState] /\ io \in [Devices -> Reactor]
      /\ watcher \in [Devices -> WatcherState] /\ loop \in [Loops -> LoopState]
  BY DEF IInv, TypeOK, QueuesOK
<1>2. ASSUME runq # <<>>
      PROVE  /\ Tail(runq) \in Seq(Tasks) /\ IsInjective(Tail(runq))
             /\ ToSet(Tail(runq)) = ToSet(runq) \ {Head(runq)}
  BY <1>1, <1>2, Popped
<1>3. ToSet(runq)' = ToSet(runq') /\ ToSet(deferred)' = ToSet(deferred')
  BY DEF ToSet
<1>4. \A d \in Devices : /\ d \in ToSet(runq) <=> HasWork(d)
                         /\ EdgeComes(d) /\ Rested(d)
                         /\ d \notin Loops
  BY TasksAssumption DEF WakeInv
<1>5. \A l \in Loops : /\ l \in ToSet(runq) \union ToSet(deferred) <=> LoopHasWork(l)
                       /\ loop[l].at # "ticker" => ~loop[l].fired
  BY DEF WakeInv
<1>6. \A d \in Devices : watcher[d] \in WatcherState /\ io[d] \in Reactor /\ node[d] \in NodeState
  BY <1>1
<1>7. ASSUME NEW d \in Devices, BecomesReady(d) PROVE WakeInv'
  <2>1. /\ runq # <<>> /\ Head(runq) = d /\ watcher[d].at = "readiness"
        /\ runq' = Tail(runq) /\ deferred' = deferred /\ loop' = loop /\ node' = node
        /\ io' = [io EXCEPT ![d].stale = FALSE]
        /\ watcher' = [watcher EXCEPT ![d] = Debouncing(@)]
    BY <1>7 DEF BecomesReady, Runs
  <2>2. ToSet(runq') = ToSet(runq) \ {d}
    BY <1>2, <2>1
  <2>3. /\ watcher'[d].at = "debouncing" /\ watcher'[d].fired = watcher[d].fired
        /\ watcher'[d].rx = watcher[d].rx
    BY <1>1, <1>6, <2>1 DEF Debouncing, WatcherState
  <2>4. ~watcher[d].fired /\ watcher[d].rx = 0
    BY <1>4, <2>1 DEF Rested
  <2>5. ~HasWork(d)' /\ EdgeComes(d)' /\ Rested(d)'
    BY <2>3, <2>4 DEF HasWork, EdgeComes, Rested
  <2>6. \A e \in Devices \ {d} :
          watcher'[e] = watcher[e] /\ io'[e] = io[e] /\ node'[e] = node[e]
    BY <1>1, <2>1
  <2> QED BY <2>1, <2>2, <2>5, <2>6, OneWatcher
<1>8. ASSUME NEW d \in Devices, EndsWait(d) PROVE WakeInv'
  <2>1. /\ runq # <<>> /\ Head(runq) = d
        /\ runq' = Tail(runq) /\ deferred' = deferred /\ loop' = loop /\ node' = node /\ io' = io
        /\ watcher' = [watcher EXCEPT
             ![d].at = "reading", ![d].rx = 0, ![d].fired = FALSE,
             ![d].interrupted = ~watcher[d].fired /\ watcher[d].rx <= Capacity]
    BY <1>8 DEF EndsWait, Runs
  <2>2. ToSet(runq') = ToSet(runq) \ {d}
    BY <1>2, <2>1
  <2>3. watcher'[d].at = "reading" /\ ~watcher'[d].fired /\ watcher'[d].rx = 0
    BY <1>1, <1>6, <2>1 DEF WatcherState
  <2>4. ~HasWork(d)' /\ EdgeComes(d)' /\ Rested(d)'
    BY <2>3 DEF HasWork, EdgeComes, Rested
  <2>5. \A e \in Devices \ {d} :
          watcher'[e] = watcher[e] /\ io'[e] = io[e] /\ node'[e] = node[e]
    BY <1>1, <2>1
  <2> QED BY <2>1, <2>2, <2>4, <2>5, OneWatcher
<1>9. ASSUME NEW d \in Devices, Read(d) PROVE WakeInv'
  <2>1. /\ watcher[d].at = "reading"
        /\ runq' = runq /\ deferred' = deferred /\ loop' = loop /\ io' = io
        /\ \A e \in Devices \ {d} : node'[e] = node[e] /\ watcher'[e] = watcher[e]
        /\ watcher'[d] \in {watcher[d], Shrunk(watcher[d]), Expanded(watcher[d])}
    BY <1>1, <1>9 DEF Read, history
  <2>2. /\ watcher'[d].at \in {"reading", "panicked"} /\ watcher'[d].fired = watcher[d].fired
        /\ watcher'[d].rx = watcher[d].rx
    BY <1>6, <2>1 DEF WatcherState, Shrunk, Expanded
  <2>3. ~HasWork(d) /\ ~watcher[d].fired /\ watcher[d].rx = 0
    BY <1>4, <2>1 DEF HasWork, Rested
  <2>4. ~HasWork(d)' /\ EdgeComes(d)' /\ Rested(d)'
    BY <2>2, <2>3 DEF HasWork, EdgeComes, Rested
  <2>5. d \notin ToSet(runq')
    BY <1>4, <2>1, <2>3
  <2> QED BY <2>1, <2>4, <2>5, OneWatcher
<1>10. ASSUME NEW d \in Devices, Drained(d) PROVE WakeInv'
  <2>1. /\ watcher[d].at = "reading" /\ node[d].present /\ node[d].queued = 0
        /\ runq' = runq /\ deferred' = deferred /\ loop' = loop /\ node' = node
    BY <1>10 DEF Drained
  <2>2. ~HasWork(d) /\ ~watcher[d].fired /\ watcher[d].rx = 0
    BY <1>4, <2>1 DEF HasWork, Rested
  <2>3. d \notin ToSet(runq')
    BY <1>4, <2>1, <2>2
  <2>4. CASE io[d].stale
    <3>1. /\ io' = [io EXCEPT ![d].stale = FALSE]
          /\ watcher' = [watcher EXCEPT ![d] = Debouncing(@)]
      BY <1>10, <2>4 DEF Drained
    <3>2. /\ watcher'[d].at = "debouncing" /\ watcher'[d].fired = watcher[d].fired
          /\ watcher'[d].rx = watcher[d].rx
      BY <1>1, <1>6, <3>1 DEF Debouncing, WatcherState
    <3>3. ~HasWork(d)' /\ EdgeComes(d)' /\ Rested(d)'
      BY <2>2, <3>2 DEF HasWork, EdgeComes, Rested
    <3>4. \A e \in Devices \ {d} :
            watcher'[e] = watcher[e] /\ io'[e] = io[e] /\ node'[e] = node[e]
      BY <1>1, <2>1, <3>1
    <3> QED BY <2>1, <2>3, <3>3, <3>4, OneWatcher
  <2>5. CASE ~io[d].stale
    <3>1. /\ io' = [io EXCEPT ![d].ready = FALSE]
          /\ watcher' = [watcher EXCEPT ![d].at = "readiness", ![d].interrupted = FALSE]
      BY <1>10, <2>5 DEF Drained
    <3>2. /\ watcher'[d].at = "readiness" /\ watcher'[d].fired = watcher[d].fired
          /\ watcher'[d].rx = watcher[d].rx /\ ~io'[d].ready
      BY <1>1, <1>6, <3>1 DEF WatcherState, Reactor
    <3>3. ~HasWork(d)' /\ EdgeComes(d)' /\ Rested(d)'
      BY <2>1, <2>2, <3>2 DEF HasWork, EdgeComes, Rested
    <3>4. \A e \in Devices \ {d} :
            watcher'[e] = watcher[e] /\ io'[e] = io[e] /\ node'[e] = node[e]
      BY <1>1, <2>1, <3>1
    <3> QED BY <2>1, <2>3, <3>3, <3>4, OneWatcher
  <2> QED BY <2>4, <2>5
<1>11. ASSUME NEW d \in Devices, ReadFails(d) PROVE WakeInv'
  <2>1. /\ watcher[d].at = "reading"
        /\ runq' = runq /\ deferred' = deferred /\ loop' = loop /\ node' = node /\ io' = io
        /\ watcher' = [watcher EXCEPT ![d].at = "ended"]
    BY <1>11 DEF ReadFails
  <2>2. /\ watcher'[d].at = "ended" /\ watcher'[d].fired = watcher[d].fired
        /\ watcher'[d].rx = watcher[d].rx
    BY <1>1, <1>6, <2>1 DEF WatcherState
  <2>3. ~HasWork(d) /\ ~watcher[d].fired /\ watcher[d].rx = 0
    BY <1>4, <2>1 DEF HasWork, Rested
  <2>4. ~HasWork(d)' /\ EdgeComes(d)' /\ Rested(d)'
    BY <2>2, <2>3 DEF HasWork, EdgeComes, Rested
  <2>5. d \notin ToSet(runq')
    BY <1>4, <2>1, <2>3
  <2>6. \A e \in Devices \ {d} :
          watcher'[e] = watcher[e] /\ io'[e] = io[e] /\ node'[e] = node[e]
    BY <1>1, <2>1
  <2> QED BY <2>1, <2>4, <2>5, <2>6, OneWatcher
<1>12. ASSUME NEW d \in Devices, Arrive(d) \/ Unplug(d) PROVE WakeInv'
  <2>1. /\ runq' = runq /\ deferred' = deferred /\ loop' = loop /\ io' = io /\ watcher' = watcher
        /\ \A e \in Devices \ {d} : node'[e] = node[e]
        /\ node'[d].edge = TRUE
    BY <1>1, <1>6, <1>12 DEF Arrive, Unplug, NodeState
  <2>2. (HasWork(d)' <=> HasWork(d)) /\ EdgeComes(d)' /\ Rested(d)'
    BY <1>4, <2>1 DEF HasWork, EdgeComes, Rested
  <2>3. d \in ToSet(runq') <=> HasWork(d)'
    BY <1>4, <2>1, <2>2
  <2> QED BY <2>1, <2>2, <2>3, OneWatcher
<1>13. ASSUME NEW l \in Loops, Join(l) PROVE WakeInv'
  <2>1. /\ loop[l].at = "off" /\ runq' = Append(runq, l) /\ deferred' = deferred
        /\ node' = node /\ io' = io /\ watcher' = watcher
        /\ loop' = [loop EXCEPT ![l] = [at |-> "ticker", fired |-> TRUE]]
    BY <1>13 DEF Join
  <2>2. l \in Tasks /\ l \notin ToSet(runq)
    BY <2>1 DEF Tasks, IInv, WaitInv
  <2>3. ToSet(runq') = ToSet(runq) \union {l}
    BY <1>1, <2>1, <2>2, Appended
  <2>4. \A k \in Loops : LoopHasWork(k)' <=> LoopHasWork(k) \/ k = l
    BY <1>1, <2>1 DEF LoopHasWork
  <2>5. \A k \in Loops : loop'[k].at # "ticker" => ~loop'[k].fired
    BY <1>1, <1>5, <2>1
  <2>6. \A d \in Devices : (HasWork(d)' <=> HasWork(d)) /\ EdgeComes(d)' /\ Rested(d)'
    BY <1>4, <2>1 DEF HasWork, EdgeComes, Rested
  <2>7. \A d \in Devices : d \in ToSet(runq') <=> HasWork(d)'
    BY <1>4, <2>3, <2>6
  <2>8. \A k \in Loops : k \in ToSet(runq') \union ToSet(deferred') <=> LoopHasWork(k)'
    BY <1>5, <2>1, <2>3, <2>4
  <2> QED BY <1>3, <2>5, <2>6, <2>7, <2>8 DEF WakeInv
<1>14. ASSUME NEW l \in Loops, Interrupts(l) PROVE WakeInv'
  <2>1. /\ runq # <<>> /\ Head(runq) = l /\ loop[l].at = "ticker"
        /\ runq' \in Woken(Tail(runq), Listening)
        /\ deferred' = Append(deferred, l)
        /\ node' = node /\ io' = io
        /\ loop' = [loop EXCEPT ![l] = [at |-> "yielded", fired |-> FALSE]]
        /\ watcher' = [d \in Devices |->
             IF d \in Listening
             THEN [watcher[d] EXCEPT !.rx = Lesser(@ + 1, Capacity + 1)] ELSE watcher[d]]
    BY <1>14 DEF Interrupts, Runs
  <2>2. Listening \in SUBSET Tasks /\ \A k \in Loops : k \notin Listening
    BY TasksAssumption DEF Listening, Tasks
  <2>3. ToSet(runq') = (ToSet(runq) \ {l}) \union Listening
    BY <1>2, <2>1, <2>2, WokenAppends
  <2>4. l \notin ToSet(deferred)
    BY <2>1 DEF IInv, WaitInv
  <2>5. ToSet(deferred') = ToSet(deferred) \union {l}
    BY <1>1, <2>1, <2>4, Appended
  <2>6. \A k \in Loops : LoopHasWork(k)' <=> LoopHasWork(k) \/ k = l
    BY <1>1, <2>1 DEF LoopHasWork
  <2>7. \A k \in Loops : loop'[k].at # "ticker" => ~loop'[k].fired
    BY <1>1, <1>5, <2>1
  <2>8. ASSUME NEW d \in Devices
        PROVE  (d \in ToSet(runq') <=> HasWork(d)') /\ EdgeComes(d)' /\ Rested(d)'
    <3>1. CASE d \in Listening
      <4>1. watcher[d].at = "debouncing" /\ watcher[d].rx \in Nat
        BY <1>6, <3>1, SizeAssumption DEF Listening, WatcherState
      <4>2. Lesser(watcher[d].rx + 1, Capacity + 1) > 0
        BY <4>1, SizeAssumption DEF Lesser
      <4>3. /\ watcher'[d].at = "debouncing"
            /\ watcher'[d].rx = Lesser(watcher[d].rx + 1, Capacity + 1)
        BY <1>6, <2>1, <3>1, <4>1 DEF WatcherState
      <4> QED BY <2>3, <3>1, <4>2, <4>3 DEF HasWork, EdgeComes, Rested
    <3>2. CASE d \notin Listening
      <4>1. watcher'[d] = watcher[d]
        BY <2>1, <3>2
      <4>2. (HasWork(d)' <=> HasWork(d)) /\ EdgeComes(d)' /\ Rested(d)'
        BY <1>4, <2>1, <4>1 DEF HasWork, EdgeComes, Rested
      <4> QED BY <1>4, <2>3, <3>2, <4>2
    <3> QED BY <3>1, <3>2
  <2>9. \A k \in Loops : k \in ToSet(runq') \union ToSet(deferred') <=> LoopHasWork(k)'
    BY <1>5, <2>2, <2>3, <2>5, <2>6
  <2> QED BY <1>3, <2>7, <2>8, <2>9 DEF WakeInv
<1>15. ASSUME NEW l \in Loops, Computes(l) PROVE WakeInv'
  <2>1. /\ runq # <<>> /\ Head(runq) = l /\ loop[l].at = "yielded"
        /\ runq' = Tail(runq) /\ deferred' = deferred
        /\ node' = node /\ io' = io /\ watcher' = watcher
    BY <1>15 DEF Computes, Runs
  <2>2. PICK at \in {"ticker", "off"} : loop' = [loop EXCEPT ![l].at = at]
    BY <1>15 DEF Computes
  <2>3. ToSet(runq') = ToSet(runq) \ {l} /\ l \in ToSet(runq)
    BY <1>1, <1>2, <2>1, Popped
  <2>4. l \notin ToSet(deferred)
    BY <1>1, <2>3
  <2>5. ~loop[l].fired
    BY <1>5, <2>1
  <2>6. /\ loop'[l].at \in {"ticker", "off"} /\ ~loop'[l].fired
        /\ \A k \in Loops \ {l} : loop'[k] = loop[k]
    BY <1>1, <2>2, <2>5 DEF LoopState
  <2>7. \A k \in Loops : LoopHasWork(k)' <=> LoopHasWork(k) /\ k # l
    BY <2>6 DEF LoopHasWork
  <2>8. \A k \in Loops : loop'[k].at # "ticker" => ~loop'[k].fired
    BY <1>5, <2>6
  <2>9. \A d \in Devices : (HasWork(d)' <=> HasWork(d)) /\ EdgeComes(d)' /\ Rested(d)'
    BY <1>4, <2>1 DEF HasWork, EdgeComes, Rested
  <2>10. \A d \in Devices : d \in ToSet(runq') <=> HasWork(d)'
    BY <1>4, <2>3, <2>9
  <2>11. \A k \in Loops : k \in ToSet(runq') \union ToSet(deferred') <=> LoopHasWork(k)'
    BY <1>5, <2>1, <2>3, <2>4, <2>7
  <2> QED BY <1>3, <2>8, <2>9, <2>10, <2>11 DEF WakeInv
<1>16. ASSUME NEW expired \in SUBSET Timed, Park(expired) PROVE WakeInv'
  <2> DEFINE W == {d \in Readable : watcher[d].at = "readiness"}
  <2>1. W \in SUBSET Tasks /\ expired \in SUBSET Tasks
    BY DEF Readable, Timed, Tasks
  <2>2. PICK q \in Woken(runq, W) : \E r \in Woken(q, expired) : runq' = r \o Reverse(deferred)
    BY <1>16 DEF Park
  <2>3. PICK r \in Woken(q, expired) : runq' = r \o Reverse(deferred)
    BY <2>2
  <2>4. q \in Seq(Tasks) /\ IsInjective(q) /\ ToSet(q) = ToSet(runq) \union W
    BY <1>1, <2>1, WokenAppends
  <2>5. r \in Seq(Tasks) /\ IsInjective(r) /\ ToSet(r) = ToSet(q) \union expired
    BY <2>1, <2>4, WokenAppends
  <2>6. \A l \in Loops : l \notin W /\ (l \in expired => loop[l].at = "ticker")
    BY TasksAssumption DEF Readable, Timed
  <2>7. \A l \in ToSet(deferred) : l \in Loops /\ loop[l].at = "yielded"
    <3>1. ToSet(deferred) \subseteq Loops
      BY <1>1, LenProperties, ElementOfSeq DEF ToSet
    <3> QED BY <3>1 DEF IInv, WaitInv
  <2>8. ToSet(r) \cap ToSet(deferred) = {}
    <3> SUFFICES ASSUME NEW l \in ToSet(deferred) PROVE l \notin ToSet(r)
      OBVIOUS
    <3>1. l \in Loops /\ loop[l].at = "yielded" /\ l \notin ToSet(runq)
      BY <1>1, <2>7
    <3> QED BY <2>4, <2>5, <2>6, <3>1
  <2>9. /\ Reverse(deferred) \in Seq(Tasks) /\ IsInjective(Reverse(deferred))
        /\ ToSet(Reverse(deferred)) = ToSet(deferred)
    BY <1>1, Reversed, SeqMonotonic DEF Tasks
  <2>10. ToSet(runq') = ToSet(runq) \union W \union expired \union ToSet(deferred)
    <3>1. ToSet(r) \cap ToSet(Reverse(deferred)) = {}
      BY <2>8, <2>9
    <3>2. ToSet(runq') = ToSet(r) \union ToSet(Reverse(deferred))
      BY <2>3, <2>5, <2>9, <3>1, Joined
    <3> QED BY <2>4, <2>5, <2>9, <3>2
  <2>11. deferred' = <<>> /\ ToSet(deferred') = {}
    BY <1>16 DEF Park, ToSet
  <2>12. ASSUME NEW d \in Devices
         PROVE  (d \in ToSet(runq') <=> HasWork(d)') /\ EdgeComes(d)' /\ Rested(d)'
    <3>1. /\ watcher'[d].at = watcher[d].at /\ watcher'[d].rx = watcher[d].rx
          /\ watcher'[d].fired <=> watcher[d].fired \/ d \in expired
      BY <1>6, <1>16 DEF Park, WatcherState
    <3>2. /\ io'[d].ready <=> io[d].ready \/ d \in Readable
          /\ ~node'[d].edge /\ node'[d].queued = node[d].queued
          /\ node'[d].present = node[d].present
      BY <1>6, <1>16 DEF Park, Reactor, NodeState
    <3>3. d \in expired => watcher[d].at = "debouncing"
      BY <1>4 DEF Timed
    <3>4. d \notin ToSet(deferred)
      BY <1>4, <2>7
    <3>5. d \in ToSet(runq') <=> d \in ToSet(runq) \/ d \in W \/ d \in expired
      BY <2>10, <3>4
    <3>6. d \in W <=> d \in Readable /\ watcher[d].at = "readiness"
      OBVIOUS
    <3> HIDE DEF W
    <3>7. d \in ToSet(runq') <=> HasWork(d)'
      BY <1>4, <3>1, <3>2, <3>3, <3>5, <3>6 DEF HasWork
    <3>8. d \in Readable <=> node[d].edge /\ (node[d].queued > 0 \/ ~node[d].present)
      BY DEF Readable
    <3>9. EdgeComes(d)'
      BY <1>4, <3>1, <3>2, <3>8 DEF EdgeComes
    <3> QED BY <1>4, <3>1, <3>3, <3>7, <3>9 DEF Rested
  <2>13. ASSUME NEW l \in Loops
         PROVE  /\ l \in ToSet(runq') \union ToSet(deferred') <=> LoopHasWork(l)'
                /\ loop'[l].at # "ticker" => ~loop'[l].fired
    <3>1. /\ loop'[l].at = loop[l].at
          /\ loop'[l].fired <=> loop[l].fired \/ l \in expired
      BY <1>1, <1>16 DEF Park, LoopState
    <3>2. l \in ToSet(runq') <=>
            l \in ToSet(runq) \union ToSet(deferred) \/ l \in expired
      BY <2>6, <2>10
    <3> QED BY <1>5, <2>6, <2>11, <3>1, <3>2 DEF LoopHasWork
  <2> QED BY <1>3, <2>12, <2>13 DEF WakeInv
<1>17. CASE UNCHANGED vars
  BY <1>17 DEF vars, WakeInv, HasWork, LoopHasWork, EdgeComes, Rested, ToSet
<1> QED BY <1>7, <1>8, <1>9, <1>10, <1>11, <1>12, <1>13, <1>14, <1>15, <1>16, <1>17
        DEF Next, WatcherStep, LoopStep

------------------------------------------------------------------------------
(* The theorems *)

LEMMA Invariance == Spec => []IInv
<1>1. Init => IInv
  BY InitInv
<1>2. IInv /\ [Next]_vars => IInv'
  <2> SUFFICES ASSUME IInv, [Next]_vars PROVE IInv'
    OBVIOUS
  <2>1. QueuesOK' /\ WaitInv' /\ StateOK' /\ PeriodInv' /\ AheadInv'
    BY QueueStep, StateStep, PeriodStep, AheadStep
  <2>2. TypeOK'
    BY <2>1 DEF TypeOK, StateOK
  <2> QED BY <2>1, <2>2 DEF IInv
<1> QED BY <1>1, <1>2, PTL DEF Spec

\* Queues, reactor, watchers and loops keep their types, and no task is queued
\* twice.
THEOREM TypeCorrect == Spec => []TypeOK
<1>1. IInv => TypeOK
  BY DEF IInv
<1> QED BY <1>1, Invariance, PTL

\* When a loop is about to compute, every watcher that gathered events at its
\* interrupt has read them, for any number of devices, loops and messages.
THEOREM LatePolledAlways == Spec => []LatePolled
<1>1. IInv => LatePolled
  <2> SUFFICES ASSUME IInv, NEW l \in Loops, Runs(l), NEW d \in owed[l]
               PROVE  FALSE
    BY DEF LatePolled
  <2>1. runq \in Seq(Tasks) /\ runq # <<>> /\ runq[1] = l /\ Idle /\ d \in Devices
    BY DEF IInv, TypeOK, QueuesOK, Runs
  <2>2. Ahead(runq, d, l)
    BY <2>1 DEF IInv, AheadInv, Idle
  <2>3. PICK i \in DOMAIN runq : runq[i] = d /\ \A j \in DOMAIN runq : runq[j] = l => i < j
    BY <2>2 DEF Ahead
  <2>4. DOMAIN runq = 1 .. Len(runq) /\ Len(runq) \in Nat \ {0}
    BY <2>1, LenProperties, EmptySeq
  <2>5. i < 1
    BY <2>1, <2>3, <2>4
  <2> QED BY <2>3, <2>4, <2>5
<1> QED BY <1>1, Invariance, PTL

\* No watcher waits again for as long as when its device lost events, whatever
\* the periods: the ceiling is below it.
THEOREM BelowLossAlways == Spec => []StaysBelowLoss
<1>1. IInv => StaysBelowLoss
  <2> SUFFICES ASSUME IInv, NEW d \in Devices, watcher[d].at # "panicked"
               PROVE  watcher[d].period < lostAt[d]
    BY DEF StaysBelowLoss
  <2> QED BY PanicFree, PeriodAssumption DEF Never
<1> QED BY <1>1, Invariance, PTL

\* The executor's queue holds a task exactly when there is something for it to
\* do, and no event waits in the kernel for a watcher that nothing will wake:
\* readiness cleared at the end of a read (server.rs:613), interrupts and
\* expiring timers lose nothing, for any number of devices and loops.
THEOREM WakeupsKeptAlways == Spec => []WakeupsKept
<1>1. Init => WakeInv
  BY WakeInit
<1>2. IInv /\ WakeInv /\ [Next]_vars => WakeInv'
  BY WakeStep
<1>3. WakeInv => WakeupsKept
  BY DEF WakeInv, WakeupsKept, HasWork, LoopHasWork, EdgeComes
<1> QED BY <1>1, <1>2, <1>3, Invariance, PTL DEF Spec

=============================================================================
