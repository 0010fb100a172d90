-------------------------- MODULE FpsLimiterProofs ---------------------------
(****************************************************************************)
(* The server and its clients agree on the limit, and the limit moves as    *)
(* the devices do, for every set of subscribers and devices and every range *)
(* of rates, snapped or not.                                                *)
(****************************************************************************)
EXTENDS FpsLimiter, TLAPS

\* The lemmas on what snap_to_divider returns.  They do not speak of the loop's
\* variables, which stand for the arguments of a subscriber at rest here.
Loop == INSTANCE SnapToDividerProofs WITH
  LargestFps <- MaxFps, max <- MaxFps, min <- MinFps, target <- Unit * MinFps,
  n <- 2, best <- MaxFps, returned <- FALSE

Fps == MinFps .. MaxFps
Ewms == [Devices -> Entry]

\* last_sent_fps is the rate of what the EWMs have now: nothing but a tick moves
\* them, and no tick moves them without it.
RateKnown == \A s \in subs : lastSent[s] = 0 \/ lastSent[s] = Rate(ewm[s])

\* The rate of a client is the one it was sent, and so is the type of both.
IInv == TypeOK /\ InSync /\ RateKnown

LEMMA SpanIsNat == Span \in Nat \ {0} /\ MinFps \in Nat /\ MaxFps \in Nat \ {0}
BY FpsAssumption DEF Span

------------------------------------------------------------------------------
(* A tick of an EWM *)

LEMMA RisingFalling ==
  ASSUME NEW y \in 0 .. Span
  PROVE  /\ Rising(y) \subseteq 0 .. Span /\ \A z \in Rising(y) : y <= z
         /\ Falling(y) \subseteq 0 .. Span /\ \A z \in Falling(y) : z <= y
         /\ Turning(y) \subseteq 0 .. Span
<1>1. \A x \in 0 .. Span : /\ Rising(x) \subseteq 0 .. Span /\ \A z \in Rising(x) : x <= z
                           /\ Falling(x) \subseteq 0 .. Span /\ \A z \in Falling(x) : z <= x
  BY SpanIsNat DEF Rising, Falling
<1> QED BY <1>1 DEF Turning

\* A step leaves y within the span.
LEMMA StepsInSpan ==
  ASSUME NEW e \in Entry
  PROVE  Steps(e) \subseteq 0 .. Span /\ LateSteps(e) \subseteq 0 .. Span
<1>1. e.y \in 0 .. Span
  BY DEF Entry
<1> QED BY <1>1, RisingFalling DEF Steps, LateSteps

\* The ways a tick changes an EWM.
LEMMA TickedForms ==
  ASSUME NEW e, NEW f \in Ticked(e)
  PROVE  \/ ~e.known /\ f = e
         \/ e.known /\ ~e.seen /\ f = [e EXCEPT !.ticked = TRUE]
         \/ /\ e.known /\ e.seen
            /\ \E z \in Steps(e), r \in Remaining(e) : f = Moved(e, z, r)
         \/ /\ e.known /\ e.seen
            /\ \E z \in LateSteps(e) : f = Moved(e, z, [hot |-> 0, late |-> e.late - 1])
BY DEF Ticked

\* A step leaves y within the span, and no more ticks than there may be.
LEMMA MovedIsEntry ==
  ASSUME NEW e \in Entry, NEW z \in 0 .. Span, NEW r,
         r.hot \in 0 .. Window, r.late \in 0 .. LateTicks
  PROVE  Moved(e, z, r) \in Entry /\ Moved(e, z, r).y = z
<1>1. TRUE \in BOOLEAN
  OBVIOUS
<1>2. Moved(e, z, r) \in Entry
  BY <1>1, Zenon DEF Moved, Entry
<1>3. Moved(e, z, r).y = z
  BY DEF Moved, Entry
<1> QED BY <1>2, <1>3

LEMMA TickedIsEntry ==
  ASSUME NEW e \in Entry, NEW f \in Ticked(e)
  PROVE  f \in Entry
<1>0. Window \in Nat /\ LateTicks \in Nat /\ e.hot \in 0 .. Window /\ e.late \in 0 .. LateTicks
  BY WindowAssumption DEF Entry
<1>1. [e EXCEPT !.ticked = TRUE] \in Entry
  <2>1. TRUE \in BOOLEAN
    OBVIOUS
  <2> QED BY <2>1, Zenon DEF Entry
<1>2. ASSUME NEW z \in Steps(e), NEW r \in Remaining(e)
      PROVE  Moved(e, z, r) \in Entry
  <2>1. r.hot \in 0 .. Window /\ r.late \in 0 .. LateTicks
    BY <1>0 DEF Remaining, Remains
  <2> QED BY <2>1, StepsInSpan, MovedIsEntry
<1>3. ASSUME NEW z \in LateSteps(e)
      PROVE  Moved(e, z, [hot |-> 0, late |-> e.late - 1]) \in Entry
  <2>1. e.late > 0
    BY <1>3 DEF LateSteps
  <2>2. 0 \in 0 .. Window /\ e.late - 1 \in 0 .. LateTicks
    BY <1>0, <2>1
  <2>3. [hot |-> 0, late |-> e.late - 1].hot = 0
        /\ [hot |-> 0, late |-> e.late - 1].late = e.late - 1
    OBVIOUS
  <2> QED BY <2>2, <2>3, StepsInSpan, MovedIsEntry
<1> QED BY <1>1, <1>2, <1>3, TickedForms

\* A tick raises the mean of an EWM that is active, and of no other.
LEMMA TickedFollows ==
  ASSUME NEW e \in Entry, NEW f \in Ticked(e)
  PROVE  /\ ~MayRise(e) => f.y <= e.y
         /\ e.held \/ e.hot > 1 => e.y <= f.y
<1>1. e.y \in 0 .. Span /\ e.hot \in 0 .. Window /\ Span \in Nat /\ Window \in Nat
      /\ e.late \in 0 .. LateTicks /\ LateTicks \in Nat
  BY SpanIsNat, WindowAssumption DEF Entry
<1>2. CASE f = e \/ f = [e EXCEPT !.ticked = TRUE]
  <2>1. f.y = e.y
    BY <1>2 DEF Entry
  <2> QED BY <1>1, <2>1
<1>3. ASSUME e.seen, NEW z \in Steps(e)
      PROVE  (~MayRise(e) => z <= e.y) /\ (e.held \/ e.hot > 1 => e.y <= z)
  <2>1. CASE ~e.ticked
    BY <1>1, <1>3, <2>1 DEF Steps
  <2>2. CASE e.ticked /\ (e.held \/ e.hot > 1)
    BY <1>1, <1>3, <2>2, RisingFalling DEF Steps, MayRise
  <2>3. CASE e.ticked /\ ~e.held /\ ~(e.hot > 1)
    <3>1. e.hot = 1 \/ e.hot = 0
      BY <1>1, <2>3
    <3> QED BY <1>1, <1>3, <2>3, <3>1, RisingFalling DEF Steps, MayRise
  <2> QED BY <2>1, <2>2, <2>3
<1>4. ASSUME NEW z \in Steps(e), NEW r \in Remaining(e), f = Moved(e, z, r)
      PROVE  f.y = z
  BY <1>4 DEF Moved, Entry
<1>5. ASSUME e.seen, NEW z \in LateSteps(e)
      PROVE  MayRise(e) /\ ~e.held /\ ~(e.hot > 1)
  BY <1>1, <1>5 DEF LateSteps, MayRise
<1>6. \/ f = e \/ f = [e EXCEPT !.ticked = TRUE]
      \/ e.seen /\ \E z \in Steps(e), r \in Remaining(e) : f = Moved(e, z, r)
      \/ e.seen /\ \E z \in LateSteps(e) : TRUE
  BY TickedForms
<1> QED BY <1>2, <1>3, <1>4, <1>5, <1>6

------------------------------------------------------------------------------
(* The rate *)

\* Some device has the highest y, or all are at the minimum.
LEMMA TargetTop ==
  ASSUME NEW es \in Ewms
  PROVE  \E c \in 0 .. Span :
           /\ Target(es) = MinFps + c
           /\ c = 0 \/ \E d \in Devices : es[d].y = c
           /\ \A d \in Devices : es[d].y <= c
<1> DEFINE IsTop(y) == /\ y = 0 \/ \E d \in Devices : es[d].y = y
                       /\ \A d \in Devices : es[d].y <= y
           S == {y \in 0 .. Span : \A d \in Devices : es[d].y <= y}
<1>1. \A d \in Devices : es[d].y \in 0 .. Span
  BY DEF Ewms, Entry
<1>2. S \in SUBSET Nat /\ Span \in S
  BY <1>1, SpanIsNat
<1>3. PICK top \in S : \A y \in S : top <= y
  <2> HIDE DEF S
  <2> QED BY <1>2, UnitAssumption, FpsAssumption, Loop!LeastElement
<1>4. top \in 0 .. Span /\ \A d \in Devices : es[d].y <= top
  BY <1>3
<1>5. top = 0 \/ \E d \in Devices : es[d].y = top
  <2> SUFFICES ASSUME top # 0, \A d \in Devices : es[d].y # top PROVE FALSE
    OBVIOUS
  <2>1. top - 1 \in 0 .. Span
    BY <1>4, SpanIsNat
  <2>2. \A d \in Devices : es[d].y <= top - 1
    BY <1>1, <1>4, SpanIsNat
  <2>3. top - 1 \in S
    BY <2>1, <2>2
  <2> QED BY <1>3, <1>4, <2>3
<1>6. \E y \in 0 .. Span : IsTop(y)
  BY <1>4, <1>5
<1> DEFINE c == CHOOSE y \in 0 .. Span : IsTop(y)
<1>7. c \in 0 .. Span /\ IsTop(c)
  <2> HIDE DEF IsTop
  <2> QED BY <1>6
<1>8. Target(es) = MinFps + c
  BY DEF Target
<1> HIDE DEF c
<1> QED BY <1>7, <1>8

LEMMA TargetInRange ==
  ASSUME NEW es \in Ewms
  PROVE  Target(es) \in Fps
BY TargetTop, FpsAssumption DEF Fps, Span

\* The target falls only if a device that has the highest y does.
LEMMA TargetFollows ==
  ASSUME NEW es \in Ewms, NEW fs \in Ewms,
         \A d \in Devices : Top(es, d) => es[d].y <= fs[d].y
  PROVE  Target(es) <= Target(fs)
<1>1. PICK c \in 0 .. Span :
        /\ Target(es) = MinFps + c
        /\ c = 0 \/ \E d \in Devices : es[d].y = c
        /\ \A d \in Devices : es[d].y <= c
  BY TargetTop
<1>2. PICK k \in 0 .. Span :
        /\ Target(fs) = MinFps + k
        /\ \A d \in Devices : fs[d].y <= k
  BY TargetTop
<1>3. \A d \in Devices : es[d].y \in 0 .. Span /\ fs[d].y \in 0 .. Span
  BY DEF Ewms, Entry
<1>4. c <= k
  <2>1. CASE c = 0
    BY <2>1, SpanIsNat
  <2>2. ASSUME NEW d \in Devices, es[d].y = c PROVE c <= k
    <3>1. Top(es, d)
      BY <1>1, <2>2 DEF Top
    <3> QED BY <1>2, <1>3, <2>2, <3>1
  <2> QED BY <1>1, <2>1, <2>2
<1> QED BY <1>1, <1>2, <1>4, SpanIsNat

LEMMA RateInRange ==
  ASSUME NEW es \in Ewms
  PROVE  Rate(es) \in Fps
<1>1. CASE Snap
  <2>1. MaxFps \in Nat \ {0} /\ MinFps \in 0 .. MaxFps
    BY FpsAssumption
  <2>2. Snapped(MaxFps, MinFps, Unit * Target(es)) \in MinFps .. MaxFps
    <3>1. \A t : Loop!Snapped(MaxFps, MinFps, t) \in MinFps .. MaxFps
      BY <2>1, UnitAssumption, Loop!SnappedInRange
    <3>2. \A t : Loop!Snapped(MaxFps, MinFps, t) = Snapped(MaxFps, MinFps, t)
      BY DEF Snapped, StopsAt, Divider, Distance,
             Loop!Snapped, Loop!StopsAt, Loop!Divider, Loop!Distance
    <3> QED BY <3>1, <3>2
  <2> QED BY <1>1, <2>2 DEF Rate, Fps
<1>2. CASE ~Snap
  BY <1>2, TargetInRange DEF Rate
<1> QED BY <1>1, <1>2

\* What snap_to_divider returns does not fall when its target rises.
LEMMA RateMonotone ==
  ASSUME NEW es \in Ewms, NEW fs \in Ewms, Target(es) <= Target(fs)
  PROVE  Rate(es) <= Rate(fs)
<1>1. CASE Snap
  <2>1. Target(es) \in Int /\ Target(fs) \in Int /\ Unit \in Nat
    BY TargetInRange, FpsAssumption, UnitAssumption DEF Fps
  <2>2. /\ Unit * Target(es) \in Int /\ Unit * Target(fs) \in Int
        /\ Unit * Target(es) <= Unit * Target(fs)
    BY <2>1, Z3
  <2>3. MaxFps \in Nat \ {0}
    BY FpsAssumption
  <2>4. \A t \in Int, u \in Int : t <= u =>
          Loop!Snapped(MaxFps, MinFps, t) <= Loop!Snapped(MaxFps, MinFps, u)
    BY <2>3, UnitAssumption, Loop!SnappedMonotone
  <2>5. \A t : Loop!Snapped(MaxFps, MinFps, t) = Snapped(MaxFps, MinFps, t)
    BY DEF Snapped, StopsAt, Divider, Distance,
           Loop!Snapped, Loop!StopsAt, Loop!Divider, Loop!Distance
  <2>6. Snapped(MaxFps, MinFps, Unit * Target(es)) <= Snapped(MaxFps, MinFps, Unit * Target(fs))
    BY <2>2, <2>4, <2>5
  <2> QED BY <1>1, <2>6 DEF Rate
<1>2. CASE ~Snap
  BY <1>2 DEF Rate
<1> QED BY <1>1, <1>2

\* What an event changes of an EWM leaves the rate alone until the next tick.
LEMMA SameRate ==
  ASSUME NEW es \in Ewms, NEW fs \in Ewms, \A d \in Devices : fs[d].y = es[d].y
  PROVE  Rate(fs) = Rate(es)
<1>1. \A d \in Devices : es[d].y \in Int /\ fs[d].y \in Int
  BY SpanIsNat DEF Ewms, Entry
<1>2. Target(es) <= Target(fs) /\ Target(fs) <= Target(es)
  BY <1>1, TargetFollows
<1>3. Rate(es) <= Rate(fs) /\ Rate(fs) <= Rate(es)
  BY <1>2, RateMonotone
<1>4. Rate(es) \in Int /\ Rate(fs) \in Int
  BY RateInRange, SpanIsNat DEF Fps
<1> QED BY <1>3, <1>4

------------------------------------------------------------------------------
(* The invariant *)

LEMMA NewEwmIsEntry == NewEwm \in Entry /\ NoEwms \in Ewms
<1>1. NewEwm \in Entry
  <2>1. 0 \in 0 .. Window /\ 0 \in 0 .. LateTicks /\ 0 \in 0 .. Span
    BY WindowAssumption, SpanIsNat
  <2>2. FALSE \in BOOLEAN
    OBVIOUS
  <2> QED BY <2>1, <2>2, Zenon DEF NewEwm, Entry
<1> QED BY <1>1 DEF NoEwms, Ewms

LEMMA InitIInv == Init => IInv
BY NewEwmIsEntry DEF Init, IInv, TypeOK, InSync, RateKnown, Ewms, NoEwms

LEMMA RegisterKeeps ==
  ASSUME IInv, NEW s \in Subs, Register(s)
  PROVE  IInv'
<1>1. TypeOK'
  BY NewEwmIsEntry DEF IInv, TypeOK, Register, env, Ewms
<1>2. InSync'
  BY DEF IInv, TypeOK, InSync, Register
<1>3. RateKnown'
  BY DEF IInv, TypeOK, RateKnown, Register
<1> QED BY <1>1, <1>2, <1>3 DEF IInv

LEMMA DropHandleKeeps ==
  ASSUME IInv, NEW s \in Subs, DropHandle(s)
  PROVE  IInv'
<1>1. TypeOK' /\ InSync'
  BY NewEwmIsEntry DEF IInv, TypeOK, InSync, DropHandle, Remove, env, Ewms
<1>2. RateKnown'
  BY DEF IInv, TypeOK, RateKnown, DropHandle, Remove
<1> QED BY <1>1, <1>2 DEF IInv

LEMMA WaitingKeeps ==
  ASSUME IInv, NEW s \in Subs, LatePoll(s) \/ SubscriberGone(s)
  PROVE  IInv'
BY DEF IInv, TypeOK, InSync, RateKnown, LatePoll, SubscriberGone, table, env

\* A tick of a subscriber: its EWMs, and the rate of what they have become.
LEMMA ComputeTicks ==
  ASSUME IInv, NEW s \in Subs, Compute(s)
  PROVE  \E es \in Ewms :
           /\ \A d \in Devices : es[d] \in Ticked(ewm[s][d])
           /\ ewm' = [ewm EXCEPT ![s] = es]
           /\ lastSent' = [lastSent EXCEPT ![s] = Rate(es)]
           /\ pc' = [pc EXCEPT ![s] = IF Rate(es) = lastSent[s] THEN "ticking" ELSE "sending"]
<1>1. PICK es \in [Devices -> UNION {Ticked(ewm[s][d]) : d \in Devices}] :
        /\ \A d \in Devices : es[d] \in Ticked(ewm[s][d])
        /\ ewm' = [ewm EXCEPT ![s] = es]
        /\ lastSent' = [lastSent EXCEPT ![s] = Rate(es)]
        /\ pc' = [pc EXCEPT ![s] = IF Rate(es) = lastSent[s] THEN "ticking" ELSE "sending"]
  BY DEF Compute
<1>2. \A d \in Devices : ewm[s][d] \in Entry
  BY DEF IInv, TypeOK
<1>3. \A d \in Devices : es[d] \in Entry
  BY <1>1, <1>2, TickedIsEntry
<1>4. es \in Ewms
  BY <1>3 DEF Ewms
<1> QED BY <1>1, <1>4

\* A rate equal to the last one is the client's rate already.
LEMMA ComputeKeeps ==
  ASSUME IInv, NEW s \in Subs, Compute(s)
  PROVE  IInv'
<1>1. PICK es \in Ewms :
        /\ \A d \in Devices : es[d] \in Ticked(ewm[s][d])
        /\ ewm' = [ewm EXCEPT ![s] = es]
        /\ lastSent' = [lastSent EXCEPT ![s] = Rate(es)]
        /\ pc' = [pc EXCEPT ![s] = IF Rate(es) = lastSent[s] THEN "ticking" ELSE "sending"]
  BY ComputeTicks
<1>2. Rate(es) \in Fps
  BY RateInRange
<1>3. UNCHANGED <<handles, subs, cancelled, limit, env>> /\ pc[s] # "sending" /\ ~cancelled
      /\ s \in subs
  BY DEF Compute
<1> HIDE DEF Compute
<1>4. TypeOK'
  BY <1>1, <1>2, <1>3 DEF IInv, TypeOK, env, Ewms, Fps
<1>5. InSync'
  BY <1>1, <1>3 DEF IInv, TypeOK, InSync
<1>6. RateKnown'
  BY <1>1, <1>3 DEF IInv, TypeOK, RateKnown
<1> QED BY <1>4, <1>5, <1>6 DEF IInv

LEMMA DeliveredKeeps ==
  ASSUME IInv, NEW s \in Subs, Delivered(s)
  PROVE  IInv'
BY DEF IInv, TypeOK, InSync, RateKnown, Delivered, table, env

\* A client that may have missed a rate is no longer in the table.
LEMMA FailedSendKeeps ==
  ASSUME IInv, NEW s \in Subs, SendFails(s)
  PROVE  IInv'
<1>1. TypeOK' /\ InSync'
  BY NewEwmIsEntry DEF IInv, TypeOK, InSync, SendFails, Remove, env, Ewms
<1>2. RateKnown'
  BY DEF IInv, TypeOK, RateKnown, SendFails, Remove
<1> QED BY <1>1, <1>2 DEF IInv

LEMMA LoopCancelledKeeps ==
  ASSUME IInv, NEW s \in Subs, LoopCancelled(s)
  PROVE  IInv'
BY DEF IInv, TypeOK, InSync, RateKnown, LoopCancelled, table, env

LEMMA FedIsEntry ==
  ASSUME NEW e \in Entry, NEW fresh \in BOOLEAN, NEW held \in BOOLEAN, NEW r \in Remains
  PROVE  Fed(e, fresh, held, r) \in Entry /\ Fed(e, fresh, held, r).y = e.y
<1>1. TRUE \in BOOLEAN /\ (e.seen \/ fresh) \in BOOLEAN /\ held \in BOOLEAN
  OBVIOUS
<1>2. /\ (IF fresh THEN r.hot ELSE e.hot) \in 0 .. Window
      /\ (IF fresh THEN r.late ELSE e.late) \in 0 .. LateTicks
  BY DEF Entry, Remains
<1>3. Fed(e, fresh, held, r) \in Entry
  BY <1>1, <1>2, Zenon DEF Fed, Entry
<1>4. Fed(e, fresh, held, r).y = e.y
  BY DEF Fed, Entry
<1> QED BY <1>3, <1>4

LEMMA FeedKeeps ==
  ASSUME IInv, NEW d \in Devices, Feed(d)
  PROVE  IInv'
<1>1. PICK fresh \in BOOLEAN, held \in BOOLEAN, r \in Remains :
        /\ fresh \/ r.hot + r.late = 0
        /\ down' = IF held THEN down \union {d} ELSE down \ {d}
        /\ ewm' = [s \in Subs |->
             IF s \notin subs THEN ewm[s]
             ELSE [ewm[s] EXCEPT ![d] = Fed(ewm[s][d], fresh, held, r)]]
  BY DEF Feed
<1>2. UNCHANGED <<handles, subs, lastSent, pc, cancelled, limit, alive>> /\ d \in alive
  BY DEF Feed
<1>3. ASSUME NEW s \in Subs
      PROVE  ewm'[s] \in Ewms /\ \A c \in Devices : ewm'[s][c].y = ewm[s][c].y
  <2>1. ewm[s] \in Ewms /\ ewm[s][d] \in Entry
    BY DEF IInv, TypeOK, Ewms
  <2> DEFINE f == Fed(ewm[s][d], fresh, held, r)
  <2>2. f \in Entry /\ f.y = ewm[s][d].y
    BY <2>1, FedIsEntry
  <2>3. ewm'[s] = IF s \notin subs THEN ewm[s] ELSE [ewm[s] EXCEPT ![d] = f]
    BY <1>1
  <2> HIDE DEF f
  <2> QED BY <2>1, <2>2, <2>3 DEF Ewms
<1>4. ewm' \in [Subs -> Ewms]
  BY <1>1, <1>3
<1>5. TypeOK'
  BY <1>1, <1>2, <1>4 DEF IInv, TypeOK, Ewms
<1>6. InSync'
  BY <1>2 DEF IInv, InSync
<1>7. RateKnown'
  <2>1. \A s \in Subs : ewm[s] \in Ewms
    BY DEF IInv, TypeOK, Ewms
  <2>2. \A s \in Subs : Rate(ewm'[s]) = Rate(ewm[s])
    BY <1>3, <2>1, SameRate
  <2> QED BY <1>2, <2>2 DEF IInv, TypeOK, RateKnown
<1> QED BY <1>5, <1>6, <1>7 DEF IInv

LEMMA UnplugTerminateKeep ==
  ASSUME IInv, Terminate \/ \E d \in Devices : Unplug(d)
  PROVE  IInv'
BY DEF IInv, TypeOK, InSync, RateKnown, Unplug, Terminate, table, env

LEMMA NextKeepsIInv == IInv /\ [Next]_vars => IInv'
<1> SUFFICES ASSUME IInv, [Next]_vars PROVE IInv'
  OBVIOUS
<1>1. CASE \E s \in Subs : Register(s) \/ DropHandle(s) \/ TickLoop(s)
  BY <1>1, RegisterKeeps, DropHandleKeeps, WaitingKeeps, ComputeKeeps,
     DeliveredKeeps, FailedSendKeeps, LoopCancelledKeeps DEF TickLoop
<1>2. CASE \E d \in Devices : Feed(d)
  BY <1>2, FeedKeeps
<1>3. CASE Terminate \/ \E d \in Devices : Unplug(d)
  BY <1>3, UnplugTerminateKeep
<1>4. CASE UNCHANGED vars
  BY <1>4 DEF IInv, TypeOK, InSync, RateKnown, vars, table, env
<1> QED BY <1>1, <1>2, <1>3, <1>4 DEF Next

LEMMA Invariance == Spec => []IInv
BY InitIInv, NextKeepsIInv, PTL DEF Spec

\* TypeCorrect: the variables keep their types; a rate that is computed, sent
\* or applied is within the range its subscriber registered, snapped or not.
THEOREM TypeCorrect == Spec => []TypeOK
BY Invariance, PTL DEF IInv

\* InSyncAlways: outside of a send the limit of a client is last_sent_fps of its
\* subscriber, whatever was lost, dropped or computed in between.
THEOREM InSyncAlways == Spec => []InSync
BY Invariance, PTL DEF IInv

------------------------------------------------------------------------------
(* The direction of the rate *)

Follows(s) ==
  lastSent[s] # 0 =>
    /\ lastSent'[s] > lastSent[s] => \E d \in Devices : MayRise(ewm[s][d])
    /\ lastSent'[s] < lastSent[s] =>
         \E d \in Devices : Top(ewm[s], d) /\ ~ewm[s][d].held /\ ewm[s][d].hot <= 1

\* A tick: through each EWM, the highest of them, and the rounding.
LEMMA ComputeFollows ==
  ASSUME IInv, NEW s \in subs, Compute(s)
  PROVE  Follows(s)
<1> SUFFICES ASSUME lastSent[s] # 0
             PROVE  /\ lastSent'[s] > lastSent[s] => \E d \in Devices : MayRise(ewm[s][d])
                    /\ lastSent'[s] < lastSent[s] =>
                         \E d \in Devices :
                           Top(ewm[s], d) /\ ~ewm[s][d].held /\ ewm[s][d].hot <= 1
  BY DEF Follows
<1> DEFINE old == ewm[s]
<1>0. s \in Subs
  BY DEF IInv, TypeOK
<1>1. PICK es \in Ewms :
        /\ \A d \in Devices : es[d] \in Ticked(ewm[s][d])
        /\ lastSent' = [lastSent EXCEPT ![s] = Rate(es)]
  BY <1>0, ComputeTicks
<1>2. old \in Ewms /\ (\A d \in Devices : old[d] \in Entry) /\ lastSent[s] = Rate(old)
      /\ lastSent'[s] = Rate(es)
  BY <1>0, <1>1 DEF IInv, TypeOK, RateKnown, Ewms
<1>3. Rate(old) \in Int /\ Rate(es) \in Int
  BY <1>2, RateInRange, SpanIsNat DEF Fps
<1>4. \A d \in Devices : /\ ~MayRise(old[d]) => es[d].y <= old[d].y
                         /\ old[d].held \/ old[d].hot > 1 => old[d].y <= es[d].y
  BY <1>1, <1>2, TickedFollows
<1>5. \A d \in Devices : old[d].hot \in Nat
  BY <1>2, WindowAssumption DEF Entry
<1> HIDE DEF old
<1>6. ASSUME \A d \in Devices : ~MayRise(old[d])
      PROVE  ~(Rate(es) > Rate(old))
  <2>1. Target(es) <= Target(old)
    BY <1>2, <1>4, <1>6, TargetFollows
  <2> QED BY <1>2, <1>3, <2>1, RateMonotone
<1>7. ASSUME \A d \in Devices : Top(old, d) => old[d].held \/ ~(old[d].hot <= 1)
      PROVE  ~(Rate(es) < Rate(old))
  <2>1. \A d \in Devices : Top(old, d) => old[d].y <= es[d].y
    BY <1>4, <1>5, <1>7
  <2>2. Target(old) <= Target(es)
    BY <1>2, <2>1, TargetFollows
  <2> QED BY <1>2, <1>3, <2>2, RateMonotone
<1> QED BY <1>2, <1>6, <1>7 DEF old

\* RateFollowsAlways: a rate goes up only while a device is or was active, and
\* down only when a device that set it is no longer; it rests on RateKnown and
\* on snap_to_divider being monotone in its target.
THEOREM RateFollowsAlways == Spec => RateFollows
<1>1. ASSUME IInv, [Next]_vars, NEW s \in subs
      PROVE  Follows(s)
  <2>0. s \in Subs /\ lastSent \in [Subs -> {0} \union MinFps .. MaxFps]
        /\ lastSent[s] \in Int
    BY <1>1, FpsAssumption DEF IInv, TypeOK
  <2>1. CASE Compute(s)
    BY <1>1, <2>1, ComputeFollows
  <2>2. CASE lastSent'[s] = lastSent[s]
    BY <2>0, <2>2 DEF Follows
  <2>3. ASSUME NEW t \in Subs, Register(t) \/ DropHandle(t) \/ TickLoop(t), ~Compute(s)
        PROVE  lastSent'[s] = lastSent[s]
    <3>1. CASE Register(t)
      BY <1>1, <2>0, <3>1 DEF Register
    <3>2. CASE Compute(t)
      <4>1. PICK es \in Ewms : lastSent' = [lastSent EXCEPT ![t] = Rate(es)]
        BY <1>1, <3>2, ComputeTicks
      <4>2. s # t
        BY <2>3, <3>2
      <4> QED BY <2>0, <4>1, <4>2
    <3> QED BY <2>3, <3>1, <3>2 DEF TickLoop, DropHandle, LatePoll, SubscriberGone,
                                    Delivered, SendFails, LoopCancelled, table
  <2>4. CASE UNCHANGED lastSent
    BY <2>2, <2>4
  <2> QED BY <1>1, <2>1, <2>2, <2>3, <2>4
          DEF Next, Feed, Unplug, Terminate, table, vars
<1>2. IInv /\ [Next]_vars =>
        [\A s \in subs : lastSent[s] # 0 =>
           /\ lastSent'[s] > lastSent[s] => \E d \in Devices : MayRise(ewm[s][d])
           /\ lastSent'[s] < lastSent[s] =>
                \E d \in Devices :
                  Top(ewm[s], d) /\ ~ewm[s][d].held /\ ewm[s][d].hot <= 1]_vars
  BY <1>1 DEF Follows
<1> QED BY <1>2, Invariance, PTL DEF Spec, RateFollows

=============================================================================
