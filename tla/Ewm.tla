--------------------------------- MODULE Ewm ----------------------------------
(****************************************************************************)
(* ewm.rs: the weighted mean that a subscriber keeps of a device, with the  *)
(* estimate of the device's resolution.  Times are microseconds.  y itself  *)
(* is left out: what a tick does to it is how long it attacks and how long  *)
(* it then releases, and attacks (releases) that follow one another add up. *)
(* FpsLimiter.tla uses an entry that only knows the direction of the move.  *)
(****************************************************************************)
EXTENDS Integers, Sequences, FiniteSets

CONSTANTS
  Cap,          \* RESOLUTION_BUF_CAP
  MinSamples,   \* RESOLUTION_MIN_SAMPLES
  Fraction,     \* the 10 of p10
  Window,       \* RESOLUTION_WINDOW_US
  MaxTime       \* bound on the clock

ASSUME CapAssumption == Cap \in Nat /\ MinSamples \in Nat \ {0} /\ MinSamples < Cap
ASSUME FractionAssumption == Fraction \in Nat \ {0, 1}
ASSUME TimeAssumption == Window \in Nat \ {0} /\ MaxTime \in Nat

VARIABLES
  buf,       \* the estimator's buffer
  last,      \* last_event_us
  tick,      \* last_tick_us
  held,      \* active_indefinitely
  pending,   \* pending_events
  move,      \* what the last tick did to y
  now,       \* the clock
  log        \* history: the timestamps that were taken, oldest first

vars == <<buf, last, tick, held, pending, move, now, log>>

Never == -1    \* i64::MIN
Time == 0 .. MaxTime
Still == [up |-> 0, down |-> 0]

TypeOK ==
  /\ buf \in Seq(Time) /\ Len(buf) <= Cap
  /\ last \in Time \union {Never} /\ tick \in Time \union {Never}
  /\ held \in BOOLEAN
  /\ pending \in 0 .. Len(log)
  /\ move \in [up : 0 .. MaxTime + 1, down : 0 .. MaxTime + 1]
  /\ now \in Time
  /\ log \in Seq(Time)

Init ==
  /\ buf = <<>> /\ last = Never /\ tick = Never /\ held = FALSE
  /\ pending = 0 /\ move = Still /\ now = 0 /\ log = <<>>

Least(a, b) == IF a <= b THEN a ELSE b
Most(a, b) == IF a >= b THEN a ELSE b

------------------------------------------------------------------------------
(* Plausible faults, each a variant of one definition below that a property *)
(* of this module notices.                                                   *)

RoomForOld(old, new) == old \o SubSeq(new, Most(0, Len(old) + Len(new) - Cap) + 1, Len(new))

InputResOfTick(dt) == Most(dt, 1)

MoveUnsplit(prev, at) ==
  IF at <= last + 2 * Most(at - prev, 1) \/ held
  THEN [up |-> at - prev, down |-> 0]
  ELSE [up |-> 0, down |-> at - prev]

------------------------------------------------------------------------------
(* ResolutionEstimator *)

\* An increasing sequence from the first time at or after the cutoff on.
Since(s, cutoff) ==
  LET old == CHOOSE n \in 0 .. Len(s) :
               /\ \A i \in 1 .. n : s[i] < cutoff
               /\ n < Len(s) => s[n + 1] >= cutoff
  IN  SubSeq(s, old + 1, Len(s))

\* The oldest make room: those of the buffer, then those of the batch.
Room(old, new) ==
  LET excess == Most(0, Len(old) + Len(new) - Cap)
      drained == Least(excess, Len(old))
  IN  SubSeq(old, drained + 1, Len(old)) \o SubSeq(new, excess - drained + 1, Len(new))

PushEvents(ts) ==
  LET cutoff == ts[Len(ts)] - Window
  IN  Room(Since(buf, cutoff), Since(ts, cutoff))

Deltas == [i \in 1 .. Len(buf) - 1 |-> buf[i + 1] - buf[i]]

Known == Len(buf) > MinSamples

\* The delta with k smaller ones in sorted order, k a tenth of their number.
P10 ==
  LET k == (Len(buf) - 1) \div Fraction
      Below(d) == {i \in DOMAIN Deltas : Deltas[i] < d}
      UpTo(d) == {i \in DOMAIN Deltas : Deltas[i] <= d}
  IN  CHOOSE d \in {Deltas[i] : i \in DOMAIN Deltas} :
        Cardinality(Below(d)) <= k /\ k < Cardinality(UpTo(d))

------------------------------------------------------------------------------
(* DeviceEwm *)

Increasing(s) == \A i, j \in 1 .. Len(s) : i < j => s[i] < s[j]

\* feed_events: observe_batch, which skips what it has seen before at the
\* head of the batch, and active_indefinitely.
Feed(ts, active) ==
  LET from == Since(ts, last + 1)
  IN  /\ ts \in Seq(Time) /\ Increasing(ts)
      /\ IF from = <<>> THEN UNCHANGED <<buf, last, pending, log>>
         ELSE /\ buf' = PushEvents(from)
              /\ last' = from[Len(from)]
              /\ pending' = pending + Len(from)
              /\ log' = log \o from
      /\ held' = active
      /\ UNCHANGED <<tick, move, now>>

\* Without a resolution the tick's own length stands in for it.
InputRes(dt) == IF Known THEN P10 ELSE Most(dt, 1)

\* The move of y in a tick at a time after the one at prev.
Move(prev, at) ==
  LET dt == Most(at - prev, 1)
      transition == last + 2 * InputRes(dt)
  IN  CASE at <= transition \/ held -> [up |-> dt, down |-> 0]
        [] at > transition /\ ~held /\ prev >= transition -> [up |-> 0, down |-> dt]
        [] OTHER -> [up |-> transition - prev, down |-> at - transition]

\* compute_fps: nothing moves before the first event and in the first tick.
ComputeFps ==
  /\ pending' = 0
  /\ tick' = now
  /\ move' = IF last = Never \/ tick = Never THEN Still ELSE Move(tick, now)
  /\ UNCHANGED <<buf, last, held, now, log>>

------------------------------------------------------------------------------
Advance ==
  /\ now < MaxTime
  /\ now' = now + 1
  /\ UNCHANGED <<buf, last, tick, held, pending, move, log>>

\* What follows is what the callers do: batches of times that have come, and
\* ticks that do not share a microsecond.  The timestamps of a set, oldest first.
Sorted(S) == SelectSeq([i \in 1 .. now |-> i], LAMBDA t : t \in S)

Next ==
  \/ \E S \in SUBSET (Most(last, 1) .. now), active \in BOOLEAN : Feed(Sorted(S), active)
  \/ tick < now /\ ComputeFps
  \/ Advance

Spec == Init /\ [][Next]_vars

------------------------------------------------------------------------------
(* Properties *)

\* The buffer holds the newest of the timestamps, in order, whatever batches
\* they came in: at most Cap of them, none older than Window, and all that the
\* two bounds allow.
Windowed ==
  LET n == Len(log) - Len(buf)
  IN  /\ Len(buf) <= Cap /\ n >= 0 /\ Increasing(log)
      /\ \A i \in 1 .. Len(buf) : buf[i] = log[n + i] /\ buf[i] >= last - Window
      /\ n > 0 => Len(buf) = Cap \/ log[n] < last - Window

\* "Split the tick interval at the hold->idle transition so that the we are
\* independent of tick frequency" (ewm.rs:166): two ticks move y as the one
\* that spans them does, wherever the first falls.  Without a resolution that
\* is true of a held device only, whose moves need none.
TickIndependent ==
  (Known \/ held) /\ last # Never /\ tick # Never =>
    \A mid, at \in tick + 1 .. MaxTime :
      mid < at =>
        LET a == Move(tick, mid)
            b == Move(mid, at)
        IN  /\ a.down = 0 \/ b.up = 0
            /\ Move(tick, at) = [up |-> a.up + b.up, down |-> a.down + b.down]

\* A mean that has begun to release goes on until the next event or a press,
\* however late a tick is, once the resolution is known.
IdleFalls ==
  [][tick' # tick /\ pending = 0 /\ move.down > 0 /\ Known /\ ~held => move'.up = 0]_vars

==============================================================================
