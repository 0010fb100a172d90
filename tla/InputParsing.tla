---------------------------- MODULE InputParsing -----------------------------
(****************************************************************************)
(* What a watcher makes of the bytes of an evdev node: input_parsing.rs     *)
(* (process_event_specialized, Buttons, Axes), scratch.rs (the buffer a     *)
(* read fills, and its growth) and ewm.rs, DeviceEwm::observe_batch (the    *)
(* timestamps that count).  The kernel queues whole packets, all events of  *)
(* one with the same timestamp; a read may end in the middle of one.        *)
(*                                                                          *)
(* Axis positions are distances from the midpoint: below, at and above the  *)
(* deadzone are all the code tells apart.                                   *)
(****************************************************************************)
EXTENDS Integers, Sequences, SequencesExt

CONSTANTS
  Keys,         \* key codes of the device
  KernelCap,    \* events the kernel queues for one open file
  InitialLen,   \* SCRATCH_INITIAL_SIZE
  MaxTime       \* bound on the kernel's clock

ASSUME BoundsAssumption ==
  /\ KernelCap \in Nat \ {0, 1}     \* SYN_DROPPED and an event behind it
  /\ InitialLen \in 1 .. KernelCap
  /\ MaxTime \in Nat

Deadzone == 1
Positions == 0 .. 2

VARIABLES
  queue,        \* events in the kernel, not read yet
  now,          \* timestamp of the newest packet
  keysDown,     \* the device: keys that are down
  position,     \* the device: where the axis is
  isPointer,    \* INPUT_PROP_POINTER or INPUT_PROP_DIRECT
  scratchLen,   \* length of both buffers of the Scratch
  pressed,      \* Buttons.pressed
  lastValue,    \* Axes.last_values, -1 for i32::MIN
  overflowed,   \* ... and the flags of the last BatchOutcome
  active,
  resolution,   \* timestamps pushed to the EWM so far; last_event_us is the last
  lost,         \* history: the kernel has dropped events
  heard,        \* history: keys that went up or down since the node was opened
  axisHeard,    \* history: the axis has moved since the node was opened
  moved,        \* history: timestamps of packets with activity anywhere
  masked        \* history: timestamps whose first event is no activity

kernel == <<now, keysDown, position, isPointer, lost, heard, axisHeard, moved, masked>>
watcher == <<scratchLen, pressed, lastValue, overflowed, active, resolution>>
vars == <<queue, kernel, watcher>>

Time == 1 .. MaxTime
Event ==
  [ts : Time, type : {"key"}, code : Keys, value : 0 .. 2] \union
  [ts : Time, type : {"syn", "dropped", "msc", "abs", "rel"}, code : {0}, value : 0 .. 2]

TypeOK ==
  /\ queue \in Seq(Event) /\ Len(queue) <= KernelCap
  /\ now \in 0 .. MaxTime
  /\ keysDown \subseteq Keys
  /\ position \in Positions
  /\ isPointer \in BOOLEAN
  /\ scratchLen \in 1 .. 2 * KernelCap    \* outgrows the kernel's queue once
  /\ pressed \subseteq Keys
  /\ lastValue \in {-1} \union Positions
  /\ overflowed \in BOOLEAN /\ active \in BOOLEAN
  /\ resolution \in Seq(Time)
  /\ lost \in BOOLEAN
  /\ heard \subseteq Keys /\ axisHeard \in BOOLEAN
  /\ moved \subseteq Time /\ masked \subseteq Time

\* Keys may be down, and the axis away from its midpoint, before the open.
Init ==
  /\ queue = <<>> /\ now = 0
  /\ keysDown \in SUBSET Keys
  /\ position \in Positions
  /\ isPointer \in BOOLEAN
  /\ scratchLen = InitialLen
  /\ pressed = {} /\ lastValue = -1
  /\ overflowed = FALSE /\ active = FALSE
  /\ resolution = <<>>
  /\ lost = FALSE /\ heard = {} /\ axisHeard = FALSE
  /\ moved = {} /\ masked = {}

------------------------------------------------------------------------------
(* Plausible faults, each a variant of one definition below that a property *)
(* of this module notices.                                                   *)

KeyKeptCountsRepeat(value) == TRUE
PressedAfterStuck(p, ev) == IF ev.value = 1 THEN p \union {ev.code} ELSE p
GrownAlways(len, n) == 2 * len
FreshFromAny(ts, last) == ts

------------------------------------------------------------------------------
(* The kernel *)

Syn(t) == [ts |-> t, type |-> "syn", code |-> 0, value |-> 0]
Dropped(t) == [ts |-> t, type |-> "dropped", code |-> 0, value |-> 0]
Msc(t) == [ts |-> t, type |-> "msc", code |-> 0, value |-> 0]
Rel(t) == [ts |-> t, type |-> "rel", code |-> 0, value |-> 1]
Abs(t, pos) == [ts |-> t, type |-> "abs", code |-> 0, value |-> pos]
Key(t, k, value) == [ts |-> t, type |-> "key", code |-> k, value |-> value]

\* The user did something: the event is no key repeat, and it is not a move of
\* the axis within the deadzone.
IsActivity(ev) ==
  \/ ev.type = "rel"
  \/ ev.type = "key" /\ ev.value # 2
  \/ ev.type = "abs" /\ ev.value >= Deadzone

\* The kernel queues a packet.  Without room it drops what it holds and leaves
\* SYN_DROPPED with the rest of the packet.
Queue(packet, t) ==
  /\ now' = t
  /\ moved' = IF \E i \in DOMAIN packet : IsActivity(packet[i])
              THEN moved \union {t} ELSE moved
  /\ masked' = IF t > now /\ ~IsActivity(packet[1]) THEN masked \union {t} ELSE masked
  /\ IF Len(queue) + Len(packet) <= KernelCap
     THEN /\ queue' = queue \o packet
          /\ UNCHANGED lost
     ELSE /\ queue' = <<Dropped(t), Last(packet)>>
          /\ lost' = TRUE
  /\ UNCHANGED <<watcher, isPointer>>

NextTime == {t \in Time : t \in {now, now + 1}}

\* A key goes up or down: mice and keyboards send its scan code first, pads do
\* not, and a trigger of a pad moves its axis in the same packet.
PressOrRelease(k) ==
  \E t \in NextTime :
    LET key == Key(t, k, IF k \in keysDown THEN 0 ELSE 1)
    IN  /\ keysDown' = IF k \in keysDown THEN keysDown \ {k} ELSE keysDown \union {k}
        /\ heard' = heard \union {k}
        /\ \/ Queue(<<Msc(t), key, Syn(t)>>, t) /\ UNCHANGED <<position, axisHeard>>
           \/ Queue(<<key, Syn(t)>>, t) /\ UNCHANGED <<position, axisHeard>>
           \/ \E pos \in Positions \ {position} :
                /\ Queue(<<Abs(t, pos), key, Syn(t)>>, t)
                /\ position' = pos /\ axisHeard' = TRUE

Repeat(k) ==
  /\ k \in keysDown
  /\ \E t \in NextTime : Queue(<<Key(t, k, 2), Syn(t)>>, t)
  /\ UNCHANGED <<keysDown, position, heard, axisHeard>>

MoveAxis ==
  /\ \E t \in NextTime, pos \in Positions \ {position} :
       /\ Queue(<<Abs(t, pos), Syn(t)>>, t)
       /\ position' = pos
  /\ axisHeard' = TRUE
  /\ UNCHANGED <<keysDown, heard>>

MovePointer ==
  /\ \E t \in NextTime : Queue(<<Rel(t), Syn(t)>>, t)
  /\ UNCHANGED <<keysDown, position, heard, axisHeard>>

------------------------------------------------------------------------------
(* One read and its processing: no await point in between *)

\* Buttons::update reports a key that goes down or up, not one that repeats.
KeyKept(value) == value # 2
PressedAfter(p, ev) ==
  CASE ev.value = 1 -> p \union {ev.code}
    [] ev.value = 0 -> p \ {ev.code}
    [] OTHER -> p

Keeps(ev) ==
  CASE ev.type \in {"syn", "dropped", "msc"} -> FALSE
    [] ev.type = "abs" -> ev.value >= Deadzone
    [] ev.type = "key" -> KeyKept(ev.value)
    [] OTHER -> TRUE

\* process_event_specialized: prev_ts_us follows every event, kept or not.
Processed(acc, ev) ==
  [pressed |-> IF ev.type = "key" THEN PressedAfter(acc.pressed, ev) ELSE acc.pressed,
   lastValue |-> IF ev.type = "abs" THEN ev.value ELSE acc.lastValue,
   overflowed |-> acc.overflowed \/ ev.type = "dropped",
   prevTs |-> ev.ts,
   timestamps |-> IF Keeps(ev) /\ ev.ts # acc.prevTs
                  THEN Append(acc.timestamps, ev.ts) ELSE acc.timestamps]

\* What process_batch has after each event, from what it starts with.
Outcomes(start, events) ==
  LET after[i \in 0 .. Len(events)] ==
        IF i = 0 THEN start ELSE Processed(after[i - 1], events[i])
  IN  after

BatchStart ==
  [pressed |-> pressed, lastValue |-> lastValue, overflowed |-> FALSE,
   prevTs |-> -1, timestamps |-> <<>>]

Batch(events) == Outcomes(BatchStart, events)[Len(events)]

ActiveIndefinitely(p, value) == p # {} \/ (~isPointer /\ value > Deadzone)

\* record_read: a read that fills the buffer doubles it.
Grown(len, n) == IF n = len THEN 2 * len ELSE len

\* observe_batch: from the first timestamp after last_event_us on.
Fresh(ts, last) ==
  LET newer == {i \in DOMAIN ts : ts[i] > last}
  IN  IF newer = {} THEN <<>>
      ELSE SubSeq(ts, CHOOSE i \in newer : \A j \in newer : i <= j, Len(ts))

LastEvent == IF resolution = <<>> THEN 0 ELSE Last(resolution)

Read ==
  LET n == IF Len(queue) < scratchLen THEN Len(queue) ELSE scratchLen
      outcome == Batch(SubSeq(queue, 1, n))
  IN  /\ queue # <<>>
      /\ queue' = SubSeq(queue, n + 1, Len(queue))
      /\ scratchLen' = Grown(scratchLen, n)
      /\ pressed' = outcome.pressed
      /\ lastValue' = outcome.lastValue
      /\ overflowed' = outcome.overflowed
      /\ active' = ActiveIndefinitely(outcome.pressed, outcome.lastValue)
      /\ resolution' = resolution \o Fresh(outcome.timestamps, LastEvent)
      /\ UNCHANGED kernel

Next ==
  \/ \E k \in Keys : PressOrRelease(k) \/ Repeat(k)
  \/ MoveAxis \/ MovePointer
  \/ Read

Spec == Init /\ [][Next]_vars

------------------------------------------------------------------------------
(* Properties *)

Drained == queue = <<>> /\ ~lost

\* "must be strictly increasing" and "first timestamp must be strictly after
\* buf.back()" (ewm.rs:23-30), although a packet may be split between two reads
\* and two packets may carry the same time.
StrictlyIncreasing ==
  \A i \in 1 .. Len(resolution) - 1 : resolution[i] < resolution[i + 1]

\* What the device has told of its axis: nothing before the axis moves.
Reported == IF axisHeard THEN position ELSE -1

\* With everything read, the watcher knows the keys the device has reported
\* and, once the axis has moved, where it is; and it calls the device active
\* just when one of these keys is down or the stick of a pad is known to be
\* away from its centre.
StateMatches ==
  Drained =>
    /\ pressed = keysDown \intersect heard
    /\ lastValue = Reported
    /\ active <=> \/ keysDown \intersect heard # {}
                  \/ ~isPointer /\ axisHeard /\ position > Deadzone

\* With everything read, the EWM has counted every time of an activity, but for
\* those that began with an event that is none, and no time without activity.
\* Nothing is promised of the times left out: an activity in the microsecond of
\* an earlier event, of its own packet or of another, is lost as a duplicate if
\* that event was a scan code, a repeat or a move within the deadzone
\* (input_parsing.rs:185-186); see HeldIsCounted.
CountsActivity ==
  Drained => moved \ masked \subseteq ToSet(resolution) /\ ToSet(resolution) \subseteq moved

\* A held key is an activity with a timestamp: the test
\* process_filled_read_with_key_press_reports_activity (input_parsing.rs:429)
\* expects both of one press.
HeldIsCounted == Drained /\ pressed # {} => resolution # <<>>

==============================================================================
