----------------------------- MODULE FpsLimiter ------------------------------
(****************************************************************************)
(* fps_limiter.rs: the table of FPS subscribers, the tick loop of each, and *)
(* the events that the device watchers feed into the EWM every subscriber   *)
(* keeps of every device.  The receiver at the other end, its sink and the  *)
(* input devices are the environment.                                       *)
(*                                                                          *)
(* An EWM is reduced to what decides the direction of the next step: has it *)
(* seen an event, is something held, and how many more ticks fall before    *)
(* last_event_us + 2 * input_res.  While no resolution is known, input_res  *)
(* is the length of the tick itself, and a tick that is late by as much as  *)
(* all the time since the event raises a mean that was falling (Ewm.tla has *)
(* the arithmetic).  y is counted in frames per second above the minimum; a *)
(* tick moves it by one of them at least.                                   *)
(****************************************************************************)
EXTENDS Dividers, FiniteSets

CONSTANTS
  Subs,       \* slots for subscribers: a slot is one id at a time
  Devices,    \* device ids
  MinFps, MaxFps,
  Snap,       \* snap_to_divider
  Window,     \* bound on the ticks an event keeps a device active
  LateTicks   \* bound on the ticks after an event that are that late

ASSUME FpsAssumption == MinFps \in Nat /\ MaxFps \in Nat /\ MinFps < MaxFps
ASSUME SnapAssumption == Snap \in BOOLEAN
\* Each late tick makes the time since the event half as long again at least,
\* so that delays which have a bound allow finitely many.
ASSUME WindowAssumption == Window \in Nat \ {0} /\ LateTicks \in Nat

VARIABLES
  handles,    \* subscribers whose client still holds the subscription
  subs,       \* the keys of FpsSubscribers.map
  ewm,        \* ... its devices, an entry for every id
  lastSent,   \* ... its last_sent_fps, also the rate of a send under way
  pc,         \* where the tick loop awaits
  cancelled,
  limit,      \* the last rate the receiver has applied, 0 before the first
  alive,      \* ids of devices that are still there
  down        \* devices with a key down or an axis away from its centre

table == <<handles, subs, ewm, lastSent>>
env == <<alive, down>>
vars == <<table, pc, cancelled, limit, env>>

Span == MaxFps - MinFps

Entry == [known : BOOLEAN, seen : BOOLEAN, held : BOOLEAN, ticked : BOOLEAN,
          hot : 0 .. Window, late : 0 .. LateTicks, y : 0 .. Span]

\* The ticks an event has left: those that raise the mean, and then late ones.
Remains == {r \in [hot : 0 .. Window, late : 0 .. LateTicks] : r.hot = 0 \/ r.late = 0}

NewEwm == [known |-> FALSE, seen |-> FALSE, held |-> FALSE, ticked |-> FALSE,
           hot |-> 0, late |-> 0, y |-> 0]

TypeOK ==
  /\ handles \subseteq Subs
  /\ subs \subseteq Subs
  /\ ewm \in [Subs -> [Devices -> Entry]]
  /\ lastSent \in [Subs -> {0} \union MinFps .. MaxFps]
  /\ pc \in [Subs -> {"off", "ticking", "yielded", "sending"}]
  /\ cancelled \in BOOLEAN
  /\ limit \in [Subs -> {0} \union MinFps .. MaxFps]
  /\ alive \subseteq Devices
  /\ down \subseteq alive

NoEwms == [d \in Devices |-> NewEwm]

Init ==
  /\ handles = {} /\ subs = {}
  /\ ewm = [s \in Subs |-> NoEwms]
  /\ lastSent = [s \in Subs |-> 0]
  /\ pc = [s \in Subs |-> "off"]
  /\ cancelled = FALSE
  /\ limit = [s \in Subs |-> 0]
  /\ alive = Devices
  /\ down = {}

\* The record of s leaves the map, and its EWMs with it.
Remove(s) ==
  /\ subs' = subs \ {s}
  /\ ewm' = [ewm EXCEPT ![s] = NoEwms]

------------------------------------------------------------------------------
(* Plausible faults, each a variant of one definition below that a property *)
(* of this module notices.                                                   *)

StepsIgnoringHeld(e) ==
  CASE ~e.ticked -> {e.y}
    [] e.ticked /\ e.hot > 0 -> IF e.y = Span THEN {Span} ELSE e.y + 1 .. Span
    [] OTHER -> IF e.y = 0 THEN {0} ELSE 0 .. e.y - 1

StepsNeverReleasing(e) ==
  IF e.ticked /\ (e.held \/ e.hot > 0) /\ e.y < Span THEN e.y + 1 .. Span ELSE {e.y}

StepsPastOne(e) == IF e.held \/ e.hot > 0 THEN {e.y + 1} ELSE {e.y - 1}

SubscriberGoneContinues(s) ==
  /\ pc[s] = "yielded" /\ ~cancelled
  /\ s \notin subs
  /\ pc' = [pc EXCEPT ![s] = "ticking"]
  /\ UNCHANGED <<table, cancelled, limit, env>>

\* The last device wins, whatever the others say.
TargetOfLast(es) == MinFps + es[CHOOSE d \in Devices : TRUE].y

SendFailsKeeps(s) ==
  /\ pc[s] = "sending" /\ ~cancelled
  /\ pc' = [pc EXCEPT ![s] = "ticking"]
  /\ UNCHANGED <<table, cancelled, limit, env>>

------------------------------------------------------------------------------
(* The table: register, and the Drop of the subscription *)

Register(s) ==
  /\ s \notin handles \union subs /\ pc[s] = "off"
  /\ handles' = handles \union {s}
  /\ subs' = subs \union {s}
  /\ ewm' = [ewm EXCEPT ![s] = NoEwms]
  /\ lastSent' = [lastSent EXCEPT ![s] = 0]
  /\ limit' = [limit EXCEPT ![s] = 0]
  /\ pc' = [pc EXCEPT ![s] = "ticking"]
  /\ UNCHANGED <<cancelled, env>>

DropHandle(s) ==
  /\ s \in handles
  /\ handles' = handles \ {s}
  /\ Remove(s)
  /\ UNCHANGED <<lastSent, pc, cancelled, limit, env>>

------------------------------------------------------------------------------
(* DeviceEwm::compute_fps *)

Rising(y) == IF y = Span THEN {Span} ELSE y + 1 .. Span
Falling(y) == IF y = 0 THEN {0} ELSE 0 .. y - 1

\* A tick that holds the transition: y rises, and then falls.
Turning(y) == UNION {Falling(z) : z \in Rising(y)}

\* The values y may take at a tick that is not late.  The first tick of an EWM
\* has dt = 0.
Steps(e) ==
  CASE ~e.ticked -> {e.y}
    [] e.ticked /\ (e.held \/ e.hot > 1) -> Rising(e.y)
    [] e.ticked /\ ~e.held /\ e.hot = 1 -> Rising(e.y) \union Turning(e.y)
    [] OTHER -> Falling(e.y)

\* Without a resolution, a late tick puts the transition after its begin again,
\* or after its end, although the mean has been falling.
LateSteps(e) ==
  IF e.ticked /\ ~e.held /\ e.hot = 0 /\ e.late > 0
  THEN Rising(e.y) \union Turning(e.y) ELSE {}

\* What may remain after a tick that is not late.
Remaining(e) ==
  CASE e.hot > 1 -> {[hot |-> e.hot - 1, late |-> 0]}
    [] e.hot = 1 -> {r \in Remains : r.hot = 0}
    [] OTHER -> {[hot |-> 0, late |-> e.late]}

\* The EWM after a tick that moved its mean to z and left it r.
Moved(e, z, r) == [e EXCEPT !.ticked = TRUE, !.y = z, !.hot = r.hot, !.late = r.late]

\* An EWM that has seen no event reports the minimum whatever is held.
Ticked(e) ==
  IF ~e.known THEN {e}
  ELSE IF ~e.seen THEN {[e EXCEPT !.ticked = TRUE]}
  ELSE {Moved(e, z, r) : z \in Steps(e), r \in Remaining(e)} \union
       {Moved(e, z, [hot |-> 0, late |-> e.late - 1]) : z \in LateSteps(e)}

\* The target is the highest of the devices, or the minimum without any.
Target(es) ==
  MinFps + (CHOOSE y \in 0 .. Span :
              /\ y = 0 \/ \E d \in Devices : es[d].y = y
              /\ \A d \in Devices : es[d].y <= y)

\* With Snap the rate is whole, and so exact in the f32 that is sent; without,
\* this is the rate the server and, on its own, the client round to.
Rate(es) == IF Snap THEN Snapped(MaxFps, MinFps, Unit * Target(es)) ELSE Target(es)

------------------------------------------------------------------------------
(* tick_loop *)

\* The interval ticks: interrupt the debouncing watchers, and yield to them.
LatePoll(s) ==
  /\ pc[s] = "ticking" /\ ~cancelled
  /\ pc' = [pc EXCEPT ![s] = "yielded"]
  /\ UNCHANGED <<table, cancelled, limit, env>>

SubscriberGone(s) ==
  /\ pc[s] = "yielded" /\ ~cancelled
  /\ s \notin subs
  /\ pc' = [pc EXCEPT ![s] = "off"]
  /\ UNCHANGED <<table, cancelled, limit, env>>

Compute(s) ==
  /\ pc[s] = "yielded" /\ ~cancelled
  /\ s \in subs
  /\ \E es \in [Devices -> UNION {Ticked(ewm[s][d]) : d \in Devices}] :
       /\ \A d \in Devices : es[d] \in Ticked(ewm[s][d])
       /\ ewm' = [ewm EXCEPT ![s] = es]
       /\ lastSent' = [lastSent EXCEPT ![s] = Rate(es)]
       /\ pc' = [pc EXCEPT ![s] = IF Rate(es) = lastSent[s] THEN "ticking" ELSE "sending"]
  /\ UNCHANGED <<handles, subs, cancelled, limit, env>>

\* The receiver applies the rate and answers.
Delivered(s) ==
  /\ pc[s] = "sending" /\ ~cancelled
  /\ limit' = [limit EXCEPT ![s] = lastSent[s]]
  /\ pc' = [pc EXCEPT ![s] = "ticking"]
  /\ UNCHANGED <<table, cancelled, env>>

\* The receiver answers with an error, or the connection breaks before the
\* answer, and perhaps after the rate has been applied.
SendFails(s) ==
  /\ pc[s] = "sending" /\ ~cancelled
  /\ \E fps \in {limit[s], lastSent[s]} : limit' = [limit EXCEPT ![s] = fps]
  /\ Remove(s)
  /\ pc' = [pc EXCEPT ![s] = "off"]
  /\ UNCHANGED <<handles, lastSent, cancelled, env>>

\* run_until_cancelled drops the loop; a request that was sent may arrive.
LoopCancelled(s) ==
  /\ pc[s] # "off" /\ cancelled
  /\ \E fps \in {limit[s]} \union (IF pc[s] = "sending" THEN {lastSent[s]} ELSE {}) :
       limit' = [limit EXCEPT ![s] = fps]
  /\ pc' = [pc EXCEPT ![s] = "off"]
  /\ UNCHANGED <<table, cancelled, env>>

TickLoop(s) ==
  \/ LatePoll(s) \/ SubscriberGone(s) \/ Compute(s)
  \/ Delivered(s) \/ SendFails(s) \/ LoopCancelled(s)

------------------------------------------------------------------------------
(* Devices, and feed_events *)

\* observe_batch, for what of it decides the next ticks.
Fed(e, fresh, held, r) ==
  [e EXCEPT !.known = TRUE, !.seen = e.seen \/ fresh, !.held = held,
            !.hot = IF fresh THEN r.hot ELSE e.hot,
            !.late = IF fresh THEN r.late ELSE e.late]

\* A watcher feeds one batch to every subscriber: with or without timestamps
\* that are newer than the last one, and with what is held at its end.  The
\* newest may be so old that the transition has passed already.  With it the
\* resolution may become known, or be lost with the old ones it pushes out.
Feed(d) ==
  /\ d \in alive
  /\ \E fresh \in BOOLEAN, held \in BOOLEAN, r \in Remains :
       /\ fresh \/ r.hot + r.late = 0
       /\ down' = IF held THEN down \union {d} ELSE down \ {d}
       /\ ewm' = [s \in Subs |->
            IF s \notin subs THEN ewm[s]
            ELSE [ewm[s] EXCEPT ![d] = Fed(ewm[s][d], fresh, held, r)]]
  /\ UNCHANGED <<handles, subs, lastSent, pc, cancelled, limit, alive>>

\* The device goes away.  Its watcher gets ENODEV from the next read, whatever
\* the kernel had queued, and feeds nothing more.
Unplug(d) ==
  /\ d \in alive
  /\ alive' = alive \ {d}
  /\ down' = down \ {d}
  /\ UNCHANGED <<table, pc, cancelled, limit>>

Terminate ==
  /\ ~cancelled
  /\ cancelled' = TRUE
  /\ UNCHANGED <<table, pc, limit, env>>

------------------------------------------------------------------------------
Next ==
  \/ \E s \in Subs : Register(s) \/ DropHandle(s) \/ TickLoop(s)
  \/ \E d \in Devices : Feed(d) \/ Unplug(d)
  \/ Terminate

Spec == Init /\ [][Next]_vars

\* The interval of every loop keeps ticking and every receiver answers.
FairSpec == Spec /\ \A s \in Subs : WF_vars(TickLoop(s))

------------------------------------------------------------------------------
(* Properties *)

\* The server's idea of the client's limit is the client's limit, whenever no
\* send is under way.  last_sent_fps is written before the send and a rate
\* equal to it is never sent again, so one lost send would leave the client at
\* a wrong limit for good.
InSync ==
  \A s \in subs : pc[s] # "sending" /\ ~cancelled => limit[s] = lastSent[s]

Top(es, d) == \A c \in Devices : es[c].y <= es[d].y

\* A tick of this EWM may raise its mean.
MayRise(e) == e.seen /\ (e.held \/ e.hot > 0 \/ e.late > 0)

\* The rate moves as the devices do, through several EWMs, the choice of the
\* highest and the rounding to dividers: up only while some device is or was
\* active, and down only when a device that set the rate is no longer.
RateFollows ==
  [][\A s \in subs : lastSent[s] # 0 =>
       /\ lastSent'[s] > lastSent[s] => \E d \in Devices : MayRise(ewm[s][d])
       /\ lastSent'[s] < lastSent[s] =>
            \E d \in Devices :
              Top(ewm[s], d) /\ ~ewm[s][d].held /\ ewm[s][d].hot <= 1]_vars

\* The loop of a subscriber that has left the table ends by itself.
LoopsEnd ==
  \A s \in Subs : s \notin subs ~> pc[s] = "off" \/ s \in subs

Subscribed(s) == s \in subs /\ ~cancelled

\* While a device is held, by all its EWM knows, the limit climbs to the top.
RampsUp ==
  \A s \in Subs, d \in Devices :
    LET active == Subscribed(s) /\ ewm[s][d].seen /\ ewm[s][d].held
    IN  active ~> limit[s] = MaxFps \/ ~active

Resting == IF Snap THEN Snapped(MaxFps, MinFps, Unit * MinFps) ELSE MinFps

Idle(s) == Subscribed(s) /\ \A d \in Devices : ~ewm[s][d].held /\ ewm[s][d].hot = 0

\* No event comes that renews what an EWM remembers.
NothingNew(s) ==
  \A d \in Devices :
    /\ ewm'[s][d].hot <= ewm[s][d].hot
    /\ ewm[s][d].hot = 0 => ewm'[s][d].late <= ewm[s][d].late

\* Once no EWM is held or hot and no event comes, the limit falls to the lowest
\* rate and stays there, through up to LateTicks ticks that raise it again.
TapersOff ==
  \A s \in Subs :
    <>[]Idle(s) /\ <>[][NothingNew(s)]_vars => <>[](limit[s] = Resting)

\* "when idle, it tapers off to save power" (README.md:4), of the devices that
\* are there and not of what the EWMs remember.
IdleUserTapersOff ==
  \A s \in Subs :
    LET idle == Subscribed(s) /\ down = {} /\ \A d \in Devices : ewm[s][d].hot = 0
    IN  idle ~> limit[s] = Resting \/ ~idle

==============================================================================
