------------------------------ MODULE LatePoll ------------------------------
(****************************************************************************)
(* Debouncing and late polling: watch_device_loop and Debounce (server.rs)   *)
(* against tick_loop's interrupt (fps_limiter.rs), on the one-threaded       *)
(* executor they share.  A watcher waits until its device is readable, lets  *)
(* events gather for a period, and reads until the device has no more.  A    *)
(* loop that is about to compute a rate interrupts the watchers that gather, *)
(* yields once, and relies on the order of the executor's queue to find      *)
(* their events already fed.                                                 *)
(*                                                                          *)
(* The executor runs woken tasks first in, first out.  Between two tasks it  *)
(* may look at its driver (it does so after 61 tasks, and when it has no     *)
(* other): readiness first, then timers, then the tasks that yielded.        *)
(****************************************************************************)
EXTENDS Integers, Sequences, FiniteSets, SequencesExt

CONSTANTS
  Devices,
  Loops,          \* one tick_loop per FPS subscriber
  Capacity,       \* of the broadcast channel (8)
  QueueCap,       \* of the kernel's queue of a device
  BufLen,         \* of the read buffer; InputParsing has its growth
  StartPeriod,    \* 1 ms, in units of Duration
  LongestPeriod   \* Duration::MAX

ASSUME TasksAssumption ==
  IsFiniteSet(Devices) /\ IsFiniteSet(Loops) /\ Devices \cap Loops = {}
ASSUME SizeAssumption ==
  /\ Capacity \in Nat \ {0} /\ QueueCap \in Nat \ {0, 1} /\ BufLen \in Nat \ {0}
ASSUME PeriodAssumption ==
  /\ LongestPeriod \in Nat
  /\ StartPeriod \in 1 .. LongestPeriod

VARIABLES
  runq,      \* woken tasks
  deferred,  \* tasks that yielded, until the next look at the driver
  node,      \* the kernel's side of a device
  io,        \* the reactor's: readiness, and whether it is newer than the
             \* guard the watcher holds
  watcher,   \* where each watcher awaits, and its Debounce
  loop,      \* where each tick_loop awaits
  owed,      \* history: watchers a loop interrupted that have not read since
  lostAt     \* history: the shortest period with which a device lost events

history == <<owed, lostAt>>
vars == <<runq, deferred, node, io, watcher, loop, owed, lostAt>>

Tasks == Devices \union Loops
Period == 0 .. LongestPeriod
Never == LongestPeriod + 1

\* No task is queued twice.
QueuesOK ==
  /\ runq \in Seq(Tasks) /\ IsInjective(runq)
  /\ deferred \in Seq(Loops) /\ IsInjective(deferred)
  /\ ToSet(runq) \cap ToSet(deferred) = {}

NodeState == [present : BOOLEAN, edge : BOOLEAN, lost : BOOLEAN, queued : 0 .. QueueCap]
Reactor == [ready : BOOLEAN, stale : BOOLEAN]
WatcherState ==
  [at : {"readiness", "debouncing", "reading", "ended", "panicked"}, fired : BOOLEAN,
   rx : 0 .. Capacity + 1, interrupted : BOOLEAN, period : Period, ceiling : Period]
LoopState == [at : {"off", "ticker", "yielded"}, fired : BOOLEAN]

TypeOK ==
  /\ QueuesOK
  /\ node \in [Devices -> NodeState]
  /\ io \in [Devices -> Reactor]
  /\ watcher \in [Devices -> WatcherState]
  /\ loop \in [Loops -> LoopState]
  /\ owed \in [Loops -> SUBSET Devices]
  /\ lostAt \in [Devices -> 1 .. Never]

Init ==
  /\ runq = <<>> /\ deferred = <<>>
  /\ node = [d \in Devices |-> [present |-> TRUE, edge |-> FALSE, lost |-> FALSE,
                                queued |-> 0]]
  /\ io = [d \in Devices |-> [ready |-> FALSE, stale |-> FALSE]]
  /\ watcher = [d \in Devices |->
       [at |-> "readiness", fired |-> FALSE, rx |-> 0, interrupted |-> FALSE,
        period |-> StartPeriod, ceiling |-> LongestPeriod]]
  /\ loop = [l \in Loops |-> [at |-> "off", fired |-> FALSE]]
  /\ owed = [l \in Loops |-> {}]
  /\ lostAt = [d \in Devices |-> Never]

------------------------------------------------------------------------------
(* Debounce *)

Lesser(a, b) == IF a < b THEN a ELSE b

\* Plausible faults: the loss is not remembered, and the ceiling not respected.
ShrunkKeepsCeiling(w) ==
  LET target == (w.period * 4) \div 5
  IN  [w EXCEPT !.period = target, !.at = IF target = 0 THEN "panicked" ELSE @]

ExpandedWithoutCeiling(w) == [w EXCEPT !.period = 2 * @]

Expanded(w) == [w EXCEPT !.period = Lesser(2 * @, w.ceiling)]

\* interval(0) panics, and the watcher's task with it.
Shrunk(w) ==
  LET target == (w.period * 4) \div 5
  IN  [w EXCEPT !.period = target, !.ceiling = Lesser(@, target),
                !.at = IF target = 0 THEN "panicked" ELSE @]

\* restart, and a receiver that gets what is sent from now on.
Debouncing(w) ==
  [w EXCEPT !.at = "debouncing", !.interrupted = FALSE]

------------------------------------------------------------------------------
(* The executor *)

\* A watcher that reads does so in one poll: nothing else runs.
Idle == \A d \in Devices : watcher[d].at # "reading"

Runs(t) == Idle /\ runq # <<>> /\ Head(runq) = t

\* The queue after the tasks of S were woken, in any order; waking a task that
\* is queued does nothing.
Woken(q, S) == {q \o s : s \in SetToSeqs(S \ ToSet(q))}

\* What may expire: the timers of waiting tasks that have not.
Timed ==
  {d \in Devices : watcher[d].at = "debouncing" /\ ~watcher[d].fired} \union
  {l \in Loops : loop[l].at = "ticker" /\ ~loop[l].fired}

\* epoll reports an edge only if the device is still readable.
Readable == {d \in Devices : node[d].edge /\ (node[d].queued > 0 \/ ~node[d].present)}

Park(expired) ==
  /\ Idle
  /\ node' = [d \in Devices |-> [node[d] EXCEPT !.edge = FALSE]]
  /\ io' = [d \in Devices |->
       IF d \in Readable THEN [ready |-> TRUE, stale |-> TRUE] ELSE io[d]]
  /\ watcher' = [d \in Devices |->
       IF d \in expired THEN [watcher[d] EXCEPT !.fired = TRUE] ELSE watcher[d]]
  /\ loop' = [l \in Loops |->
       IF l \in expired THEN [loop[l] EXCEPT !.fired = TRUE] ELSE loop[l]]
  /\ \E q \in Woken(runq, {d \in Readable : watcher[d].at = "readiness"}) :
       \E r \in Woken(q, expired) : runq' = r \o Reverse(deferred)
  /\ deferred' = <<>>
  /\ UNCHANGED history

------------------------------------------------------------------------------
(* Plausible faults of the tasks, each a variant of one action below. *)

\* A missed message is skipped, and the wait goes on.
EndsWaitUnlessLagged(d) ==
  /\ Runs(d)
  /\ watcher[d].at = "debouncing"
  /\ runq' = Tail(runq)
  /\ watcher' = [watcher EXCEPT ![d] =
       IF watcher[d].fired \/ watcher[d].rx <= Capacity
       THEN [watcher[d] EXCEPT !.at = "reading", !.rx = 0, !.fired = FALSE,
                               !.interrupted = ~watcher[d].fired]
       ELSE [watcher[d] EXCEPT !.rx = 0]]
  /\ UNCHANGED <<deferred, node, io, loop, history>>

\* One read per wait, whatever is left.
ReadOnce(d) ==
  /\ watcher[d].at = "reading" /\ node[d].present /\ node[d].queued > 0
  /\ node' = [node EXCEPT ![d].queued = @ - 1, ![d].lost = FALSE]
  /\ watcher' = [watcher EXCEPT ![d].at = "readiness", ![d].interrupted = FALSE]
  /\ io' = [io EXCEPT ![d].ready = FALSE]
  /\ owed' = [l \in Loops |-> owed[l] \ {d}]
  /\ UNCHANGED <<runq, deferred, loop, lostAt>>

------------------------------------------------------------------------------
(* The kernel *)

Arrive(d) ==
  /\ node[d].present
  /\ \/ /\ node[d].queued < QueueCap
        /\ node' = [node EXCEPT ![d].queued = @ + 1, ![d].edge = TRUE]
     \/ /\ node[d].queued = QueueCap
        /\ node' = [node EXCEPT ![d].queued = 2, ![d].edge = TRUE, ![d].lost = TRUE]
  /\ UNCHANGED <<runq, deferred, io, watcher, loop, history>>

Unplug(d) ==
  /\ node[d].present
  /\ node' = [node EXCEPT ![d].present = FALSE, ![d].edge = TRUE]
  /\ UNCHANGED <<runq, deferred, io, watcher, loop, history>>

------------------------------------------------------------------------------
(* watch_device_loop *)

\* ready_mut returns: a new guard, and the debouncer starts over.
BecomesReady(d) ==
  /\ Runs(d)
  /\ watcher[d].at = "readiness" /\ io[d].ready
  /\ runq' = Tail(runq)
  /\ io' = [io EXCEPT ![d].stale = FALSE]
  /\ watcher' = [watcher EXCEPT ![d] = Debouncing(@)]
  /\ UNCHANGED <<deferred, node, loop, history>>

\* The select polls the timer first.  A receiver that has missed messages
\* returns an error, which is logged and does not count as an interrupt.
EndsWait(d) ==
  /\ Runs(d)
  /\ watcher[d].at = "debouncing"
  /\ runq' = Tail(runq)
  /\ watcher' = [watcher EXCEPT
       ![d].at = "reading", ![d].rx = 0, ![d].fired = FALSE,
       ![d].interrupted = ~watcher[d].fired /\ watcher[d].rx <= Capacity]
  /\ UNCHANGED <<deferred, node, io, loop, history>>

\* One batch.  A watcher that panics takes what it has read with it.
Read(d) ==
  /\ watcher[d].at = "reading" /\ node[d].present /\ node[d].queued > 0
  /\ LET w    == watcher[d]
         read == Lesser(node[d].queued, BufLen)
     IN  /\ node' = [node EXCEPT ![d].queued = @ - read, ![d].lost = FALSE]
         /\ \/ /\ node[d].lost
               /\ watcher' = [watcher EXCEPT ![d] = Shrunk(w)]
               /\ lostAt' = [lostAt EXCEPT ![d] = Lesser(@, w.period)]
               /\ owed' = IF Shrunk(w).at = "panicked"
                          THEN [l \in Loops |-> owed[l] \ {d}] ELSE owed
            \/ /\ ~node[d].lost /\ read < BufLen /\ ~w.interrupted
               /\ watcher' = [watcher EXCEPT ![d] = Expanded(w)]
               /\ UNCHANGED history
            \/ /\ ~node[d].lost /\ (read = BufLen \/ w.interrupted)
               /\ UNCHANGED <<watcher, history>>
  /\ UNCHANGED <<runq, deferred, io, loop>>

\* The read would block.  Readiness is cleared unless it has been set again
\* since the guard was made, and then the next wait begins at once.
Drained(d) ==
  /\ watcher[d].at = "reading" /\ node[d].present /\ node[d].queued = 0
  /\ IF io[d].stale
     THEN /\ io' = [io EXCEPT ![d].stale = FALSE]
          /\ watcher' = [watcher EXCEPT ![d] = Debouncing(@)]
     ELSE /\ io' = [io EXCEPT ![d].ready = FALSE]
          /\ watcher' = [watcher EXCEPT ![d].at = "readiness", ![d].interrupted = FALSE]
  /\ owed' = [l \in Loops |-> owed[l] \ {d}]
  /\ UNCHANGED <<runq, deferred, node, loop, lostAt>>

\* ENODEV: the watcher ends.
ReadFails(d) ==
  /\ watcher[d].at = "reading" /\ ~node[d].present
  /\ watcher' = [watcher EXCEPT ![d].at = "ended"]
  /\ owed' = [l \in Loops |-> owed[l] \ {d}]
  /\ UNCHANGED <<runq, deferred, node, io, loop, lostAt>>

------------------------------------------------------------------------------
(* tick_loop *)

\* register spawns the loop; the first tick of an interval is immediate.
Join(l) ==
  /\ Idle
  /\ loop[l].at = "off"
  /\ loop' = [loop EXCEPT ![l] = [at |-> "ticker", fired |-> TRUE]]
  /\ runq' = Append(runq, l)
  /\ UNCHANGED <<deferred, node, io, watcher, history>>

Listening == {d \in Devices : watcher[d].at = "debouncing"}

\* send wakes the receivers that wait, and yield_now leaves the loop with the
\* driver.
Interrupts(l) ==
  /\ Runs(l)
  /\ loop[l].at = "ticker"
  /\ loop' = [loop EXCEPT ![l] = [at |-> "yielded", fired |-> FALSE]]
  /\ watcher' = [d \in Devices |->
       IF d \in Listening
       THEN [watcher[d] EXCEPT !.rx = Lesser(@ + 1, Capacity + 1)] ELSE watcher[d]]
  /\ runq' \in Woken(Tail(runq), Listening)
  /\ deferred' = Append(deferred, l)
  /\ owed' = [owed EXCEPT ![l] = Listening]
  /\ UNCHANGED <<node, io, lostAt>>

\* The rate is computed.  Then the loop waits for its client and its timer, or
\* ends: its subscriber is gone, or cannot be sent to.
Computes(l) ==
  /\ Runs(l)
  /\ loop[l].at = "yielded"
  /\ \E at \in {"ticker", "off"} : loop' = [loop EXCEPT ![l].at = at]
  /\ runq' = Tail(runq)
  /\ owed' = [owed EXCEPT ![l] = {}]
  /\ UNCHANGED <<deferred, node, io, watcher, lostAt>>

------------------------------------------------------------------------------

WatcherStep(d) ==
  BecomesReady(d) \/ EndsWait(d) \/ Read(d) \/ Drained(d) \/ ReadFails(d)

LoopStep(l) == Interrupts(l) \/ Computes(l)

Next ==
  \/ \E d \in Devices : Arrive(d) \/ Unplug(d) \/ WatcherStep(d)
  \/ \E l \in Loops : Join(l) \/ LoopStep(l)
  \/ \E expired \in SUBSET Timed : Park(expired)

Spec == Init /\ [][Next]_vars

Run == (\E d \in Devices : WatcherStep(d)) \/ (\E l \in Loops : LoopStep(l))

\* The executor runs what is woken and looks at its driver when nothing is,
\* timers expire, and a watcher reads faster than its device fills the queue.
FairSpec ==
  /\ Spec
  /\ WF_vars(Run)
  /\ SF_vars(Park({}))
  /\ \A t \in Tasks : SF_vars(\E expired \in SUBSET Timed : t \in expired /\ Park(expired))
  /\ \A d \in Devices : SF_vars(Drained(d))

------------------------------------------------------------------------------
(* Properties *)

\* "this in fact schedules watch_device() to do their late polling"
\* (fps_limiter.rs:174): when a loop computes, every watcher it found gathering
\* has read its device to the end, or is gone.
LatePolled ==
  \A l \in Loops : Runs(l) /\ loop[l].at = "yielded" => owed[l] = {}

\* No wakeup is lost and none is spurious: the queue and the driver hold just
\* the tasks that have something to do, and a watcher that waits for a device
\* with something to read has been woken, or an edge is on its way to wake it.
WakeupsKept ==
  /\ \A d \in Devices :
       /\ d \in ToSet(runq) <=>
            \/ watcher[d].at = "readiness" /\ io[d].ready
            \/ watcher[d].at = "debouncing" /\ (watcher[d].fired \/ watcher[d].rx > 0)
       /\ watcher[d].at = "readiness" /\ (node[d].queued > 0 \/ ~node[d].present) =>
            node[d].edge \/ io[d].ready
  /\ \A l \in Loops :
       l \in ToSet(runq) \union ToSet(deferred) <=>
         loop[l].at = "yielded" \/ (loop[l].at = "ticker" /\ loop[l].fired)

\* The feedback of Debounce: the period never again reaches one that was set when
\* the device lost events.
StaysBelowLoss ==
  \A d \in Devices : watcher[d].at # "panicked" => watcher[d].period < lostAt[d]

\* "The debouncer delays our reads from the chardev" (server.rs:556), however
\* often events are lost.
KeepsDelaying == \A d \in Devices : watcher[d].at # "panicked"

\* No event stays in the kernel: an edge that comes while the watcher waits or
\* reads is not lost with the readiness the watcher clears.
EventsRead ==
  \A d \in Devices :
    node[d].queued > 0 ~> (node[d].queued = 0 \/ watcher[d].at \in {"ended", "panicked"})

==============================================================================
