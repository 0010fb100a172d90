# Verification of mangochill

TLA+ modules, TLC runs and TLAPS proofs about mangochill: a server that reads
the input devices of a machine and tells its clients at which rate to render.
Source paths below are relative to `src/` of the repository's crate unless they
say otherwise (`server.rs` is `src/server.rs`).

## 1. Inventory of the system

Three binaries and a library, Rust on tokio. Every binary runs all of its tasks
on ONE thread (`flavor = "current_thread"`, `LocalSet`), so a step of a task is
the code between two await points, and what interleaves are tasks, the kernel,
the other ends of the RPC connections and signals.

| component | state it keeps | operations | talks to |
|---|---|---|---|
| evdev supervisor (`server.rs:304`) | `device_tracker` (a session), `tracked`, `next_device_id` | scan on a wakeup, close a session, terminate | woken by a `Notify` and by a 30 s interval; reads both subscriber tables; spawns watchers |
| watcher, one task per node (`server.rs:368`, `552`) | the open node, `Debounce`, axes and buttons, a `Scratch` | open and query, wait for readiness, debounce, read a batch, feed it, end | removes its path from `tracked`; writes into every EWM; sends to raw subscribers |
| FPS limiter (`fps_limiter.rs`) | `FpsSubscribers.map`: handle, EWMs, `last_sent_fps` | `register`, `tick_loop` (one task per subscriber), `feed_events`, drop of the subscription | notifies the supervisor; interrupts debouncing watchers before each computation; calls the client |
| input parsing (`input_parsing.rs`, `scratch.rs`) | pressed keys, last axis values, buffer length | filter a batch of raw events to timestamps, say whether something is held | called by a watcher |
| EWM (`ewm.rs`) | `y`, the last event and tick, a window of 1024 timestamps | `observe_batch`, `active_indefinitely`, `compute_fps` | owned by a subscriber |
| raw events service (`server.rs:76`) | `RawSubscribers.map` | `register`, fan-out of batches, drop | notifies the supervisor; calls the exporter |
| RPC server (`server.rs:196`, `bootstrap.rs`) | the connections | accept, disconnect, bootstrap | a connection that ends drops the subscriptions it exported |
| client (`client.rs`) | connection, child process, backend | start, detect gamescope or MangoHud, register, apply rates, reconnect, terminate | the server, the child, a sink |
| sinks (`gamescope.rs`, MangoHud in `client.rs`) | a Wayland or socket connection | apply a rate | called by the client |
| raw exporter (`raw_export.rs`) | a channel, a buffered file | receive, write, terminate | the server, a file |
| replay, WASM playground, notebook, benches | none beyond an EWM | offline experiments | - |

What is hard here, and what makes each part correct:

* **Sessions** (supervisor and watchers). Nodes come and go between the scan,
  the open and the read; subscribers come and go while a session is being
  closed; one permit of the `Notify` stands for any number of changes. Correct
  means: one task per node, no demand the supervisor sleeps on, sessions that do
  not overlap and leave nothing behind, devices released when nobody listens,
  a usable node watched, termination.
* **Ticking** (FPS limiter). The table changes during the yield and during the
  send, the send fails, the device's EWM outlives the device. Correct means: the
  server never believes in a limit its client does not have, loops end, the
  rate moves in the direction of the devices' activity, and gets there.
* **Parsing**. A read may end in the middle of a packet, packets share times,
  the kernel drops events. Correct means: strictly increasing timestamps, held
  keys and axes as on the device, every time that begins with activity counted
  and none without.
* **Rounding** (`snap_to_divider`). Truncated division and an early break.
  Correct means: a rate that gamescope's own division leaves alone, at or above
  the minimum, nearest.
* **Debouncing and late polling**. The interrupt before a computation works only
  if the executor runs the woken watchers first; readiness is cleared while
  events arrive; the period doubles and shrinks by feedback. Correct means: a
  loop computes after what it interrupted has read, no event stays in the
  kernel, the period learns from losses and keeps being a delay.
* **Exporting**. A signal cancels the writer wherever it awaits, the server goes
  away, a registration is answered too late. Correct means: what was received is
  in the file, once, in order and a record per line; the exporter ends and
  leaves no subscription.
* **Client and serving**. The reconnect loop gives up on answers that still
  come, the server stops or crashes between any two messages, the child ignores
  its signal. Correct means: only the present connection moves the sink, the
  table forgets who has hung up, a client is subscribed again, both ends leave.
* **Estimating** (EWM). Batches overflow the buffer and the window, ticks come
  late or early. Correct means: the buffer is what both bounds allow, the mean
  does not depend on how time is cut into ticks, and falls when nothing happens.

`PROJECT.json` lists every component with its status, and every hazard at its
line with the properties aimed at it.

## 2. Modules

| module | models | kind |
|---|---|---|
| `DeviceSession` | what the supervisor promises: devices are open only inside a session | abstract specification |
| `Supervisor` | `evdev_supervisor`, setup and end of `watch_device`, register and drop, cancellation | component; implements `DeviceSession` |
| `MCSupervisor` | symmetry for the run | instance for TLC |
| `SupervisorProofs` | inductive invariant, safety theorems, refinement | proofs |
| `FpsLimiter` | the table, `tick_loop`, `feed_events`, the direction of an EWM's step | component |
| `FpsLimiterProofs` | type correctness, agreement of server and client, direction of the rate | proofs |
| `Dividers` | the arithmetic of `snap_to_divider`, and what it returns, without its loop | operators |
| `SnapToDivider` | the loop of `snap_to_divider`, against gamescope's division and the reachable rates | algorithm |
| `SnapToDividerProofs` | lemmas on truncated division, that the search's end is well defined and in range, the loop's invariant, what it returns | proofs |
| `InputParsing` | the kernel's queue, reads, `process_event_specialized`, `observe_batch` | component |
| `InputParsingProofs` | what the recursion over a batch computes, inductive invariant, four safety theorems | proofs |
| `LatePoll` | `watch_device_loop`'s wait, `Debounce`, the interrupt of `tick_loop`, the executor's queue and reactor | component |
| `LatePollProofs` | inductive invariants about the run queue, four safety theorems | proofs |
| `RawExport` | the raw exporter and the server's half of its subscription | component |
| `RawExportProofs` | inductive invariant about the stream of tokens, three safety theorems | proofs |
| `ClientSession` | `main` of the client, its reconnect loop and sink; `serve`, its streams and the end of the server | composition of two components |
| `ClientSessionProofs` | inductive invariant, three safety theorems | proofs |
| `Ewm` | `ResolutionEstimator` and the ticks of `DeviceEwm` | component |
| `EwmProofs` | what the estimator keeps, that ticks split, that an idle mean falls | proofs |

`FpsLimiter` uses `Dividers` for the rate it sends; that the loop of
`SnapToDivider` returns what `Dividers` says is a lemma (`LoopReturnsSnapped`)
and not checked: both come from the same lines. The two tables of subscribers appear in
`Supervisor` as sets (all the supervisor asks of them is whether they are empty)
and in `FpsLimiter` in detail. The watcher appears three times: as a task that
starts and ends (`Supervisor`), as what it reads and makes of it
(`InputParsing`), and as when it reads (`LatePoll`); `RawExport` has the batch
it sends to raw subscribers. `LatePoll` says what `FpsLimiter`'s `LatePoll`
action may take for granted, and `Ewm` what stands behind its entries: that a
tick rises, falls, or rises and then falls. `ClientSession` is the life of one
client against a server that comes and goes; the loops behind a subscription are
one action there (`SendRate`).

Every module ends its operations with a block of *plausible faults* before them:
variants of one definition each, used as mutants. For each property of a passing
run `PROJECT.json` names a variant that must make TLC report that property.

### Supervisor

* `sup = "select"` is the await at `server.rs:317`; `"closing"` is
  `tracker.wait()` at 351, `"draining"` the one at 363, `"done"` the return.
* `OnNotify`, `OnScan` and `OnCancelled` are the arms of the biased `select!`, in
  its order (the guards repeat the order). `Body` is the rest of the pass up to
  the next await: scan and spawn (`Serve`), begin closing (`CloseSession`) or
  nothing (`StayIdle`).
* A spawned watcher runs later: between `tracked.insert` and the open anything
  may happen. `OpenFails`, `AbortsSetup`, `OpensCancelled` and `StartsWatching`
  are the ways its first, uninterrupted run can end; `StopsWatching` is ENODEV or
  the cancellation.
* A scan draws ids for all new paths at once, in any order (`read_dir`).
* A node is `absent`, `denied` (udev has not set the ACL), `unfit` (an
  accelerometer or a node whose ioctls fail) or `ok`. The early returns of the
  setup after the open leave the path in `tracked` (the TODO at `server.rs:442`):
  the history variable `givenUp` remembers them, so that the properties can say
  exactly what that costs.
* A watcher's `age` counts the ids handed out since its own; it is a history
  field for `IdsDistinct` and caps itself at `IdSpace`.
* A watcher `Panics` when its debounce period has reached zero, which `LatePoll`
  shows possible: like the early returns it `GivesUp` its path, which stays in
  `tracked`. `UsableNodeWatched` and `OneWatcherPerPath` hold with it because
  `givenUp` says what is lost until the session ends.
* The batches a watcher reads are not here; `InputParsing` has them.

### FpsLimiter

* `pc` is where a subscriber's loop awaits: the interval, the yield after the
  late-poll interrupt, or the answer of the client.
* `last_sent_fps` is written before the send, and only a different rate is ever
  sent. A failed send may have been applied by the client or not: `SendFails`
  allows both.
* An EWM keeps the direction of its next step and not its value: `seen` (an event
  has been observed), `held` (`active_indefinitely`), `hot` (how many ticks fall
  before `last_event_us + 2 * input_res`), `late` and `y` in whole frames. A tick
  moves `y` up or down by at least one of them, which is what an exponential step
  rounded to frames does until it has arrived. The tick that contains the
  transition rises and may then fall (`Turning`).
* `late` counts the ticks that may still raise a mean after it has fallen. While
  no resolution is known, `input_res` is the length of the tick itself
  (`ewm.rs:153`), so that a tick late by as much as all the time since the event
  lies before its own transition and attacks again (`LateSteps`). Each such tick
  makes the time since the event at least half as long again, so that delays
  which have a bound allow finitely many: `LateTicks`.
* `Feed` writes to every subscriber at once, as `feed_events` does.

### InputParsing

* The environment queues whole packets; a read takes what fits into the buffer,
  so packets are split. When the kernel's queue is full it drops what it holds
  and leaves `SYN_DROPPED`; `lost` records it.
* `Processed` is one iteration of `process_event_specialized` in the default
  build, including the assignment of `prev_ts_us` for events it drops. `Keeps`,
  `KeyKept` and `PressedAfter` are the handlers of axes and buttons.
* `Fresh` is the search of `observe_batch` for the first newer timestamp.
* Four history variables remember what the kernel has queued, so that the
  properties speak of the device and not of the watcher: `heard` and `axisHeard`,
  what the device has told of its keys and its axis since the open; `moved`, the
  times of packets with activity; `masked`, the times whose first event is none.

### SnapToDivider

* One action per iteration. The arguments are variables that never change, so
  that one run covers all of them. `Unit` subdivides a frame: targets lie between
  rates, as the `f64` does.

### LatePoll

* `runq` is the `LocalSet`'s queue of woken tasks, first in, first out; the other
  tasks of the program stand between these and change nothing in it. `deferred`
  holds what called `yield_now`: tokio wakes it after the next turn of the
  driver. `Park` is such a turn, in its order: I/O readiness, then timers, then
  the tasks that yielded, the last of them first. It may happen between any two tasks, where tokio looks
  every 61 tasks and when it has none: the model allows more orders.
* `io[d]` is the reactor's entry of a device: `ready`, and `stale` when it was
  set again after the watcher made its `ready_guard`, in which case the failed
  read does not clear it (`AsyncFdReadyMutGuard::try_io`).
* `watcher[d].at`: awaiting `ready_mut` (569), in `debouncer.tick` (574), or
  reading. Between the end of the wait and the next `ready_mut` there is no
  await, so `Idle` keeps everything but the kernel away. `rx` counts the messages
  its receiver has: more than `Capacity` is `RecvError::Lagged`.
* `interrupted` is cleared when the watcher goes back to waiting instead of at
  line 572, when it stops waiting; nothing reads it in between.
* The period is counted in units of `Duration` (a nanosecond in the code).
  `LongestPeriod` stands for `Duration::MAX`, the initial ceiling, and doubling
  saturates there; the code would panic on the overflow after 74 doublings of a
  period that would have to be waited for first.
* A loop at `"ticker"` waits for its interval, and for its client's answer before
  that. `InputParsing` has the growth of the buffer; here it has one length.
* `owed` remembers which watchers a loop interrupted, `lostAt` the shortest
  period that lost events. `LatePolled` speaks of the watchers that debounce when
  the loop sends; a device that becomes readable after that is read later.

### RawExport

* A step of the writer is what `write_events` does up to an await that is not
  ready: the empty channel, or the file. `out.buffer` is the `BufWriter`'s, filled
  with `out.used`, `out.file` what `tokio::fs::File` has taken, `busy` that its
  background write has not ended. A record as large as the buffer bypasses it
  (`Large`), but not before what is in it.
* `main` is where the exporter's main task awaits: its three early steps, the
  `select!` of signal and writer (136), `rpc_disconnector.await` (143), the drain
  (147), the flush (150).
* `Receive` is the RPC call that puts a batch into the channel; `wire` are the
  calls the server's tasks have sent. Records are numbered and have a size, which
  is all that decides where the writer waits; the newline has number 0.
* `received` and `cut` are sets of numbers: that `Numbers(out.file)` is their
  difference and ascends says that each record is there once and in order.
* A failing write of the file panics the exporter (`unwrap`) and is left out.

### ClientSession

* `phase` is where the client's `main` is: `"detect"` (226-257), `"focus"` and
  `"settle"` in `detect_gamescope_max_fps`, where the thread is blocked and
  nothing of the client runs, `"run"` (367), `"stopping"` after SIGTERM,
  `"killing"` after SIGKILL to the child, and the three ways to be gone. A signal
  before `"run"` finds no handler and is `Killed`.
* `loop` is where the reconnect loop awaits: the connection attempt (`"wait"`,
  with the ticks of `retry`), the service, the registration, or the end of the
  connection. `TimesOut` is enabled in both requests whatever the server has done
  meanwhile, so every late answer, late subscription and late rate happens.
* `server[c]` is the server's end of a connection, in the socket's backlog before
  `Accept`; `open` are the client's ends. A slot is free again when both are
  closed. `call[c]` is the request or answer under way. The request for the
  service is pipelined on the bootstrap and sent with the connection.
* `sub[c]` is the registration: `"held"` in the table, `"lost"` when a failed
  send has removed the subscriber but the client still has the handle. A rate
  overtakes nothing on its connection (`Reaches`).
* `valid` says whether `register` accepts the client's parameters; it decides
  `"refused"`, and with it whether `clamp` in `receive` may be called at all.
* `Start` after a `Crash` finds the socket file: `bind` fails and the task of
  `serve` is gone while the process stays (`listening = FALSE`, `up = "up"`),
  unless somebody has removed the file. `ServeEnds` is also a failed `accept`.
* The connection task outlives neither `ct.cancel` nor `abort`, which close the
  client's end at once; the server notices later (`StreamEnds`).

### Ewm

* Times are small integers. `y` is left out: what a tick does to it is the time it
  attacks and the time it then releases (`move`), and since
  `1 - 2^(-t/h)` composes over consecutive times, two ticks have the effect of
  one exactly if these times add up. That is how "independent of tick frequency"
  (`ewm.rs:166`) becomes a statement about integers.
* `Since` is both searches for a suffix: `pop_front` with `partition_point`, and
  `position` in `observe_batch`. `Room` is the overflow, `P10` what
  `select_nth_unstable` returns: the delta with `k` smaller ones before it.
* `log` is a history of the timestamps that were taken.
* No two ticks share a microsecond: the code takes `max(1)` then, which `Move`
  has and `Next` does not reach.

## 3. Runs

| run | bounds | checks | size |
|---|---|---|---|
| `supervisor` | 2 nodes, 1 FPS and 1 raw subscriber, 3 ids, symmetry on nodes | safety, refinement of `DeviceSession` | 215 000 states |
| `supervisor_live` | 1 node, 1 + 1 subscribers, 2 ids | liveness | 4 000 states |
| `fps_limiter` | 1 subscriber, 2 devices, rates 2..4, 2 hot ticks, 1 late tick, snapping | safety, direction and liveness | 51 000 states |
| `input_parsing` | 1 key, 1 axis, 5 queued events, buffer from 2, times 1..2 | safety | 690 000 states |
| `snap_to_divider` | maxima to 24, targets in halves | the result of the loop | all arguments |
| `late_poll` | 1 device, 2 loops, 1 message, 2 queued events, periods 2..4 | safety and liveness | 39 000 states |
| `raw_export` | 4 batches, records of size 1 to 3, a buffer of 3 | safety and liveness | 25 000 states |
| `client_session` | 1 client, a restarting server, 2 connections at a time | safety and liveness | 42 000 states |
| `ewm` | capacity 4, 2 deltas, window 5, clock to 8, the median for the tenth | safety | 113 000 states |
| `fps_idle_user` | 1 subscriber, 1 device, 2 rates | violation: a held key of an unplugged device pins the limit | |
| `input_held` | as `input_parsing` | violation: a press after its scan code has no timestamp | |
| `debounce_panics` | 1 device, 1 loop, 3 queued events, periods 4..16 | violation: the period reaches zero | |

Why the bounds are enough. *Supervisor*: two nodes give a scan that draws
several ids, a task that ends beside one that starts, and a node replugged while
the other is watched; three ids let the counter wrap while a task lives; the two
subscriber kinds differ in what their removal notifies. The theorems lift the
safety part to all sizes. *FpsLimiter*: subscribers share nothing but the feed,
so one is enough for what is said of each; two devices give a maximum over EWMs
that disagree; rates 2..4 snap to 4 and 2, with a target between them and the
minimum that ends the search; two hot ticks are one that only rises and one that
turns, and one late tick is enough to raise a mean that has fallen. *InputParsing*: five queued events hold a three-event packet split by a
buffer of two and a full queue; two times are enough for equal and for newer
packets. *SnapToDivider*: 24 has all small divisors, and the proofs cover every
argument. *LatePoll*: two loops and a channel of one message make a receiver lag;
a buffer and a queue of two make reads that fill the buffer, reads that do not,
and overflows; periods 2 and 4 let the period grow, reach its ceiling, shrink,
and shrink to zero. The theorems lift the safety part to all sizes; devices do
not share anything but the queue. *RawExport*: a buffer of three holds a record
with its newline and fills within the next one, so that the writer waits in
either half, and a record of size three goes to the file by itself; four batches put one into the file, one into the buffer, one into
the writer's hands and one into the channel. *ClientSession*: two connections are
an old one that the server has not noticed to be closed and the present one; with
more, more old ones linger, and the theorems cover any number. *Ewm*: eight
timestamps fill a buffer of four twice over; the window is longer than the buffer
when events are dense and shorter when they are sparse, so that each bound comes
into play alone and with the other; a fraction of two gives the percentile an index above
zero with four samples. The theorems lift all three properties to every capacity,
window and fraction.

`IdSpace` must exceed the number of nodes (`IdSpaceAssumption`; 65 536 ids, and
nodes are bounded by the kernel's minors). Safety runs have no fairness.
`TapersOff` is about behaviours in which, from some point on, the subscriber's
devices are idle and no event renews what their EWMs remember; `LateTicks` bounds
the delays of the clock that the code's `interval` does not.

What is assumed of scheduling, in the runs that check liveness:

* `Supervisor!Fairness`: weak fairness of the supervisor's step (tokio polls a
  task whose future is ready), of the scan timer, and of the task of each node
  (what it `Proceeds` with; nobody owes a panic).
  Clients, the kernel and the signal owe nothing.
* `FpsLimiter!FairSpec`: weak fairness of every loop's step. It includes that the
  client answers a request with a result or an error, which RPC gives unless
  the client hangs; a client that never answers blocks its own loop only.

* `LatePoll!FairSpec`: the executor runs what is woken (`WF` of `Run`) and looks
  at its driver again and again; every timer expires (`SF`, for timers are
  restarted); a watcher gets to the end of what its device has (`SF` of
  `Drained`), which is that reading is faster than the device. Devices owe
  nothing and loops may end.
* `RawExport!FairSpec`: both executors run what is ready, a write of the file
  ends, and the end of a connection is noticed at both ends. The watchers, the
  signal and the server's stop owe nothing; no answer but the registration's is
  assumed, and that may come after the timeout.

* `ClientSession!FairSpec`: the tasks of both processes run (`WF`), and a child
  that was sent SIGKILL exits. What one attempt waits for takes milliseconds
  against five seconds, so the server's accept and answers within an attempt have
  strong fairness (`InTime`): the timeout may win any race, but not every one.
  Nobody owes a start of the server, a crash, a signal or a rate.

`snap_to_divider` stops when the loop returns, `raw_export` when the exporter has
ended and the server is silent, `client_session` when the client is gone for
good, and `ewm` when its clock is at the bound: these four do not check deadlock;
every other run does.

### What the runs say about the code

Passing properties hold as stated. Three runs show disagreements (see
`findings` in `PROJECT.json`):

* `HeldIsCounted`: `prev_ts_us` follows dropped events, so in a packet `MSC_SCAN,
  EV_KEY, SYN_REPORT` the key is filtered as a duplicate (`input_parsing.rs:186`).
* `IdleUserTapersOff`: a device unplugged while held keeps every EWM active
  (`server.rs:609`).
* `KeepsDelaying`: every overflow takes a fifth off the period and its ceiling,
  for good; from 1 ms the 58th makes it zero, on which tokio's `interval` panics
  and the watcher's task is gone (`server.rs:727`). The panic skips
  `tracked.remove`, so the device is ignored until the session ends
  (`Supervisor!Panics`).

What the passing properties have to leave out says something too:

* `NearestUnlessPlateau`: equal neighbours from truncation end the search early
  (`fps_limiter.rs:241`), e.g. max 60, min 5, target 5 gives 6, although the
  option promises "the nearest integer divider" (`client.rs:53`).
* `LinesEnd` does not say one record per line: a signal that finds the writer
  between a record and its newline drops the newline, and the drain writes the
  next record behind it (`raw_export.rs:131`).
* `CountsActivity` promises a time only if its first event is an activity. One
  behind an event of the same microsecond that is none (a scan code, a repeat, a
  move within the deadzone, of its own packet or of another) is filtered as a
  duplicate (`input_parsing.rs:185-186`); the scan code alone makes this
  `HeldIsCounted`.
* `TapersOff` needs the bound on late ticks: without a resolution every tick that
  is late enough takes the limit up again.
* `TickIndependent` and `IdleFalls` need `Known` (or a held device): as long as
  there are fewer than `RESOLUTION_MIN_SAMPLES` deltas in the window, the tick's
  own length stands in for the resolution (`ewm.rs:153`), and a late tick raises
  a mean that was falling.
* `Subscribes` accepts a subscriber that is `"lost"`: after one failed send the
  client waits for the end of a connection that nothing ends
  (`client.rs:345`), and is not limited any more.
* `Leaves` says nothing of a signal before the last phase: the client dies of it
  and its child runs on (`client.rs:226-277`).

## 4. Proofs

`tlapm` checks every theorem below for all values of the constants that satisfy
the named assumptions.

**SupervisorProofs** (assumptions: `PathsAssumption`, `SubsAssumption`,
`IdSpaceAssumption`). The invariant `IInv` adds two parts to the checked
properties:

* `SessionInv` ties `sup`, `deviceTracker`, `cancelled` and the tasks together.
  `OneWatcherPerPath` does not follow from itself: `SessionClosed` empties
  `tracked`, which is harmless only because no task is left then. `NoLostWakeup`
  needs that whatever registers while a session closes leaves a permit, and that
  the subscribers in the tables are held.
* `AgeInv` says which id a task of a given age has and that no two tasks are
  equally old; `IdsDistinct` is a consequence of it and not inductive itself.

The lemma `SpawnKeeps` does the arithmetic of a scan (fresh ids, wrapping,
ageing), `LeavingTask` and `RelabelledTasks` the three ways the set of tasks
changes otherwise. From `Invariance`: `TypeCorrect`, `WatchersAlways`,
`IdleCleanAlways`, `NoLostWakeupAlways`, `IdsDistinctAlways`. `Refinement` proves
that the supervisor implements `DeviceSession`, action by action: a client's step
is `Ask`, a scan `Begin` or a stutter, the end of a session `End`, the end of
`tracker.wait()` `Rest`, a watcher's start and stop `Open` and `Close`.

**SnapToDividerProofs** (`UnitAssumption`, `LargestFpsAssumption`). Lemmas on
truncated division, among them that dividing three times is dividing once
(`DividerOfDivider`), then that the first candidate that ends the search exists, by
the least element of a set of numbers. The loop's invariant (the candidate, the
best rate, and that distances strictly fell so far) gives the rest: the
result is never zero, is reachable and at or above the minimum, is what gamescope's
division makes of it (`GamescopeKeepsAlways`), and is nearest unless the loop
stopped at two equal candidates. Two lemmas are for others: the loop returns what
`Dividers!Snapped` describes (`LoopReturnsSnapped`), and that does not fall when
the target rises (`SnappedMonotone`: what stops the search for a target stops it
for a higher one, `StopsForHigher`).

**FpsLimiterProofs** (the assumptions of `FpsLimiter`). It instantiates
`SnapToDividerProofs` with its own bound on rates and takes from there that a
snapped rate is in range (`Loop!SnappedInRange`) and does not fall when its
target rises (`Loop!SnappedMonotone`). `IInv` is `TypeOK /\ InSync /\ RateKnown`:
`TypeCorrect` carries the range of every rate through the EWM's step, the maximum
over devices and the rounding, and `InSyncAlways` the agreement of server and
client. `RateKnown` says that `last_sent_fps` is the rate of what the EWMs hold,
since only a computation moves them; with it `RateFollowsAlways` compares two
computations: an EWM moves with its activity (`TickedFollows`), the target falls
only if a device at the top does (`TargetFollows`), and the rounding keeps the
order (`RateMonotone`).

**InputParsingProofs** (`BoundsAssumption`). `process_batch` is a loop over the
events of a read, in the model a recursive function (`Outcomes`). That the
recursion has a solution (`OutcomesExist`), and whatever is said of its value
after each event, is proved by the least number of events for which it would
fail (`StepByStep`): induction in first-order form, with a set in place of the
rule's predicate. Three facts about the loop carry the rest. `SameEventsSameState`:
two runs of it over the same events agree on keys and axis wherever these
events lie in the two sequences, so that a prefix (what a read takes), a suffix
(what it leaves) and an extension (what the kernel appends) are one lemma.
`BatchIsStamped`: the timestamps of a batch ascend, each is the time of an
event that is kept, and an event that is kept and opens its time has its
timestamp. `FreshFacts`: `observe_batch` takes exactly those after the last it
has. `IInv` adds to the types:

* `Ordered`: times in the queue do not fall and none counted is ahead of them.
  `StrictlyIncreasing` alone is not inductive, for the next batch may repeat the
  last time of the one before.
* `Followed`: what the watcher WOULD know if it read the whole queue now is what
  the device is, the axis once it has moved (`Reported`). `StateMatches` says so of
  an empty queue only, and every read that is cut differently must lead there.
* `NowMarked`: the newest time is in `moved` or `masked`, so that a packet which
  shares it cannot make a promise that its first event has already spoilt.
* `Counted`: a time that is promised is in the EWM, or the event that will put it
  there is queued with nothing of its time before it.

The proof needed what the model had not said: a full queue is left with two
events, so the kernel's queue has room for two (`KernelCap`), which evdev's, at
least 64 long, has.

**LatePollProofs** (`TasksAssumption`, `SizeAssumption`, `PeriodAssumption`).
`LatePolled` is a fact about the order of a queue, and `IInv` says why it holds.
`WaitInv`: a loop that is off is not queued, and only a loop that yielded is with
the driver. `AheadInv`: whoever owes a yielded loop a read is reading now, or
debounces and is queued, ahead of the loop if that is queued too. The lemmas on queues (what waking, popping and appending preserve, and
which task stays ahead of which) carry it through every action; `Park` is the
interesting one, because it brings the yielded loops back behind everything it
wakes. `PeriodInv` ties period, ceiling and `lostAt`, from which
`BelowLossAlways` follows. `WakeInv` is about the same queue from the other side:
it holds exactly the tasks that have something to do, and a device with unread
events has its watcher awake, a readiness, or an edge under way. From it
`WakeupsKeptAlways`: clearing a readiness, interrupting and expiring lose no
wakeup and invent none. This is the safety half of `EventsRead`, for any number
of devices and loops; that the wakeups are then served is what fairness adds.

**ClientSessionProofs** (`ConnsAssumption`). `RatesAreCurrent` is not inductive: a
rate is harmless only because at most one connection is open and it is the
loop's (`OneConnection`), because nothing is sent before the registration is
asked for (`Asking`, `NotYet`), and because the server has checked the parameters
of everybody in its table (`Checked`). `KeepsSubscription` needs `Registering`:
the answer to the registration comes with the entry. `IInv` is their conjunction;
one lemma per action, and from it `TypeCorrect`, `RatesAreCurrentAlways`,
`KeepsSubscriptionAlways`.

**EwmProofs** (`CapAssumption`, `FractionAssumption`, `TimeAssumption`). First that
`P10` is well defined: in a finite sequence of integers the least value that more
than `k` do not exceed has at most `k` below it (`Selects`, by least and greatest
elements from the library's well-founded order). Then suffixes: `SinceCuts` and
`RoomTakesEnd` say what the two ways to shorten keep, `SinceCovers` and
`PushCovers` that a batch turns an end of the history into the right end of the
longer one, from which `WindowedAlways` follows with the order of the history
(`TakenBatch`). `Splits` proves `TickIndependent` case by case over where the
transition lies; `MoveKnown` is what makes it work, the transition does not
depend on the tick. `IdleFallsAlways` needs `Released`: a mean that was seen
falling has its transition behind it.

**RawExportProofs** (`SizeAssumption`). What the writer does to buffer and file is an
append to one stream of tokens, whatever room there is (`WrittenAppends`,
`WriteRecordAppends`). `Flow` says that a batch moves from the wire over the
channel and the writer's hands into the stream without overtaking another, and
that `cut` and the stream share none: order alone gives "once". `Lines` says
that the writer stands behind a record exactly when it owes a newline, `Phase`
which parts run together (nothing enters the channel after the drain), and
`Damage` that nothing is cut or glued before the signal and one record at most
after it; only `Terminated` touches it (`GoodNext`). At the end the stream is the
file (`FileAtEnd`), which gives `ReceivedIsWrittenAlways` and `LinesEndAlways`.

`SnapToDividerProofs!TypeCorrect` and `EwmProofs!TypeCorrect` are stated for every
instance and not repeated as invariants of the runs.

Only model-checked: liveness, which rests on fairness (`ENABLED` is out of the
prover's reach). Every safety property that a run checks, of a state or of a
step, is proved above.

## 5. Not modelled, and the plan

What could follow:

1. The feature `branchless` of the parser against the default one, and the
   recovery from `SYN_DROPPED` that the repository's README lists as open.
2. Several clients in `ClientSession`: they share nothing but the listening
   socket and the table, which `FpsLimiter` and `Supervisor` look at from the
   server's side.

Left out, and why:

* The sinks beyond "takes the rate or fails". `GamescopeConnection::set_fps`
  calls `dispatch_pending`, which reads nothing from the socket, so the display
  flag keeps the value of the start (`gamescope.rs:131`); nothing in the program
  depends on it but one flag of one request.
* The sink is not reset when the client ends: the game keeps its last limit.
  Nothing in the repository promises otherwise.
* The arithmetic of `Axes::from_min_max` and of the exponentials, one expression
  each.
* The replay tool, playground, notebook and benches (offline drivers of the EWM),
  packaging, the RPC schema, logging, and the memory-safety side of the
  uninitialised buffers.
