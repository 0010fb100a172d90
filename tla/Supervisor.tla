----------------------------- MODULE Supervisor ------------------------------
(****************************************************************************)
(* The server's evdev supervisor (server.rs, evdev_supervisor) with the     *)
(* tasks it spawns (watch_device), the two subscriber tables it reads, and  *)
(* the Notify permit through which register and the Drop of a subscription  *)
(* wake it.  All tasks run on one thread, so a step is the code between two *)
(* await points; the device nodes change under the program at any moment.   *)
(****************************************************************************)
EXTENDS Integers, FiniteSets, Functions

CONSTANTS
  Paths,      \* names under /dev/input that start with "event"
  FpsIds,     \* slots for FPS subscribers: a slot is one id at a time
  RawIds,     \* slots for raw subscribers; empty without --raw
  IdSpace     \* number of device ids (2^16 in the code)

Subs == FpsIds \union RawIds

ASSUME PathsAssumption == IsFiniteSet(Paths)
ASSUME SubsAssumption == FpsIds \intersect RawIds = {}
ASSUME IdSpaceAssumption == IdSpace \in Nat /\ IdSpace > Cardinality(Paths)

VARIABLES
  held,           \* subscriptions whose handle a client still holds
  fpsSubs,        \* FpsSubscribers.map
  rawSubs,        \* RawSubscribers.map
  notify,         \* the permit of the Notify
  scanDue,        \* the 30 s interval has a tick to deliver
  cancelled,      \* ct.cancel() was called
  sup,            \* where the supervisor's task awaits
  deviceTracker,  \* device_tracker.is_some()
  tracked,        \* the set of paths shared with the watchers
  nextDeviceId,   \* next_device_id
  watchers,       \* the tasks of the tracker that have not finished
  node,           \* the device nodes, as the kernel and udev present them
  givenUp         \* history: paths that tasks have left in "tracked"

server == <<held, fpsSubs, rawSubs>>
control == <<server, notify, scanDue, cancelled, sup, deviceTracker>>
tasks == <<tracked, nextDeviceId, watchers, givenUp>>
vars == <<control, tasks, node>>

NodeState == {"absent", "denied", "unfit", "ok"}
SupState == {"select", "closing", "draining", "done"}

\* A task of watch_device.  "age" counts the ids handed out since its own,
\* its own included, and stops at IdSpace: it is there for the properties.
Watcher == [path : Paths, id : 0 .. IdSpace - 1, age : 1 .. IdSpace,
            stage : {"spawned", "watching"}, gone : BOOLEAN]

TypeOK ==
  /\ held \subseteq Subs
  /\ fpsSubs \subseteq FpsIds
  /\ rawSubs \subseteq RawIds
  /\ notify \in BOOLEAN
  /\ scanDue \in BOOLEAN
  /\ cancelled \in BOOLEAN
  /\ sup \in SupState
  /\ deviceTracker \in BOOLEAN
  /\ tracked \subseteq Paths
  /\ nextDeviceId \in 0 .. IdSpace - 1
  /\ watchers \subseteq Watcher
  /\ node \in [Paths -> NodeState]
  /\ givenUp \subseteq Paths

Init ==
  /\ held = {} /\ fpsSubs = {} /\ rawSubs = {}
  /\ notify = FALSE
  /\ scanDue = TRUE                \* interval() ticks at once
  /\ cancelled = FALSE
  /\ sup = "select"
  /\ deviceTracker = FALSE
  /\ tracked = {}
  /\ nextDeviceId = 0
  /\ watchers = {} /\ givenUp = {}
  /\ node \in [Paths -> NodeState]

HasSubscribers == fpsSubs # {} \/ rawSubs # {}
WatchedPaths == {w.path : w \in watchers}
OpenPaths == {w.path : w \in {v \in watchers : v.stage = "watching"}}

------------------------------------------------------------------------------
(* Plausible faults, each a variant of one definition below that a property *)
(* of this module notices.                                                   *)

StoppingAfterLastSubscriber == sup = "closing"
StoppingOnTerminate == cancelled
StoppingBySupervisor == sup \in {"closing", "draining"}
WrappingAddSaturates(id, n) == IF id + n < IdSpace THEN id + n ELSE IdSpace - 1
WrappingAddOverflows(id, n) == id + n

DropHandleSilent(s) ==
  /\ s \in held
  /\ held' = held \ {s}
  /\ fpsSubs' = fpsSubs \ {s}
  /\ rawSubs' = rawSubs \ {s}
  /\ UNCHANGED <<notify, scanDue, cancelled, sup, deviceTracker, tasks, node>>

SessionClosedWithoutWait ==
  /\ sup = "closing"
  /\ sup' = "select"
  /\ tracked' = {} /\ givenUp' = {}
  /\ UNCHANGED <<server, notify, scanDue, cancelled, deviceTracker,
                 nextDeviceId, watchers, node>>

SessionClosedKeepsTracked ==
  /\ sup = "closing" /\ watchers = {}
  /\ sup' = "select"
  /\ UNCHANGED <<server, notify, scanDue, cancelled, deviceTracker, tasks, node>>

OpenFailsKeepsTracked(w) ==
  /\ w.stage = "spawned" /\ node[w.path] \in {"absent", "denied"}
  /\ watchers' = watchers \ {w}
  /\ UNCHANGED <<control, tracked, nextDeviceId, givenUp, node>>

\* The token of the watchers is a child of ct, and closing a session cancels it.
Stopping == cancelled \/ sup \in {"closing", "draining"}

------------------------------------------------------------------------------
(* Clients, and the tick loops that lose one *)

RegisterFps(s) ==
  /\ s \notin held \union fpsSubs
  /\ held' = held \union {s}
  /\ fpsSubs' = fpsSubs \union {s}
  /\ notify' = TRUE
  /\ UNCHANGED <<rawSubs, scanDue, cancelled, sup, deviceTracker, tasks, node>>

RegisterRaw(s) ==
  /\ s \notin held \union rawSubs
  /\ held' = held \union {s}
  /\ rawSubs' = rawSubs \union {s}
  /\ notify' = TRUE
  /\ UNCHANGED <<fpsSubs, scanDue, cancelled, sup, deviceTracker, tasks, node>>

\* The handle of a subscription is dropped: the client let it go, or its
\* connection ended and the RPC system dropped what it exported.
DropHandle(s) ==
  /\ s \in held
  /\ held' = held \ {s}
  /\ fpsSubs' = fpsSubs \ {s}
  /\ rawSubs' = rawSubs \ {s}
  /\ notify' = TRUE
  /\ UNCHANGED <<scanDue, cancelled, sup, deviceTracker, tasks, node>>

\* A send of tick_loop fails: the table loses the subscriber, the client
\* keeps its handle, and nobody is notified.
TickSendFails(s) ==
  /\ s \in fpsSubs
  /\ ~cancelled
  /\ fpsSubs' = fpsSubs \ {s}
  /\ UNCHANGED <<held, rawSubs, notify, scanDue, cancelled, sup, deviceTracker,
                 tasks, node>>

Terminate ==
  /\ ~cancelled
  /\ cancelled' = TRUE
  /\ UNCHANGED <<server, notify, scanDue, sup, deviceTracker, tasks, node>>

ScanTimer ==
  /\ ~scanDue
  /\ scanDue' = TRUE
  /\ UNCHANGED <<server, notify, cancelled, sup, deviceTracker, tasks, node>>

------------------------------------------------------------------------------
(* The supervisor's loop *)

\* u16::wrapping_add, for an increment of at most IdSpace
WrappingAdd(id, n) == IF id + n < IdSpace THEN id + n ELSE id + n - IdSpace

Aged(w, n) ==
  [w EXCEPT !.age = IF w.age + n < IdSpace THEN w.age + n ELSE IdSpace]

\* A scan that can read /dev/input; one that cannot finds none.
Discovered == {p \in Paths : node[p] # "absent"}

\* The loop over the discovered paths, in the order read_dir returns them.
SpawnWatchers ==
  LET new == Discovered \ tracked
      n == Cardinality(new)
  IN  \E rank \in Injection(new, 0 .. n - 1) :
        /\ tracked' = tracked \union new
        /\ nextDeviceId' = WrappingAdd(nextDeviceId, n)
        /\ watchers' =
             {Aged(w, n) : w \in watchers} \union
             {[path |-> p, id |-> WrappingAdd(nextDeviceId, rank[p]),
               age |-> n - rank[p], stage |-> "spawned", gone |-> FALSE] : p \in new}
        /\ UNCHANGED givenUp

\* One pass of the loop's body, after the select
Serve ==
  /\ HasSubscribers
  /\ deviceTracker' = TRUE
  /\ SpawnWatchers
  /\ UNCHANGED sup

CloseSession ==
  /\ ~HasSubscribers /\ deviceTracker
  /\ deviceTracker' = FALSE
  /\ sup' = "closing"
  /\ UNCHANGED tasks

StayIdle ==
  /\ ~HasSubscribers /\ ~deviceTracker
  /\ UNCHANGED <<sup, deviceTracker, tasks>>

Body == Serve \/ CloseSession \/ StayIdle

\* The select is biased: cancellation first, then the permit, then the timer.
OnNotify ==
  /\ sup = "select" /\ ~cancelled /\ notify
  /\ notify' = FALSE
  /\ Body
  /\ UNCHANGED <<server, scanDue, cancelled, node>>

OnScan ==
  /\ sup = "select" /\ ~cancelled /\ ~notify /\ scanDue
  /\ scanDue' = FALSE
  /\ Body
  /\ UNCHANGED <<server, notify, cancelled, node>>

OnCancelled ==
  /\ sup = "select" /\ cancelled
  /\ sup' = IF deviceTracker THEN "draining" ELSE "done"
  /\ deviceTracker' = FALSE
  /\ UNCHANGED <<server, notify, scanDue, cancelled, tasks, node>>

SessionClosed ==
  /\ sup = "closing" /\ watchers = {}
  /\ sup' = "select"
  /\ tracked' = {} /\ givenUp' = {}
  /\ UNCHANGED <<server, notify, scanDue, cancelled, deviceTracker,
                 nextDeviceId, watchers, node>>

Drained ==
  /\ sup = "draining" /\ watchers = {}
  /\ sup' = "done"
  /\ UNCHANGED <<server, notify, scanDue, cancelled, deviceTracker, tasks, node>>

SupervisorStep ==
  OnNotify \/ OnScan \/ OnCancelled \/ SessionClosed \/ Drained

------------------------------------------------------------------------------
(* watch_device *)

\* The task removes its path and returns.
Finish(w) ==
  /\ watchers' = watchers \ {w}
  /\ tracked' = tracked \ {w.path}
  /\ UNCHANGED <<control, nextDeviceId, givenUp, node>>

OpenFails(w) ==
  /\ w.stage = "spawned" /\ node[w.path] \in {"absent", "denied"}
  /\ Finish(w)

\* The task ends and its path stays in "tracked".
GivesUp(w) ==
  /\ watchers' = watchers \ {w}
  /\ givenUp' = givenUp \union {w.path}
  /\ UNCHANGED <<control, tracked, nextDeviceId>>

\* One of the early returns of the setup: an ioctl fails, which is also what
\* happens when the device goes away after the open, or the device is an
\* accelerometer.
AbortsSetup(w) ==
  /\ w.stage = "spawned" /\ node[w.path] \in {"unfit", "ok"}
  /\ GivesUp(w)
  /\ node' = IF node[w.path] = "ok" THEN [node EXCEPT ![w.path] = "absent"] ELSE node

\* The setup of a task whose token is cancelled by now runs to the end, and
\* then run_until_cancelled_owned returns at once.
OpensCancelled(w) ==
  /\ w.stage = "spawned" /\ node[w.path] = "ok" /\ Stopping
  /\ Finish(w)

StartsWatching(w) ==
  /\ w.stage = "spawned" /\ node[w.path] = "ok" /\ ~Stopping
  /\ watchers' = (watchers \ {w}) \union {[w EXCEPT !.stage = "watching"]}
  /\ UNCHANGED <<control, tracked, nextDeviceId, givenUp, node>>

\* A read fails with ENODEV and breaks the loop, or the token is cancelled.
StopsWatching(w) ==
  /\ w.stage = "watching" /\ (w.gone \/ Stopping)
  /\ Finish(w)

\* The debounce period has reached zero (LatePoll.tla) and the task panics.
Panics(w) ==
  /\ w.stage = "watching" /\ ~Stopping
  /\ GivesUp(w)
  /\ UNCHANGED node

\* What the executor owes the task; it never owes a panic.
Proceeds(w) ==
  \/ OpenFails(w) \/ AbortsSetup(w) \/ OpensCancelled(w)
  \/ StartsWatching(w) \/ StopsWatching(w)

WatcherStep(w) == Proceeds(w) \/ Panics(w)

------------------------------------------------------------------------------
(* The kernel and udev: nodes come and go; a node that udev has not given an *)
(* ACL yet cannot be opened.                                                 *)

Plug(p) ==
  /\ node[p] = "absent"
  /\ \E s \in {"denied", "unfit", "ok"} : node' = [node EXCEPT ![p] = s]
  /\ UNCHANGED <<control, tasks>>

Grant(p) ==
  /\ node[p] = "denied"
  /\ node' = [node EXCEPT ![p] = "ok"]
  /\ UNCHANGED <<control, tasks>>

Unplug(p) ==
  /\ node[p] # "absent"
  /\ node' = [node EXCEPT ![p] = "absent"]
  /\ watchers' = {IF w.path = p /\ w.stage = "watching"
                  THEN [w EXCEPT !.gone = TRUE] ELSE w : w \in watchers}
  /\ UNCHANGED <<control, tracked, nextDeviceId, givenUp>>

------------------------------------------------------------------------------
Next ==
  \/ SupervisorStep
  \/ \E w \in watchers : WatcherStep(w)
  \/ \E s \in FpsIds : RegisterFps(s) \/ TickSendFails(s)
  \/ \E s \in RawIds : RegisterRaw(s)
  \/ \E s \in Subs : DropHandle(s)
  \/ \E p \in Paths : Plug(p) \/ Grant(p) \/ Unplug(p)
  \/ Terminate
  \/ ScanTimer

Spec == Init /\ [][Next]_vars

\* The executor runs every task that is ready, and the interval keeps ticking.
Fairness ==
  /\ WF_vars(SupervisorStep)
  /\ WF_vars(ScanTimer)
  /\ \A p \in Paths : WF_vars(\E w \in watchers : w.path = p /\ Proceeds(w))

FairSpec == Spec /\ Fairness

------------------------------------------------------------------------------
(* Properties *)

\* Two tasks never read the same node, across sessions, replugs and failed
\* opens, and "tracked", which the scan tests and which watch_device shrinks
\* many steps later, holds the nodes that have a task and those given up.
OneWatcherPerPath ==
  /\ \A v, w \in watchers : v.path = w.path => v = w
  /\ tracked = WatchedPaths \union givenUp
  /\ WatchedPaths \intersect givenUp = {}

\* A session that is over has forgotten everything: no task is left, and the
\* nodes the setup gave up on are tried again by the next session.
IdleIsClean ==
  sup = "select" /\ ~deviceTracker => watchers = {} /\ tracked = {}

\* The supervisor never sleeps on stale demand.  If it awaits the next event
\* and the tables disagree with the session, a wakeup is on its way; the one
\* exception is a subscriber that a failed send has removed.
NoLostWakeup ==
  sup = "select" /\ HasSubscribers # deviceTracker =>
    \/ notify
    \/ ~HasSubscribers /\ held # {}

\* Two devices share the EWM of a subscriber only if 2^16 ids have been
\* handed out in the lifetime of one of them.
IdsDistinct ==
  \A v, w \in watchers :
    v # w /\ v.id = w.id => IdSpace \in {v.age, w.age}

\* Refinement: open devices only inside a session, one session at a time.
Session ==
  CASE sup = "select" /\ deviceTracker -> "active"
    [] sup \in {"closing", "draining"} -> "closing"
    [] OTHER -> "idle"

Abstract == INSTANCE DeviceSession WITH
  demand <- HasSubscribers, live <- ~cancelled,
  session <- Session, open <- OpenPaths

RefinesDeviceSession == Abstract!Spec

\* "only subscribes to input devices during active sessions": once nobody is
\* subscribed, every device is closed, unless somebody subscribes again.
DevicesReleased == ~HasSubscribers ~> (OpenPaths = {} \/ HasSubscribers)

\* A usable node is watched while somebody is subscribed, however it got
\* there; the exceptions are the nodes that were given up.
UsableNodeWatched ==
  \A p \in Paths :
    node[p] = "ok" /\ HasSubscribers ~>
      \/ \E w \in watchers : w.path = p /\ w.stage = "watching" /\ ~w.gone
      \/ node[p] # "ok" \/ ~HasSubscribers \/ cancelled
      \/ p \in givenUp

\* Termination: the supervisor returns, whatever it was waiting for.
Terminates == cancelled ~> sup = "done"

==============================================================================
