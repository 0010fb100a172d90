-------------------------- MODULE SupervisorProofs ---------------------------
(****************************************************************************)
(* The safety properties of Supervisor, and that it implements              *)
(* DeviceSession, for every set of paths and subscribers and every size of  *)
(* the id space.                                                            *)
(****************************************************************************)
EXTENDS Supervisor, FiniteSetTheorems, TLAPS

------------------------------------------------------------------------------
(* The inductive invariant, in parts *)

\* A session has devices; without one there are none, and none is tracked.
\* Subscriptions are held; what arrives while a session closes is notified.
SessionInv ==
  /\ fpsSubs \union rawSubs \subseteq held
  /\ sup # "select" => ~deviceTracker
  /\ sup \in {"draining", "done"} => cancelled
  /\ sup = "done" => watchers = {}
  /\ sup = "select" /\ ~deviceTracker => watchers = {} /\ tracked = {}
  /\ sup = "closing" /\ HasSubscribers => notify

\* The age of a task says which id it has, and no two tasks are equally old.
AgeInv ==
  /\ \A w \in watchers : w.age < IdSpace =>
       w.id + w.age \in {nextDeviceId, nextDeviceId + IdSpace}
  /\ \A v, w \in watchers : v # w /\ v.age = w.age => v.age = IdSpace

IInv == TypeOK /\ SessionInv /\ OneWatcherPerPath /\ NoLostWakeup /\ AgeInv

LEMMA IdSpacePositive == IdSpace \in Nat \ {0}
<1>1. Cardinality(Paths) \in Nat
  BY PathsAssumption, FS_CardinalityType
<1> QED BY <1>1, IdSpaceAssumption

LEMMA InitIInv == Init => IInv
<1> SUFFICES ASSUME Init PROVE IInv
  OBVIOUS
<1>1. TypeOK
  <2>1. 0 \in 0 .. IdSpace - 1
    BY IdSpacePositive
  <2> QED BY <2>1 DEF Init, TypeOK, SupState
<1>2. SessionInv
  BY DEF Init, SessionInv, HasSubscribers
<1>3. OneWatcherPerPath
  BY DEF Init, OneWatcherPerPath, WatchedPaths
<1>4. NoLostWakeup
  BY DEF Init, NoLostWakeup, HasSubscribers
<1>5. AgeInv
  BY DEF Init, AgeInv
<1> QED BY <1>1, <1>2, <1>3, <1>4, <1>5 DEF IInv

------------------------------------------------------------------------------
(* Scanning *)

\* A scan hands out fewer ids than there are.
LEMMA NewAreFew ==
  ASSUME tracked \subseteq Paths
  PROVE  /\ Cardinality(Discovered \ tracked) \in Nat
         /\ Cardinality(Discovered \ tracked) < IdSpace
         /\ IdSpace \in Nat \ {0}
<1> DEFINE new == Discovered \ tracked
<1>1. new \subseteq Paths
  BY DEF Discovered
<1>2. IsFiniteSet(new) /\ Cardinality(new) <= Cardinality(Paths)
  BY <1>1, PathsAssumption, FS_Subset
<1>3. Cardinality(new) \in Nat /\ Cardinality(Paths) \in Nat
  BY <1>2, PathsAssumption, FS_CardinalityType
<1> QED BY <1>2, <1>3, IdSpaceAssumption

\* WrappingAdd stays in the id space.
LEMMA WrappingAddInRange ==
  ASSUME NEW id \in 0 .. IdSpace - 1, NEW k \in Nat, k <= IdSpace
  PROVE  WrappingAdd(id, k) \in 0 .. IdSpace - 1
BY IdSpaceAssumption DEF WrappingAdd

\* Ageing changes the age only.
LEMMA AgedFields ==
  ASSUME NEW w \in Watcher, NEW k \in Nat
  PROVE  /\ Aged(w, k) \in Watcher
         /\ Aged(w, k).path = w.path /\ Aged(w, k).id = w.id
         /\ Aged(w, k).stage = w.stage /\ Aged(w, k).gone = w.gone
         /\ Aged(w, k).age = IF w.age + k < IdSpace THEN w.age + k ELSE IdSpace
<1>1. w.age \in 1 .. IdSpace
  BY DEF Watcher
<1>2. (IF w.age + k < IdSpace THEN w.age + k ELSE IdSpace) \in 1 .. IdSpace
  BY <1>1, IdSpaceAssumption
<1> QED BY <1>1, <1>2 DEF Aged, Watcher


NewPaths == Discovered \ tracked

Newcomer(p, n, rank) ==
  [path |-> p, id |-> WrappingAdd(nextDeviceId, rank[p]), age |-> n - rank[p],
   stage |-> "spawned", gone |-> FALSE]

\* The tasks after a scan: those there were, older, and one for each new path.
Spawned(n, rank) ==
  /\ n < IdSpace
  /\ \A p \in NewPaths : rank[p] < n
  /\ \A p, q \in NewPaths : rank[p] = rank[q] => p = q
  /\ tracked' = tracked \union NewPaths
  /\ nextDeviceId' = WrappingAdd(nextDeviceId, n)
  /\ watchers' = {Aged(w, n) : w \in watchers} \union
                 {Newcomer(p, n, rank) : p \in NewPaths}

LEMMA SpawnedTasks ==
  ASSUME TypeOK, SpawnWatchers
  PROVE  \E n \in Nat, rank \in [NewPaths -> Nat] : Spawned(n, rank)
<1> DEFINE n == Cardinality(NewPaths)
<1>1. n \in Nat /\ n < IdSpace
  BY NewAreFew DEF TypeOK, NewPaths
<1>2. PICK rank \in Injection(NewPaths, 0 .. n - 1) :
        /\ tracked' = tracked \union NewPaths
        /\ nextDeviceId' = WrappingAdd(nextDeviceId, n)
        /\ watchers' = {Aged(w, n) : w \in watchers} \union
                       {Newcomer(p, n, rank) : p \in NewPaths}
  BY DEF SpawnWatchers, NewPaths, Newcomer
<1>3. rank \in [NewPaths -> 0 .. n - 1] /\ \A p, q \in NewPaths : rank[p] = rank[q] => p = q
  BY <1>2 DEF Injection, IsInjective
<1> HIDE DEF n
<1>4. rank \in [NewPaths -> Nat] /\ \A p \in NewPaths : rank[p] < n
  BY <1>1, <1>3
<1> QED BY <1>1, <1>2, <1>3, <1>4 DEF Spawned

\* A scan keeps the tasks well typed, one per path, each with its own age.
LEMMA SpawnKeeps ==
  ASSUME IInv, SpawnWatchers
  PROVE  /\ tracked' \subseteq Paths /\ nextDeviceId' \in 0 .. IdSpace - 1
         /\ watchers' \subseteq Watcher
         /\ OneWatcherPerPath' /\ AgeInv'
         /\ UNCHANGED <<OpenPaths, givenUp>>
<1>1. PICK n \in Nat, rank \in [NewPaths -> Nat] : Spawned(n, rank)
  BY SpawnedTasks DEF IInv
<1>2. IdSpace \in Nat /\ n < IdSpace /\ nextDeviceId \in 0 .. IdSpace - 1
  BY <1>1, IdSpaceAssumption DEF Spawned, IInv, TypeOK
<1>3. NewPaths \subseteq Paths /\ NewPaths \intersect tracked = {}
  BY DEF NewPaths, Discovered
<1>4. ASSUME NEW p \in NewPaths
      PROVE  /\ rank[p] \in Nat /\ rank[p] < n
             /\ Newcomer(p, n, rank) \in Watcher
             /\ Newcomer(p, n, rank).path = p
             /\ Newcomer(p, n, rank).stage = "spawned"
             /\ Newcomer(p, n, rank).age = n - rank[p]
             /\ Newcomer(p, n, rank).id = WrappingAdd(nextDeviceId, rank[p])
  <2>1. rank[p] \in Nat /\ rank[p] < n
    BY <1>1 DEF Spawned
  <2>2. WrappingAdd(nextDeviceId, rank[p]) \in 0 .. IdSpace - 1
    <3>1. rank[p] <= IdSpace
      BY <1>2, <2>1
    <3> QED BY <1>2, <2>1, <3>1, WrappingAddInRange
  <2>3. n - rank[p] \in 1 .. IdSpace
    BY <1>2, <2>1
  <2> QED BY <1>3, <2>1, <2>2, <2>3 DEF Newcomer, Watcher
<1>5. ASSUME NEW w \in watchers
      PROVE  /\ w \in Watcher /\ Aged(w, n) \in Watcher
             /\ Aged(w, n).path = w.path /\ Aged(w, n).id = w.id
             /\ Aged(w, n).stage = w.stage
             /\ Aged(w, n).age = IF w.age + n < IdSpace THEN w.age + n ELSE IdSpace
             /\ w.age \in 1 .. IdSpace /\ w.id \in 0 .. IdSpace - 1
             /\ w.path \in tracked
  <2>1. w \in Watcher
    BY DEF IInv, TypeOK
  <2>2. w.path \in tracked
    BY DEF IInv, OneWatcherPerPath, WatchedPaths
  <2> QED BY <2>1, <2>2, AgedFields DEF Watcher
<1>6. ASSUME NEW w \in watchers'
      PROVE  \/ \E v \in watchers : w = Aged(v, n)
             \/ \E p \in NewPaths : w = Newcomer(p, n, rank)
  BY <1>1 DEF Spawned
<1>7. tracked' \subseteq Paths /\ nextDeviceId' \in 0 .. IdSpace - 1
  BY <1>1, <1>2, <1>3, WrappingAddInRange DEF Spawned, IInv, TypeOK
<1>8. watchers' \subseteq Watcher
  BY <1>4, <1>5, <1>6
<1>9. UNCHANGED givenUp
  BY DEF SpawnWatchers
<1>10. OneWatcherPerPath'
  <2>1. ASSUME NEW v \in watchers', NEW w \in watchers', v.path = w.path
        PROVE  v = w
    <3>1. CASE (\E a \in watchers : v = Aged(a, n)) /\ (\E b \in watchers : w = Aged(b, n))
      <4>1. PICK a \in watchers, b \in watchers : v = Aged(a, n) /\ w = Aged(b, n)
        BY <3>1
      <4>2. a = b
        BY <2>1, <4>1, <1>5 DEF IInv, OneWatcherPerPath
      <4> QED BY <4>1, <4>2
    <3>2. CASE (\E p \in NewPaths : v = Newcomer(p, n, rank))
               /\ (\E q \in NewPaths : w = Newcomer(q, n, rank))
      BY <2>1, <3>2, <1>4
    <3>3. CASE (\E a \in watchers : v = Aged(a, n))
               /\ (\E q \in NewPaths : w = Newcomer(q, n, rank))
      BY <2>1, <3>3, <1>3, <1>4, <1>5
    <3>4. CASE (\E p \in NewPaths : v = Newcomer(p, n, rank))
               /\ (\E b \in watchers : w = Aged(b, n))
      BY <2>1, <3>4, <1>3, <1>4, <1>5
    <3> QED BY <1>6, <3>1, <3>2, <3>3, <3>4
  <2>2. WatchedPaths' = WatchedPaths \union NewPaths
    <3>1. ASSUME NEW p \in WatchedPaths' PROVE p \in WatchedPaths \union NewPaths
      BY <1>4, <1>5, <1>6 DEF WatchedPaths
    <3>2. ASSUME NEW p \in WatchedPaths PROVE p \in WatchedPaths'
      <4>1. PICK w \in watchers : p = w.path
        BY DEF WatchedPaths
      <4>2. Aged(w, n) \in watchers' /\ Aged(w, n).path = p
        BY <1>1, <1>5, <4>1 DEF Spawned
      <4> QED BY <4>2 DEF WatchedPaths
    <3>3. ASSUME NEW p \in NewPaths PROVE p \in WatchedPaths'
      <4>1. Newcomer(p, n, rank) \in watchers' /\ Newcomer(p, n, rank).path = p
        BY <1>1, <1>4 DEF Spawned
      <4> QED BY <4>1 DEF WatchedPaths
    <3> QED BY <3>1, <3>2, <3>3
  <2>3. tracked' = tracked \union NewPaths
    BY <1>1 DEF Spawned
  <2>4. tracked = WatchedPaths \union givenUp /\ WatchedPaths \intersect givenUp = {}
    BY DEF IInv, OneWatcherPerPath
  <2>5. tracked' = WatchedPaths' \union givenUp' /\ WatchedPaths' \intersect givenUp' = {}
    BY <1>3, <1>9, <2>2, <2>3, <2>4
  <2> QED BY <2>1, <2>5 DEF OneWatcherPerPath
<1>11. AgeInv'
  <2>1. nextDeviceId' = IF nextDeviceId + n < IdSpace
                        THEN nextDeviceId + n ELSE nextDeviceId + n - IdSpace
    BY <1>1 DEF Spawned, WrappingAdd
  <2>2. ASSUME NEW w \in watchers', w.age < IdSpace
        PROVE  w.id + w.age \in {nextDeviceId', nextDeviceId' + IdSpace}
    <3>1. CASE \E v \in watchers : w = Aged(v, n)
      <4>1. PICK v \in watchers : w = Aged(v, n)
        BY <3>1
      <4>2. v.age + n < IdSpace /\ w.age = v.age + n /\ w.id = v.id
            /\ v.age \in Nat /\ v.id \in 0 .. IdSpace - 1
        BY <1>2, <1>5, <2>2, <4>1
      <4>3. v.id + v.age \in {nextDeviceId, nextDeviceId + IdSpace}
        BY <1>2, <4>2 DEF IInv, AgeInv
      <4> QED BY <1>2, <2>1, <4>2, <4>3
    <3>2. CASE \E p \in NewPaths : w = Newcomer(p, n, rank)
      <4>1. PICK p \in NewPaths : w = Newcomer(p, n, rank)
        BY <3>2
      <4>2. rank[p] \in Nat /\ rank[p] < n /\ w.age = n - rank[p]
            /\ w.id = WrappingAdd(nextDeviceId, rank[p])
        BY <1>4, <4>1
      <4> QED BY <1>2, <2>1, <4>2 DEF WrappingAdd
    <3> QED BY <1>6, <3>1, <3>2
  <2>3. ASSUME NEW v \in watchers', NEW w \in watchers', v # w, v.age = w.age
        PROVE  v.age = IdSpace
    <3>1. CASE (\E a \in watchers : v = Aged(a, n)) /\ (\E b \in watchers : w = Aged(b, n))
      <4>1. PICK a \in watchers, b \in watchers : v = Aged(a, n) /\ w = Aged(b, n)
        BY <3>1
      <4>2. a # b
        BY <2>3, <4>1
      <4>3. a.age = b.age => a.age = IdSpace
        BY <4>2 DEF IInv, AgeInv
      <4> QED BY <1>2, <1>5, <2>3, <4>1, <4>3
    <3>2. CASE (\E p \in NewPaths : v = Newcomer(p, n, rank))
               /\ (\E q \in NewPaths : w = Newcomer(q, n, rank))
      <4>1. PICK p \in NewPaths, q \in NewPaths :
              v = Newcomer(p, n, rank) /\ w = Newcomer(q, n, rank)
        BY <3>2
      <4>2. rank[p] = rank[q]
        BY <1>4, <2>3, <4>1
      <4>3. p = q
        BY <1>1, <4>2 DEF Spawned
      <4> QED BY <2>3, <4>1, <4>3
    <3>3. CASE (\E a \in watchers : v = Aged(a, n))
               /\ (\E q \in NewPaths : w = Newcomer(q, n, rank))
      BY <1>2, <1>4, <1>5, <2>3, <3>3
    <3>4. CASE (\E p \in NewPaths : v = Newcomer(p, n, rank))
               /\ (\E b \in watchers : w = Aged(b, n))
      BY <1>2, <1>4, <1>5, <2>3, <3>4
    <3> QED BY <1>6, <3>1, <3>2, <3>3, <3>4
  <2> QED BY <2>2, <2>3 DEF AgeInv
<1>12. UNCHANGED OpenPaths
  <2>1. ASSUME NEW p \in OpenPaths PROVE p \in OpenPaths'
    <3>1. PICK w \in watchers : w.stage = "watching" /\ p = w.path
      BY DEF OpenPaths
    <3>2. Aged(w, n) \in watchers' /\ Aged(w, n).path = p /\ Aged(w, n).stage = "watching"
      BY <1>1, <1>5, <3>1 DEF Spawned
    <3> QED BY <3>2 DEF OpenPaths
  <2>2. ASSUME NEW p \in OpenPaths' PROVE p \in OpenPaths
    <3>1. PICK w \in watchers' : w.stage = "watching" /\ p = w.path
      BY DEF OpenPaths
    <3>2. PICK v \in watchers : w = Aged(v, n)
      BY <1>4, <1>6, <3>1
    <3> QED BY <1>5, <3>1, <3>2 DEF OpenPaths
  <2> QED BY <2>1, <2>2
<1> QED BY <1>7, <1>8, <1>9, <1>10, <1>11, <1>12

------------------------------------------------------------------------------
(* Steps of the clients, the tick loops, the timer and main *)

LEMMA RegisterFpsKeeps ==
  ASSUME IInv, NEW s \in FpsIds, RegisterFps(s)
  PROVE  IInv'
BY DEF IInv, RegisterFps, TypeOK, Subs, SessionInv, HasSubscribers, NoLostWakeup,
       OneWatcherPerPath, WatchedPaths, AgeInv, tasks

LEMMA RegisterRawKeeps ==
  ASSUME IInv, NEW s \in RawIds, RegisterRaw(s)
  PROVE  IInv'
BY DEF IInv, RegisterRaw, TypeOK, Subs, SessionInv, HasSubscribers, NoLostWakeup,
       OneWatcherPerPath, WatchedPaths, AgeInv, tasks

\* SubsAssumption: a slot is either an FPS or a raw one, so the drop leaves the
\* other subscribers held.
LEMMA DropHandleKeeps ==
  ASSUME IInv, NEW s \in Subs, DropHandle(s)
  PROVE  IInv'
BY SubsAssumption
   DEF IInv, DropHandle, TypeOK, Subs, SessionInv, HasSubscribers, NoLostWakeup,
       OneWatcherPerPath, WatchedPaths, AgeInv, tasks

\* The exception of NoLostWakeup: the client of s still holds its handle.
LEMMA TickSendFailsKeeps ==
  ASSUME IInv, NEW s \in FpsIds, TickSendFails(s)
  PROVE  IInv'
BY DEF IInv, TickSendFails, TypeOK, SessionInv, HasSubscribers, NoLostWakeup,
       OneWatcherPerPath, WatchedPaths, AgeInv, tasks

LEMMA TerminateKeeps ==
  ASSUME IInv, Terminate
  PROVE  IInv'
BY DEF IInv, Terminate, TypeOK, SessionInv, HasSubscribers, NoLostWakeup,
       OneWatcherPerPath, WatchedPaths, AgeInv, tasks, server

LEMMA ScanTimerKeeps ==
  ASSUME IInv, ScanTimer
  PROVE  IInv'
BY DEF IInv, ScanTimer, TypeOK, SessionInv, HasSubscribers, NoLostWakeup,
       OneWatcherPerPath, WatchedPaths, AgeInv, tasks, server

------------------------------------------------------------------------------
(* Steps of the supervisor *)

\* What a pass of the loop's body does, whichever event began it: afterwards
\* the session agrees with the tables, or is being closed.
LEMMA BodyKeeps ==
  ASSUME IInv, sup = "select", ~cancelled, Body, UNCHANGED <<server, cancelled, node>>,
         notify' \in BOOLEAN, scanDue' \in BOOLEAN
  PROVE  IInv'
<1>1. CASE Serve
  <2>1. /\ tracked' \subseteq Paths /\ nextDeviceId' \in 0 .. IdSpace - 1
        /\ watchers' \subseteq Watcher /\ OneWatcherPerPath' /\ AgeInv'
        /\ UNCHANGED givenUp
    BY <1>1, SpawnKeeps DEF Serve
  <2>2. deviceTracker' = TRUE /\ sup' = "select" /\ HasSubscribers'
    BY <1>1 DEF Serve, HasSubscribers, server
  <2>3. TypeOK'
    BY <2>1, <2>2 DEF IInv, TypeOK, server
  <2>4. SessionInv' /\ NoLostWakeup'
    BY <2>2 DEF IInv, SessionInv, NoLostWakeup, server
  <2> QED BY <2>1, <2>3, <2>4 DEF IInv
<1>2. CASE CloseSession
  BY <1>2 DEF IInv, CloseSession, TypeOK, SupState, SessionInv, HasSubscribers,
       NoLostWakeup, OneWatcherPerPath, WatchedPaths, AgeInv, tasks, server
<1>3. CASE StayIdle
  BY <1>3 DEF IInv, StayIdle, TypeOK, SessionInv, HasSubscribers,
       NoLostWakeup, OneWatcherPerPath, WatchedPaths, AgeInv, tasks, server
<1> QED BY <1>1, <1>2, <1>3 DEF Body

LEMMA OnCancelledKeeps ==
  ASSUME IInv, OnCancelled
  PROVE  IInv'
BY DEF IInv, OnCancelled, TypeOK, SupState, SessionInv, HasSubscribers, NoLostWakeup,
       OneWatcherPerPath, WatchedPaths, AgeInv, tasks, server

LEMMA SessionClosedKeeps ==
  ASSUME IInv, SessionClosed
  PROVE  IInv'
BY DEF IInv, SessionClosed, TypeOK, SupState, SessionInv, HasSubscribers, NoLostWakeup,
       OneWatcherPerPath, WatchedPaths, AgeInv, server

LEMMA DrainedKeeps ==
  ASSUME IInv, Drained
  PROVE  IInv'
BY DEF IInv, Drained, TypeOK, SupState, SessionInv, HasSubscribers, NoLostWakeup,
       OneWatcherPerPath, WatchedPaths, AgeInv, tasks, server

LEMMA SupervisorStepKeeps ==
  ASSUME IInv, SupervisorStep
  PROVE  IInv'
<1>1. CASE OnNotify
  BY <1>1, BodyKeeps DEF OnNotify, IInv, TypeOK
<1>2. CASE OnScan
  BY <1>2, BodyKeeps DEF OnScan, IInv, TypeOK
<1> QED BY <1>1, <1>2, OnCancelledKeeps, SessionClosedKeeps, DrainedKeeps
        DEF SupervisorStep

------------------------------------------------------------------------------
(* Steps of the watchers *)

\* A task that leaves takes its path with it, and no other task's.
LEMMA LeavingTask ==
  ASSUME IInv, NEW w \in watchers, watchers' = watchers \ {w},
         nextDeviceId' = nextDeviceId
  PROVE  /\ WatchedPaths' = WatchedPaths \ {w.path}
         /\ watchers' \subseteq Watcher
         /\ \A u, v \in watchers' : u.path = v.path => u = v
         /\ AgeInv'
<1>1. WatchedPaths' = WatchedPaths \ {w.path}
  BY DEF IInv, OneWatcherPerPath, WatchedPaths
<1>2. watchers' \subseteq Watcher
  BY DEF IInv, TypeOK
<1>3. \A u, v \in watchers' : u.path = v.path => u = v
  BY DEF IInv, OneWatcherPerPath
<1>4. AgeInv'
  BY DEF IInv, AgeInv
<1> QED BY <1>1, <1>2, <1>3, <1>4

LEMMA FinishKeeps ==
  ASSUME IInv, NEW w \in watchers, Finish(w)
  PROVE  IInv'
<1>1. /\ WatchedPaths' = WatchedPaths \ {w.path}
      /\ watchers' \subseteq Watcher
      /\ \A u, v \in watchers' : u.path = v.path => u = v
      /\ AgeInv'
  BY LeavingTask DEF Finish
<1>2. TypeOK'
  BY <1>1 DEF IInv, TypeOK, Finish, control, server
<1>3. OneWatcherPerPath'
  <2>1. w.path \in WatchedPaths
    BY DEF WatchedPaths
  <2> QED BY <1>1, <2>1 DEF IInv, OneWatcherPerPath, Finish
<1>4. SessionInv' /\ NoLostWakeup'
  BY DEF IInv, SessionInv, NoLostWakeup, HasSubscribers, Finish, control, server
<1> QED BY <1>1, <1>2, <1>3, <1>4 DEF IInv

\* A task that ends without removing its path has given the node up.
LEMMA GivesUpKeeps ==
  ASSUME IInv, NEW w \in watchers, GivesUp(w), node' \in [Paths -> NodeState]
  PROVE  IInv'
<1>1. /\ WatchedPaths' = WatchedPaths \ {w.path}
      /\ watchers' \subseteq Watcher
      /\ \A u, v \in watchers' : u.path = v.path => u = v
      /\ AgeInv'
  BY LeavingTask DEF GivesUp
<1>2. w.path \in WatchedPaths /\ w.path \in Paths
  BY DEF WatchedPaths, IInv, TypeOK, Watcher
<1>3. TypeOK'
  BY <1>1, <1>2 DEF IInv, TypeOK, GivesUp, control, server
<1>4. OneWatcherPerPath'
  BY <1>1, <1>2 DEF IInv, OneWatcherPerPath, GivesUp
<1>5. SessionInv' /\ NoLostWakeup'
  BY DEF IInv, SessionInv, NoLostWakeup, HasSubscribers, GivesUp, control, server
<1> QED BY <1>1, <1>3, <1>4, <1>5 DEF IInv

LEMMA AbortsSetupKeeps ==
  ASSUME IInv, NEW w \in watchers, AbortsSetup(w) \/ Panics(w)
  PROVE  IInv'
<1>1. node' \in [Paths -> NodeState]
  BY DEF IInv, TypeOK, AbortsSetup, Panics, NodeState
<1> QED BY <1>1, GivesUpKeeps DEF AbortsSetup, Panics

\* A step that changes at most the stage of tasks, or whether their node is
\* there, keeps what is said of their paths, ids and ages.
LEMMA RelabelledTasks ==
  ASSUME IInv, NEW f \in [watchers -> Watcher],
         \A w \in watchers : f[w].path = w.path /\ f[w].id = w.id /\ f[w].age = w.age,
         watchers' = {f[w] : w \in watchers},
         UNCHANGED <<control, tracked, nextDeviceId, givenUp>>,
         node' \in [Paths -> NodeState]
  PROVE  IInv'
<1>1. ASSUME NEW v \in watchers'
      PROVE  \E w \in watchers : v = f[w] /\ v.path = w.path /\ v.id = w.id /\ v.age = w.age
  OBVIOUS
<1>2. TypeOK'
  <2>1. watchers' \subseteq Watcher
    OBVIOUS
  <2> QED BY <2>1 DEF IInv, TypeOK, control, server
<1>3. OneWatcherPerPath'
  <2>1. WatchedPaths' = WatchedPaths
    BY DEF WatchedPaths
  <2>2. \A u, v \in watchers' : u.path = v.path => u = v
    BY <1>1 DEF IInv, OneWatcherPerPath
  <2> QED BY <2>1, <2>2 DEF IInv, OneWatcherPerPath
<1>4. AgeInv'
  BY <1>1 DEF IInv, AgeInv
<1>5. SessionInv' /\ NoLostWakeup'
  BY DEF IInv, SessionInv, NoLostWakeup, HasSubscribers, control, server
<1> QED BY <1>2, <1>3, <1>4, <1>5 DEF IInv

LEMMA StartsWatchingKeeps ==
  ASSUME IInv, NEW w \in watchers, StartsWatching(w)
  PROVE  IInv'
<1> DEFINE f == [v \in watchers |-> IF v = w THEN [w EXCEPT !.stage = "watching"] ELSE v]
<1>1. \A v \in watchers : v \in Watcher
  BY DEF IInv, TypeOK
<1>2. f \in [watchers -> Watcher]
  BY <1>1 DEF Watcher
<1>3. \A v \in watchers : f[v].path = v.path /\ f[v].id = v.id /\ f[v].age = v.age
  BY <1>1 DEF Watcher
<1>4. watchers' = {f[v] : v \in watchers}
  BY DEF StartsWatching
<1>5. node' \in [Paths -> NodeState] /\ UNCHANGED <<control, tracked, nextDeviceId, givenUp>>
  BY DEF StartsWatching, IInv, TypeOK
<1> HIDE DEF f
<1> QED BY <1>2, <1>3, <1>4, <1>5, RelabelledTasks

LEMMA WatcherStepKeeps ==
  ASSUME IInv, NEW w \in watchers, WatcherStep(w)
  PROVE  IInv'
BY FinishKeeps, AbortsSetupKeeps, StartsWatchingKeeps
   DEF WatcherStep, Proceeds, OpenFails, OpensCancelled, StopsWatching

------------------------------------------------------------------------------
(* Steps of the kernel and udev *)

LEMMA PlugGrantKeeps ==
  ASSUME IInv, NEW p \in Paths, Plug(p) \/ Grant(p)
  PROVE  IInv'
<1>1. node' \in [Paths -> NodeState]
  BY DEF IInv, TypeOK, Plug, Grant, NodeState
<1>2. UNCHANGED <<control, tasks>>
  BY DEF Plug, Grant
<1> QED BY <1>1, <1>2 DEF IInv, TypeOK, SessionInv, HasSubscribers, NoLostWakeup,
           OneWatcherPerPath, WatchedPaths, AgeInv, control, tasks, server

LEMMA UnplugKeeps ==
  ASSUME IInv, NEW p \in Paths, Unplug(p)
  PROVE  IInv'
<1> DEFINE f == [w \in watchers |-> IF w.path = p /\ w.stage = "watching"
                                    THEN [w EXCEPT !.gone = TRUE] ELSE w]
<1>1. \A v \in watchers : v \in Watcher
  BY DEF IInv, TypeOK
<1>2. f \in [watchers -> Watcher]
  <2>1. ASSUME NEW v \in watchers
        PROVE  [v EXCEPT !.gone = TRUE] \in Watcher
    <3>1. TRUE \in BOOLEAN
      OBVIOUS
    <3> QED BY <1>1, <3>1, Zenon DEF Watcher
  <2> QED BY <1>1, <2>1
<1>3. \A v \in watchers : f[v].path = v.path /\ f[v].id = v.id /\ f[v].age = v.age
  BY <1>1 DEF Watcher
<1>4. watchers' = {f[v] : v \in watchers}
  BY DEF Unplug
<1>5. node' \in [Paths -> NodeState] /\ UNCHANGED <<control, tracked, nextDeviceId, givenUp>>
  BY DEF Unplug, IInv, TypeOK, NodeState
<1> HIDE DEF f
<1> QED BY <1>2, <1>3, <1>4, <1>5, RelabelledTasks

------------------------------------------------------------------------------
(* The invariant *)

LEMMA NextKeepsIInv == IInv /\ [Next]_vars => IInv'
<1> SUFFICES ASSUME IInv, [Next]_vars PROVE IInv'
  OBVIOUS
<1>1. CASE SupervisorStep
  BY <1>1, SupervisorStepKeeps
<1>2. CASE \E w \in watchers : WatcherStep(w)
  BY <1>2, WatcherStepKeeps
<1>3. CASE \E s \in FpsIds : RegisterFps(s) \/ TickSendFails(s)
  BY <1>3, RegisterFpsKeeps, TickSendFailsKeeps
<1>4. CASE \E s \in RawIds : RegisterRaw(s)
  BY <1>4, RegisterRawKeeps
<1>5. CASE \E s \in Subs : DropHandle(s)
  BY <1>5, DropHandleKeeps
<1>6. CASE \E p \in Paths : Plug(p) \/ Grant(p) \/ Unplug(p)
  BY <1>6, PlugGrantKeeps, UnplugKeeps
<1>7. CASE Terminate
  BY <1>7, TerminateKeeps
<1>8. CASE ScanTimer
  BY <1>8, ScanTimerKeeps
<1>9. CASE UNCHANGED vars
  BY <1>9 DEF IInv, TypeOK, SessionInv, HasSubscribers, NoLostWakeup,
       OneWatcherPerPath, WatchedPaths, AgeInv, vars, control, tasks, server
<1> QED BY <1>1, <1>2, <1>3, <1>4, <1>5, <1>6, <1>7, <1>8, <1>9 DEF Next

LEMMA Invariance == Spec => []IInv
BY InitIInv, NextKeepsIInv, PTL DEF Spec

\* TypeCorrect: every variable of the supervisor and its tasks keeps its type;
\* an id handed out by wrapping_add is always one of the IdSpace ids.
THEOREM TypeCorrect == Spec => []TypeOK
BY Invariance, PTL DEF IInv

\* WatchersAlways: however nodes are replugged and sessions end, two tasks of
\* watch_device never read the same node, and "tracked" is exactly the paths
\* of the tasks and the paths whose setup was given up.
THEOREM WatchersAlways == Spec => []OneWatcherPerPath
BY Invariance, PTL DEF IInv

\* IdleCleanAlways: when a session is over no task of it is left and "tracked"
\* is empty, so the next session starts from nothing.
THEOREM IdleCleanAlways == Spec => []IdleIsClean
<1>1. IInv => IdleIsClean
  BY DEF IInv, SessionInv, IdleIsClean
<1> QED BY <1>1, Invariance, PTL

\* NoLostWakeupAlways: a supervisor that awaits the next event agrees with the
\* subscriber tables, or a permit is there to wake it, or a failed send has
\* removed a subscriber whose client still holds the handle.
THEOREM NoLostWakeupAlways == Spec => []NoLostWakeup
BY Invariance, PTL DEF IInv

\* IdsDistinctAlways: two devices read at once have different ids unless
\* IdSpace ids have been handed out in the lifetime of one of them.
THEOREM IdsDistinctAlways == Spec => []IdsDistinct
<1>1. IInv => IdsDistinct
  <2> SUFFICES ASSUME IInv, NEW v \in watchers, NEW w \in watchers,
                      v # w, v.id = w.id, v.age # IdSpace, w.age # IdSpace
               PROVE  FALSE
    BY DEF IdsDistinct
  <2>1. /\ IdSpace \in Nat /\ nextDeviceId \in 0 .. IdSpace - 1
        /\ v.age \in 1 .. IdSpace /\ w.age \in 1 .. IdSpace /\ v.id \in 0 .. IdSpace - 1
    BY IdSpaceAssumption DEF IInv, TypeOK, Watcher
  <2>2. /\ v.id + v.age \in {nextDeviceId, nextDeviceId + IdSpace}
        /\ v.id + w.age \in {nextDeviceId, nextDeviceId + IdSpace}
    BY <2>1 DEF IInv, AgeInv
  <2>3. v.age = w.age
    BY <2>1, <2>2
  <2> QED BY <2>3 DEF IInv, AgeInv
<1> QED BY <1>1, Invariance, PTL

------------------------------------------------------------------------------
(* The refinement *)

\* What the abstract state reads of the concrete one.
Seen == <<fpsSubs, rawSubs, cancelled, sup, deviceTracker, OpenPaths>>

LEMMA SeenStutters ==
  ASSUME UNCHANGED Seen
  PROVE  UNCHANGED Abstract!vars
BY DEF Seen, Abstract!vars, HasSubscribers, Session

LEMMA ClientRefines ==
  ASSUME IInv, UNCHANGED <<cancelled, sup, deviceTracker, watchers>>
  PROVE  Abstract!Ask
BY DEF Abstract!Ask, HasSubscribers, Session, OpenPaths

LEMMA BodyRefines ==
  ASSUME IInv, sup = "select", ~cancelled, Body, UNCHANGED <<server, cancelled>>
  PROVE  [Abstract!Next]_Abstract!vars
<1>1. UNCHANGED HasSubscribers
  BY DEF HasSubscribers, server
<1>2. CASE Serve
  <2>1. UNCHANGED OpenPaths /\ deviceTracker' = TRUE /\ sup' = "select" /\ HasSubscribers
    BY <1>2, SpawnKeeps DEF Serve
  <2>2. CASE deviceTracker
    <3>1. UNCHANGED Session
      BY <2>1, <2>2 DEF Session
    <3> QED BY <1>1, <2>1, <3>1 DEF Abstract!vars
  <2>3. CASE ~deviceTracker
    <3>1. Session = "idle" /\ Session' = "active"
      BY <2>1, <2>3 DEF Session
    <3> QED BY <1>1, <2>1, <3>1 DEF Abstract!Next, Abstract!Begin
  <2> QED BY <2>2, <2>3
<1>3. CASE CloseSession
  <2>1. Session = "active" /\ Session' = "closing" /\ UNCHANGED OpenPaths /\ ~HasSubscribers
    BY <1>3 DEF CloseSession, Session, tasks, OpenPaths
  <2> QED BY <1>1, <2>1 DEF Abstract!Next, Abstract!End
<1>4. CASE StayIdle
  <2>1. UNCHANGED Session /\ UNCHANGED OpenPaths
    BY <1>4 DEF StayIdle, Session, tasks, OpenPaths
  <2> QED BY <1>1, <2>1 DEF Abstract!vars
<1> QED BY <1>2, <1>3, <1>4 DEF Body

LEMMA SupervisorRefines ==
  ASSUME IInv, SupervisorStep
  PROVE  [Abstract!Next]_Abstract!vars
<1>1. CASE OnNotify
  BY <1>1, BodyRefines DEF OnNotify
<1>2. CASE OnScan
  BY <1>2, BodyRefines DEF OnScan
<1>3. CASE OnCancelled
  <2>1. UNCHANGED HasSubscribers /\ UNCHANGED OpenPaths /\ cancelled /\ UNCHANGED cancelled
    BY <1>3 DEF OnCancelled, HasSubscribers, OpenPaths, server, tasks
  <2>2. CASE deviceTracker
    <3>1. Session = "active" /\ Session' = "closing"
      BY <1>3, <2>2 DEF OnCancelled, Session
    <3> QED BY <2>1, <3>1 DEF Abstract!Next, Abstract!End
  <2>3. CASE ~deviceTracker
    <3>1. UNCHANGED Session
      BY <1>3, <2>3 DEF OnCancelled, Session
    <3> QED BY <2>1, <3>1 DEF Abstract!vars
  <2> QED BY <2>2, <2>3
<1>4. CASE SessionClosed \/ Drained
  <2>1. watchers = {} /\ UNCHANGED <<server, cancelled, watchers>>
    BY <1>4 DEF SessionClosed, Drained, tasks
  <2>2. Session = "closing" /\ Session' = "idle"
    BY <1>4 DEF SessionClosed, Drained, Session, IInv, SessionInv
  <2>3. OpenPaths = {} /\ OpenPaths' = {} /\ UNCHANGED HasSubscribers
    BY <2>1 DEF OpenPaths, HasSubscribers, server
  <2> QED BY <2>1, <2>2, <2>3 DEF Abstract!Next, Abstract!Rest
<1> QED BY <1>1, <1>2, <1>3, <1>4 DEF SupervisorStep

\* Only a task inside a session starts to watch, and its node is not open yet.
LEMMA StartsWatchingRefines ==
  ASSUME IInv, NEW w \in watchers, StartsWatching(w)
  PROVE  [Abstract!Next]_Abstract!vars
<1>1. w \in Watcher /\ w.path \in Paths
  BY DEF IInv, TypeOK, Watcher
<1>2. Session = "active" /\ ~cancelled
  BY DEF StartsWatching, Stopping, Session, IInv, SessionInv, TypeOK, SupState
<1>3. UNCHANGED <<HasSubscribers, cancelled, Session>>
  BY DEF StartsWatching, HasSubscribers, Session, control, server
<1>4. w.path \notin OpenPaths
  BY DEF StartsWatching, OpenPaths, IInv, OneWatcherPerPath
<1>5. OpenPaths' = OpenPaths \union {w.path}
  <2> DEFINE x == [w EXCEPT !.stage = "watching"]
  <2>1. x.path = w.path /\ x.stage = "watching"
    BY <1>1 DEF Watcher
  <2>2. watchers' = (watchers \ {w}) \union {x} /\ w.stage = "spawned"
    BY DEF StartsWatching
  <2> HIDE DEF x
  <2> QED BY <2>1, <2>2 DEF OpenPaths
<1>6. Abstract!Open(w.path)
  BY <1>2, <1>3, <1>4, <1>5 DEF Abstract!Open
<1> QED BY <1>1, <1>6 DEF Abstract!Next

LEMMA WatcherRefines ==
  ASSUME IInv, NEW w \in watchers, WatcherStep(w)
  PROVE  [Abstract!Next]_Abstract!vars
<1>1. CASE OpenFails(w) \/ AbortsSetup(w) \/ OpensCancelled(w)
  <2>1. w.stage = "spawned" /\ watchers' = watchers \ {w} /\ UNCHANGED control
    BY <1>1 DEF OpenFails, AbortsSetup, OpensCancelled, Finish, GivesUp
  <2>2. UNCHANGED OpenPaths
    BY <2>1 DEF OpenPaths
  <2>3. UNCHANGED Seen
    BY <2>1, <2>2 DEF Seen, control, server
  <2> QED BY <2>3, SeenStutters
<1>2. CASE StopsWatching(w) \/ Panics(w)
  <2>1. w.stage = "watching" /\ watchers' = watchers \ {w} /\ UNCHANGED control
    BY <1>2 DEF StopsWatching, Panics, Finish, GivesUp
  <2>2. w.path \in OpenPaths /\ w.path \in Paths
    BY <2>1 DEF OpenPaths, IInv, TypeOK, Watcher
  <2>3. OpenPaths' = OpenPaths \ {w.path}
    BY <2>1 DEF OpenPaths, IInv, OneWatcherPerPath
  <2>4. UNCHANGED <<HasSubscribers, cancelled, Session>>
    BY <2>1 DEF HasSubscribers, Session, control, server
  <2>5. Abstract!Close(w.path)
    BY <2>2, <2>3, <2>4 DEF Abstract!Close
  <2> QED BY <2>2, <2>5 DEF Abstract!Next
<1>3. CASE StartsWatching(w)
  BY <1>3, StartsWatchingRefines
<1> QED BY <1>1, <1>2, <1>3 DEF WatcherStep, Proceeds

LEMMA NodeRefines ==
  ASSUME IInv, NEW p \in Paths, Plug(p) \/ Grant(p) \/ Unplug(p)
  PROVE  UNCHANGED Abstract!vars
<1>1. CASE Plug(p) \/ Grant(p)
  <2>1. UNCHANGED Seen
    BY <1>1 DEF Plug, Grant, Seen, OpenPaths, control, server, tasks
  <2> QED BY <2>1, SeenStutters
<1>2. CASE Unplug(p)
  <2> DEFINE g(w) == IF w.path = p /\ w.stage = "watching"
                     THEN [w EXCEPT !.gone = TRUE] ELSE w
  <2>1. ASSUME NEW w \in watchers PROVE g(w).path = w.path /\ g(w).stage = w.stage
    BY DEF IInv, TypeOK, Watcher
  <2>2. watchers' = {g(w) : w \in watchers} /\ UNCHANGED control
    BY <1>2 DEF Unplug
  <2> HIDE DEF g
  <2>3. UNCHANGED OpenPaths
    BY <2>1, <2>2 DEF OpenPaths
  <2>4. UNCHANGED Seen
    BY <2>2, <2>3 DEF Seen, control, server
  <2> QED BY <2>4, SeenStutters
<1> QED BY <1>1, <1>2

LEMMA NextRefines == IInv /\ [Next]_vars => [Abstract!Next]_Abstract!vars
<1> SUFFICES ASSUME IInv, [Next]_vars PROVE [Abstract!Next]_Abstract!vars
  OBVIOUS
<1>1. CASE SupervisorStep
  BY <1>1, SupervisorRefines
<1>2. CASE \E w \in watchers : WatcherStep(w)
  BY <1>2, WatcherRefines
<1>3. CASE \/ \E s \in FpsIds : RegisterFps(s) \/ TickSendFails(s)
           \/ \E s \in RawIds : RegisterRaw(s)
           \/ \E s \in Subs : DropHandle(s)
  <2>1. UNCHANGED <<cancelled, sup, deviceTracker, watchers>>
    BY <1>3 DEF RegisterFps, TickSendFails, RegisterRaw, DropHandle, tasks
  <2> QED BY <2>1, ClientRefines DEF Abstract!Next
<1>4. CASE \E p \in Paths : Plug(p) \/ Grant(p) \/ Unplug(p)
  BY <1>4, NodeRefines
<1>5. CASE Terminate
  <2>1. Abstract!Stop
    BY <1>5 DEF Terminate, Abstract!Stop, HasSubscribers, Session, OpenPaths, server, tasks
  <2> QED BY <2>1 DEF Abstract!Next
<1>6. CASE ScanTimer \/ UNCHANGED vars
  <2>1. UNCHANGED Seen
    BY <1>6 DEF ScanTimer, Seen, OpenPaths, vars, control, server, tasks
  <2> QED BY <2>1, SeenStutters
<1> QED BY <1>1, <1>2, <1>3, <1>4, <1>5, <1>6 DEF Next

\* Refinement: the supervisor implements DeviceSession.  A device is opened
\* only inside a session and only if it is not open, a session begins only on
\* demand, ends only for want of it or on termination, and the next one waits
\* until every device of this one is closed.
THEOREM Refinement == Spec => RefinesDeviceSession
<1>1. Init => Abstract!Init
  BY DEF Init, Abstract!Init, HasSubscribers, Session, OpenPaths
<1>2. IInv /\ [Next]_vars => [Abstract!Next]_Abstract!vars
  BY NextRefines
<1> QED BY <1>1, <1>2, Invariance, PTL DEF Spec, RefinesDeviceSession, Abstract!Spec

=============================================================================
