------------------------------ MODULE RawExport ------------------------------
(****************************************************************************)
(* The raw exporter (raw_export.rs) and the server's half of its            *)
(* subscription (server.rs: RawServerImpl, RawDisconnector, the fan-out at  *)
(* the end of watch_device_loop).  Batches travel as calls over one         *)
(* connection, wait in an unbounded channel, and a writer task puts them    *)
(* through tokio's BufWriter into the file, a record and a newline at a     *)
(* time, until a signal cancels it wherever it awaits.                      *)
(*                                                                          *)
(* A step of the writer is the code up to its next await that is not ready. *)
(* It awaits the channel, or the file: tokio::fs::File accepts one write    *)
(* and finishes it in the background, and the next one waits for that.      *)
(****************************************************************************)
EXTENDS Integers, Sequences

CONSTANTS
  MaxBatches,   \* bound on the batches the watchers collect
  BufCap,       \* capacity of the BufWriter
  MaxSize       \* size of the largest record; a newline has size 1

ASSUME SizeAssumption ==
  /\ MaxBatches \in Nat
  /\ BufCap \in Nat \ {0, 1} /\ MaxSize \in Nat \ {0}

VARIABLES
  serverUp,     \* the server runs
  subscription, \* what the server has of the exporter's registration
  collected,    \* batches collected so far; a batch is its number
  connected,    \* the exporter's RPC system runs
  wire,         \* calls of receive under way, in the order they were sent
  poller,       \* the Receiver exists, and with it the sender of the channel
  main,         \* where the exporter's main task awaits
  channel,
  writer,       \* where the writer task awaits, and the record in its hands
  out,          \* the BufWriter and its file
  signalled,    \* a termination signal has arrived
  received,     \* history: the batches that entered the channel
  cut           \* history: batches taken from the channel and never written

server == <<serverUp, subscription, collected>>
rpc == <<connected, wire, poller>>
history == <<received, cut>>
vars == <<server, rpc, main, channel, writer, out, signalled, history>>

Batch == 1 .. MaxBatches
Newline == [n |-> 0, size |-> 1]
Record == [n : Batch, size : 1 .. MaxSize]
Token == Record \union {Newline}

Early == {"bootstrap", "register", "open"}

TypeOK ==
  /\ serverUp \in BOOLEAN
  /\ subscription \in {"none", "requested", "registered"}
  /\ collected \in 0 .. MaxBatches
  /\ connected \in BOOLEAN
  /\ wire \in Seq(Batch)
  /\ poller \in BOOLEAN
  /\ main \in Early \union {"select", "disconnecting", "draining", "flushing",
                            "done", "exited"}
  /\ channel \in Seq(Batch)
  /\ writer \in [at : {"off", "recv"}] \union
               [at : {"record", "newline"}, record : Record]
  /\ out \in [buffer : Seq(Token), used : 0 .. BufCap, file : Seq(Token), busy : BOOLEAN]
  /\ signalled \in BOOLEAN
  /\ received \subseteq Batch
  /\ cut \subseteq Batch

Off == [at |-> "off"]
Receiving == [at |-> "recv"]

Init ==
  /\ serverUp = TRUE /\ subscription = "none" /\ collected = 0
  /\ connected = TRUE /\ wire = <<>> /\ poller = TRUE
  /\ main = "bootstrap"
  /\ channel = <<>>
  /\ writer = Off
  /\ out = [buffer |-> <<>>, used |-> 0, file |-> <<>>, busy |-> FALSE]
  /\ signalled = FALSE
  /\ received = {} /\ cut = {}

------------------------------------------------------------------------------
(* Plausible faults, each a variant of one definition below that a property *)
(* of this module notices.                                                   *)

RoomForLess(o, token) == o.used < BufCap

DisconnectedDiscards ==
  /\ main = "disconnecting"
  /\ connected' = FALSE /\ poller' = FALSE /\ wire' = <<>>
  /\ main' = "flushing"
  /\ UNCHANGED <<server, channel, writer, out, signalled, history>>

ContinueNewlineForgets ==
  /\ writer.at = "newline" /\ ~out.busy
  /\ writer' = Receiving
  /\ UNCHANGED <<server, rpc, main, channel, out, signalled, history>>

ConnectionLostKeepsReceiver ==
  /\ connected /\ ~serverUp
  /\ connected' = FALSE /\ wire' = <<>>
  /\ UNCHANGED <<server, poller, main, channel, writer, out, signalled, history>>

SubscriptionDroppedOnRelease ==
  /\ subscription # "none" /\ serverUp
  /\ main \notin Early \union {"select", "exited"} /\ connected
  /\ subscription' = "none"
  /\ UNCHANGED <<serverUp, collected, rpc, main, channel, writer, out, signalled, history>>

------------------------------------------------------------------------------
(* The server *)

ServerRegisters ==
  /\ subscription = "requested" /\ serverUp
  /\ subscription' = "registered"
  /\ UNCHANGED <<serverUp, collected, rpc, main, channel, writer, out, signalled, history>>

\* RawDisconnector is dropped: the exporter has released its subscription, or
\* its connection has ended.
SubscriptionDropped ==
  /\ subscription # "none" /\ serverUp
  /\ main \notin Early \union {"select"} \/ ~connected
  /\ subscription' = "none"
  /\ UNCHANGED <<serverUp, collected, rpc, main, channel, writer, out, signalled, history>>

\* A watcher has read a batch, and spawns a task that sends it.
Collect ==
  /\ serverUp /\ collected < MaxBatches
  /\ collected' = collected + 1
  /\ wire' = IF subscription = "registered" /\ connected
             THEN Append(wire, collected') ELSE wire
  /\ UNCHANGED <<serverUp, subscription, connected, poller, main, channel, writer, out,
                 signalled, history>>

\* Calls that were sent before may still arrive.
ServerStops ==
  /\ serverUp
  /\ serverUp' = FALSE
  /\ subscription' = "none"
  /\ \E k \in 0 .. Len(wire) : wire' = SubSeq(wire, 1, k)
  /\ UNCHANGED <<collected, connected, poller, main, channel, writer, out,
                 signalled, history>>

------------------------------------------------------------------------------
(* The exporter: start *)

Exit ==
  /\ main' = "exited"
  /\ connected' = FALSE /\ wire' = <<>> /\ poller' = FALSE
  /\ writer' = Off

Bootstrapped ==
  /\ main = "bootstrap" /\ connected /\ serverUp
  /\ main' = "register"
  /\ subscription' = "requested"
  /\ UNCHANGED <<serverUp, collected, rpc, channel, writer, out, signalled, history>>

Registered ==
  /\ main = "register" /\ connected /\ subscription = "registered"
  /\ main' = "open"
  /\ UNCHANGED <<server, rpc, channel, writer, out, signalled, history>>

\* The server refuses, does not answer in 5 seconds, or is gone; or the output
\* cannot be opened, which panics.
StartFails ==
  /\ main \in Early
  /\ Exit
  /\ UNCHANGED <<server, channel, out, signalled, history>>

Opened ==
  /\ main = "open"
  /\ main' = "select" /\ writer' = Receiving
  /\ UNCHANGED <<server, rpc, channel, out, signalled, history>>

\* A signal before the select, which installs the handlers, ends the process.
Killed ==
  /\ main \in Early
  /\ Exit
  /\ signalled' = TRUE
  /\ UNCHANGED <<server, channel, out, history>>

------------------------------------------------------------------------------
(* The exporter: receive, and the end of the connection *)

Receive ==
  /\ connected /\ wire # <<>>
  /\ wire' = Tail(wire)
  /\ channel' = Append(channel, Head(wire))
  /\ received' = received \union {Head(wire)}
  /\ UNCHANGED <<server, connected, poller, main, writer, out, signalled, cut>>

\* The RPC system ends and drops what it exports, the Receiver included.
ConnectionLost ==
  /\ connected /\ ~serverUp
  /\ connected' = FALSE /\ wire' = <<>>
  /\ poller' = FALSE
  /\ UNCHANGED <<server, main, channel, writer, out, signalled, history>>

------------------------------------------------------------------------------
(* The writer.  write_all of the BufWriter: a token that has no room makes it *)
(* hand its buffer to the file, which takes it unless it is busy; a token as  *)
(* large as the buffer goes to the file by itself, behind the buffer.         *)

Room(o, token) == o.used + token.size <= BufCap

Large(token) == token.size >= BufCap

Ready(o, token) ==
  IF Large(token) THEN o.buffer = <<>> /\ ~o.busy ELSE Room(o, token) \/ ~o.busy

HandedOver(o) ==
  [buffer |-> <<>>, used |-> 0, file |-> o.file \o o.buffer, busy |-> TRUE]

Written(o, token) ==
  CASE Large(token) -> [o EXCEPT !.file = Append(@, token), !.busy = TRUE]
    [] ~Large(token) /\ Room(o, token) ->
         [o EXCEPT !.buffer = Append(@, token), !.used = @ + token.size]
    [] OTHER -> [HandedOver(o) EXCEPT !.buffer = <<token>>, !.used = token.size]

\* The record and its newline, as far as the writer gets without waiting.
WriteRecord(r) ==
  LET o == Written(out, r)
  IN  \/ /\ ~Ready(out, r)
         /\ writer' = [at |-> "record", record |-> r]
         /\ out' = IF out.busy THEN out ELSE HandedOver(out)
      \/ /\ Ready(out, r) /\ ~Ready(o, Newline)
         /\ writer' = [at |-> "newline", record |-> r]
         /\ out' = o
      \/ /\ Ready(out, r) /\ Ready(o, Newline)
         /\ writer' = Receiving
         /\ out' = Written(o, Newline)

TakeRecord ==
  /\ writer.at = "recv" /\ channel # <<>>
  /\ channel' = Tail(channel)
  /\ \E size \in 1 .. MaxSize : WriteRecord([n |-> Head(channel), size |-> size])
  /\ UNCHANGED <<server, rpc, main, signalled, history>>

ContinueRecord ==
  /\ writer.at = "record" /\ ~out.busy
  /\ WriteRecord(writer.record)
  /\ UNCHANGED <<server, rpc, main, channel, signalled, history>>

ContinueNewline ==
  /\ writer.at = "newline" /\ ~out.busy
  /\ writer' = Receiving
  /\ out' = Written(out, Newline)
  /\ UNCHANGED <<server, rpc, main, channel, signalled, history>>

\* recv() returns None: nothing is queued, and the Receiver is gone or main has
\* closed the channel.
WriterReturns ==
  /\ writer.at = "recv" /\ channel = <<>>
  /\ ~poller
  /\ writer' = Off
  /\ main' = IF main = "select" THEN "disconnecting" ELSE "flushing"
  /\ UNCHANGED <<server, rpc, channel, out, signalled, history>>

FileWritten ==
  /\ out.busy
  /\ out' = [out EXCEPT !.busy = FALSE]
  /\ UNCHANGED <<server, rpc, main, channel, writer, signalled, history>>

------------------------------------------------------------------------------
(* The exporter: the end *)

\* The select drops the writer where it awaits.
Terminated ==
  /\ main = "select"
  /\ signalled' = TRUE
  /\ writer' = Off
  /\ cut' = IF writer.at = "record" THEN cut \union {writer.record.n} ELSE cut
  /\ main' = "disconnecting"
  /\ UNCHANGED <<server, rpc, channel, out, received>>

\* The RPC system has disconnected and dropped the Receiver; main closes the
\* channel and runs a second writer over what is left in it.
Disconnected ==
  /\ main = "disconnecting"
  /\ connected' = FALSE /\ poller' = FALSE /\ wire' = <<>>
  /\ main' = "draining"
  /\ writer' = Receiving
  /\ UNCHANGED <<server, channel, out, signalled, history>>

\* flush() hands over the buffer and then waits for the file.
Flush ==
  /\ main = "flushing" /\ ~out.busy
  /\ IF out.buffer # <<>>
     THEN /\ out' = HandedOver(out)
          /\ UNCHANGED main
     ELSE /\ main' = "done"
          /\ UNCHANGED out
  /\ UNCHANGED <<server, rpc, channel, writer, signalled, history>>

WriterStep == TakeRecord \/ ContinueRecord \/ ContinueNewline \/ WriterReturns

MainStep ==
  \/ Bootstrapped \/ Registered \/ StartFails \/ Opened
  \/ Disconnected \/ Flush

Next ==
  \/ ServerRegisters \/ SubscriptionDropped \/ Collect \/ ServerStops
  \/ MainStep \/ WriterStep
  \/ Receive \/ ConnectionLost \/ FileWritten
  \/ Killed \/ Terminated

Spec == Init /\ [][Next]_vars

\* Both executors run what is ready, every file operation ends, and the end of
\* a connection is noticed at both ends.
FairSpec ==
  /\ Spec
  /\ WF_vars(MainStep) /\ WF_vars(WriterStep)
  /\ WF_vars(FileWritten) /\ WF_vars(ConnectionLost)
  /\ WF_vars(ServerRegisters) /\ WF_vars(SubscriptionDropped)

------------------------------------------------------------------------------
(* Properties *)

IsRecord(t) == t.n # 0
Numbers(tokens) == {tokens[i].n : i \in {j \in DOMAIN tokens : IsRecord(tokens[j])}}
InOrder(tokens) ==
  \A i, j \in DOMAIN tokens :
    i < j /\ IsRecord(tokens[i]) /\ IsRecord(tokens[j]) => tokens[i].n < tokens[j].n

\* However the exporter ends by itself, what it has received is in the file, once and in
\* the order it was read from the devices, but for at most one record that the
\* signal took out of the writer's hands.
ReceivedIsWritten ==
  main = "done" =>
    /\ Numbers(out.file) = received \ cut
    /\ InOrder(out.file)
    /\ \A m, n \in cut : m = n
    /\ cut # {} => signalled

\* The records that no newline follows, the newlines that follow no record.
Glued(tokens) ==
  {i \in DOMAIN tokens :
     IsRecord(tokens[i]) /\ (i = Len(tokens) \/ IsRecord(tokens[i + 1]))}
Stray(tokens) ==
  {i \in DOMAIN tokens :
     ~IsRecord(tokens[i]) /\ (i = 1 \/ ~IsRecord(tokens[i - 1]))}

\* At most one record is glued to what follows, and only after a signal: an
\* exporter whose server goes away leaves whole lines, and no line is empty.
LinesEnd ==
  main = "done" =>
    /\ Stray(out.file) = {}
    /\ \A i, j \in Glued(out.file) : i = j
    /\ Glued(out.file) # {} => signalled /\ cut = {}

\* Once it has been told to terminate, or has lost its server, the exporter
\* empties its channel, flushes and ends.
Ends == (signalled \/ ~serverUp) ~> main \in {"done", "exited"}

\* An exporter that has ended, even by a timeout that a late registration
\* answers, holds no subscription: the server can release the devices.
Unsubscribed == main \in {"done", "exited"} ~> subscription = "none"

==============================================================================
