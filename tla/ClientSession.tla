---------------------------- MODULE ClientSession -----------------------------
(****************************************************************************)
(* A client and the server it follows: main of client.rs (the child, the    *)
(* sink, the reconnect loop, the end), serve of server.rs (the socket, the  *)
(* streams, the end), and what a registration adds to the table of the FPS  *)
(* subscribers.  The server stops, crashes and starts again; the client is  *)
(* started once.  The tick loops of FpsLimiter.tla are reduced to rates     *)
(* under way.  A failed connect leaves the loop where it is and is no       *)
(* action, and the ticks of retry are one wait.                             *)
(****************************************************************************)
EXTENDS FiniteSets, Naturals

CONSTANT Conns    \* bound: slots for connections, free when both ends are closed

ASSUME ConnsAssumption == Conns # {}

VARIABLES
  phase,      \* where main of the client is
  child,      \* the command it has spawned, if any
  valid,      \* the server accepts the client's parameters
  loop,       \* where the reconnect loop awaits
  cur,        \* the connection it works on, when it talks
  open,       \* connections whose client end is open
  server,     \* the server's end of a connection
  call,       \* the request or the answer that is under way on a connection
  sub,        \* what the server has of the connection's registration
  sending,    \* connections with a rate under way
  up,         \* the server: "up", "stopping" or "down"
  listening,  \* serve accepts connections
  file        \* the socket file exists

main == <<phase, child, valid>>
talk == <<loop, cur, open, call>>
table == <<sub, sending>>
daemon == <<up, listening, file>>
vars == <<main, talk, server, table, daemon>>

Early == {"detect", "focus", "settle"}
Running == {"run", "stopping", "killing"}
Gone == {"ended", "bailed", "killed"}
Talking == {"service", "register", "subscribed"}

TypeOK ==
  /\ phase \in Early \union Running \union Gone
  /\ child \in {"none", "running", "exited"}
  /\ valid \in BOOLEAN
  /\ loop \in Talking \union {"off", "wait"}
  /\ cur \in Conns
  /\ open \subseteq Conns
  /\ server \in [Conns -> {"none", "backlog", "open"}]
  /\ call \in [Conns -> {"none", "service", "register", "answered", "refused"}]
  /\ sub \in [Conns -> {"none", "held", "lost"}]
  /\ \A c \in Conns : sub[c] # "none" => server[c] = "open"
  /\ sending \subseteq Conns
  /\ up \in {"up", "stopping", "down"}
  /\ listening \in BOOLEAN /\ (listening => file /\ up # "down")
  /\ file \in BOOLEAN

\* The child is spawned before anything else; no server runs yet.
Init ==
  /\ phase = "detect" /\ child \in {"none", "running"} /\ valid \in BOOLEAN
  /\ loop = "off" /\ cur \in Conns /\ open = {}
  /\ server = [c \in Conns |-> "none"]
  /\ call = [c \in Conns |-> "none"]
  /\ sub = [c \in Conns |-> "none"]
  /\ sending = {}
  /\ up = "down" /\ listening = FALSE /\ file = FALSE

------------------------------------------------------------------------------
(* Plausible faults, each a variant of one definition below that a property *)
(* of this module notices.                                                   *)

GiveUpDetached == loop' = "wait" /\ open' = open

RegisteredReleases ==
  /\ loop = "register" /\ call[cur] = "answered"
  /\ loop' = "subscribed"
  /\ call' = [call EXCEPT ![cur] = "none"]
  /\ sub' = [sub EXCEPT ![cur] = "none"]
  /\ UNCHANGED <<main, cur, open, server, sending, daemon>>

ConnectionLostUnseen ==
  /\ loop \in {"service", "register"} /\ server[cur] = "none"
  /\ loop' = "wait" /\ open' = open \ {cur}
  /\ UNCHANGED <<main, cur, call, server, table, daemon>>

CutKeepsTable(c) ==
  /\ server' = [server EXCEPT ![c] = "none"]
  /\ UNCHANGED table

StreamEndsOnEofOnly(c) ==
  /\ server[c] = "open" /\ c \notin open
  /\ server' = [server EXCEPT ![c] = "none"]
  /\ sub' = [sub EXCEPT ![c] = "none"]
  /\ sending' = sending \ {c}
  /\ UNCHANGED <<main, talk, daemon>>

StreamEndsOnStopOnly(c) ==
  /\ server[c] = "open" /\ up = "stopping"
  /\ server' = [server EXCEPT ![c] = "none"]
  /\ sub' = [sub EXCEPT ![c] = "none"]
  /\ sending' = sending \ ({c} \ open)
  /\ UNCHANGED <<main, talk, daemon>>

------------------------------------------------------------------------------
(* main: the child, the sink, the end *)

Await(p) == phase' = p /\ UNCHANGED <<child, valid, talk, server, table, daemon>>

\* A backend is there.  With gamescope and no --max-fps the refresh rate is
\* read first, and the thread is blocked for as long as that takes.
FindSink ==
  /\ phase = "detect"
  /\ \/ phase' = "run" /\ loop' = "wait"
     \/ phase' = "focus" /\ loop' = loop
  /\ UNCHANGED <<child, valid, cur, open, call, server, table, daemon>>

Focused == phase = "focus" /\ Await("settle")

Settled ==
  /\ phase = "settle"
  /\ phase' = "run" /\ loop' = "wait"
  /\ UNCHANGED <<child, valid, cur, open, call, server, table, daemon>>

\* No backend in time or without a child, the child's exit in "detect", no
\* focused window, no rate, no --max-fps: the client leaves, the child stays.
Bail == phase \in Early /\ Await("bailed")

ChildExits ==
  /\ child = "running"
  /\ child' = "exited"
  /\ UNCHANGED <<phase, valid, talk, server, table, daemon>>

Signal == phase = "run" /\ child # "none" /\ Await("stopping")

TermTimesOut == phase = "stopping" /\ child = "running" /\ Await("killing")

\* The main future returns, and ct.cancel drops the loop and its connection.
Finish(p) ==
  /\ phase' = p
  /\ loop' = "off" /\ open' = {}
  /\ UNCHANGED <<child, valid, cur, call, server, table, daemon>>

\* The signal without a child, or the child's exit seen by one of the waits.
End ==
  /\ phase \in Running /\ child \in {"none", "exited"}
  /\ Finish("ended")

\* SIGKILL, or a signal before the handlers of termination_signal are there.
Killed == phase \notin Gone /\ Finish("killed")

------------------------------------------------------------------------------
(* The reconnect loop *)

\* A failed attempt aborts the task of the connection, which closes it.
GiveUp == loop' = "wait" /\ open' = open \ {cur}

\* A connection is in the backlog of the socket before anyone accepts it.
ConnectRpc(c) ==
  /\ listening /\ c \notin open /\ server[c] = "none"
  /\ open' = open \union {c}
  /\ server' = [server EXCEPT ![c] = "backlog"]
  /\ sending' = sending \ {c}

\* Connect, and ask for the FPS limiter at once.
Connect(c) ==
  /\ loop = "wait" /\ ConnectRpc(c)
  /\ loop' = "service" /\ cur' = c
  /\ call' = [call EXCEPT ![c] = "service"]
  /\ UNCHANGED <<main, sub, daemon>>

GotService ==
  /\ loop = "service" /\ call[cur] = "answered"
  /\ loop' = "register"
  /\ call' = [call EXCEPT ![cur] = "register"]
  /\ UNCHANGED <<main, cur, open, server, table, daemon>>

\* The client keeps the subscription and awaits the end of the connection.
Registered ==
  /\ loop = "register" /\ call[cur] = "answered"
  /\ loop' = "subscribed"
  /\ call' = [call EXCEPT ![cur] = "none"]
  /\ UNCHANGED <<main, cur, open, server, table, daemon>>

Refused ==
  /\ loop = "register" /\ call[cur] = "refused"
  /\ GiveUp
  /\ UNCHANGED <<main, cur, call, server, table, daemon>>

\* Five seconds; the server may have answered already, or still will.
TimesOut ==
  /\ loop \in {"service", "register"}
  /\ GiveUp
  /\ UNCHANGED <<main, cur, call, server, table, daemon>>

ConnectionLost ==
  /\ loop \in Talking /\ server[cur] = "none"
  /\ GiveUp
  /\ UNCHANGED <<main, cur, call, server, table, daemon>>

\* A rate is handled after the answer it follows on its connection.
Reaches(c) == c \in sending /\ c \in open /\ ~(c = cur /\ loop = "register")

\* receive: the sink takes the clamped rate.
Receive(c) ==
  /\ Reaches(c)
  /\ sending' = sending \ {c}
  /\ UNCHANGED <<main, talk, server, sub, daemon>>

\* receive: the sink fails, for once or for good.  The server drops the
\* subscriber; the subscription and the connection stay.
SinkFails(c) ==
  /\ Reaches(c)
  /\ sending' = sending \ {c}
  /\ sub' = [sub EXCEPT ![c] = IF @ = "held" THEN "lost" ELSE @]
  /\ UNCHANGED <<main, talk, server, daemon>>

------------------------------------------------------------------------------
(* serve, a stream of it, and the services behind it *)

\* The socket is bound unless a crash has left its file and nothing has
\* cleaned it: then the task panics, and the process stays without it.
Start ==
  /\ up = "down"
  /\ up' = "up" /\ file' = TRUE
  /\ listening' \in IF file THEN BOOLEAN ELSE {TRUE}
  /\ UNCHANGED <<main, talk, server, table>>

Accept(c) ==
  /\ listening /\ server[c] = "backlog"
  /\ server' = [server EXCEPT ![c] = "open"]
  /\ UNCHANGED <<main, talk, table, daemon>>

\* A request is handled even if its client has hung up since.
Answer(c, answer) ==
  /\ server[c] = "open"
  /\ call' = [call EXCEPT ![c] = answer]
  /\ UNCHANGED <<main, loop, cur, open, server, sending, daemon>>

\* fps_limiter: the service is a clone of the one that all streams share.
AnswerService(c) ==
  /\ call[c] = "service" /\ Answer(c, "answered")
  /\ UNCHANGED sub

\* register: the parameters are checked, a subscriber is added.
AnswerRegister(c) ==
  /\ call[c] = "register" /\ Answer(c, IF valid THEN "answered" ELSE "refused")
  /\ sub' = IF valid THEN [sub EXCEPT ![c] = "held"] ELSE sub

\* A tick of the subscriber's loop that changes the rate.
SendRate(c) ==
  /\ sub[c] = "held" /\ c \notin sending /\ up = "up"
  /\ sending' = sending \union {c}
  /\ UNCHANGED <<main, talk, server, sub, daemon>>

\* The server's end is gone and with it all that it exports: the Drop of the
\* subscription takes the subscriber out of the table.  What it has written
\* can still be read.
Cut(c) ==
  /\ server' = [server EXCEPT ![c] = "none"]
  /\ sub' = [sub EXCEPT ![c] = "none"]
  /\ sending' = sending \ ({c} \ open)

\* The client has hung up, or the stream is cancelled and disconnects.
StreamEnds(c) ==
  /\ server[c] = "open" /\ (c \notin open \/ up = "stopping")
  /\ Cut(c)
  /\ UNCHANGED <<main, talk, daemon>>

\* The accept loop ends, cancelled or by a failed accept; the streams do not.
ServeEnds ==
  /\ listening
  /\ listening' = FALSE /\ file' = FALSE
  /\ server' = [c \in Conns |-> IF server[c] = "backlog" THEN "none" ELSE server[c]]
  /\ UNCHANGED <<main, talk, table, up>>

ServerSignal ==
  /\ up = "up"
  /\ up' = "stopping"
  /\ UNCHANGED <<main, talk, server, table, listening, file>>

ServerEnds ==
  /\ up = "stopping" /\ ~listening /\ \A c \in Conns : server[c] = "none"
  /\ up' = "down"
  /\ UNCHANGED <<main, talk, server, table, listening, file>>

Crash ==
  /\ up # "down"
  /\ up' = "down" /\ listening' = FALSE
  /\ server' = [c \in Conns |-> "none"]
  /\ sub' = [c \in Conns |-> "none"] /\ sending' = sending \intersect open
  /\ UNCHANGED <<main, talk, file>>

------------------------------------------------------------------------------
Main ==
  \/ FindSink \/ Focused \/ Settled \/ Bail \/ ChildExits
  \/ Signal \/ TermTimesOut \/ End \/ Killed

Loop ==
  \/ GotService \/ Registered \/ Refused \/ TimesOut \/ ConnectionLost
  \/ \E c \in Conns : Connect(c) \/ Receive(c) \/ SinkFails(c)

Daemon ==
  \/ Start \/ ServeEnds \/ ServerSignal \/ ServerEnds \/ Crash
  \/ \E c \in Conns : Accept(c) \/ SendRate(c) \/ StreamEnds(c)
  \/ \E c \in Conns : AnswerService(c) \/ AnswerRegister(c)

Next == Main \/ Loop \/ Daemon

Spec == Init /\ [][Next]_vars

\* Accepted, or answered, before the five seconds of the attempt are over.
InTime(l, A) == loop = l /\ A

\* The tasks of both runtimes run; a child that was sent SIGKILL exits.  What
\* an attempt waits for takes milliseconds: the five seconds may win the race,
\* but not in every attempt.
Fairness ==
  /\ WF_vars(TermTimesOut) /\ WF_vars(End) /\ WF_vars(phase = "killing" /\ ChildExits)
  /\ WF_vars(\E c \in Conns : Connect(c)) /\ WF_vars(ConnectionLost)
  /\ SF_vars(GotService) /\ SF_vars(Registered)
  /\ SF_vars(InTime("service", Accept(cur)))
  /\ SF_vars(InTime("service", AnswerService(cur)))
  /\ SF_vars(InTime("register", AnswerRegister(cur)))
  /\ WF_vars(up = "stopping" /\ ServeEnds) /\ WF_vars(ServerEnds)
  /\ \A c \in Conns : WF_vars(Accept(c)) /\ WF_vars(StreamEnds(c))
                      /\ WF_vars(AnswerService(c)) /\ WF_vars(AnswerRegister(c))

FairSpec == Spec /\ Fairness

------------------------------------------------------------------------------
(* Properties *)

\* Whatever races there were before, a rate that can still reach the sink was
\* sent on the connection the loop works on now, and by a server that has
\* checked the range: receive clamps, and clamp panics when the minimum is
\* above the maximum.
RatesAreCurrent ==
  \A c \in sending \intersect open :
    c = cur /\ loop \in {"register", "subscribed"} /\ valid

\* While the client awaits the end of its connection the server keeps the
\* subscriber, unless a send to it has failed.
KeepsSubscription ==
  loop = "subscribed" /\ server[cur] = "open" => sub[cur] \in {"held", "lost"}

\* No subscriber stays in the table after its client has hung up, whatever was
\* under way.
TableForgets == \A c \in Conns : sub[c] # "none" /\ c \notin open ~> sub[c] = "none"

\* While a server listens, a client with parameters it accepts is subscribed
\* sooner or later, whatever was lost before.  The one exception: the sink
\* has failed a send, and the client waits for a connection that stays.
Follows == listening /\ valid /\ phase \in Running
Served == loop = "subscribed" /\ sub[cur] # "none"
Subscribes == Follows ~> Served \/ ~Follows

\* Whoever is to leave does: the client when its child has exited, or a signal
\* has come and the child ignores SIGTERM; the server with its streams, whose
\* clients keep them open, and its socket.
Leaves ==
  /\ phase \in {"stopping", "killing"} \/ (phase = "run" /\ child = "exited") ~> phase \in Gone
  /\ up = "stopping" ~> up = "down"

==============================================================================
