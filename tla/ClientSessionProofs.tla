------------------------- MODULE ClientSessionProofs --------------------------
(****************************************************************************)
(* Proofs about ClientSession, for any number of connection slots: the      *)
(* rates that can reach the sink are those of the connection in use, and an *)
(* awaiting client is in the server's table.  The invariant ties the call   *)
(* under way to the place of the reconnect loop.                            *)
(****************************************************************************)
EXTENDS ClientSession, TLAPS

\* The client has one connection at most, the one its loop works on.
OneConnection == \A c \in open : c = cur /\ loop \in Talking

\* The loop has not begun while main prepares.
NotYet == phase \in Early => loop = "off"

\* Before it asks for a registration it has none, and none is under way.
Asking ==
  loop = "service" =>
    /\ call[cur] \in {"service", "answered"}
    /\ call[cur] = "answered" => server[cur] # "backlog"
    /\ sub[cur] = "none" /\ cur \notin sending

\* The answer to the registration comes with an entry of the table.
Registering ==
  /\ loop \in {"register", "subscribed"} => server[cur] # "backlog"
  /\ loop = "register" =>
       /\ call[cur] \in {"register", "answered", "refused"}
       /\ call[cur] = "answered" /\ server[cur] = "open" => sub[cur] # "none"

\* The server has checked the parameters of whom it serves.
Checked == (\E c \in Conns : sub[c] # "none") \/ sending # {} => valid

IInv ==
  TypeOK /\ OneConnection /\ NotYet /\ Asking /\ Registering /\ Checked /\ KeepsSubscription

LEMMA InitEstablishes == Init => IInv
BY DEF Init, IInv, TypeOK, OneConnection, NotYet, Asking, Registering,
       Checked, KeepsSubscription, Early, Talking

------------------------------------------------------------------------------
(* Steps of main *)

\* A step that changes the place of main alone, or starts the loop.
LEMMA MainKeeps ==
  ASSUME IInv, Main
  PROVE  IInv'
<1>1. UNCHANGED <<valid, cur, call, server, table, daemon>>
  BY DEF Main, FindSink, Focused, Settled, Bail, Await, ChildExits, Signal,
         TermTimesOut, End, Killed, Finish, main, talk
<1>2. \/ open' = open /\ loop' = loop
      \/ open' = open /\ loop' = "wait" /\ phase \in Early
      \/ open' = {} /\ loop' = "off"
  BY DEF Main, FindSink, Focused, Settled, Bail, Await, ChildExits, Signal,
         TermTimesOut, End, Killed, Finish, main, talk, Early
<1>3. TypeOK'
  <2>1. phase' \in Early \union Running \union Gone
        /\ child' \in {"none", "running", "exited"}
    BY DEF Main, FindSink, Focused, Settled, Bail, Await, ChildExits, Signal,
           TermTimesOut, End, Killed, Finish, IInv, TypeOK, Early, Running, Gone
  <2> QED BY <1>1, <1>2, <2>1 DEF IInv, TypeOK, table, daemon, Talking
<1>4. NotYet'
  BY DEF Main, FindSink, Focused, Settled, Bail, Await, ChildExits, Signal,
         TermTimesOut, End, Killed, Finish, IInv, NotYet, Early, Running, Gone, talk
<1>5. OneConnection'
  BY <1>1, <1>2 DEF IInv, OneConnection, NotYet, Talking
<1>6. Asking' /\ Registering' /\ Checked' /\ KeepsSubscription'
  BY <1>1, <1>2 DEF IInv, Asking, Registering, Checked, KeepsSubscription, table
<1> QED BY <1>3, <1>4, <1>5, <1>6 DEF IInv

------------------------------------------------------------------------------
(* Steps of the reconnect loop *)

LEMMA ConnectKeeps ==
  ASSUME IInv, NEW c \in Conns, Connect(c)
  PROVE  IInv'
<1>1. loop = "wait" /\ open = {} /\ sub[c] = "none"
  BY DEF Connect, ConnectRpc, IInv, TypeOK, OneConnection, Talking
<1>2. TypeOK'
  BY <1>1 DEF Connect, ConnectRpc, IInv, TypeOK, Talking, main, table, daemon
<1>3. call'[c] = "service" /\ server'[c] = "backlog" /\ c \notin sending'
  BY DEF Connect, ConnectRpc, IInv, TypeOK
<1>4. OneConnection' /\ NotYet' /\ Registering' /\ KeepsSubscription'
  BY <1>1 DEF Connect, ConnectRpc, IInv, OneConnection, NotYet, Registering, KeepsSubscription,
              Talking, main
<1>5. Asking'
  BY <1>1, <1>3 DEF Connect, ConnectRpc, Asking
<1>6. Checked'
  BY DEF Connect, ConnectRpc, IInv, Checked, main
<1> QED BY <1>2, <1>4, <1>5, <1>6 DEF IInv

LEMMA AnswersKeep ==
  ASSUME IInv, GotService \/ Registered
  PROVE  IInv'
<1>1. call' \in [Conns -> {"none", "service", "register", "answered", "refused"}]
  BY DEF GotService, Registered, IInv, TypeOK
<1>2. TypeOK'
  BY <1>1 DEF GotService, Registered, IInv, TypeOK, Talking, main, table, daemon
<1>3. OneConnection' /\ NotYet'
  BY DEF GotService, Registered, IInv, OneConnection, NotYet, Talking, main
<1>4. Asking' /\ Registering'
  BY DEF GotService, Registered, IInv, TypeOK, Asking, Registering, table
<1>5. Checked' /\ KeepsSubscription'
  BY DEF GotService, Registered, IInv, TypeOK, Checked, KeepsSubscription, Registering,
         table, main
<1> QED BY <1>2, <1>3, <1>4, <1>5 DEF IInv

\* A failed attempt leaves nothing open.
LEMMA GiveUpKeeps ==
  ASSUME IInv, Refused \/ TimesOut \/ ConnectionLost
  PROVE  IInv'
<1>1. /\ loop' = "wait" /\ open' = open \ {cur} /\ loop # "off"
      /\ UNCHANGED <<main, cur, call, server, table, daemon>>
  BY DEF Refused, TimesOut, ConnectionLost, GiveUp, Talking
<1>2. TypeOK'
  BY <1>1 DEF IInv, TypeOK, main, table, daemon
<1>3. OneConnection' /\ NotYet'
  BY <1>1 DEF IInv, OneConnection, NotYet, main
<1>4. Asking' /\ Registering' /\ Checked' /\ KeepsSubscription'
  BY <1>1 DEF IInv, Asking, Registering, Checked, KeepsSubscription, main, table
<1> QED BY <1>2, <1>3, <1>4 DEF IInv

LEMMA RateKeeps ==
  ASSUME IInv, NEW c \in Conns, Receive(c) \/ SinkFails(c)
  PROVE  IInv'
<1>1. /\ sub' \in [Conns -> {"none", "held", "lost"}]
      /\ \A d \in Conns : (sub'[d] = "none") = (sub[d] = "none")
  BY DEF Receive, SinkFails, IInv, TypeOK
<1>2. /\ sending' = sending \ {c}
      /\ UNCHANGED <<main, talk, server, daemon>>
  BY DEF Receive, SinkFails
<1>3. TypeOK'
  BY <1>1, <1>2 DEF IInv, TypeOK, main, talk, daemon
<1>4. OneConnection' /\ NotYet'
  BY <1>2 DEF IInv, OneConnection, NotYet, main, talk
<1>5. Asking' /\ Registering' /\ Checked'
  BY <1>1, <1>2 DEF IInv, TypeOK, Asking, Registering, Checked, main, talk
<1>6. KeepsSubscription'
  BY <1>1, <1>2 DEF IInv, TypeOK, KeepsSubscription, talk
<1> QED BY <1>3, <1>4, <1>5, <1>6 DEF IInv

LEMMA LoopKeeps ==
  ASSUME IInv, Loop
  PROVE  IInv'
BY ConnectKeeps, AnswersKeep, GiveUpKeeps, RateKeeps DEF Loop

------------------------------------------------------------------------------
(* Steps of the server *)

LEMMA AcceptKeeps ==
  ASSUME IInv, NEW c \in Conns, Accept(c)
  PROVE  IInv'
<1>1. /\ server' \in [Conns -> {"none", "backlog", "open"}]
      /\ \A d \in Conns : d # c => server'[d] = server[d]
      /\ server[c] = "backlog" /\ server'[c] = "open"
  BY DEF Accept, IInv, TypeOK
<1>2. UNCHANGED <<main, talk, table, daemon>>
  BY DEF Accept
<1>3. TypeOK'
  BY <1>1, <1>2 DEF IInv, TypeOK, main, talk, table, daemon
<1>4. OneConnection' /\ NotYet' /\ Checked'
  BY <1>2 DEF IInv, OneConnection, NotYet, Checked, main, talk, table
<1>5. Asking' /\ Registering' /\ KeepsSubscription'
  BY <1>1, <1>2 DEF IInv, TypeOK, Asking, Registering, KeepsSubscription, talk, table
<1> QED BY <1>3, <1>4, <1>5 DEF IInv

LEMMA AnswerKeeps ==
  ASSUME IInv, NEW c \in Conns, AnswerService(c) \/ AnswerRegister(c)
  PROVE  IInv'
<1>1. UNCHANGED <<main, loop, cur, open, server, sending, daemon>>
  BY DEF AnswerService, AnswerRegister, Answer
<1>2. /\ call' \in [Conns -> {"none", "service", "register", "answered", "refused"}]
      /\ sub' \in [Conns -> {"none", "held", "lost"}]
  BY DEF AnswerService, AnswerRegister, Answer, IInv, TypeOK
<1>3. /\ \A d \in Conns : d # c => call'[d] = call[d] /\ sub'[d] = sub[d]
      /\ call[c] = "service" => call'[c] = "answered" /\ sub'[c] = sub[c]
      /\ call[c] = "register" => \/ call'[c] = "answered" /\ sub'[c] = "held" /\ valid
                                 \/ call'[c] = "refused" /\ sub'[c] = sub[c]
      /\ call[c] \in {"service", "register"} /\ server[c] = "open"
  BY DEF AnswerService, AnswerRegister, Answer, IInv, TypeOK
<1>4. TypeOK'
  BY <1>1, <1>2, <1>3 DEF IInv, TypeOK, main, daemon
<1>5. OneConnection' /\ NotYet'
  BY <1>1 DEF IInv, OneConnection, NotYet, main
<1>6. Asking' /\ Registering'
  BY <1>1, <1>3 DEF IInv, TypeOK, Asking, Registering
<1>7. Checked' /\ KeepsSubscription'
  BY <1>1, <1>3 DEF IInv, TypeOK, Checked, KeepsSubscription, main
<1> QED BY <1>4, <1>5, <1>6, <1>7 DEF IInv

LEMMA SendRateKeeps ==
  ASSUME IInv, NEW c \in Conns, SendRate(c)
  PROVE  IInv'
<1>1. TypeOK'
  BY DEF SendRate, IInv, TypeOK, main, talk, daemon
<1>2. OneConnection' /\ NotYet' /\ Registering' /\ KeepsSubscription'
  BY DEF SendRate, IInv, OneConnection, NotYet, Registering, KeepsSubscription, main, talk
<1>3. Asking' /\ Checked'
  BY DEF SendRate, IInv, Asking, Checked, main, talk
<1> QED BY <1>1, <1>2, <1>3 DEF IInv

\* Server ends that go away, and the entries of those, disturb nothing.
LEMMA CutKeeps ==
  ASSUME IInv, UNCHANGED <<main, talk>>,
         server' \in [Conns -> {"none", "backlog", "open"}],
         sub' \in [Conns -> {"none", "held", "lost"}],
         \A c \in Conns : \/ server'[c] = server[c] /\ sub'[c] = sub[c]
                          \/ server'[c] = "none" /\ sub'[c] = "none",
         sending' \subseteq sending,
         up' \in {"up", "stopping", "down"}, listening' \in BOOLEAN, file' \in BOOLEAN,
         listening' => file' /\ up' # "down"
  PROVE  IInv'
<1>1. TypeOK'
  BY DEF IInv, TypeOK, main, talk
<1>2. OneConnection' /\ NotYet'
  BY DEF IInv, OneConnection, NotYet, main, talk
<1>3. Asking' /\ Registering'
  BY DEF IInv, TypeOK, Asking, Registering, talk
<1>4. Checked' /\ KeepsSubscription'
  BY DEF IInv, TypeOK, Checked, KeepsSubscription, main, talk
<1> QED BY <1>1, <1>2, <1>3, <1>4 DEF IInv

LEMMA StreamEndsKeeps ==
  ASSUME IInv, NEW c \in Conns, StreamEnds(c)
  PROVE  IInv'
<1>1. /\ server' \in [Conns -> {"none", "backlog", "open"}]
      /\ sub' \in [Conns -> {"none", "held", "lost"}]
      /\ \A d \in Conns : \/ server'[d] = server[d] /\ sub'[d] = sub[d]
                          \/ server'[d] = "none" /\ sub'[d] = "none"
      /\ sending' \subseteq sending
  <2>1. /\ server' = [server EXCEPT ![c] = "none"] /\ sub' = [sub EXCEPT ![c] = "none"]
        /\ sending' = sending \ ({c} \ open)
    BY DEF StreamEnds, Cut
  <2>2. /\ server \in [Conns -> {"none", "backlog", "open"}]
        /\ sub \in [Conns -> {"none", "held", "lost"}]
    BY DEF IInv, TypeOK
  <2>3. server' \in [Conns -> {"none", "backlog", "open"}]
    BY <2>1, <2>2
  <2>4. sub' \in [Conns -> {"none", "held", "lost"}]
    BY <2>1, <2>2
  <2>5. server'[c] = "none" /\ sub'[c] = "none"
    BY <2>1, <2>2
  <2>6. \A d \in Conns : d # c => server'[d] = server[d] /\ sub'[d] = sub[d]
    BY <2>1, <2>2
  <2>7. sending' \subseteq sending
    BY <2>1
  <2> QED BY <2>3, <2>4, <2>5, <2>6, <2>7
<1>2. UNCHANGED <<main, talk, up, listening, file>>
  BY DEF StreamEnds, daemon
<1>3. /\ up \in {"up", "stopping", "down"} /\ listening \in BOOLEAN /\ file \in BOOLEAN
      /\ listening => file /\ up # "down"
  BY DEF IInv, TypeOK
<1> QED BY <1>1, <1>2, <1>3, CutKeeps

LEMMA ProcessKeeps ==
  ASSUME IInv, Start \/ ServeEnds \/ ServerSignal \/ ServerEnds \/ Crash
  PROVE  IInv'
<1>1. UNCHANGED <<main, talk>>
  BY DEF Start, ServeEnds, ServerSignal, ServerEnds, Crash
<1>2. /\ server' \in [Conns -> {"none", "backlog", "open"}]
      /\ sub' \in [Conns -> {"none", "held", "lost"}]
      /\ \A c \in Conns : \/ server'[c] = server[c] /\ sub'[c] = sub[c]
                          \/ server'[c] = "none" /\ sub'[c] = "none"
  <2>1. \/ server' = server /\ sub' = sub
        \/ server' = [c \in Conns |-> "none"] /\ sub' = [c \in Conns |-> "none"]
        \/ /\ server' = [c \in Conns |-> IF server[c] = "backlog" THEN "none" ELSE server[c]]
           /\ sub' = sub
    BY DEF Start, ServeEnds, ServerSignal, ServerEnds, Crash, table
  <2>2. /\ server \in [Conns -> {"none", "backlog", "open"}]
        /\ sub \in [Conns -> {"none", "held", "lost"}]
        /\ \A c \in Conns : sub[c] # "none" => server[c] = "open"
    BY DEF IInv, TypeOK
  <2>3. server' \in [Conns -> {"none", "backlog", "open"}]
    BY <2>1, <2>2
  <2>4. sub' \in [Conns -> {"none", "held", "lost"}]
    BY <2>1, <2>2
  <2>5. ASSUME NEW c \in Conns
        PROVE  \/ server'[c] = server[c] /\ sub'[c] = sub[c]
               \/ server'[c] = "none" /\ sub'[c] = "none"
    BY <2>1, <2>2
  <2> QED BY <2>3, <2>4, <2>5
<1>3. sending' \subseteq sending
  BY DEF Start, ServeEnds, ServerSignal, ServerEnds, Crash, table
<1>4. /\ up' \in {"up", "stopping", "down"} /\ listening' \in BOOLEAN /\ file' \in BOOLEAN
      /\ listening' => file' /\ up' # "down"
  <2>1. /\ up \in {"up", "stopping", "down"} /\ listening \in BOOLEAN /\ file \in BOOLEAN
        /\ listening => file /\ up # "down"
    BY DEF IInv, TypeOK
  <2>2. CASE Start
    <3>1. listening' \in BOOLEAN /\ file' = TRUE /\ up' = "up"
      BY <2>2, Zenon DEF Start
    <3> QED BY <3>1
  <2>3. CASE ServerSignal
    <3>1. listening' = listening /\ file' = file /\ up' = "stopping"
      BY <2>3 DEF ServerSignal
    <3> QED BY <2>1, <3>1
  <2>4. CASE ServeEnds \/ ServerEnds \/ Crash
    <3>1. up' = up \/ up' = "down"
      BY <2>4 DEF ServeEnds, ServerEnds, Crash
    <3>2. (listening' = FALSE \/ listening' = listening) /\ (file' = FALSE \/ file' = file)
      BY <2>4 DEF ServeEnds, ServerEnds, Crash
    <3>3. ~listening'
      BY <2>4 DEF ServeEnds, ServerEnds, Crash
    <3> QED BY <2>1, <3>1, <3>2, <3>3
  <2> QED BY <2>2, <2>3, <2>4
<1> QED BY <1>1, <1>2, <1>3, <1>4, CutKeeps

LEMMA DaemonKeeps ==
  ASSUME IInv, Daemon
  PROVE  IInv'
BY ProcessKeeps, AcceptKeeps, AnswerKeeps, SendRateKeeps, StreamEndsKeeps DEF Daemon

------------------------------------------------------------------------------
LEMMA NextKeeps == IInv /\ [Next]_vars => IInv'
<1> SUFFICES ASSUME IInv, [Next]_vars PROVE IInv'
  OBVIOUS
<1>1. CASE UNCHANGED vars
  BY <1>1 DEF IInv, TypeOK, OneConnection, NotYet, Asking, Registering, Checked,
              KeepsSubscription, vars, main, talk, table, daemon
<1> QED BY <1>1, MainKeeps, LoopKeeps, DaemonKeeps DEF Next

LEMMA Invariance == Spec => []IInv
<1> QED BY InitEstablishes, NextKeeps, PTL DEF Spec

\* The parts keep their types; an entry of the table belongs to an open
\* stream, and a server that listens has its socket file.
THEOREM TypeCorrect == Spec => []TypeOK
<1>1. IInv => TypeOK
  BY DEF IInv
<1> QED BY <1>1, Invariance, PTL

\* However attempts, timeouts, late answers, stops and crashes interleave, a
\* rate that can reach the sink comes from the connection in use, and from a
\* server that has checked the range.
THEOREM RatesAreCurrentAlways == Spec => []RatesAreCurrent
<1>1. IInv => RatesAreCurrent
  BY DEF IInv, TypeOK, OneConnection, Asking, Checked, RatesAreCurrent, Talking
<1> QED BY <1>1, Invariance, PTL

\* A client that awaits the end of an open connection is in the table of the
\* server, or was until a send to it failed.
THEOREM KeepsSubscriptionAlways == Spec => []KeepsSubscription
<1>1. IInv => KeepsSubscription
  BY DEF IInv
<1> QED BY <1>1, Invariance, PTL

===============================================================================
