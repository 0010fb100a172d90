---------------------------- MODULE DeviceSession ----------------------------
(****************************************************************************)
(* What the evdev supervisor promises, without its mechanism: input devices *)
(* are held open only inside a session; a session begins on demand and ends *)
(* when the demand is gone or the server stops; the next session begins only*)
(* when every device of the one before it has been closed.                  *)
(****************************************************************************)

CONSTANT Paths      \* the nodes /dev/input/event*

VARIABLES
  demand,           \* somebody is subscribed
  live,             \* the server has not been told to terminate
  session,          \* "idle", "active" or "closing"
  open              \* the nodes held open

vars == <<demand, live, session, open>>

Init ==
  /\ demand = FALSE
  /\ live = TRUE
  /\ session = "idle"
  /\ open = {}

Ask ==
  /\ demand' \in BOOLEAN
  /\ UNCHANGED <<live, session, open>>

Stop ==
  /\ live' = FALSE
  /\ UNCHANGED <<demand, session, open>>

Begin ==
  /\ demand /\ live /\ session = "idle"
  /\ session' = "active"
  /\ UNCHANGED <<demand, live, open>>

Open(p) ==
  /\ session = "active" /\ live
  /\ p \notin open
  /\ open' = open \union {p}
  /\ UNCHANGED <<demand, live, session>>

Close(p) ==
  /\ p \in open
  /\ open' = open \ {p}
  /\ UNCHANGED <<demand, live, session>>

End ==
  /\ session = "active"
  /\ ~demand \/ ~live
  /\ session' = "closing"
  /\ UNCHANGED <<demand, live, open>>

Rest ==
  /\ session = "closing" /\ open = {}
  /\ session' = "idle"
  /\ UNCHANGED <<demand, live, open>>

Next ==
  \/ Ask \/ Stop \/ Begin \/ End \/ Rest
  \/ \E p \in Paths : Open(p) \/ Close(p)

Spec == Init /\ [][Next]_vars

==============================================================================
