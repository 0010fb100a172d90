\* A client, a server that comes and goes, and two connections at a time.
SPECIFICATION FairSpec

CONSTANTS
  Conns = {c1, c2}

INVARIANTS
  TypeOK
  RatesAreCurrent
  KeepsSubscription

PROPERTIES
  TableForgets
  Subscribes
  Leaves

\* The client ends for good.
CHECK_DEADLOCK FALSE
