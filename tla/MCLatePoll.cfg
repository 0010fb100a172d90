SPECIFICATION FairSpec
CONSTANTS
  Devices = {d1}
  Loops = {l1, l2}
  d1 = d1
  l1 = l1
  l2 = l2
  Capacity = 1
  QueueCap = 2
  BufLen = 2
  StartPeriod = 2
  LongestPeriod = 4
INVARIANTS
  TypeOK
  LatePolled
  WakeupsKept
  StaysBelowLoss
PROPERTIES
  EventsRead
