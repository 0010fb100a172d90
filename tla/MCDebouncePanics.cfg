SPECIFICATION Spec
CONSTANTS
  Devices = {d1}
  Loops = {l1}
  d1 = d1
  l1 = l1
  Capacity = 1
  QueueCap = 3
  BufLen = 2
  StartPeriod = 4
  LongestPeriod = 16
INVARIANTS
  KeepsDelaying
