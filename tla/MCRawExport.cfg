SPECIFICATION FairSpec
CONSTANTS
  MaxBatches = 4
  BufCap = 3
  MaxSize = 3
INVARIANTS
  TypeOK
  ReceivedIsWritten
  LinesEnd
PROPERTIES
  Ends
  Unsubscribed
CHECK_DEADLOCK FALSE
