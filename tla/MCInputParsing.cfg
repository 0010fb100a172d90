SPECIFICATION Spec
CONSTANTS
  Keys = {1}
  KernelCap = 5
  InitialLen = 2
  MaxTime = 2
INVARIANTS
  TypeOK
  StrictlyIncreasing
  StateMatches
  CountsActivity
