SPECIFICATION Spec
CONSTANTS
  Keys = {1}
  KernelCap = 8
  InitialLen = 4
  MaxTime = 1
INVARIANTS
  HeldIsCounted
