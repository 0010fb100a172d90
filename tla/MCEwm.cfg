\* Batches that overflow the buffer and the window, ticks of any length.
SPECIFICATION Spec

CONSTANTS
  Cap = 4
  MinSamples = 2
  Fraction = 2
  Window = 5
  MaxTime = 8

INVARIANTS
  Windowed
  TickIndependent

PROPERTIES
  IdleFalls

\* The clock stops at its bound.
CHECK_DEADLOCK FALSE
