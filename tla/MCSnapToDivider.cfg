SPECIFICATION Spec
CONSTANTS
  Unit = 2
  LargestFps = 24
INVARIANTS
  GamescopeKeeps
  NearestUnlessPlateau
CHECK_DEADLOCK FALSE
