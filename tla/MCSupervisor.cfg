SPECIFICATION Spec
SYMMETRY PathSymmetry
CONSTANTS
  Paths = {a, b}
  FpsIds = {f1}
  RawIds = {r1}
  IdSpace = 3
INVARIANTS
  TypeOK
  OneWatcherPerPath
  IdleIsClean
  NoLostWakeup
  IdsDistinct
PROPERTIES
  RefinesDeviceSession
