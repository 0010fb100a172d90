SPECIFICATION FairSpec
CONSTANTS
  Paths = {a}
  FpsIds = {f1}
  RawIds = {r1}
  IdSpace = 2
PROPERTIES
  DevicesReleased
  UsableNodeWatched
  Terminates
