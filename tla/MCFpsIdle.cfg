SPECIFICATION FairSpec
CONSTANTS
  Subs = {s1}
  Devices = {d1}
  MinFps = 1
  MaxFps = 2
  Snap = FALSE
  Unit = 1
  Window = 1
  LateTicks = 0
PROPERTIES
  IdleUserTapersOff
