SPECIFICATION FairSpec
CONSTANTS
  Subs = {s1}
  Devices = {d1, d2}
  MinFps = 2
  MaxFps = 4
  Snap = TRUE
  Unit = 1
  Window = 2
  LateTicks = 1
INVARIANTS
  TypeOK
  InSync
PROPERTIES
  RateFollows
  LoopsEnd
  RampsUp
  TapersOff
