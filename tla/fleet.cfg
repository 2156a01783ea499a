SPECIFICATION FleetSpec
CONSTANTS
  a = a
  b = b
  home = home
  cloud = cloud
  NoRow = NoRow
  NoWorker = NoWorker
  Frame <- MCFrame
  ObjectKey <- MCObjectKey
  Worker = {home, cloud}
  LocalWorker = {home}
  PreferLocal = TRUE
  FrameStart = 1
  FrameEnd = 2
  FramesPerChunk = 1
  MaxAttempts = 1
  LeaseTerm = 1
  MaxLag = 0
  Outside <- MCOutside
  Sha = {a, b}
INVARIANTS
  CompletedFleetIsQuiet
PROPERTIES
  VerdictIsCurrent
