SPECIFICATION FairWorkerSpec
CONSTANTS
  a = a
  b = b
  home = home
  cloud = cloud
  NoRow = NoRow
  NoWorker = NoWorker
  NoLease = NoLease
  Frame <- MCFrame
  ObjectKey <- MCObjectKey
  Worker = {home, cloud}
  LocalWorker = {home}
  PreferLocal = TRUE
  FrameStart = 1
  FrameEnd = 1
  FramesPerChunk = 1
  MaxAttempts = 2
  LeaseTerm = 2
  MaxLag = 0
  HeartbeatTerm = 1
  IdleTerm = 2
  StepTime = 0
  MaxRestarts = 1
  Outside <- MCOutside
  Sha = {a}
PROPERTIES
  EveryChunkSettles
  CancelStops
