SPECIFICATION TimelySpec
CONSTANTS
  a = a
  b = b
  home = home
  cloud = cloud
  NoRow = NoRow
  NoWorker = NoWorker
  NoLease = NoLease
  Frame <- MCFrame
  ObjectKey <- MCObjectKey
  Worker = {home, cloud}
  LocalWorker = {home}
  PreferLocal = TRUE
  FrameStart = 1
  FrameEnd = 2
  FramesPerChunk = 2
  MaxAttempts = 2
  LeaseTerm = 4
  MaxLag = 0
  HeartbeatTerm = 1
  IdleTerm = 0
  StepTime = 1
  MaxRestarts = 0
  Outside <- MCOneOutside
  Sha = {a, b}
INVARIANTS
  TimelyWorkerKeepsLease
