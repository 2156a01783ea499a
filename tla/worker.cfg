SPECIFICATION WorkerSpec
CONSTANTS
  a = a
  b = b
  home = home
  cloud = cloud
  NoRow = NoRow
  NoWorker = NoWorker
  NoLease = NoLease
  Frame <- MCFrame
  ObjectKey <- MCObjectKey
  Worker = {home, cloud}
  LocalWorker = {home}
  PreferLocal = TRUE
  FrameStart = 1
  FrameEnd = 2
  FramesPerChunk = 2
  MaxAttempts = 2
  LeaseTerm = 2
  MaxLag = 1
  HeartbeatTerm = 1
  IdleTerm = 0
  StepTime = 0
  MaxRestarts = 1
  Outside <- MCOutside
  Sha = {a}
INVARIANTS
  WorkerTypeOK
  StageAgrees
  LeasesAreReturned
  ObjectsBeforePublication
PROPERTIES
  WorkersAreClients
