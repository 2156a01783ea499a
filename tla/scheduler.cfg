SPECIFICATION Spec
CONSTANTS
  a = a
  b = b
  home = home
  cloud = cloud
  NoRow = NoRow
  NoWorker = NoWorker
  FrameStart = 1
  FrameEnd = 3
  FramesPerChunk = 2
  MaxAttempts = 2
  LeaseTerm = 2
  MaxLag = 1
  Frame <- MCFrame
  ObjectKey <- MCObjectKey
  Outside <- MCOutside
  Sha = {a, b}
  Worker = {home, cloud}
  LocalWorker = {home}
  PreferLocal = TRUE
INVARIANTS
  TypeOK
  LeaseDiscipline
  RetryBudget
  QuarantineExplained
  DeliveredOnce
  CompleteJobIsQuiet
PROPERTIES
  FinishedIsFinal
  LostIsLost
