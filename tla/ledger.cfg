SPECIFICATION MCSpec
CONSTANTS
  a = a
  b = b
  c = c
  home = home
  cloud = cloud
  NoRow = NoRow
  Frame = {1}
  Sha = {a, b, c}
  Worker = {home, cloud}
  LocalWorker = {home}
  ObjectKey = {0}
  PreferLocal = TRUE
  MaxConflicts = 3
INVARIANTS
  LedgerTypeOK
  ConflictTracked
  NothingSilentlyDropped
  RivalsQuarantined
  LocalPreferred
PROPERTY
  PublicationPromise
