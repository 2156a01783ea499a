SPECIFICATION Spec
CONSTANTS
  gpu0 = gpu0
  w1 = w1
  w2 = w2
  NoWorker = NoWorker
  NoDevice = NoDevice
  NoCapability = NoCapability
  Worker = {w1, w2}
  Task = {1, 2}
  Device = {gpu0}
  Capability <- MCCapability
  Need <- MCNeed
  LeaseTerm = 3
  WorkerTimeout = 2
  Silence = 1
  MaxLag = 0
  MaxClock = 3
  MaxLeases = 2
SYMMETRY MCSymmetry
INVARIANTS
  TypeOK
  LeasesBackTasks
  CapacityHeld
  OneProcessUnlessLate
PROPERTIES
  NewestLeaseDelivers
