SPECIFICATION FairSpec
CONSTANTS
  Chunks = 2
  Pid = {1, 2}
  MaxStarts = 2
  MaxRequests = 3
  MaxCrashes = 2
CHECK_DEADLOCK FALSE
INVARIANTS
  StopIsPrompt
PROPERTIES
  CancelSticks
  RenderEnds
