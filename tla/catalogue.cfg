SPECIFICATION FairSpec
CONSTANTS
  Scans = 2
  Items = 2
  Slots = 2
  MaxActive = 2
  MaxEvents = 2
CHECK_DEADLOCK FALSE
INVARIANTS
  RowsAreTrue
PROPERTIES
  WorkProceeds
