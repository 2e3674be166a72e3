SPECIFICATION Spec
CONSTANTS
  Kx <- MCKx
  Prefers <- MCPrefers
  Plans <- MCReused
  MaxEntries = 1
  Timeout = 1
  TicketLifetime = 1
  MaxRecords = 0
  Start = 2
  MaxTime = 2
  Stride = 30
  MaxOthers = 0
  MaxBoots = 0
INVARIANTS ResetIsForgetful
CHECK_DEADLOCK FALSE
