SPECIFICATION Spec
CONSTANTS
  Kx <- MCKx
  Prefers <- MCPrefers
  Plans <- MCPlans
  MaxEntries = 2
  Timeout = 1
  TicketLifetime = 1
  MaxRecords = 1
  Start = 2
  MaxTime = 4
  Stride = 30
  MaxOthers = 2
  MaxBoots = 1
INVARIANTS Agreement WillingSucceed EverythingOpens RenegotiationFails
  ResumedAsMade RequiredIsVerified DeliveredInOrder
PROPERTIES OldestLeaves HandshakesEnd
CHECK_DEADLOCK FALSE
