SPECIFICATION FairSpec
CONSTANTS
  None = None
  Paid = Paid
  Ids = {r1}
  RESERVATION_DURATION = 8
  MaxBlocks = 3
  MaxCount = 1
  MaxFailures = 1
  MaxCloses = 4
  MaxDuplicates = 0
INVARIANTS
  HeadersNeverSkipped
PROPERTIES
  EventsEventuallyApplied
