SPECIFICATION Spec
CONSTANTS
  None = None
  Paid = Paid
  Ids = {r1}
  RESERVATION_DURATION = 8
  MaxBlocks = 3
  MaxCount = 2
  MaxFailures = 1
  MaxCloses = 0
  MaxDuplicates = 0
INVARIANTS
  FulfilledRemoved
