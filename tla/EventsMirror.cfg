SPECIFICATION Spec
CONSTANTS
  None = None
  Paid = Paid
  Ids = {r1, r2}
  RESERVATION_DURATION = 8
  MaxBlocks = 3
  MaxCount = 1
  MaxFailures = 1
  MaxCloses = 0
  MaxDuplicates = 1
SYMMETRY Symmetry
INVARIANTS
  TypeOK
  StoreMirrorsContract
PROPERTIES
  PaymentKeptInSession
  FulfilledStaysRemoved
  ImplementsContractFeed
