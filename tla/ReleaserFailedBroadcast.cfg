SPECIFICATION FairSpec
CONSTANTS
  None = None
  Ids = {r1}
  MaxTime = 3
  MaxRequests = 1
  MaxFailures = 1
  Flashbots = FALSE
  MayEnd = FALSE
PROPERTIES
  DueEventuallyReleased
