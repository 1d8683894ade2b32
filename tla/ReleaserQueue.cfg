SPECIFICATION FairSpec
CONSTANTS
  None = None
  Ids = {r1, r2}
  MaxTime = 3
  MaxRequests = 2
  MaxFailures = 1
  Flashbots = TRUE
  MayEnd = TRUE
INVARIANTS
  TypeOK
  OneBroadcastPerRequest
  NoRequestLost
PROPERTIES
  ImplementsReleaseBook
  DueEventuallyBroadcast
