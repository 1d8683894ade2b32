SPECIFICATION FairSpec
CONSTANTS
  r1 = r1
  r2 = r2
  None = None
  Ids = {r1}
  RESERVATION_DURATION = 1
  CONFIRMATION_HEIGHT_DELTA = 1
  StartHeight = 1
  MaxConcurrentRequests = 2
  WINDOW_REQUESTS = 10
  RpcMayFail = FALSE
  TxLists <- MCSingleTxLists
  InitialHeaders = {1}
  HeaderHeights = {}
  MaxHeight = 4
  MaxReorgs = 1
  MaxReorgDepth = 2
  MaxTime = 0
  MaxInserts = 1
PROPERTIES
  BestChainEventuallySifted
