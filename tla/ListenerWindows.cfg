SPECIFICATION Spec
CONSTANTS
  r1 = r1
  r2 = r2
  None = None
  Ids = {r1}
  RESERVATION_DURATION = 1
  CONFIRMATION_HEIGHT_DELTA = 1
  StartHeight = 1
  MaxConcurrentRequests = 2
  WINDOW_REQUESTS = 10
  RpcMayFail = TRUE
  TxLists <- MCSingleTxLists
  InitialHeaders = {1}
  HeaderHeights = {2, 3}
  MaxHeight = 4
  MaxReorgs = 1
  MaxReorgDepth = 2
  MaxTime = 2
  MaxInserts = 2
INVARIANTS
  TypeOK
  OneProofPerInsert
  FinalWindowHoldsPayment
