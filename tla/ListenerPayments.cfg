SPECIFICATION Spec
CONSTANTS
  r1 = r1
  r2 = r2
  None = None
  Ids = {r1, r2}
  RESERVATION_DURATION = 1
  CONFIRMATION_HEIGHT_DELTA = 1
  StartHeight = 1
  MaxConcurrentRequests = 2
  WINDOW_REQUESTS = 10
  RpcMayFail = FALSE
  TxLists <- MCTxLists
  InitialHeaders = {}
  HeaderHeights = {1}
  MaxHeight = 3
  MaxReorgs = 0
  MaxReorgDepth = 2
  MaxTime = 2
  MaxInserts = 1
SYMMETRY Symmetry
INVARIANTS
  PaymentsRecorded
PROPERTIES
  AnalyzedInOrder
  ProgressKept
