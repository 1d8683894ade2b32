SPECIFICATION FairNodeSpec
CONSTANTS
  r1 = r1
  None = None
  Ids = {r1}
  RESERVATION_DURATION = 1
  CONFIRMATION_HEIGHT_DELTA = 1
  StartHeight = 1
  MaxConcurrentRequests = 2
  WINDOW_REQUESTS = 10
  RpcMayFail = TRUE
  TxLists <- MCTxLists
  InitialHeaders = {1}
  HeaderHeights = {4}
  MaxHeight = 4
  MaxReorgs = 0
  MaxReorgDepth = 1
  MaxTime = 0
  MaxInserts = 2
  concurrency_limit = 1
  MaxRequests = 2
  MaxFailures = 1
  Flashbots = TRUE
INVARIANTS
  NodeTypeOK
  SubmissionConfirmed
PROPERTIES
  ImplementsListener
  ImplementsPipeline
  ImplementsSwapProver
  BlocksEventuallySifted
  PaymentEventuallyFinal
  PaymentEventuallySubmitted
