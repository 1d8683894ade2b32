SPECIFICATION FairSpec
CONSTANTS
  None = None
  Ids = {r1, r2}
  RESERVATION_DURATION = 8
  concurrency_limit = 1
  Payments <- MCPayments
  Windows <- MCWindows
  Timestamps = {0}
  MaxRequests = 2
  MaxInserts = 2
  MaxFailures = 1
  Flashbots = TRUE
INVARIANTS
  TypeOK
  PermitsConserved
  SubmissionsProved
  OneSubmissionPerRequest
PROPERTIES
  OnlyRepaymentOrEnvelopePanics
  RequestsEventuallyServed
  PaidEventuallySubmitted
