SPECIFICATION FairSpec
CONSTANTS
  Queries = {q}
  Proofs = {p}
  Refresh = Refresh
  Cancelled = Cancelled
  PoolSize = 2
  HwModels = {TRUE, FALSE}
  TeeCanFail = TRUE
  Lifetime = 4
  IntelLifetime = 4
  Poll = 1
  MaxInterval = 2
  FetchTimeout = 1
  QueryTimeout = 1
INVARIANTS Scrubbed
PROPERTIES NoWorkAfterAnswer RequestsAnswered GateStaysOpen
