SPECIFICATION Spec
CONSTANTS
  Owner = "owner"
  Accounts = {"owner", "stranger"}
  Digests = {"d1", "d2"}
  NoDigest = NoDigest
  FeedIds = {"FLR"}
  NoFeed = NoFeed
  Queries = {"q1", "q2"}
  NoQuery = NoQuery
  Tokens <- MCTokens
  Claims <- MCClaims
  Zkps = {"p1", "p2"}
  NoZkp = NoZkp
  AttestedHashes = {"h1"}
  Rounds = {"r1"}
  NoRoot = NoRoot
  FdcProofs <- MCFdcProofs
  Readings <- MCReadings
  Quantities = {0, 1, 2}
  NoHash = NoHash
  MaxAge = 1
  MaxUint = 100
  MaxTime = 2
  MaxCommitments = 2
INVARIANTS OneBindingPerQuery RecordsBackedByCommitment Web2GatePrecedesSettlement SettlementMatchesEvent
PROPERTIES SettlementsUseFreshFeed ImplementsLedger
CHECK_DEADLOCK FALSE
