SPECIFICATION FairSpec
CONSTANTS
  Blank = Blank  DEFAULT_SWNAME = CONFIDENTIAL_SPACE
  Clients = {a, b}
  Trusted = {a}
  Nonces = {n, m, Blank}
  Digests = {d, Blank}
  Rate = 3
  Cost = 2
  Burst = 1
  MaxTime = 1
  MaxCalls = 2
  MaxConnects = 2
INVARIANTS WindowBound CountersReconcile TokensBindSessions
PROPERTIES ConnectionsDecided CallsAnswered
CHECK_DEADLOCK FALSE
