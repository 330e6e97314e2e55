SPECIFICATION Spec
CONSTANTS
  Blank = Blank  DEFAULT_SWNAME = CONFIDENTIAL_SPACE
  Clients = {a, b}
  Trusted = {a}
  Nonces = {n, m, Blank}
  Digests = {d, Blank}
  Rate = 1
  Cost = 2
  Burst = 1
  MaxTime = 2
  MaxCalls = 2
  MaxConnects = 2
INVARIANT EatCarriesReport
CHECK_DEADLOCK FALSE
