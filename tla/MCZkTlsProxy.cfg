SPECIFICATION Spec
CONSTANTS
  Tasks = {t1, t2}
  Servers = {a, b}
  Chains = {old, new}
  SinkMax = 2
  MaxHandshakes = 3
SYMMETRY Symmetry
INVARIANTS CapturesUsedOnce ProofChainOfServer
CHECK_DEADLOCK FALSE
