SPECIFICATION Spec
CONSTANTS
  Prices = {1, 2, 3}
  Volumes = {0, 1, 2}
  MaxExchanges = 4
  Order = 5
  Secret = 1
  Images = {"image"}
  MaxReleases = 3
  Units = 3
  MaxU64 = 2
  OtherUsd = {0, 4, 18, 19}
  MaxRounds = 2
  Collected = 1
INVARIANTS RevealsOpenByReference
CHECK_DEADLOCK FALSE
