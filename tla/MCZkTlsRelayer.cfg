SPECIFICATION Spec
CONSTANTS
  Owner = "owner"
  Accounts = {"owner", "stranger"}
  Keys = {k1, k2}
  NoSigner = NoSigner
  Unknown = Unknown
  Urls = {"u"}
  Data = {"a", "b"}
  Nonces = {1, 2}
  NoData = NoData
  Skew = 2
  MaxAge = 1
  MaxTime = 5
SYMMETRY Symmetry
INVARIANTS RecordAttestedInWindow
PROPERTIES RecordsNeedFreshAuthorizedProof RegressionBounded
CHECK_DEADLOCK FALSE
