SPECIFICATION Spec
CONSTANTS
  Prices = {1, 2, 5}
  Volumes = {0, 1, 2}
  MaxExchanges = 4
  Order = 5
  Secret = 1
  Images = {"image"}
  MaxReleases = 3
  Units = 3
  MaxU64 = 1
  OtherUsd = {0, 4, 12, 13}
  MaxRounds = 2
  Collected = 1
INVARIANTS SubmittedPriceIsQuoted ThinQuotesCannotMovePrice TransactionsAreTheWallets RevealsOpenCommits ShardNeedsApproval
PROPERTIES ReleasesReturn
CHECK_DEADLOCK FALSE
