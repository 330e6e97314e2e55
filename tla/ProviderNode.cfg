SPECIFICATION NodeFairSpec
CONSTANTS
  Exchanges = {x, y}
  Feeds = {f, g}
  StaleAfter = 1
  Period = 1
  ConnectTimeout = 1
  Base = 1
  MaxDelay = 2
  MaxCount = 0
INVARIANTS SilenceIsReported AlarmsAreTrue
PROPERTIES ConnectorsRecover
