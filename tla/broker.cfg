SPECIFICATION MCSpec
CONSTANTS
  Parts = {"guard", "adapter", "boot", "rules", "mock"}
  Directions <- BothDirections
  Cooldown = 3
  MaxRejections = 2
  MaxInFlight = 3
  MaxGap = 2
  StressTest = TRUE
  Interval = 1
  PollsUntilFill = 2
  Placements <- MCPlacements
  Pairs <- MCPairs
  MaxCalls <- MCCalls
  MaxMono = 2
  MaxStepBack = 1
  Markets <- MCMarkets
  Profiles <- MCProfiles
  MaxDay = 3
  MaxSessions = 2
  RefreshAfter = 1
  Configs <- MCConfigs
  Needs <- MCNeeds
  Asks <- MCAsks
  RequiredTypes <- MCRequired
  Quotes <- MCQuotes
  Accounts = {"USD", "EUR", "JPY"}
  MaxMockOrders = 2
  MaxReplies = 3
  MockPrices = {30}
  MockLots = {6}
  TradesPerFill = {1, 3}
  MockSlippage = 4
  TakerRate = 26
INVARIANTS BlockJustified GuardMatchesHistory AdapterSound BootSound RulesKept
PROPERTIES BoundaryLive
CHECK_DEADLOCK FALSE
