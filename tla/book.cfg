SPECIFICATION FairSpec
CONSTANTS
  MaxOrders = 2
  Prices = {1, 2, 3, 4}
  Bids = {1, 2, 3}
  Spread = 1
  VolumeMin = 1
  VolumeMax = 3
  Delays = {1, 2}
  MaxMsc = 3
  MinTickGap = 0
  HeartbeatMs = 1
  GapThreshold = 3
  NativeSlTp = FALSE
  CloseLots = {}
  Requests <- BookRequests
  Modifications <- BookChanges
INVARIANTS TypeOK OneOutcome BookSettled CountersAgree CleanShutdown
PROPERTIES ImplementsLifecycle EveryOrderDecided
