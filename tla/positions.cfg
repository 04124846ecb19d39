SPECIFICATION Spec
CONSTANTS
  MaxOrders = 2
  Prices = {1, 2, 3, 4}
  Bids = {1, 3}
  Spread = 1
  VolumeMin = 2
  VolumeMax = 4
  Delays = {1}
  MaxMsc = 3
  MinTickGap = 0
  HeartbeatMs = 1
  GapThreshold = 3
  NativeSlTp = TRUE
  CloseLots <- PartialCloses
  Requests <- PositionRequests
  Modifications <- PositionChanges
INVARIANTS LotsConserved NoDust
