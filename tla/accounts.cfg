SPECIFICATION Spec
CONSTANTS
  MaxPositions = 2
  Bids = {2, 4}
  Spread = 1
  Orders <- MixedOrders
  Modes = {"margin", "spot"}
  Leverage = 2
  InitialBalance = 12
  InitialBase = 2
  EntryFee = 1
  SwapCost <- Swaps
  MaxNights = 1
  HistoryMax = 3
INVARIANTS BooksBalance
PROPERTIES StepsFunded
