SPECIFICATION Spec
CONSTANTS
  MaxOrders = 1
  MaxCalls = 2
  OpenPrices = {1}
  Prices = {1}
  Replaces = {FALSE}
  InstantFills = FALSE
  LostAnswers = {"query"}
  Reconciles = FALSE
  Audit = FALSE
  Levels = {}
INVARIANTS LimitOutcomesTrue
