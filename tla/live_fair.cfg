SPECIFICATION FairSpec
CONSTANTS
  MaxOrders = 1
  MaxCalls = 3
  OpenPrices = {1}
  Prices = {2}
  Replaces = {TRUE, FALSE}
  InstantFills = TRUE
  LostAnswers = {"submit", "edit", "cancel", "query"}
  Reconciles = TRUE
  Audit = TRUE
  Levels = {}

INVARIANTS ShadowPriceTrue
PROPERTIES RequestsResolved Reconciled
