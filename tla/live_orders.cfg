SPECIFICATION Spec
CONSTANTS
  MaxOrders = 2
  MaxCalls = 3
  OpenPrices = {1}
  Prices = {1}
  Replaces = {TRUE}
  InstantFills = TRUE
  LostAnswers = {"submit","edit"}
  Reconciles = FALSE
  Audit = FALSE
  Levels = {1}
INVARIANTS OneOutcome BrokerMirrored
PROPERTIES ImplementsLifecycle
