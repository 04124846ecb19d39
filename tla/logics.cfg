SPECIFICATION MCSpec
CONSTANTS
    Logics = {"study", "consensus", "aggressive", "hybrid", "STOP", "STOP_LIMIT", "trend", "deterministic", "multi", "margin", "event"}
    Scripts <- MCScripts
    MaxCount = 6
    Plans <- MCPlans
    FillTimeout = 1
    SessionTimeout = 3
    MaxRearm = 1
    MaxCost = 3
    MaxDeskOrders = 2
    Rsi = {10, 29, 50, 90}
    Bands = {10, 50, 90}
    Obv = {"bullish", "bearish", "neutral"}
    Scores <- MCScores
    MinConfidence = 55
    MaxPositions = 1
    Channels <- MCChannels
    Mids = {1, 5}
INVARIANTS ExposureKnown StudySound
PROPERTIES StudyTerminates RiskOnlyFalls
CHECK_DEADLOCK FALSE
