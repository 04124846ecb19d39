SPECIFICATION MCSpec
CONSTANTS
    Timeframes <- MCTimeframes
    SessionStart = 1
    MaxHistory = 2
    MaxTime = 4
    MaxEnvelopes = 2
    Skew = 1
    Journals = {ja, jb}
    CloseTf = 2
    MaxEvents = 4
    MaxStale = 1
    Lag = 1
    WindowPlans <- MCWindowPlans
    StaleAfter = 1
    Clock = 7
INVARIANTS BarsTrue SignalsTrue StalenessTold EventsDelivered
CHECK_DEADLOCK FALSE
