SPECIFICATION FairSpec
CONSTANTS
    Setups <- MCSetups
    Values <- MCValues
    DeadAfter = 0
    MaxDelay = 1
    StartValue = 3
    MockTicks = 2
    MaxQueue = 1
    SaveTicks = 2
    SaveTime = 1
    MaxAlgo = 1
    StaleAfter = 0
    MaxFails = 1
INVARIANTS StateDurable GatesTrue
PROPERTIES SessionLive
CHECK_DEADLOCK FALSE
