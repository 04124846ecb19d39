SPECIFICATION MCSpec
CONSTANTS
    Parts = {"archive", "batch", "caches", "windows", "signals", "setup"}
    Buckets = {1, 2, 3}
    Versions = {1, 2}
    Journal <- MCJournal
    SignalSymbols = {"A", "B"}
    SignalRuns = 2
    SignalFaults = 1
    LastInstant = 10
    Exports <- MCExports
    Symbols = {"A", "B"}
    Contents <- MCContents
    BrokerTypes = {"mt5", "kraken"}
    OffsetHours <- MCOffset
    MaxRuns = 3
    MaxFailures = 1
    Archive <- MCArchive
    BarLength = 2
    ShortGap = 2
    StandardMode = TRUE
    ScenarioSets <- MCScenarioSets
    Variants <- MCVariants
    MaxWorkers = 2
    MaxVersion = 2
    MaxRequests = 2
    Holidays <- MCHolidays
    RolloverHour <- MCRolloverHour
    TripleWeekday = 2
    Requests <- MCRequests
    Allowed = {"weekend", "holiday"}
    BlockHours = 24
    MinBlock = 4
    MaxBlock = 30
    Percentile = 20
    AppDefaults <- MCDefaults
    SetFiles <- MCSetFiles
    Specs <- MCSpecs
    Metric = "tick_count"
    Registry <- MCRegistry
    Absolute = {"/late.py"}
    UserFiles <- MCUserFiles
    Classes <- MCClasses
INVARIANTS ArchivesSound BatchSound ServedCurrent CoverageSound SetupSound
PROPERTIES JobsEnd
CHECK_DEADLOCK FALSE
