SPECIFICATION FairSpec
CONSTANTS
    Paths <- MCPaths
    Contents <- MCContents
    SizeOf <- MCSizeOf
    Modes <- MCModes
    MTimes <- MCMTimes
    Torn = Torn
    CPUs = 2
    Calls <- MCCalls
    StatesOf <- MCStatesOf
    MaxEdits = 2
INVARIANTS
    TypeOK
    EveryEntryJudged
    ReportInOrder
    PersistentDriftReported
    NoFalseAlarm
    SizeMismatchOnlyRaces
PROPERTIES
    Termination
    ImplementsPromise
