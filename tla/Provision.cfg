SPECIFICATION Spec
CONSTANTS
    Variables <- MCVariables
    Item = "item"
    Roots <- MCRoots
    Items <- ProvisionItems
    Worlds <- ProvisionWorlds
    Depth = 8
    Height <- MCHeight
    Nesting = 5
    Paths <- MCPaths
    Contents <- MCContents
    SizeOf <- MCSizeOf
    Modes <- MCModes
    MTimes <- MCMTimes
    Torn = "torn"
    Nodes <- MCNodes
    StatesOf <- MCStatesOf
    Manifests <- MCManifests
    MaxRuns = 2
    MaxEdits = 2
    MaxOthers = 1
INVARIANTS
    TypeOK
    FilesAreManaged
    EveryTaskAccountedFor
    WalkIsBounded
    ManagedIsTracked
    EntriesAreOfTheRun
    BaselineReadsClean
PROPERTIES
    ReportOfChangeIsTrue
CHECK_DEADLOCK FALSE
