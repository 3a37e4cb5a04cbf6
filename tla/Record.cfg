SPECIFICATION Spec
CONSTANTS
    Contents <- MCContents
    SizeOf <- MCSizeOf
    Modes <- MCModes
    MTimes <- MCMTimes
    Torn = "torn"
    Recorders = {r1}
    Paths = {"a", "b", "c"}
    Want <- MCWant
    Packages = {"k"}
    MaxRuns = 2
    MaxDrift = 2
    MaxFailures = 1
    MaxDamage = 1
    AfterFailure = {"run"}
    NodeStates <- MCNodeStates
INVARIANTS
    TypeOK
    RunsAccumulate
PROPERTIES
    OnlyWindowChangesRecorded
CHECK_DEADLOCK FALSE
