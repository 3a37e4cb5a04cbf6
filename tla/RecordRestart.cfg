SPECIFICATION Spec
CONSTANTS
    Contents <- MCContents
    SizeOf <- MCSizeOf
    Modes <- MCModes
    MTimes <- MCMTimes
    Torn = "torn"
    Recorders = {r1}
    Paths = {"a"}
    Want <- MCWantA
    Packages = {}
    MaxRuns = 2
    MaxDrift = 0
    MaxFailures = 1
    MaxDamage = 0
    AfterFailure = {"idle"}
    NodeStates <- MCNodeStates
PROPERTIES
    CapturedAtEnd
CHECK_DEADLOCK FALSE
