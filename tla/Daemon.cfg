SPECIFICATION FairSpec
CONSTANTS
    FirstViews = {"missing", "good"}
    Views = {"missing", "malformed", "good"}
    Configs = {"bad", "enforce"}
    Privileged = TRUE
    MaxEvents = 3
    MaxSignals = 1
    MaxOutages = 1
    MaxHangs = 1
INVARIANTS
    TypeOK
    VerdictIsOfThisCheck
    LastVerdictSurvivesExit
PROPERTIES
    DriftReachesBackend
    RepairReachesBackend
    NeverSilent
