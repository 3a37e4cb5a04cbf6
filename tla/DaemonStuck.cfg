SPECIFICATION FairSpec
CONSTANTS
    FirstViews = {"missing", "good"}
    Views = {"missing", "good"}
    Configs = {"watch"}
    Privileged = TRUE
    MaxEvents = 1
    MaxSignals = 0
    MaxOutages = 0
    MaxHangs = 0
PROPERTIES
    ErrorEndsWithManifest
