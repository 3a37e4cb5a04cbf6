SPECIFICATION Spec
CONSTANTS
    Packages = {"app", "lib", "vim", "old"}
    Services = {"web", "cron"}
    Versions = {"v1"}
    Absent = ""
    Needs <- MCNeeds
    Archives = {}
    Manual <- MCManual
    DeclaredPackages <- MCDeclaredPackages
    DeclaredServices = {"web"}
    Hosts <- MCAptHost
    Nodes <- MCNodes
    NoManifest = NoManifest
    MaxEvents = 1
INVARIANTS
    SnapshotKept
