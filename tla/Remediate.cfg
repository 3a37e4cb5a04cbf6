SPECIFICATION Spec
CONSTANTS
    Packages = {"app", "lib", "vim", "old"}
    Services = {"web", "cron"}
    Versions = {"v1", "v2"}
    Absent = ""
    Needs <- MCNeeds
    Archives <- MCArchives
    Manual <- MCManual
    DeclaredPackages <- MCDeclaredPackages
    DeclaredServices = {"web"}
    Hosts <- MCHosts
    Nodes <- MCNodes
    NoManifest = NoManifest
    MaxEvents = 2
INVARIANTS
    TypeOK
    CleanIsTrue
    PassEnforces
    SettledIsLeftAlone
    ReportIsTrue
PROPERTIES
    NeededIsKept
    EventuallyEnforced
