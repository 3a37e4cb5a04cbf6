SPECIFICATION ScanSpec
CONSTANTS
    Variables <- MCVariables
    Item = "item"
    Roots <- MCRoots
    Items <- DropItems
    Worlds <- DropWorlds
    Depth = 8
    Height <- MCHeight
    Nesting = 5
INVARIANT
    NeverSilentlyDropped
