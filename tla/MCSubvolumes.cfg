SPECIFICATION Spec
CONSTANTS
    rootvol = rootvol
    s = s
    w = w
    f1 = f1
    f2 = f2
    nest = nest
    Subvols = {rootvol, s, w}
    RootSubvol = rootvol
    Paths <- MCPaths
    Data = {f1, f2, nest}
    Nested = {nest}
    Configs <- MCConfigs
    Moving <- MCMoving
    MaxCuts = 1
    MaxEdits = 3
    Written <- MCWritten
    NoPath = NoPath
    NoSubvol = NoSubvol
    Directory = Directory
INVARIANTS NothingHidden FstabNamesExisting SecondPlanIsSilent
PROPERTIES NothingLost
SYMMETRY Files
CHECK_DEADLOCK FALSE
