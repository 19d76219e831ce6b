SPECIFICATION Spec
CONSTANTS
    DiskSize = 30720
    Layouts <- MCLayouts
    Disk0s <- MCDisks
    MaxSlots = 4
    MaxFailures = 1
    MaxCuts = 1
    Unlocks <- MCUnlocks
    HeaderReads = {TRUE}
    MaxApplies = 2
    MaxHands = 2
    NoPath = NoPath
INVARIANTS
    MountedAsDeclared
    StillOpens
    UnlockSettles
PROPERTIES
    ErasesOnlyWhenAsked
CHECK_DEADLOCK FALSE
