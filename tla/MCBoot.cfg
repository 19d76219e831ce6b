SPECIFICATION Spec
CONSTANTS
    Scenarios <- MCScenarios
    PresetFallback = FALSE
    HooksMayFail = FALSE
    MaxCuts = 2
    MaxApplies = 4
    MaxHands = 1
INVARIANTS
    Bootable
    SecondPlanIsSilent
    SilentMeansBuilt
PROPERTIES
    RootStays
CHECK_DEADLOCK FALSE
