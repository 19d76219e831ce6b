SPECIFICATION Spec
CONSTANTS
    Scenarios <- MCOlder
    PresetFallback = FALSE
    HooksMayFail = FALSE
    MaxCuts = 2
    MaxApplies = 4
    MaxHands = 1
INVARIANT RescueEntryBoots
CHECK_DEADLOCK FALSE
