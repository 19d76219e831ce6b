SPECIFICATION Spec
CONSTANTS
    Scenarios <- MCScenarios
    MaxCuts = 1
    MaxApplies = 3
    MaxHands = 2
INVARIANTS
    SecondPlanIsSilent
    TurnedOffIsTakenBack
    SyncedPlanIsSilent
CHECK_DEADLOCK FALSE
