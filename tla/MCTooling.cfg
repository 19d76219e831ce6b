SPECIFICATION Spec
CONSTANTS
    Users <- TwoUsers
    AnyPython = "any"
    DefaultPython = "3.14"
    AgyName <- Names
    Scenarios <- MCScenarios
    MaxCuts = 2
    MaxApplies = 3
    MaxHands = 2
INVARIANTS
    PlansEndSilent
    AppliedIsLoadable
    ClaimsAreTrue
PROPERTIES
    OthersKeepTheirSkills
CHECK_DEADLOCK FALSE
