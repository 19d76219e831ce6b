SPECIFICATION Spec
CONSTANTS
    HomePaths <- HomePathsValue
    Ancestors <- AncestorsOf
    UserOf <- UserOfPath
    EtcPaths <- EtcPathsValue
    EtcDir <- DirOf
    Discovered = {"dropin", "crypttab"}
    SystemdPaths = {"dropin"}
    Shipped = {"pam", "environment"}
    Secrets = {"secret"}
    Scenarios <- Machines
    MaxCuts = 2
    MaxApplies = 3
    MaxHands = 2
INVARIANTS SecondPlanIsSilent AppliedIsInForce
PROPERTIES SecretsStayPrivate TouchesOnlyItsOwn
CHECK_DEADLOCK FALSE
