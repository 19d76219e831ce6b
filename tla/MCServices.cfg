SPECIFICATION Spec
CONSTANTS
    UfwRules = {"allow 22/tcp", "allow Syncthing", "allow 9/tcp"}
    Subvolumes = {"/", "/home"}
    OwnSnapshots = {"/"}
    Numbers = {1, 2}
    RootSubvolume = "/"
    Unreadable = "unreadable"
    Scenarios <- MCScenarios
    MaxCuts = 2
    MaxApplies = 4
    MaxHands = 1
INVARIANTS
    UndeclaredIsClosed
    DaemonEnforcesFiles
    NoOrphanedSnapshots
PROPERTIES
    DeclaredSnapshotsStay
CHECK_DEADLOCK FALSE
