SPECIFICATION Spec
CONSTANTS
    alice = alice
    bob = bob
    pw1 = pw1
    pw2 = pw2
    p1 = p1
    p2 = p2
    User = {alice, bob}
    Password = {pw1}
    Proc = {p1, p2}
    Threshold = 2
    Schedule <- MCSchedule
    MaxFailed = 3
    MaxRetries = 2
    NoRecord = NoRecord
    NoStore = NoStore
    NoProc = NoProc
    NoSession = NoSession
    NoOp = NoOp
    InitStores <- AdminStores
    Kinds <- AdminOps
    GivenRoles <- TwoRoles
    GivenLevels <- HighOnly
    MaxClock = 0
    MaxSalt = 3
SYMMETRY Symmetry
INVARIANTS
    LockInv
    NoLostUpdate
    ActiveAdminRemains
PROPERTIES
    Atomic
    OnlyCurrentAdminMutates
CHECK_DEADLOCK FALSE
