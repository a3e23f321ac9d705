SPECIFICATION Spec
CONSTANTS
    alice = alice
    bob = bob
    pw1 = pw1
    pw2 = pw2
    p1 = p1
    p2 = p2
    User = {alice, bob}
    Password = {pw1, pw2}
    Proc = {p1, p2}
    Threshold = 2
    Schedule <- MCSchedule
    MaxFailed = 3
    MaxRetries = 2
    NoRecord = NoRecord
    NoStore = NoStore
    NoProc = NoProc
    NoSession = NoSession
    NoOp = NoOp
    InitStores <- LoginStores
    Kinds <- LoginOps
    GivenRoles <- AdminOnly
    GivenLevels <- HighOnly
    MaxClock = 1
    MaxSalt = 2
SYMMETRY Symmetry
INVARIANT IInv
PROPERTIES
    Atomic
    LoginSound
    LoginWritesOnlyLockout
    FailuresCounted
CHECK_DEADLOCK FALSE
