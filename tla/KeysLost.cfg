SPECIFICATION Spec
CONSTANTS
    r1 = r1
    r2 = r2
    s1 = s1
    Rotator = {r1, r2}
    Sealer = {s1}
    Methods = {"rsa"}
    Commands <- RotateAll
    Faults = {}
    MaxKeys = 4
    NoKey = NoKey
INVARIANT ContainersOpen
CHECK_DEADLOCK FALSE
