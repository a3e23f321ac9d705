SPECIFICATION Spec
CONSTANTS
    r1 = r1
    r2 = r2
    s1 = s1
    Rotator = {r1}
    Sealer = {s1}
    Methods = {"rsa", "ecc"}
    Commands <- RotateAll
    Faults = {"crash", "save", "audit"}
    MaxKeys = 4
    NoKey = NoKey
INVARIANTS
    ContainersOpen
PROPERTIES
    RotationsAtomic
    FilesPermanent
CHECK_DEADLOCK FALSE
