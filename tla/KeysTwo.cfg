SPECIFICATION Spec
CONSTANTS
    r1 = r1
    r2 = r2
    s1 = s1
    Rotator = {r1, r2}
    Sealer = {}
    Methods = {"rsa", "ecc"}
    Commands <- RotateAll
    Faults = {"crash", "write", "save", "audit"}
    MaxKeys = 3
    NoKey = NoKey
SYMMETRY Symmetry
INVARIANTS
    OneActive
    EncKeysWhole
    IInv
CHECK_DEADLOCK FALSE
