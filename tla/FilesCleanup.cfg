SPECIFICATION Spec
CONSTANTS
    p1 = p1
    p2 = p2
    System = System
    Encryptor = {p1, p2}
    Rewrapper = {}
    Decryptor = {}
    Callers <- OnlyAdmin
    Contexts <- Sensitive
    Size <- MCSize
    Faults = {}
    MaxDeks = 2
    MaxKeys = 1
PROPERTIES
    WholeContainersKept
CHECK_DEADLOCK FALSE
