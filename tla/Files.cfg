SPECIFICATION Spec
CONSTANTS
    p1 = p1
    p2 = p2
    System = System
    Encryptor = {p1}
    Rewrapper = {p1}
    Decryptor = {p2}
    Callers <- Few
    Contexts <- Sensitive
    Size <- MCSize
    Faults = {"crash", "io", "audit"}
    MaxDeks = 2
    MaxKeys = 2
INVARIANTS
    TypeOK
    PublishedAuthentic
    TemporaryAuthentic
    Accounted
PROPERTIES
    SealedBeforeDeleted
    RewrapKeepsDocument
CHECK_DEADLOCK FALSE
