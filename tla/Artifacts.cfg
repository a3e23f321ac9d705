SPECIFICATION Spec
CONSTANTS
    c1 = c1
    w1 = w1
    a1 = a1
    a2 = a2
    System = System
    NoKey = NoKey
    Methods = {"rsa", "ecc"}
    MaxKeys = 2
    Cli = {c1}
    Gui = {w1}
    Users <- Office
    SignMethods = {"rsa"}
    Chunks = 2
    MaxEdits = 1
    SignFaults = {"kill", "io", "audit"}
    Encryptor = {a1}
    Decryptor = {a2}
    People <- Callers
    Signals <- MCSignals
    Levels = {"low", "high"}
    MaxPackages = 2
    CallFaults = {"kill", "audit"}
    Sites <- SignersOrAgents
INVARIANTS
    TypeOK
    NoFalseAlarm
    SignaturesResolve
    SignaturesAccounted
    PackagesOpen
    DecryptExact
    CallsAccounted
CHECK_DEADLOCK FALSE
