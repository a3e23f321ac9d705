SPECIFICATION Spec
CONSTANTS
    c1 = c1
    w1 = w1
    a1 = a1
    a2 = a2
    System = System
    NoKey = NoKey
    Methods = {"rsa", "ecc"}
    MaxKeys = 2
    Cli = {}
    Gui = {w1}
    Users <- Office
    SignMethods = {"rsa"}
    Chunks = 1
    MaxEdits = 0
    SignFaults = {}
    Encryptor = {}
    Decryptor = {}
    People <- Callers
    Signals <- MCSignals
    Levels = {"low", "high"}
    MaxPackages = 0
    CallFaults = {}
    Sites <- OnlyWindow
INVARIANT GenuineAccepted
CHECK_DEADLOCK FALSE
