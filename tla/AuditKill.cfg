SPECIFICATION ReportSpec
CONSTANTS
    p1 = p1
    p2 = p2
    Proc = {p1}
    Capacity = 2
    BackupCount = 2
    Faults = {"kill"}
    MaxEvents = 8
    MaxReports = 1
    NoFile = NoFile
    NoLine = NoLine
INVARIANTS
    TypeOK
    ChainSound
    RemovalDetected
    AlarmOnlyIfRotated
    ReportComplete
    HistoryLossReported
PROPERTIES
    OneTrail
CHECK_DEADLOCK FALSE
