SPECIFICATION ReportSpec
CONSTANTS
    p1 = p1
    p2 = p2
    Proc = {p1, p2}
    Capacity = 2
    BackupCount = 1
    Faults = {"fail", "torn"}
    MaxEvents = 4
    MaxReports = 0
    NoFile = NoFile
    NoLine = NoLine
SYMMETRY Symmetry
CONSTRAINT Legible
ACTION_CONSTRAINT EarlyFailures
INVARIANTS
    NothingForgotten
    NoDanglingLink
CHECK_DEADLOCK FALSE
