CONSTANTS
    f1 = f1
    f2 = f2
    Absent = Absent
    Edited = Edited
    File = {f1, f2}
    Last = 3
    Version <- ThreeReleases
    MaxJobs = 2
    MaxFaults = 2
    MaxEdits = 1
SPECIFICATION Spec
CHECK_DEADLOCK FALSE
INVARIANTS
    RecoveryIsComplete
    NeverStuck
    ReportedIsTrue
PROPERTIES
    HotfixesSurvive
