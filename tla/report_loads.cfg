\* Loads whose sockets are lost, whose server moves, is reset or restarted.
SPECIFICATION FairSpec
CHECK_DEADLOCK FALSE  \* every bound reached, nothing is left to do
CONSTANTS
    Teams = {t1, t2}
    NoLoad = NoLoad
    NoReport = NoReport
    MaxLoads = 2
    MaxEvents = 1
    MaxFaults = 3
INVARIANTS
    ListedTeamsReported
    FirstReportComplete
    ReportFromLog
PROPERTIES
    LoadEnds
