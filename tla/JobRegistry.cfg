SPECIFICATION JobSpec
CONSTANTS
    Printer = {p1}
    Reason = {offline}
    Offline = offline
    IdLimit = 3
    MaxJobs = 3
INVARIANTS
    JobTypeOK
    IdsIdentifyJobs
    FinishedIsStamped
PROPERTIES
    CancelKeepsOutcome
