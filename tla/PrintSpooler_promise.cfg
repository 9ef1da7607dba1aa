SPECIFICATION CanceledSpec
CONSTANTS
    Printer = {p1}
    Reason = {offline}
    Offline = offline
    IdLimit = 3
    MaxJobs = 1
    MaxDocuments = 2
INVARIANTS
    NoStrandedJob
    NoStuckPrinter
PROPERTIES
    ImplementsPromise
    KeepsPromise
    CancelBringsToRest
    CanceledInTimeIsNotPrinted
    OnlyHoldsRepeat
