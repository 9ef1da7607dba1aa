SPECIFICATION PanicSpec
CONSTANTS
    Printer = {p1, p2}
    Reason = {offline}
    Offline = offline
    IdLimit = 3
    MaxJobs = 2
    MaxDocuments = 2
SYMMETRY PrinterSymmetry
INVARIANTS
    SpoolTypeOK
    PanicIsContained
    OutcomeIsEarned
PROPERTIES
    WorkIsShown
