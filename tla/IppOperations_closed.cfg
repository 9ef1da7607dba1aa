SPECIFICATION FairOpSpec
CONSTANTS
    Printer = {p1}
    Reason = {offline}
    Offline = offline
    MediaJam = jam
    MediaEmpty = empty
    IdLimit = 2
    MaxJobs = 1
    MaxDocuments = 1
PROPERTIES
    ClosedJobIsFinalized
