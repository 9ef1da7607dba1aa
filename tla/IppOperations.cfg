SPECIFICATION FairOpSpec
CONSTANTS
    Printer = {p1}
    Reason = {offline, jam}
    Offline = offline
    MediaJam = jam
    MediaEmpty = empty
    IdLimit = 4
    MaxJobs = 2
    MaxDocuments = 1
INVARIANTS
    OpTypeOK
    AnsweredIdFindsJob
    CancelAnswerIsTrue
    ReasonsFitState
PROPERTIES
    SweepReachesEveryJob
