SPECIFICATION FairPollSpec
CONSTANTS
    Printer = {p1, p2}
    Reason = {offline}
    Offline = offline
    IdLimit = 2
    InstanceName = {label1, label2}
    LabelOf <- MCLabelOf
INVARIANTS
    PollTypeOK
    AdvertsLeadHome
    NoOrphanAdvert
PROPERTIES
    RestingAdvertFollowsDevice
    ReconcileTakesEffect
