SPECIFICATION FairPollSpec
CONSTANTS
    Printer = {p1}
    Reason = {offline}
    Offline = offline
    IdLimit = 2
    InstanceName = {label1}
    LabelOf <- MCLabelOf
PROPERTIES
    EndedServerIsWithdrawn
