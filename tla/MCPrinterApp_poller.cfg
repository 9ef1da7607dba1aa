SPECIFICATION AppSpec
CONSTANTS
    Printer = {p1}
    Reason = {offline}
    Offline = offline
    IdLimit = 2
    MaxJobs = 1
    MaxDocuments = 1
    InstanceName = {label1}
    LabelOf <- MCLabelOf
PROPERTIES
    PollerSparesProcessing
