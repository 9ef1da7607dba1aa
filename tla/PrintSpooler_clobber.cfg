SPECIFICATION SpoolSpec
CONSTANTS
    Printer = {p1}
    Reason = {offline}
    Offline = offline
    IdLimit = 3
    MaxJobs = 2
    MaxDocuments = 2
PROPERTIES
    CompletionKeepsCancel
