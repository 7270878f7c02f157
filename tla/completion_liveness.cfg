CONSTANTS
    None = None
    Hooks = {h1}
    Outcomes = {"failed"}
    Prec = 1
    SharedAccount = FALSE
    NoopEcho = FALSE
    Polling = FALSE
    MaxId = 2
    MaxUserActs = 2
    MaxLost = 3
    MaxCrashes = 1
SPECIFICATION FairSpec
PROPERTY
    PendingIsArchived
