CONSTANTS
    None = None
    Hooks = {h1}
    Outcomes = {"failed"}
    Prec = 1
    SharedAccount = FALSE
    NoopEcho = FALSE
    Polling = FALSE
    MaxId = 3
    MaxUserActs = 2
    MaxLost = 3
    MaxCrashes = 0
SPECIFICATION Spec
PROPERTY
    FinalizedRowsAreInHistory
