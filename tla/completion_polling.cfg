CONSTANTS
    None = None
    Hooks = {h1}
    Outcomes = {"failed", "merged"}
    Prec = 1
    SharedAccount = FALSE
    NoopEcho = TRUE
    Polling = TRUE
    MaxId = 2
    MaxUserActs = 2
    MaxLost = 2
    MaxCrashes = 1
SPECIFICATION Spec
INVARIANTS
    LockOwnership
    OwnChangesAreNotIntent
PROPERTIES
    FrozenOutcome
    OwnedRowLeavesDone
    AdmittedIntentSurvives
    ImplementsLifecycle
