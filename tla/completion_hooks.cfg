CONSTANTS
    None = None
    Hooks = {h1, h2}
    Outcomes = {"failed"}
    Prec = 2
    SharedAccount = FALSE
    NoopEcho = FALSE
    Polling = FALSE
    MaxId = 2
    MaxUserActs = 3
    MaxLost = 3
    MaxCrashes = 0
SPECIFICATION Spec
INVARIANTS
    OwnChangesAreNotIntent
    RequestIsRestorable
PROPERTIES
    AdmittedIntentSurvives
    LabelFollowsRequeue
SYMMETRY HookSymmetry
