SPECIFICATION FairSpec
CONSTANTS
    None = None
    Hooks = {h1}
    MaxAttempts = 3
    MaxId = 3
    MaxActs = 3
    MaxCrashes = 1
INVARIANTS TypeOK MergedIsTrue
PROPERTIES ImplementsLifecycle EndsItsOwnLifecycle NoRowIsAbandoned EveryLifecycleAdvances
CHECK_DEADLOCK FALSE
