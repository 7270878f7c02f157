SPECIFICATION FairSpec
CONSTANTS
    Hooks = {h1}
    MaxJobRetries = 1
    MaxRebases = 1
    CanceledGrace = 1
    MaxCommit = 2
    MaxPipelines = 3
    MaxActs = 2
INVARIANTS TypeOK MergingIsTested 
PROPERTIES MergedIsTested VerdictOfTheRightCommit WaitEnds
CHECK_DEADLOCK FALSE
