SPECIFICATION FairSpec
CONSTANTS
    Workers = {w1, w2}
    MaxAttempts = 2
    BatchLimit = 2
    MaxStored = 2
    MaxRequeues = 1
    MaxFaults = 1
INVARIANTS TypeOK EachDeliveryIsInOnePlace TriesBounded
PROPERTY RetriesEnd
CHECK_DEADLOCK FALSE
