CONSTANTS
    None = None
    MaxInstant = 7
    Widths = {4}
SPECIFICATION Spec
INVARIANTS
    TypeOK
    UnrefutedEnqueueWins
    ProvedCancelWins
PROPERTY
    RedeliveryKeepsVerdict
