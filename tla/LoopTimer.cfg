SPECIFICATION FairSpec
CONSTANTS
    TimeSpan = 16
    BodyTicks = 3
    ExitTicks = 2
INVARIANTS
    OnlyTheWrapOversleeps
PROPERTIES
    PassInterval
    BriskLoopGoesOn
CHECK_DEADLOCK TRUE
