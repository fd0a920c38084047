SPECIFICATION FairSpec
CONSTANTS
    Axes <- TwoAxes
    Counts <- CountsL
    Targets = {0, 1}
    Gains = {g0}
    DefaultGain = g0
    Safety <- Safety2
    ErrThresh <- ErrThreshL
    Debug = TRUE
CHECK_DEADLOCK TRUE
INVARIANTS
    MutualExclusion
    PlayfieldInsideTravel
    CalibrationIsExact
PROPERTIES
    CallsReturn
    ControlKeepsRunning
