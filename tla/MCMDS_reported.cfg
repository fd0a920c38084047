SPECIFICATION Spec
CONSTANTS
    Axes <- OneAxis
    Counts <- CountsMin
    Targets = {1}
    Gains = {g0}
    DefaultGain = g0
    Safety <- Safety1
    ErrThresh <- ErrThresh1
    Debug = FALSE
CHECK_DEADLOCK TRUE
INVARIANTS
    ReportedIsPlayfield
