SPECIFICATION Spec
CONSTANTS
    Axes <- OneAxis
    Counts <- Counts1
    Targets = {0, 2, 4}
    Gains = {g0, g1}
    DefaultGain = g0
    Safety <- Safety1
    ErrThresh <- ErrThresh1
    Debug = FALSE
CHECK_DEADLOCK TRUE
INVARIANTS
    TypeOK
    MotorsNeedCalibration
    SetpointInPlayfield
    CalibrationStartsFresh
    MainNeverWaits
PROPERTIES
    SteadyWhileDriven
    KeepsPromise
