SPECIFICATION Spec
CONSTANTS
    Locations <- Places
    Setpoints = {0, 12, 20}
    Params <- ParamsWithinSupply
    Default <- DefaultX
    ErrThresh = 5
    VoltThresh = 10
    Supply = 2000
    Period = 2000
    MaxIntegral = 40
CHECK_DEADLOCK TRUE
INVARIANTS
    DutyIsCommanded
    NoImpulseAtStart
    RestsInDeadBand
