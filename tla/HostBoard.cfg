SPECIFICATION FairSpec
CONSTANTS
    MaxFaults = 3
    MaxCalibrations = 3
CHECK_DEADLOCK TRUE
INVARIANTS
    AnswersAreOwn
    BoundsAreFresh
    ReleasedAfterGame
    GameIsDriven
PROPERTIES
    CallsReturn
