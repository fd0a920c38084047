SPECIFICATION FairSpec
CONSTANTS
    TimeSpan = 16
    BodyTicks = 2
    ExitTicks = 1
PROPERTIES
    NeverSleepsForever
CHECK_DEADLOCK TRUE
