SPECIFICATION FairSpec
CONSTANTS
    Win = 3
    MaxPipe = 2
CHECK_DEADLOCK TRUE
INVARIANTS
    OneLineAGoal
    GoalsAreConserved
    OneOfEach
    OneVerdict
PROPERTIES
    GameEnds
