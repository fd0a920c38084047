SPECIFICATION FairSpec
CONSTANTS
    Levels = {"UD1", "UD3"}
    MaxLink = 2
CHECK_DEADLOCK TRUE
INVARIANTS
    HeededOnce
    DrivenInGameOnly
    ChosenIsPlayed
    PicturesFollowButtons
    ClosedPortMeetsOneStop
PROPERTIES
    GamesAreFollowed
    TurnOffIsHeeded
