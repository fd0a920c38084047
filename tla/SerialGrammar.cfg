SPECIFICATION Spec
CONSTANTS
    MaxDigits = 6
    WeightSpan = 16
INVARIANTS
    OneAnswerPerLine
    ExecutesCommandTable
    ReplyFits
    NothingLeftOver
    ValueIsMeant
CHECK_DEADLOCK TRUE
