SPECIFICATION Spec
CONSTANTS
    MaxDigits = 4
    WeightSpan = 16
INVARIANTS
    MinusBeginsANumber
CHECK_DEADLOCK TRUE
