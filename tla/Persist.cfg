SPECIFICATION Spec
CONSTANTS
    MaxOrder = 3
    MaxFaults = 2
    Losable = 1
INVARIANTS
    AnsweredSurvives
    PanicOwnsTheNewest
    ExactIsExact
CHECK_DEADLOCK FALSE
