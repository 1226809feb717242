CONSTANTS
    Word = 14
    Highs = 2
    Steps = 2
    Plans <- Schedules
    Ops <- Instructions
    MaxNest = 3
SPECIFICATION Spec
INVARIANTS Balanced
PROPERTIES UnseenByGuest RefusedOnlyThird
