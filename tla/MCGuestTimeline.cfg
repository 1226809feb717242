CONSTANTS
    Word = 16
    Highs = 2
    Steps = 4
    Cycles = {2, 5, 10, 16}
    MaxEvents = 3
    Plans <- Schedules
    Ops <- Instructions
SPECIFICATION Spec
INVARIANTS EventsOnTime
PROPERTIES ClockCloses EdgesServed MaskDelayed
