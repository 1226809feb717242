CONSTANTS
    Envelopes = {pulse}
    Triangle = triangle
    Lengths = {2}
    Periods = {0, 1}
    Loads = {0, 5}
    Peak = 1
    Width = 32
    Low = 8
    Floor = 4
    MaxDivider = 2
    Divisors = {1, 2, 4}
SPECIFICATION UnitsSpec
INVARIANTS DisabledSilent FourStepAligned
PROPERTIES LengthRate NotesFade LinearRate SweepsOneWay SweepsPaced
