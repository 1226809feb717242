CONSTANTS
    Registers = {r1, r2}
    Values = {0, 1, 255}
    Unknown = 255
    Tokens = 4
    Launch = 1
    ReadyMark = 3
    Polls = 3
SPECIFICATION FairSpec
INVARIANTS LinkCoherent
PROPERTIES FaultDisables WriteReturns
