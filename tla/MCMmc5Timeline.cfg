CONSTANTS
    Word = 1040
    Highs = 2
    Banks = 8
    ChrBanks = 16
    ChrData <- ChrImage
    OamBytes = 8
    PageData <- PageImage
    Plans <- Programs
SPECIFICATION Spec
INVARIANTS SlotsAgree StoredAsHeld FaultsWhole DmaEndsOnGet
PROPERTIES ProtectedRam NoStaleBank
