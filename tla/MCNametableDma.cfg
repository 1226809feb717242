CONSTANTS
    BottomRows = 5
    TopRows = 3
    Gap = 2
SPECIFICATION DmaFairSpec
INVARIANTS RowsExact NoExtraBytes
PROPERTIES AllConsumed
