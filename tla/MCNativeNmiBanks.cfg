CONSTANTS
    RomPC = {r1}
    Regs = {z}
    ZeroRegs = z
    Primaries = {0, 15}
    IrqLines = {7}
    IrqLimit = 1
    FrameMod = 2
SPECIFICATION FairSpec
INVARIANTS BankCoherent VeneerMapped
PROPERTIES ContextNotClobbered NmiCompletes
