CONSTANTS
    RomPC = {r1}
    Regs = {z, g}
    ZeroRegs = z
    Primaries = {0}
    IrqLines = {1, 2, 3}
    IrqLimit = 2
    FrameMod = 3
SPECIFICATION Spec
INVARIANTS IrqChainBounded
PROPERTIES FramesShownInOrder NmiIsTransparent
