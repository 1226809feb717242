---------------------------- MODULE PicturePorts ----------------------------
(***************************************************************************)
(* The PPU ports with rendering off, the CHR banks and the palette of the  *)
(* MMC5 timeline (snes/src/mmc5_ppu_blank.inc, mmc5_chr_blank.inc,         *)
(* chr_sets.inc, chr_mode_rewrite.inc, palette_timeline.inc and the code   *)
(* of tools/ that installs them).                                          *)
(*                                                                         *)
(* Nametable memory holds the cells written; what a pattern byte is, the   *)
(* immutable CHR image says.                                               *)
(***************************************************************************)
EXTENDS PortStep, TLC

CONSTANTS
    ChrBanks,           \* 1-KiB banks of CHR ROM, a power of two
    ChrData(_, _)       \* chr_image: the byte at an offset of a bank

VARIABLES
    ppu,        \* PV: ctrl, mask, w, x, t, v, buffer, latch, map, fill, attr
    ciram,      \* the nametable cells written, by offset
    palette,    \* PL_RAM
    chr,        \* CR, CS and CL: mode, valid, last, regs 0..7 (A) and 8..11 (B), upper
    under       \* history: the bank size in force when a register was last written

picture == <<ppu, ciram, palette, chr, under>>

Registers == 0..11

\* The bit of v of that weight, and the two-bit field from that weight on.
Bit(v, weight) == (v \div weight) % 2
Field(v, weight) == (v \div weight) % 4

\* The boot stores to every CHR register, to the first of set A last.
InitialChr ==
    [mode |-> plan.chrmode, valid |-> Registers, last |-> "a",
     regs |-> [r \in Registers |-> 0], upper |-> 0]

\* Its last store to $2000: the layers with two sets boot with 8x16 sprites.
BootControl == IF Has(ChrSets) THEN 32 ELSE 0

InitialPalette == [i \in 0..31 |-> 0]

\* PpuInit, ChrInit, PaletteInit, ChrSetsInit and ChrLiveInit.
InitPicture ==
    /\ ppu = [ctrl |-> BootControl, mask |-> 0, w |-> 0, x |-> 0, t |-> 8192, v |-> 8193,
              buffer |-> 60, latch |-> BootControl, map |-> 68, fill |-> 17, attr |-> 2]
    /\ ciram = <<>> /\ palette = InitialPalette /\ chr = InitialChr
    /\ under = [r \in Registers |-> plan.chrmode]

Unsupported(name) == Fault("ports", name) /\ UNCHANGED picture
Sets(name, value) ==
    Takes(name) /\ ppu' = value /\ UNCHANGED <<ciram, palette, chr, under>>

\* The bits 5 to 7 of $2000 a layer admits: 8x8 sprites, or 8x16 for the two sets.
ControlAdmitted(v) ==
    IF Has(ChrSets) THEN v \div 32 = 1
    ELSE IF Has(ChrBlank) THEN v \div 32 = 0 ELSE v \div 64 = 0

PpuControl(v) ==
    /\ Begins
    /\ IF ~ControlAdmitted(v) THEN Unsupported("control")
       ELSE Sets("control", [ppu EXCEPT !.ctrl = v, !.latch = v,
                                        !.t = @ - Field(@, 1024) * 1024 + (v % 4) * 1024])

PpuMask(v) ==
    /\ Begins
    /\ IF (v \div 8) % 4 # 0 THEN Unsupported("mask")
       ELSE Sets("mask", [ppu EXCEPT !.mask = v, !.latch = v])

\* $2002 is written for its latch; its status cannot be read.
PpuLatchWrite(v) == Begins /\ Sets("latch", [ppu EXCEPT !.latch = v])
PpuStatusRead == Begins /\ Unsupported("status")

PpuScroll(v) ==
    /\ Begins
    /\ Sets("scroll",
            IF ppu.w = 0
            THEN [ppu EXCEPT !.latch = v, !.w = 1, !.x = v % 8, !.t = @ - (@ % 32) + (v \div 8)]
            ELSE [ppu EXCEPT !.latch = v, !.w = 0,
                             !.t = (@ % 32) + Field(@, 1024) * 1024 + (v \div 8) * 32 + (v % 8) * 4096])

\* $2006: the address takes effect with the second write.
PpuAddress(v) ==
    /\ Begins
    /\ Sets("address",
            IF ppu.w = 0
            THEN [ppu EXCEPT !.latch = v, !.w = 1, !.t = (@ % 256) + (v % 64) * 256]
            ELSE LET t == ppu.t - (ppu.t % 256) + v
                 IN  [ppu EXCEPT !.latch = v, !.w = 0, !.t = t, !.v = t])

\* $5105: source 2 is refused at once below the palette layer, on use above it.
PpuMap(v) ==
    /\ Begins
    /\ IF ~Has(Palette) /\ \E weight \in {1, 4, 16, 64} : Field(v, weight) = 2 THEN Unsupported("map")
       ELSE Sets("map", [ppu EXCEPT !.map = v])

PpuFillTile(v) == Begins /\ Sets("fill", [ppu EXCEPT !.fill = v])

PpuFillAttr(v) ==
    /\ Begins
    /\ IF ~Has(Palette) /\ v >= 4 THEN Unsupported("fill")
       ELSE Sets("fill", [ppu EXCEPT !.attr = v % 4])

\* PpuIncrement
Increment(p) == [p EXCEPT !.v = (@ + (IF Bit(p.ctrl, 4) = 1 THEN 32 ELSE 1)) % 32768]
-----------------------------------------------------------------------------
\* CHR banks.

\* Slip: a change of size leaves the registers valid.
ModeKeeps(mode) == [chr EXCEPT !.mode = mode]

\* A change of the bank size invalidates every register.
ModeAfter(mode) ==
    IF mode = chr.mode THEN chr ELSE [chr EXCEPT !.mode = mode, !.valid = {}]

\* $5101: fixed below the rewrite layer.
ChrModeWrite(v) ==
    /\ Begins /\ Has(ChrBlank)
    /\ IF ~Has(ChrRewrite) /\ v % 4 # chr.mode THEN Unsupported("chrmode")
       ELSE /\ Takes("chrmode") /\ chr' = ModeAfter(v % 4)
            /\ UNCHANGED <<ppu, ciram, palette, under>>

\* $5130
ChrUpper(v) ==
    /\ Begins /\ Has(ChrBlank) /\ Takes("upper")
    /\ chr' = [chr EXCEPT !.upper = v % 4] /\ UNCHANGED <<ppu, ciram, palette, under>>

\* $5120..$5127 and $5128..$512B: set B below its layer is refused.
ChrRegister(r, v) ==
    /\ Begins /\ Has(ChrBlank)
    /\ IF r > 7 /\ ~Has(ChrSets) THEN Unsupported("chr")
       ELSE /\ Takes("chr")
            /\ chr' = [chr EXCEPT !.regs[r] = v + 256 * chr.upper,
                                  !.last = IF r > 7 THEN "b" ELSE "a",
                                  !.valid = @ \cup {r}]
            /\ under' = [under EXCEPT ![r] = chr.mode]
            /\ UNCHANGED <<ppu, ciram, palette>>

\* CL_REQUIRED_A and CL_REQUIRED_B
Required ==
    IF chr.last = "b" THEN <<{11}, {11}, {9, 11}, 8..11>>[chr.mode + 1]
    ELSE <<{7}, {3, 7}, {1, 3, 5, 7}, 0..7>>[chr.mode + 1]

\* Slots that share a register.
Group == <<8, 4, 2, 1>>[chr.mode + 1]

\* ChrBank: the register behind a 1-KiB slot, and the bank it selects.
RegisterOf(slot) ==
    LET top == slot - (slot % Group) + Group - 1
    IN  IF chr.last = "b" THEN 8 + (top % 4) ELSE top
ChrBank(slot) == (chr.regs[RegisterOf(slot)] * Group + (slot % Group)) % ChrBanks
-----------------------------------------------------------------------------
\* $2007.  The address is resolved first; nothing has changed when it is refused.

At == ppu.v % 16384
IsPattern == At < 8192
IsPalette == At >= 16128

\* ChrLiveReadCheck: below the rewrite layer every register stays valid.
PatternRefused == ~Has(ChrBlank) \/ ~(Required \subseteq chr.valid)

\* The source of the nametable at page q, and the cell in CIRAM.
Source(q) == Field(ppu.map, 4 ^ q)
CellAt(q, offset) == 1024 * Source(q) + offset
FromCiram(cell) ==
    IF cell \in DOMAIN ciram THEN ciram[cell] ELSE IF cell < 1024 THEN 60 ELSE 195

\* PpuResolve and PaletteShadow: source 2 reads as zero, source 3 is the fill byte.
FromNametable(q, offset) ==
    CASE Source(q) < 2 -> FromCiram(CellAt(q, offset))
      [] Source(q) = 2 -> 0
      [] OTHER -> IF offset < 960 THEN ppu.fill ELSE 85 * ppu.attr

Page == (At \div 1024) % 4

FromPattern == ChrData(ChrBank(At \div 1024), At % 1024)

\* PpuDataRead: the byte read is the one fetched before.
PpuDataRead ==
    LET fetched == IF IsPattern THEN FromPattern ELSE FromNametable(Page, At % 1024)
    IN  /\ Begins /\ ~IsPalette
        /\ IF IsPattern /\ PatternRefused THEN Unsupported("pattern")
           ELSE Sets(IF IsPattern THEN "pattern" ELSE "data",
                     Increment([ppu EXCEPT !.latch = ppu.buffer, !.buffer = fetched]))

\* PpuDataWrite: ROM and the fill byte keep their value.
PpuDataWrite(v) ==
    /\ Begins /\ ~IsPalette
    /\ IF IF IsPattern THEN PatternRefused ELSE Source(Page) = 2 THEN Unsupported("pattern")
       ELSE /\ Takes(IF IsPattern THEN "pattern" ELSE "data")
            /\ ciram' = IF ~IsPattern /\ Source(Page) < 2
                        THEN (CellAt(Page, At % 1024) :> v) @@ ciram ELSE ciram
            /\ ppu' = Increment([ppu EXCEPT !.latch = v])
            /\ UNCHANGED <<palette, chr, under>>

\* PaletteIndex: the backdrops of the sprites are those of the background.
PaletteIndex == LET i == At % 32 IN IF i % 4 = 0 THEN i % 16 ELSE i

\* The nametable byte below the palette, $2F00 on.
Shadow == FromNametable(3, 768 + (At % 256))

\* PaletteDataRead: grey keeps the two upper bits of a color; the latch lends two more.
PaletteDataRead ==
    /\ Begins /\ IsPalette
    /\ IF ~Has(Palette) THEN Unsupported("data")
       ELSE LET color == palette[PaletteIndex]
                shown == IF Bit(ppu.mask, 1) = 1 THEN color - (color % 16) ELSE color
            IN  Sets("data", Increment([ppu EXCEPT !.buffer = Shadow,
                                                   !.latch = @ - (@ % 64) + shown]))

\* Slip: a backdrop is stored once.
StoreOnce(i, color) == [palette EXCEPT ![i] = color]

StoreColor(i, color) ==
    IF i % 4 = 0 THEN [palette EXCEPT ![i] = color, ![i + 16] = color]
    ELSE [palette EXCEPT ![i] = color]

PaletteDataWrite(v) ==
    /\ Begins /\ IsPalette
    /\ IF ~Has(Palette) THEN Unsupported("data")
       ELSE /\ Takes("data")
            /\ palette' = StoreColor(PaletteIndex, v % 64)
            /\ ppu' = Increment([ppu EXCEPT !.latch = v])
            /\ UNCHANGED <<ciram, chr, under>>

PicturePort(o) ==
    /\ Has(PpuBlank)
    /\ \/ o.at = "2000" /\ PpuControl(o.v)
       \/ o.at = "2001" /\ PpuMask(o.v)
       \/ o.at = "2002" /\ PpuLatchWrite(o.v)
       \/ o.at = "read 2002" /\ PpuStatusRead
       \/ o.at = "2005" /\ PpuScroll(o.v)
       \/ o.at = "2006" /\ PpuAddress(o.v)
       \/ o.at = "2007" /\ (PpuDataWrite(o.v) \/ PaletteDataWrite(o.v))
       \/ o.at = "read 2007" /\ (PpuDataRead \/ PaletteDataRead)
       \/ o.at = "5105" /\ PpuMap(o.v)
       \/ o.at = "5106" /\ PpuFillTile(o.v)
       \/ o.at = "5107" /\ PpuFillAttr(o.v)
       \/ o.at = "5101" /\ ChrModeWrite(o.v)
       \/ o.at = "5130" /\ ChrUpper(o.v)
       \/ \E r \in Registers : o.at = "512x" /\ o.reg = r /\ ChrRegister(r, o.v)
-----------------------------------------------------------------------------
\* NoStaleBank: a pattern byte is never fetched or stored through a bank register
\* written under another bank size, whichever of the two sets was written last and
\* whatever happened to the size in between.
NoStaleBank ==
    [][op' = "pattern" /\ cost' > cost => under[RegisterOf(At \div 1024)] = chr.mode]_<<step, picture>>
=============================================================================
