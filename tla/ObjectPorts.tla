---------------------------- MODULE ObjectPorts ----------------------------
(***************************************************************************)
(* The OAM ports and OAM DMA of the MMC5 timeline                          *)
(* (snes/src/oam_ports.inc, oam_dma_timeline.inc and tools/oam_ports.py,   *)
(* oam_dma_timeline.py).                                                   *)
(*                                                                         *)
(* OAM is a ring of OamBytes bytes, four to a sprite (256 in the code).    *)
(***************************************************************************)
EXTENDS PicturePorts

CONSTANTS
    OamBytes,           \* bytes of OAM and of a RAM page, a multiple of four
    PageData(_, _)      \* the byte at an offset of an internal RAM page

ASSUME PageAssumption ==
    /\ OamBytes \in Nat \ {0} /\ OamBytes % 4 = 0
    /\ \A page \in 0..7, i \in 0..OamBytes - 1 : PageData(page, i) \in 0..255

VARIABLES
    oam,        \* the bytes at $7E5900
    oa          \* OA: the OAM address

objects == <<oam, oa>>

InitObjects == oam = [i \in 0..OamBytes - 1 |-> 0] /\ oa = 0

\* Slip: the tile byte of a sprite is masked.
StoredTile(i, v) == IF i % 4 = 1 THEN v - ((v \div 4) % 8) * 4 ELSE v

\* The attribute byte of a sprite has no bits 2 to 4.
Stored(i, v) ==
    IF i % 4 = 2 THEN v - ((v \div 4) % 8) * 4 ELSE v

\* $2003
OamAddressWrite(v) ==
    /\ Begins
    /\ IF ~Has(Oam) THEN Fault("ports", "oam") /\ UNCHANGED <<picture, objects>>
       ELSE Sets("oam", [ppu EXCEPT !.latch = v]) /\ oa' = v % OamBytes /\ UNCHANGED oam

\* $2004: a read does not move the address.
OamDataRead ==
    /\ Begins
    /\ IF ~Has(Oam) THEN Fault("ports", "oam") /\ UNCHANGED picture
       ELSE Sets("oam", [ppu EXCEPT !.latch = oam[oa]])
    /\ UNCHANGED objects

OamDataWrite(v) ==
    /\ Begins
    /\ IF ~Has(Oam) THEN Fault("ports", "oam") /\ UNCHANGED <<picture, objects>>
       ELSE /\ Sets("oam", [ppu EXCEPT !.latch = v])
            /\ oam' = [oam EXCEPT ![oa] = Stored(oa, v)]
            /\ oa' = (oa + 1) % OamBytes
-----------------------------------------------------------------------------
\* $4014.

\* Slip: a transfer that starts on an odd cycle is the longer one.
StallOdd(time) == IF time % 2 = 0 THEN 513 ELSE 514

\* A transfer waits for the get cycle after the store.
Stall(time) ==
    IF time % 2 = 0 THEN 514 ELSE 513

\* Sources beyond RAM and an address on the last byte of a sprite.
DmaRefused(page) == page >= 32 \/ oa % 4 = 3

\* Slip: the transfer is not held against the end of the clock.
NoOverflow(time) == FALSE

\* The retirement that follows must have room too.
DmaOverflow(time) ==
    time + Stall(time) >= Wrap - 14

OamDmaRun(page) ==
    LET copied(i) == PageData(page % 8, (i - oa) % OamBytes)
    IN  /\ Begins
        /\ IF DmaRefused(page) THEN Fault("ports", "dma") /\ UNCHANGED <<picture, objects>>
           ELSE IF DmaOverflow(clock) THEN Fault("clock", "dma") /\ UNCHANGED <<picture, objects>>
           ELSE /\ oam' = [i \in 0..OamBytes - 1 |-> Stored(i, copied(i))]
                /\ ppu' = [ppu EXCEPT !.latch = PageData(page % 8, OamBytes - 1)]
                /\ clock' = clock + Stall(clock) /\ cost' = 4 /\ op' = "dma"
                /\ UNCHANGED <<plan, status, count, ciram, palette, chr, under, oa>>

ObjectPort(o) ==
    /\ Has(PpuBlank)
    /\ \/ o.at = "2003" /\ OamAddressWrite(o.v)
       \/ o.at = "2004" /\ OamDataWrite(o.v)
       \/ o.at = "read 2004" /\ OamDataRead
       \/ o.at = "4014" /\ Has(OamDma) /\ OamDmaRun(o.v)
-----------------------------------------------------------------------------
\* StoredAsHeld: palette memory and OAM only ever hold what the original's can, whichever
\* port or transfer filled them and through whichever address: a backdrop of the sprites
\* is that of the background, and the attribute byte of a sprite has no bits 2 to 4.
StoredAsHeld ==
    /\ \A i \in {0, 4, 8, 12} : palette[i + 16] = palette[i]
    /\ \A i \in DOMAIN oam : i % 4 = 2 => (oam[i] \div 4) % 8 = 0
=============================================================================
