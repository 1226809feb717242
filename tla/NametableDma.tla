---------------------------- MODULE NametableDma ----------------------------
(***************************************************************************)
(* UploadNametablesCoalesced (snes/src/native_nametable_dma.inc): the rows *)
(* flagged in UPLOAD are sent to VRAM in runs, one DMA transfer per run.   *)
(*                                                                         *)
(* Addresses count rows.  The maps of the four quadrants are contiguous in *)
(* WRAM and in VRAM.  In VRAM the HUD map follows them at once; in WRAM it *)
(* lies Gap rows further on, behind the object and palette buffers, so a   *)
(* run that crossed from the quadrants into the HUD would upload garbage.  *)
(***************************************************************************)
EXTENDS Integers, FiniteSets

CONSTANTS
    BottomRows,     \* rows of the quadrants together (128 in the code)
    TopRows,        \* rows of the HUD (32 in the code)
    Gap             \* rows between their shadows in WRAM (32 in the code)

ASSUME SizeAssumption ==
    BottomRows \in Nat \ {0} /\ TopRows \in Nat \ {0} /\ Gap \in Nat

VARIABLES
    wanted,     \* the flags when the upload begins
    flags,      \* UPLOAD
    any,        \* UPLOAD_ANY
    part,       \* the loop that runs: "bottom" or "top"
    x, y,       \* X: the row looked at; Y: the first row of the run
    step,       \* the code within the loop
    loaded,     \* the WRAM row each VRAM row was loaded from, or Old
    sent        \* rows transferred

dmaVars == <<wanted, flags, any, part, x, y, step, loaded, sent>>

Old == -1
VramRows == 0..(BottomRows + TopRows - 1)

Size(p)  == IF p = "bottom" THEN BottomRows ELSE TopRows
\* Offsets of a part in UPLOAD and VRAM, and in WRAM.
Dest(p)  == IF p = "bottom" THEN 0 ELSE BottomRows
Source(p) == IF p = "bottom" THEN 0 ELSE BottomRows + Gap

\* The shadow row that belongs in VRAM row d.
ShadowOf(d) == IF d < BottomRows THEN d ELSE d + Gap

DmaInit ==
    /\ wanted \in [VramRows -> BOOLEAN] /\ flags = wanted
    /\ any = (\E d \in VramRows : flags[d])
    /\ part = "bottom" /\ x = 0 /\ y = 0 /\ step = "entry"
    /\ loaded = [d \in VramRows |-> Old] /\ sent = 0

Flagged(i) == flags[Dest(part) + i]

Enter ==
    /\ step = "entry"
    /\ any' = FALSE
    /\ step' = IF any THEN "scan" ELSE "done"
    /\ UNCHANGED <<wanted, flags, part, x, y, loaded, sent>>

\* Row n is next: rescan, start the HUD loop, or return.
Advance(n) ==
    IF n < Size(part) THEN x' = n /\ step' = "scan" /\ UNCHANGED part
    ELSE /\ x' = 0 /\ part' = "top"
         /\ step' = IF part = "bottom" THEN "scan" ELSE "done"

Skip ==
    /\ step = "scan" /\ ~Flagged(x)
    /\ Advance(x + 1)
    /\ UNCHANGED <<wanted, flags, any, y, loaded, sent>>

StartRun ==
    /\ step = "scan" /\ Flagged(x)
    /\ y' = x /\ step' = "run"
    /\ UNCHANGED <<wanted, flags, any, part, x, loaded, sent>>

(* Slip: the run goes on into the flags behind the last row.               *)
RunEndsLate(n) == Dest(part) + n = BottomRows + TopRows \/ ~Flagged(n)

\* A clean row or the end of the part ends the run.
RunEnds(n) == n = Size(part) \/ ~Flagged(n)

(* Slip: the flag stays set.                                               *)
TakeRowKeep ==
    /\ step = "run"
    /\ x' = x + 1
    /\ step' = IF RunEnds(x + 1) THEN "send" ELSE "run"
    /\ UNCHANGED <<wanted, flags, any, part, y, loaded, sent>>

TakeRow ==
    /\ step = "run"
    /\ flags' = [flags EXCEPT ![Dest(part) + x] = FALSE]
    /\ x' = x + 1
    /\ step' = IF RunEnds(x + 1) THEN "send" ELSE "run"
    /\ UNCHANGED <<wanted, any, part, y, loaded, sent>>

(* Slip: the transfer is one row too long.                                 *)
RunLengthLong == x - y + 1

RunLength == x - y

Send ==
    /\ step = "send"
    /\ loaded' = [d \in VramRows |->
                   IF Dest(part) + y <= d /\ d < Dest(part) + y + RunLength
                   THEN Source(part) + (d - Dest(part)) ELSE loaded[d]]
    /\ sent' = sent + RunLength
    /\ Advance(x)
    /\ UNCHANGED <<wanted, flags, any, y>>

Return == step = "done" /\ UNCHANGED dmaVars

DmaNext == Enter \/ Skip \/ StartRun \/ TakeRow \/ Send \/ Return

DmaSpec == DmaInit /\ [][DmaNext]_dmaVars

\* The CPU runs the loop; nothing interrupts the host NMI.
DmaFairSpec == DmaSpec /\ WF_dmaVars(DmaNext)
-----------------------------------------------------------------------------
(* Properties.                                                             *)

\* Every variable keeps its type, and X never leaves the rows of its loop.
DmaTypeOK ==
    /\ wanted \in [VramRows -> BOOLEAN] /\ flags \in [VramRows -> BOOLEAN]
    /\ any \in BOOLEAN /\ part \in {"bottom", "top"}
    /\ x \in 0..Size(part) /\ y \in Nat
    /\ step \in {"entry", "scan", "run", "send", "done"}
    /\ loaded \in [VramRows -> Int] /\ sent \in Nat

\* The upload loads flagged rows only, each from its own shadow row, and has
\* loaded all of them when it returns: no run leaks over a clean row or over
\* the boundary between the quadrants and the HUD.
RowsExact ==
    \A d \in VramRows :
        /\ loaded[d] # Old => wanted[d] /\ loaded[d] = ShadowOf(d)
        /\ step = "done" /\ wanted[d] => loaded[d] = ShadowOf(d)

\* "Coalesce adjacent dirty rows without adding any bytes to the transfer":
\* no row is transferred twice, and none but the flagged ones.
NoExtraBytes == sent = Cardinality({d \in VramRows : loaded[d] # Old})

\* The loop ends, with every flag consumed.
Consumed == \A d \in VramRows : ~flags[d]
AllConsumed == <>[](step = "done" /\ Consumed)
=============================================================================
