---------------------------- MODULE Mmc5Timeline ----------------------------
(***************************************************************************)
(* A program on the MMC5 timeline: any sequence of the port operations in  *)
(* its code, each retired and captured (tools/mmc5_timeline.py, the driver *)
(* of tools/timeline_program.py and GuestTimelineRetire).                  *)
(*                                                                         *)
(* Which layer the program is built for decides which operations are       *)
(* refused.                                                                *)
(***************************************************************************)
EXTENDS ObjectPorts, CartridgeMemory

CONSTANTS
    Plans       \* programs: layer, steps, clock and CHR size at the first instruction, and
                \* the port operations in the code

VARIABLE row    \* the machine as last captured

vars == <<step, memory, picture, objects, row>>

Machine == <<cart, ram, exram, ppu, ciram, palette, chr, oam, oa>>

\* The boot ends with a transfer: the first instruction starts on a get cycle.
Synchronized(p) == p.origin % 2 = 0

\* validate, for every layer: what is accepted as a program.
ValidPlan(p) ==
    /\ p.layer \in PrgRom..OamDma /\ p.steps \in 1..31 /\ p.chrmode \in 0..3
    /\ p.origin \in 0..Wrap - 1 /\ Synchronized(p)
    /\ \A o \in p.ops : o.v \in 0..255

ASSUME PlansAssumption == \A p \in Plans : ValidPlan(p)

Init ==
    /\ plan \in Plans /\ clock = plan.origin
    /\ status = "running" /\ cost = 0 /\ op = "none" /\ count = 0
    /\ InitMemory /\ InitPicture /\ InitObjects
    /\ row = Machine

\* An instruction that only takes time.
Plain(cycles) ==
    /\ Begins /\ Proceed("plain", cycles)
    /\ UNCHANGED <<memory, picture, objects, row>>

Access(o) ==
    /\ \/ MemoryPort(o) /\ UNCHANGED <<picture, objects>>
       \/ PicturePort(o) /\ UNCHANGED <<memory, objects>>
       \/ ObjectPort(o) /\ UNCHANGED memory
    /\ UNCHANGED row

\* GuestTimelineRetire, then the capture of every layer.
Retire ==
    /\ status = "running" /\ cost > 0
    /\ IF ClockFull(clock)
       THEN status' = "clock" /\ UNCHANGED <<clock, count, row>>
       ELSE /\ clock' = clock + cost /\ count' = count + 1
            /\ row' = Machine
            /\ UNCHANGED status
    /\ cost' = 0
    /\ UNCHANGED <<plan, op, memory, picture, objects>>

Finish ==
    /\ status = "running" /\ cost = 0 /\ count = plan.steps
    /\ status' = "done"
    /\ UNCHANGED <<plan, clock, cost, op, count, memory, picture, objects, row>>

\* halt: jmp halt
Halt == status # "running" /\ UNCHANGED vars

Next ==
    \/ \E o \in plan.ops : Access(o) \/ (o.at = "plain" /\ Plain(o.v))
    \/ Retire \/ Finish \/ Halt

Spec == Init /\ [][Next]_vars
-----------------------------------------------------------------------------
\* FaultsWhole: a port that is refused, by whichever layer and routine, leaves the whole
\* machine as the last row shows it; and a DMA the clock has no room for has copied
\* nothing, so that no copied prefix passes for a transfer.
FaultsWhole ==
    status = "ports" \/ (status = "clock" /\ op = "dma") => Machine = row

\* DmaEndsOnGet: the instruction after a transfer starts on a get cycle, whatever
\* came before it; the original's timing depends on that parity.
DmaEndsOnGet == op = "dma" /\ cost = 0 /\ status = "running" => clock % 2 = 0
=============================================================================
