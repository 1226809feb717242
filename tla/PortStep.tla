----------------------------- MODULE PortStep -----------------------------
(***************************************************************************)
(* One instruction of the MMC5 timeline: the driver of                     *)
(* tools/timeline_program.py as tools/mmc5_timeline.py and its extensions  *)
(* rewrite it.                                                             *)
(*                                                                         *)
(* An instruction that touches a port either faults, with a status and no  *)
(* row, or has its effect; then it is retired: its cycles are charged and  *)
(* the machine is captured in a row.  The retirement may fault too, when   *)
(* the clock has no room.                                                  *)
(***************************************************************************)
EXTENDS Integers, Sequences

CONSTANTS
    Word, Highs     \* values of a word of the clock and of its upper word (2^16 in the code)

ASSUME ClockAssumption == Word \in Nat /\ Highs \in Nat

\* The layers of memory_model; each is built over the one before it.
PrgRom == 1
PrgRam == 2
CpuIo == 3
PpuBlank == 4
ChrBlank == 5
Palette == 6
Oam == 7
ChrSets == 8
ChrRewrite == 9
OamDma == 10

VARIABLES
    plan,       \* the program: its layer, steps and the port operations in its code
    status,     \* GT+14: "running", "ports" (5), "clock" (4); "done" for the marker
    clock,      \* GT+0..3
    cost,       \* the cycles of the instruction to retire, 0 between instructions
    op,         \* that instruction, or the last one begun
    count       \* GT+16: the rows captured

step == <<plan, status, clock, cost, op, count>>

Wrap == Word * Highs

ClockFull(time) == time >= Wrap - 14

Has(layer) == plan.layer >= layer

Begins == status = "running" /\ cost = 0 /\ count < plan.steps

Fault(code, name) ==
    /\ status' = code /\ op' = name
    /\ UNCHANGED <<plan, clock, cost, count>>

\* The instruction has had its effect and has cycles to charge.
Proceed(name, cycles) ==
    /\ op' = name /\ cost' = cycles
    /\ UNCHANGED <<plan, status, clock, count>>

\* An absolute load or store.
Takes(name) == Proceed(name, 4)
=============================================================================
