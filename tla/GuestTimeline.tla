--------------------------- MODULE GuestTimeline ---------------------------
(***************************************************************************)
(* GuestTimelineRetire and its driver (snes/src/guest_timeline.inc,        *)
(* guest_interrupt.inc, guest_cycles.inc and the driver of                 *)
(* tools/timeline_program.py): an NES program is run one instruction at a  *)
(* time on a clock of NES cycles.  After an instruction its cost is added, *)
(* the requests of an authored schedule that are due are applied and an    *)
(* interrupt may be entered.                                               *)
(*                                                                         *)
(* A step is one row of the capture in bank $7F.  The program is any       *)
(* sequence of instructions; of an instruction only its cost and its       *)
(* effect on the I flag are kept.                                          *)
(***************************************************************************)
EXTENDS Integers, Sequences

CONSTANTS
    Word,       \* values of a word of the clock (2^16 in the code)
    Highs,      \* values of its upper word (2^16 in the code)
    Steps,      \* TimelineSteps: instructions to run
    Plans,      \* the schedules considered: TimelineEvents
    Ops         \* the instructions considered

Event == [cycle : Nat \ {0}, irq : BOOLEAN, nmi : BOOLEAN]
Op    == [kind : {"plain", "delayed", "rti"}, cost : 2..7]

\* validate_events and decode refuse every other plan.
ASSUME ClockAssumption == Word \in Nat /\ Word >= 14 /\ Highs \in Nat \ {0}
ASSUME StepsAssumption == Steps \in Nat
ASSUME OpsAssumption == Ops \subseteq Op
ASSUME PlansAssumption ==
    \A p \in Plans : /\ p \in Seq(Event)
                     /\ \A j, k \in 1..Len(p) : j < k => p[j].cycle < p[k].cycle

VARIABLES
    events,     \* TimelineEvents, immutable
    gt,         \* the last row: GT after the last instruction
    outcome     \* the marker at $7E1FFF, with the status of a fault

vars == <<events, gt, outcome>>

Wrap  == Word * Highs
Entry == 7

\* Slip: no room for an interrupt entry.
LimitShort == Wrap - 7

\* The clock must leave room for the dearest instruction and an entry.
Limit ==
    Wrap - 14

InitialRow == [time |-> 0, i |-> TRUE, irq |-> FALSE, nmi |-> FALSE, index |-> 0,
               ordinal |-> 0, op |-> "plain", cost |-> 0, entry |-> 0, decision |-> "none"]

Init == events \in Plans /\ gt = InitialRow /\ outcome = "running"

\* The I flag after an instruction: CLI, SEI, PLP and RTI may change it.
FlagAfter(op, i) == IF op.kind = "plain" THEN {i} ELSE BOOLEAN

\* An event is due when the clock has reached its cycle.
Due(j, now) == events[j].cycle <= now

\* Slip: the loop takes at most one event.
LoopOnce(index, m, now) ==
    /\ \A j \in index + 1..m : Due(j, now)
    /\ m < Len(events) => ~Due(m + 1, now) \/ m = index + 1
    /\ m <= index + 1

\* The event loop stops before the first event after index that is not due.
LoopStops(index, m, now) ==
    /\ \A j \in index + 1..m : Due(j, now)
    /\ m < Len(events) => ~Due(m + 1, now)

\* Slip: an event overwrites the NMI latch.
LatchLast(index, m) ==
    IF m = index THEN gt.nmi ELSE events[m].nmi

\* The IRQ line has the level of the last event; every NMI edge is latched.
LineAfter(index, m) ==
    IF m = index THEN gt.irq ELSE events[m].irq
LatchAfter(index, m) ==
    gt.nmi \/ \E j \in index + 1..m : events[j].nmi

\* Slip: the mask after the instruction, whatever it was.
PolledAfter(op, pre, post) == post

\* GuestInterruptBoundary: NMI first; an IRQ against the mask in force.
PolledI(op, pre, post) ==
    IF op.kind = "delayed" THEN pre ELSE post
Decision(op, pre, post, irq, nmi) ==
    IF nmi THEN "nmi"
    ELSE IF irq /\ ~PolledI(op, pre, post) THEN "irq" ELSE "none"

EntryCost(decision) == IF decision = "none" THEN 0 ELSE Entry

ClockFull(time) == time >= Limit

Running ==
    outcome = "running" /\ gt.ordinal < Steps

\* An instruction runs, is retired and captured.
Retire(op) ==
    /\ Running
    /\ ~ClockFull(gt.time)
    /\ \E post \in FlagAfter(op, gt.i), m \in gt.index..Len(events) :
         LET now == (gt.time + op.cost) % Wrap
             irq == LineAfter(gt.index, m)
             nmi == LatchAfter(gt.index, m)
             decision == Decision(op, gt.i, post, irq, nmi)
             entry == EntryCost(decision)
         IN  /\ LoopStops(gt.index, m, now)
             /\ gt' = [time |-> (now + entry) % Wrap, i |-> post \/ decision # "none",
                       irq |-> irq, nmi |-> nmi /\ decision # "nmi", index |-> m,
                       ordinal |-> gt.ordinal + 1, op |-> op.kind, cost |-> op.cost,
                       entry |-> entry, decision |-> decision]
    /\ UNCHANGED <<events, outcome>>

\* The instruction has run, but the clock has no room for it: no row.
OutOfTime == Running /\ ClockFull(gt.time) /\ outcome' = "clock" /\ UNCHANGED <<events, gt>>

\* A computed transfer has left the instructions of the program.
UnknownTarget ==
    Running /\ gt.ordinal > 0 /\ outcome' = "target" /\ UNCHANGED <<events, gt>>

Finish ==
    /\ outcome = "running" /\ gt.ordinal = Steps
    /\ outcome' = "done"
    /\ UNCHANGED <<events, gt>>

\* halt: jmp halt
Halt == outcome # "running" /\ UNCHANGED vars

Next == (\E op \in Ops : Retire(op)) \/ OutOfTime \/ UnknownTarget \/ Finish \/ Halt

Spec == Init /\ [][Next]_vars
-----------------------------------------------------------------------------
Row == [time : 0..Wrap - 1, i : BOOLEAN, irq : BOOLEAN, nmi : BOOLEAN,
        index : 0..Len(events), ordinal : 0..Steps, op : {"plain", "delayed", "rti"},
        cost : 0..7, entry : {0, Entry}, decision : {"none", "irq", "nmi"}]

\* The clock stays within its two words and the cursor within the schedule.
TypeOK ==
    /\ events \in Plans
    /\ gt \in Row
    /\ outcome \in {"running", "done", "clock", "target"}

\* EventsOnTime: the events applied so far are exactly those due when the last
\* instruction ended, before the cycles of an interrupt entry, and the IRQ line has
\* the level of the last of them (the policy tools/verify_timeline.py checks on
\* every row).
EventsOnTime ==
    /\ \A j \in 1..Len(events) : j <= gt.index <=> Due(j, gt.time - gt.entry)
    /\ gt.irq = (gt.index > 0 /\ events[gt.index].irq)

\* ClockCloses: over every instruction the clock advances by its cost and its entry
\* cost, and so never wraps, however long the run (the guard before the cost is
\* charged).
ClockCloses ==
    [][gt'.ordinal # gt.ordinal => gt'.time = gt.time + gt'.cost + gt'.entry]_vars

\* EdgesServed: an NMI is entered after exactly the instructions during which an
\* NMI edge fell due; edges due together, and with an IRQ, give one entry, and no
\* edge is left pending or lost behind an IRQ.
EdgesServed ==
    [][gt'.ordinal # gt.ordinal =>
         (gt'.decision = "nmi" <=> \E j \in gt.index + 1..gt'.index : events[j].nmi)]_vars

\* MaskDelayed: short of RTI, an IRQ is entered after an instruction exactly when the
\* line is high, no NMI is due and the mask *before* the instruction was clear: CLI,
\* SEI and PLP take effect one instruction late.
MaskDelayed ==
    [][gt'.ordinal # gt.ordinal /\ gt'.op # "rti" /\ gt'.decision # "nmi" =>
         (gt'.decision = "irq" <=> gt'.irq /\ ~gt.i)]_vars
=============================================================================
