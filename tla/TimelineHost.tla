---------------------------- MODULE TimelineHost ----------------------------
(***************************************************************************)
(* The timeline driver in its steps, with real SNES NMIs between any two   *)
(* of them (snes/src/timeline_host_nmi.inc, tools/timeline_host.py, and    *)
(* the files of GuestTimeline).                                            *)
(*                                                                         *)
(* A step is what the driver does between two points where a register, the *)
(* carry or half-updated scratch memory is live.  The interrupt routine    *)
(* saves the registers and the scratch memory on the host stack, lets a    *)
(* worker overwrite all of it, and restores it; it may itself be           *)
(* interrupted.  The guest must not notice: the rows captured are those of *)
(* GuestTimeline.                                                          *)
(***************************************************************************)
EXTENDS Integers, FiniteSets, SequencesExt

CONSTANTS
    Word, Highs, Steps, Plans, Ops,     \* as in GuestTimeline
    MaxNest                             \* bound on the interrupts in progress

VARIABLES
    events, outcome,    \* as in GuestTimeline
    cpu,        \* the code address `at', the instruction `op' there, and the
                \* registers: A, X or the carry in `acc'
    work,       \* the scratch memory: GC, GI, GT, the capture cursor and header
    out,        \* the rows in bank $7F
    enabled,    \* $4200
    stack,      \* the host stack
    depth,      \* HN_DEPTH
    refused     \* HN_FAULT

host == <<stack, depth, refused>>
vars == <<events, cpu, work, out, outcome, enabled, host>>

None == [ordinal |-> 0]
Rows == 0..Steps - 1
Written == {r \in Rows : out[r] # None}

Initial == [time |-> 0, i |-> TRUE, irq |-> FALSE, nmi |-> FALSE, index |-> 0,
            ordinal |-> 0, op |-> "plain", cost |-> 0, entry |-> 0, decision |-> "none"]

\* What the capture shows of the guest: its last row and the marker.
Guest == INSTANCE GuestTimeline
         WITH gt <- IF Written = {} THEN Initial ELSE out[CHOOSE r \in Written : r + 1 \notin Written]

\* As in GuestTimeline: validate_events and decode refuse every other plan.
ASSUME ClockAssumption == Word \in Nat /\ Word >= 14 /\ Highs \in Nat \ {0}
ASSUME StepsAssumption == Steps \in Nat
ASSUME OpsAssumption == Ops \subseteq Guest!Op
ASSUME PlansAssumption == \A p \in Plans : p \in Seq(Guest!Event)

NoOp == [kind |-> "plain", cost |-> 2]

Init ==
    /\ events \in Plans
    /\ cpu = [at |-> "next", op |-> NoOp, acc |-> 0]
    /\ work = [gc |-> [op |-> NoOp, pre |-> TRUE, cost |-> 0],
               gi |-> [op |-> NoOp, pre |-> TRUE, post |-> TRUE, irq |-> FALSE, nmi |-> FALSE,
                       decision |-> "none", cost |-> 0],
               gt |-> [lo |-> 0, hi |-> 0, i |-> TRUE, irq |-> FALSE, nmi |-> FALSE, index |-> 0,
                       status |-> "running", ordinal |-> 0, op |-> "plain", cost |-> 0,
                       entry |-> 0, decision |-> "none"],
               cursor |-> 0, header |-> None]
    /\ out = [r \in Rows |-> None]
    /\ outcome = "running" /\ enabled = TRUE
    /\ stack = <<>> /\ depth = 0 /\ refused = FALSE
-----------------------------------------------------------------------------
\* The driver.  A step leads from one address to the next, may leave a value in a
\* register and may change the scratch memory.

Step(from, to, acc, scratch) ==
    /\ cpu.at = from
    /\ cpu' = [cpu EXCEPT !.at = to, !.acc = acc]
    /\ work' = scratch

Quiet == UNCHANGED <<events, out, outcome, enabled, host>>

GC(field, value) == [work EXCEPT !.gc[field] = value]
GT(field, value) == [work EXCEPT !.gt[field] = value]

More == cpu.at = "next" /\ work.gt.ordinal # Steps

\* jmp (Entries,x): the code of the next instruction.
Dispatch ==
    /\ More
    /\ \E op \in Ops : cpu' = [cpu EXCEPT !.at = "describe", !.op = op]
    /\ UNCHANGED work /\ Quiet

\* find_pc finds no entry for a computed target.
NoEntry ==
    /\ More /\ work.gt.ordinal > 0
    /\ Step("next", "fault", cpu.acc, GT("status", "target")) /\ Quiet

\* The descriptor, from the code and the registers of the guest.
Describe ==
    /\ Step("describe", "load", cpu.acc,
            [work EXCEPT !.gc.op = cpu.op, !.gc.pre = work.gt.i]) /\ Quiet

\* The guest's registers are loaded and its instruction runs on the host CPU.
Execute ==
    /\ \E i \in Guest!FlagAfter(cpu.op, work.gt.i) : Step("load", "save", i, work)
    /\ Quiet

Save == Step("save", "guard", cpu.acc, GT("i", cpu.acc)) /\ Quiet

Clock == work.gt.hi * Word + work.gt.lo

Guard ==
    /\ IF Guest!ClockFull(Clock) THEN Step("guard", "fault", cpu.acc, GT("status", "clock"))
                           ELSE Step("guard", "cost", cpu.acc, GT("status", "running"))
    /\ Quiet

\* GuestInstructionCycles looks the opcode of the descriptor up.
Cost == Step("cost", "charge", cpu.acc, GC("cost", work.gc.op.cost)) /\ Quiet

\* The lower word of the clock; the carry stays in the CPU.
LowPlus(gt, cycles) == [gt EXCEPT !.lo = (gt.lo + cycles) % Word]
CarryOf(gt, cycles) == (gt.lo + cycles) \div Word
HighPlus(gt, carry) == [gt EXCEPT !.hi = (gt.hi + carry) % Highs]

Charge ==
    LET gt == [work.gt EXCEPT !.cost = work.gc.cost]
    IN  /\ Step("charge", "carry", CarryOf(gt, gt.cost), [work EXCEPT !.gt = LowPlus(gt, gt.cost)])
        /\ Quiet

Carry == Step("carry", "test", cpu.acc, [work EXCEPT !.gt = HighPlus(work.gt, cpu.acc)]) /\ Quiet

\* event_loop: X is the event that is due.
EventDue == work.gt.index < Len(events) /\ Guest!Due(work.gt.index + 1, Clock)

Test ==
    /\ IF EventDue THEN Step("test", "take", work.gt.index + 1, work)
                   ELSE Step("test", "inputs", cpu.acc, work)
    /\ Quiet

Take ==
    /\ Step("take", "consume", cpu.acc,
            [work EXCEPT !.gt.irq = events[cpu.acc].irq,
                         !.gt.nmi = work.gt.nmi \/ events[cpu.acc].nmi])
    /\ Quiet

Consume == Step("consume", "test", cpu.acc, GT("index", work.gt.index + 1)) /\ Quiet

\* enter_boundary: the inputs of GuestInterruptBoundary.
Inputs ==
    LET gc == work.gc gt == work.gt
    IN  /\ Step("inputs", "decide", cpu.acc,
                [work EXCEPT
                   !.gi = [op |-> gc.op, pre |-> gc.pre, post |-> gt.i, irq |-> gt.irq,
                           nmi |-> gt.nmi, decision |-> "none", cost |-> 0],
                   !.gt.op = gc.op.kind])
        /\ Quiet

Decide ==
    LET gi == work.gi
        decision == Guest!Decision(gi.op, gi.pre, gi.post, gi.irq, gi.nmi)
    IN  /\ Step("decide", IF decision = "none" THEN "output" ELSE "enter", cpu.acc,
                [work EXCEPT !.gi.decision = decision, !.gi.nmi = gi.nmi /\ decision # "nmi"])
        /\ Quiet

Enter ==
    /\ Step("enter", "output", cpu.acc, [work EXCEPT !.gi.post = TRUE, !.gi.cost = Guest!Entry])
    /\ Quiet

Output ==
    LET gi == work.gi
        gt == [work.gt EXCEPT !.i = gi.post, !.nmi = gi.nmi, !.decision = gi.decision,
                              !.entry = gi.cost]
    IN  /\ Step("output", "settle", CarryOf(gt, gi.cost), [work EXCEPT !.gt = LowPlus(gt, gi.cost)])
        /\ Quiet

Settle ==
    LET gt == HighPlus(work.gt, cpu.acc)
    IN  /\ Step("settle", "copy", cpu.acc, [work EXCEPT !.gt = [gt EXCEPT !.ordinal = @ + 1]])
        /\ Quiet

\* capture: the header is assembled in scratch memory, then written at the cursor.
RowOf(gt) ==
    [time |-> gt.hi * Word + gt.lo, i |-> gt.i, irq |-> gt.irq, nmi |-> gt.nmi,
     index |-> gt.index, ordinal |-> gt.ordinal, op |-> gt.op, cost |-> gt.cost,
     entry |-> gt.entry, decision |-> gt.decision]

Assemble == Step("copy", "place", cpu.acc, [work EXCEPT !.header = RowOf(work.gt)]) /\ Quiet

Place == Step("place", "write", work.cursor, work) /\ Quiet

Write ==
    /\ Step("write", "advance", cpu.acc + 1, work)
    /\ out' = [out EXCEPT ![cpu.acc] = work.header]
    /\ UNCHANGED <<events, outcome, enabled, host>>

Advance == Step("advance", "next", cpu.acc, [work EXCEPT !.cursor = cpu.acc]) /\ Quiet

\* stz $4200 precedes either marker.
Disarm ==
    /\ \/ cpu.at = "next" /\ work.gt.ordinal = Steps /\ Step("next", "done", cpu.acc, work)
       \/ Step("fault", "failed", cpu.acc, work)
    /\ enabled' = FALSE
    /\ UNCHANGED <<events, out, outcome, host>>

Mark ==
    /\ \/ Step("done", "halt", cpu.acc, work) /\ outcome' = "done"
       \/ Step("failed", "halt", cpu.acc, work) /\ outcome' = work.gt.status
    /\ UNCHANGED <<events, out, enabled, host>>

Halt == cpu.at = "halt" /\ UNCHANGED vars

Driver ==
    \/ Dispatch \/ NoEntry \/ Describe \/ Execute \/ Save \/ Guard \/ Cost \/ Charge \/ Carry
    \/ Test \/ Take \/ Consume \/ Inputs \/ Decide \/ Enter \/ Output \/ Settle
    \/ Assemble \/ Place \/ Write \/ Advance \/ Disarm \/ Mark \/ Halt
-----------------------------------------------------------------------------
\* The interrupt routine.

\* The items of a kind on the host stack: one address per interrupt in progress.
Stacked(kind) == Cardinality({k \in DOMAIN stack : stack[k].kind = kind})
Interrupts == Stacked("pc")

\* The hardware stacks the address; the registers stay where they are.  Interrupts are
\* a display frame apart: the bound stands for the time a routine has.
Nmi ==
    /\ enabled /\ cpu.at # "halt" /\ Interrupts < MaxNest
    /\ stack' = Append(stack, [kind |-> "pc", of |-> [at |-> cpu.at, op |-> cpu.op]])
    /\ cpu' = [cpu EXCEPT !.at = "nmi"]
    /\ UNCHANGED <<events, work, out, outcome, enabled, depth, refused>>

Hidden == UNCHANGED <<events, out, outcome, enabled>>

Push(kind, of) == stack' = Append(stack, [kind |-> kind, of |-> of])
Top == Last(stack).of
Pop == stack' = Front(stack)

\* Slip: a third context is admitted.
RoomForThree == depth < 3

\* HN_DEPTH admits two contexts.
Room ==
    depth < 2

\* Two contexts at most; a third interrupt is recorded and saves registers only.
Admit ==
    /\ IF Room THEN /\ Step("nmi", "saveWork", cpu.acc, work)
                 /\ depth' = depth + 1 /\ UNCHANGED refused
            ELSE /\ Step("nmi", "registers", cpu.acc, work)
                 /\ refused' = TRUE /\ UNCHANGED depth
    /\ Push("acc", cpu.acc)
    /\ Hidden

SaveStep(from, to, kind, of) ==
    /\ Step(from, to, 0, work)
    /\ Push(kind, of)
    /\ Hidden /\ UNCHANGED <<depth, refused>>

SaveWork == SaveStep("saveWork", "saveTime", "work", [gc |-> work.gc, gi |-> work.gi])
SaveTime == SaveStep("saveTime", "saveCursor", "time", work.gt)
SaveCursor == SaveStep("saveCursor", "saveHeader", "cursor", work.cursor)
SaveHeader == SaveStep("saveHeader", "poison", "header", work.header)

\* TimelineHostWork writes all the scratch memory there is.
Poisoned ==
    [gc |-> [op |-> NoOp, pre |-> FALSE, cost |-> 3],
     gi |-> [op |-> NoOp, pre |-> FALSE, post |-> FALSE, irq |-> TRUE, nmi |-> TRUE,
             decision |-> "irq", cost |-> 3],
     gt |-> [lo |-> 1, hi |-> 0, i |-> FALSE, irq |-> TRUE, nmi |-> TRUE, index |-> 0,
             status |-> "clock", ordinal |-> 0, op |-> "rti", cost |-> 3, entry |-> 0,
             decision |-> "irq"],
     cursor |-> 0, header |-> None]

Poison == Step("poison", "headerBack", 1, Poisoned) /\ Hidden /\ UNCHANGED host

RestoreStep(from, to, scratch) ==
    /\ Step(from, to, 1, scratch)
    /\ Pop
    /\ Hidden /\ UNCHANGED <<depth, refused>>

\* Slip: the boundary record is not restored.
BoundaryLost == RestoreStep("workBack", "leave", [work EXCEPT !.gc = Top.gc])

RestoreHeader == RestoreStep("headerBack", "cursorBack", [work EXCEPT !.header = Top])
RestoreCursor ==
    RestoreStep("cursorBack", "timeBack", [work EXCEPT !.cursor = Top])
RestoreTime == RestoreStep("timeBack", "workBack", [work EXCEPT !.gt = Top])
RestoreWork ==
    RestoreStep("workBack", "leave", [work EXCEPT !.gc = Top.gc, !.gi = Top.gi])

\* Slip: the context stays counted.
LeaveCounted ==
    /\ Step("leave", "registers", cpu.acc, work)
    /\ Hidden /\ UNCHANGED host

Leave ==
    /\ Step("leave", "registers", cpu.acc, work)
    /\ depth' = depth - 1
    /\ Hidden /\ UNCHANGED <<stack, refused>>

RestoreRegisters ==
    /\ Step("registers", "rti", Top, work)
    /\ Pop
    /\ Hidden /\ UNCHANGED <<depth, refused>>

Rti ==
    /\ cpu.at = "rti"
    /\ cpu' = [cpu EXCEPT !.at = Top.at, !.op = Top.op]
    /\ Pop
    /\ Hidden /\ UNCHANGED <<work, depth, refused>>

Routine ==
    \/ Admit \/ SaveWork \/ SaveTime \/ SaveCursor \/ SaveHeader \/ Poison
    \/ RestoreHeader \/ RestoreCursor \/ RestoreTime \/ RestoreWork
    \/ Leave \/ RestoreRegisters \/ Rti

Next == Driver \/ Nmi \/ Routine

Spec == Init /\ [][Next]_vars
-----------------------------------------------------------------------------
\* The rows and the counts keep their shape.
TypeOK ==
    /\ \A r \in Rows : out[r] # None => out[r].ordinal = r + 1
    /\ \A r \in Rows : r > 0 /\ out[r] # None => out[r - 1] # None
    /\ work.gt.lo \in 0..Word - 1 /\ work.gt.hi \in 0..Highs - 1
    /\ depth \in 0..2 /\ enabled \in BOOLEAN /\ refused \in BOOLEAN

\* UnseenByGuest: whatever the host does, and wherever it interrupts the driver or
\* itself, the capture grows as GuestTimeline says, row by row and to the same end.
UnseenByGuest == Guest!Spec

\* Balanced: outside the interrupt routine the host stack is empty and no context is
\* counted; within it every context on the stack is counted, each for an interrupt of
\* its own, and there are at most two, however many interrupts are in progress.
Contexts == Stacked("work")
Balanced ==
    /\ Interrupts = 0 => stack = <<>> /\ depth = 0
    /\ Contexts <= depth /\ depth <= Interrupts
    /\ Contexts <= 2

\* RefusedOnlyThird: the run is only failed for an interrupt of two others in
\* progress.
RefusedOnlyThird == [][refused' # refused => Interrupts > 2]_vars
=============================================================================
