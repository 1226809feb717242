------------------------ MODULE GuestTimelineProofs ------------------------
(***************************************************************************)
(* Proofs about GuestTimeline, for every schedule, program, length of run  *)
(* and width of the clock.                                                 *)
(***************************************************************************)
EXTENDS GuestTimeline, TLAPS

\* An edge is always served by the instruction that finds it.
LatchEmpty == gt.nmi = FALSE

Inv == TypeOK /\ LatchEmpty /\ EventsOnTime

\* A schedule is a sequence of events, at strictly increasing cycles.
LEMMA ScheduleFacts ==
    ASSUME events \in Plans
    PROVE  /\ events \in Seq(Event)
           /\ Len(events) \in Nat
           /\ \A j \in 1..Len(events) :
                /\ events[j].cycle \in Nat /\ events[j].cycle > 0
                /\ events[j].irq \in BOOLEAN /\ events[j].nmi \in BOOLEAN
           /\ \A j, k \in 1..Len(events) : j < k => events[j].cycle < events[k].cycle
<1>1. events \in Seq(Event) /\ Len(events) \in Nat
  BY PlansAssumption
<1>2. \A j \in 1..Len(events) : events[j] \in Event
  BY <1>1
<1>3. ASSUME NEW j \in 1..Len(events)
      PROVE  /\ events[j].cycle \in Nat /\ events[j].cycle > 0
             /\ events[j].irq \in BOOLEAN /\ events[j].nmi \in BOOLEAN
  BY <1>2 DEF Event
<1>4. QED
  BY <1>1, <1>3, PlansAssumption

\* An instruction has a kind and costs 2 to 7 cycles.
LEMMA OpFacts ==
    ASSUME NEW op \in Ops
    PROVE  /\ op.kind \in {"plain", "delayed", "rti"}
           /\ op.cost \in 2..7
BY OpsAssumption DEF Op

\* The clock has room for an instruction and an entry.
LEMMA WrapFacts == Wrap \in Nat /\ Wrap >= 14
<1>1. \A n \in Nat : n >= 1 => Word * n >= Word /\ Word * n \in Nat
  BY ClockAssumption
<1>2. QED
  BY <1>1, ClockAssumption DEF Wrap

\* A retirement, with the values its conjuncts share.
Retires(op, post, m) ==
    LET now == gt.time + op.cost
        irq == LineAfter(gt.index, m)
        nmi == LatchAfter(gt.index, m)
        decision == Decision(op, gt.i, post, irq, nmi)
    IN  /\ now \in 0..Wrap - 8
        /\ irq \in BOOLEAN /\ nmi \in BOOLEAN
        /\ nmi = (\E j \in gt.index + 1..m : events[j].nmi)
        /\ LoopStops(gt.index, m, now)
        /\ decision \in {"none", "irq", "nmi"}
        /\ decision = "nmi" <=> nmi
        /\ ~nmi => (decision = "irq" <=> irq /\ ~PolledI(op, gt.i, post))
        /\ gt' = [time |-> now + EntryCost(decision), i |-> post \/ decision # "none",
                  irq |-> irq, nmi |-> FALSE, index |-> m,
                  ordinal |-> gt.ordinal + 1, op |-> op.kind, cost |-> op.cost,
                  entry |-> EntryCost(decision), decision |-> decision]

\* Retiring an instruction adds its cost and an entry without wrapping.
LEMMA RetireFacts ==
    ASSUME Inv, NEW op \in Ops, Retire(op)
    PROVE  \E post \in FlagAfter(op, gt.i), m \in gt.index..Len(events) : Retires(op, post, m)
<1>1. PICK post \in FlagAfter(op, gt.i), m \in gt.index..Len(events) :
        LET now == (gt.time + op.cost) % Wrap
            irq == LineAfter(gt.index, m)
            nmi == LatchAfter(gt.index, m)
            decision == Decision(op, gt.i, post, irq, nmi)
            entry == EntryCost(decision)
        IN  /\ LoopStops(gt.index, m, now)
            /\ gt' = [time |-> (now + entry) % Wrap, i |-> post \/ decision # "none",
                      irq |-> irq, nmi |-> nmi /\ decision # "nmi", index |-> m,
                      ordinal |-> gt.ordinal + 1, op |-> op.kind, cost |-> op.cost,
                      entry |-> entry, decision |-> decision]
  BY DEF Retire
<1> DEFINE now == gt.time + op.cost
           irq == LineAfter(gt.index, m)
           nmi == LatchAfter(gt.index, m)
           decision == Decision(op, gt.i, post, irq, nmi)
<1>2. gt.time \in 0..Wrap - 1 /\ gt.index \in 0..Len(events) /\ gt.i \in BOOLEAN /\ gt.irq \in BOOLEAN
  BY DEF Inv, TypeOK, Row
<1>3. now \in 0..Wrap - 8
  <2>1. gt.time < Wrap - 14
    BY <1>2, WrapFacts DEF Retire, ClockFull, Limit
  <2>2. op.cost \in 2..7
    BY OpFacts
  <2>3. gt.time \in Nat /\ Wrap \in Nat
    BY <1>2, WrapFacts
  <2>4. gt.time + op.cost >= 0 /\ gt.time + op.cost <= Wrap - 8 /\ gt.time + op.cost \in Nat
    BY <2>1, <2>2, <2>3
  <2>5. QED
    BY <2>3, <2>4
<1>4. now % Wrap = now
  BY <1>3, WrapFacts
<1>5. post \in BOOLEAN
  BY <1>2 DEF FlagAfter
<1>6. m \in 0..Len(events) /\ Len(events) \in Nat
  BY <1>2, ScheduleFacts DEF Inv, TypeOK
<1>7. irq \in BOOLEAN
  <2>1. CASE m = gt.index
    BY <1>2, <2>1 DEF LineAfter
  <2>2. CASE m # gt.index
    <3>1. m \in 1..Len(events)
      BY <1>2, <1>6, <2>2
    <3>2. QED
      BY <3>1, <2>2, ScheduleFacts DEF LineAfter, Inv, TypeOK
  <2>3. QED
    BY <2>1, <2>2
<1>8. nmi \in BOOLEAN /\ nmi = (\E j \in gt.index + 1..m : events[j].nmi)
  BY DEF LatchAfter, Inv, LatchEmpty
<1>9. /\ decision \in {"none", "irq", "nmi"}
      /\ decision = "nmi" <=> nmi
      /\ ~nmi => (decision = "irq" <=> irq /\ ~PolledI(op, gt.i, post))
  <2> HIDE DEF irq, nmi
  <2>1. CASE nmi
    BY <2>1 DEF Decision
  <2>2. CASE ~nmi /\ irq /\ ~PolledI(op, gt.i, post)
    BY <2>2 DEF Decision
  <2>3. CASE ~nmi /\ ~(irq /\ ~PolledI(op, gt.i, post))
    BY <2>3 DEF Decision
  <2>4. QED
    BY <2>1, <2>2, <2>3
<1>10. EntryCost(decision) \in {0, 7}
  BY DEF EntryCost, Entry
<1>11. (now + EntryCost(decision)) % Wrap = now + EntryCost(decision)
  BY <1>3, <1>10, WrapFacts
<1>12. (nmi /\ decision # "nmi") = FALSE
  BY <1>9
<1>13. LoopStops(gt.index, m, now)
  BY <1>1, <1>4
<1>14. gt' = [time |-> now + EntryCost(decision), i |-> post \/ decision # "none",
              irq |-> irq, nmi |-> FALSE, index |-> m,
              ordinal |-> gt.ordinal + 1, op |-> op.kind, cost |-> op.cost,
              entry |-> EntryCost(decision), decision |-> decision]
  BY <1>1, <1>4, <1>11, <1>12, Zenon
<1>15. Retires(op, post, m)
  BY <1>3, <1>7, <1>8, <1>9, <1>13, <1>14 DEF Retires
<1>16. QED
  BY <1>15

\* The invariant holds initially.
LEMMA InitInv == Init => Inv
<1> SUFFICES ASSUME Init PROVE Inv
  OBVIOUS
<1>1. TypeOK
  BY ScheduleFacts, WrapFacts, StepsAssumption DEF Init, InitialRow, TypeOK, Row, Entry
<1>2. LatchEmpty
  BY DEF Init, InitialRow, LatchEmpty
<1>3. EventsOnTime
  <2>1. gt.index = 0 /\ gt.time = 0 /\ gt.entry = 0 /\ gt.irq = FALSE
    BY DEF Init, InitialRow
  <2>2. ASSUME NEW j \in 1..Len(events)
        PROVE  j <= gt.index <=> Due(j, gt.time - gt.entry)
    BY <2>1, ScheduleFacts DEF Init, Due
  <2>3. ~(gt.index > 0)
    BY <2>1
  <2>4. QED
    BY <2>1, <2>2, <2>3 DEF EventsOnTime
<1>4. QED
  BY <1>1, <1>2, <1>3 DEF Inv

\* Retiring an instruction keeps the invariant.
LEMMA RetireInv ==
    ASSUME Inv, NEW op \in Ops, Retire(op)
    PROVE  Inv'
<1>1. PICK post \in FlagAfter(op, gt.i), m \in gt.index..Len(events) : Retires(op, post, m)
  BY RetireFacts
<1> DEFINE now == gt.time + op.cost
           irq == LineAfter(gt.index, m)
           decision == Decision(op, gt.i, post, irq, LatchAfter(gt.index, m))
           entry == EntryCost(decision)
<1>2. /\ now \in 0..Wrap - 8
      /\ irq \in BOOLEAN
      /\ decision \in {"none", "irq", "nmi"}
      /\ LoopStops(gt.index, m, now)
      /\ gt' = [time |-> now + entry, i |-> post \/ decision # "none",
                irq |-> irq, nmi |-> FALSE, index |-> m,
                ordinal |-> gt.ordinal + 1, op |-> op.kind, cost |-> op.cost,
                entry |-> entry, decision |-> decision]
  BY <1>1 DEF Retires
<1>3. UNCHANGED <<events, outcome>>
  BY DEF Retire
<1>4. entry \in {0, 7}
  BY DEF EntryCost, Entry
<1>5. /\ gt.time \in Nat /\ gt.index \in 0..Len(events) /\ Len(events) \in Nat
      /\ gt.ordinal \in 0..Steps /\ gt.ordinal < Steps /\ gt.entry \in {0, 7}
      /\ gt.irq \in BOOLEAN
  BY ScheduleFacts, WrapFacts DEF Inv, TypeOK, Row, Retire, Running, Entry
<1> HIDE DEF now, irq, decision, entry
<1>6. TypeOK'
  <2>1. gt' \in Row'
    <3>1. now + entry \in 0..Wrap - 1
      BY <1>2, <1>4, WrapFacts
    <3>2. gt.ordinal + 1 \in 0..Steps
      BY <1>5, StepsAssumption
    <3>3. m \in 0..Len(events)
      BY <1>5
    <3>4. op.cost \in 0..7 /\ op.kind \in {"plain", "delayed", "rti"}
      BY OpFacts
    <3>5. (post \/ decision # "none") \in BOOLEAN
      OBVIOUS
    <3>6. Len(events') = Len(events)
      BY <1>3
    <3>7. QED
      BY <1>2, <1>4, <3>1, <3>2, <3>3, <3>4, <3>5, <3>6 DEF Row, Entry, Wrap
  <2>2. QED
    BY <1>3, <2>1 DEF TypeOK, Inv
<1>7. LatchEmpty'
  BY <1>2 DEF LatchEmpty
<1>8. EventsOnTime'
  <2>1. gt'.index = m /\ gt'.time - gt'.entry = now /\ gt'.irq = irq
    BY <1>2, <1>4, WrapFacts
  <2>2. ASSUME NEW j \in 1..Len(events)
        PROVE  j <= m <=> events[j].cycle <= now
    <3>1. events[j].cycle \in Nat
      BY ScheduleFacts DEF Inv, TypeOK
    <3>2. CASE j <= gt.index
      <4>1. events[j].cycle <= gt.time - gt.entry
        BY <3>2 DEF Inv, EventsOnTime, Due
      <4>2. gt.time - gt.entry <= now
        BY <1>5, OpFacts DEF now
      <4>3. gt.time - gt.entry \in Int /\ now \in Int
        BY <1>2, <1>5, WrapFacts
      <4>4. j <= m
        BY <1>5, <3>2
      <4>5. QED
        BY <3>1, <4>1, <4>2, <4>3, <4>4
    <3>3. CASE gt.index < j /\ j <= m
      <4>1. j \in gt.index + 1..m
        BY <1>5, <3>3
      <4>2. Due(j, now)
        BY <1>2, <4>1 DEF LoopStops
      <4>3. QED
        BY <3>3, <4>2 DEF Due
    <3>4. CASE m < j
      <4>1. m + 1 \in 1..Len(events) /\ m \in Nat
        BY <1>5, <3>4
      <4>2. ~(events[m + 1].cycle <= now)
        BY <1>2, <4>1 DEF LoopStops, Due
      <4>3. events[m + 1].cycle \in Nat
        BY <4>1, ScheduleFacts DEF Inv, TypeOK
      <4>4. m + 1 = j \/ events[m + 1].cycle < events[j].cycle
        <5>1. CASE m + 1 < j
          BY <4>1, <5>1, ScheduleFacts DEF Inv, TypeOK
        <5>2. QED
          BY <3>4, <4>1, <5>1
      <4>5. ~(events[j].cycle <= now)
        BY <1>2, <3>1, <4>2, <4>3, <4>4, WrapFacts
      <4>6. QED
        BY <3>4, <4>1, <4>5
    <3>5. QED
      BY <1>5, <3>2, <3>3, <3>4
  <2>3. irq = (m > 0 /\ events[m].irq)
    <3>1. CASE m = gt.index
      BY <3>1 DEF irq, LineAfter, Inv, EventsOnTime
    <3>2. CASE m # gt.index
      <4>1. m > 0 /\ m \in 1..Len(events)
        BY <1>5, <3>2
      <4>2. events[m].irq \in BOOLEAN
        BY <4>1, ScheduleFacts DEF Inv, TypeOK
      <4>3. irq = events[m].irq
        BY <3>2 DEF irq, LineAfter
      <4>4. QED
        BY <4>1, <4>2, <4>3
    <3>3. QED
      BY <3>1, <3>2
  <2>4. QED
    BY <1>3, <2>1, <2>2, <2>3 DEF EventsOnTime, Due
<1>9. QED
  BY <1>6, <1>7, <1>8 DEF Inv

\* Every step keeps the invariant.
LEMMA NextInv == Inv /\ [Next]_vars => Inv'
<1> SUFFICES ASSUME Inv, [Next]_vars PROVE Inv'
  OBVIOUS
<1>1. ASSUME NEW op \in Ops, Retire(op)
      PROVE  Inv'
  BY <1>1, RetireInv
<1>2. ASSUME UNCHANGED <<events, gt>>, outcome' \in {"running", "done", "clock", "target"}
      PROVE  Inv'
  BY <1>2 DEF Inv, TypeOK, Row, LatchEmpty, EventsOnTime, Due, Wrap, Entry
<1>3. CASE OutOfTime
  BY <1>2, <1>3 DEF OutOfTime
<1>4. CASE UnknownTarget
  BY <1>2, <1>4 DEF UnknownTarget
<1>5. CASE Finish
  BY <1>2, <1>5 DEF Finish
<1>6. CASE Halt \/ UNCHANGED vars
  BY <1>2, <1>6 DEF Halt, vars, Inv, TypeOK
<1>7. QED
  BY <1>1, <1>3, <1>4, <1>5, <1>6 DEF Next

\* Every reachable state has a row of the right shape, a clock within its words, no
\* NMI left pending, and has applied exactly the events that were due.
THEOREM Invariant == Spec => []Inv
BY InitInv, NextInv, PTL DEF Spec

\* The clock and the cursor stay in range, for every length of run.
THEOREM ClockInRange == Spec => []TypeOK
<1>1. Inv => TypeOK
  BY DEF Inv
<1>2. QED
  BY <1>1, Invariant, PTL

\* No event is applied early, late, twice or never, whatever the schedule.
THEOREM EventsApplied == Spec => []EventsOnTime
<1>1. Inv => EventsOnTime
  BY DEF Inv
<1>2. QED
  BY <1>1, Invariant, PTL

\* A row is added by a retirement only.
LEMMA RowsByRetire ==
    ASSUME Inv, [Next]_vars, gt'.ordinal # gt.ordinal
    PROVE  \E op \in Ops : \E post \in FlagAfter(op, gt.i), m \in gt.index..Len(events) :
              Retires(op, post, m)
<1>1. PICK op \in Ops : Retire(op)
  BY DEF Next, OutOfTime, UnknownTarget, Finish, Halt, vars
<1>2. QED
  BY <1>1, RetireFacts

\* The clock never wraps: every row adds its own costs to the one before.
THEOREM ClockNeverWraps == Spec => ClockCloses
<1>1. ASSUME Inv, [Next]_vars, gt'.ordinal # gt.ordinal
      PROVE  gt'.time = gt.time + gt'.cost + gt'.entry
  <2>0. PICK op \in Ops :
          \E post \in FlagAfter(op, gt.i), m \in gt.index..Len(events) : Retires(op, post, m)
    BY <1>1, RowsByRetire
  <2>1. PICK post \in FlagAfter(op, gt.i), m \in gt.index..Len(events) : Retires(op, post, m)
    BY <2>0
  <2> DEFINE decision == Decision(op, gt.i, post, LineAfter(gt.index, m), LatchAfter(gt.index, m))
  <2>2. EntryCost(decision) \in {0, 7}
    BY DEF EntryCost, Entry
  <2>3. /\ gt'.time = gt.time + op.cost + EntryCost(decision)
        /\ gt'.cost = op.cost
        /\ gt'.entry = EntryCost(decision)
    BY <2>1 DEF Retires
  <2>4. QED
    BY <2>3
<1>2. QED
  BY <1>1, Invariant, PTL DEF Spec, ClockCloses

\* Every NMI edge is served at once, and nothing else is taken for one.
THEOREM EveryEdgeServed == Spec => EdgesServed
<1>1. ASSUME Inv, [Next]_vars, gt'.ordinal # gt.ordinal
      PROVE  gt'.decision = "nmi" <=> \E j \in gt.index + 1..gt'.index : events[j].nmi
  <2>0. PICK op \in Ops :
          \E post \in FlagAfter(op, gt.i), m \in gt.index..Len(events) : Retires(op, post, m)
    BY <1>1, RowsByRetire
  <2>1. PICK post \in FlagAfter(op, gt.i), m \in gt.index..Len(events) : Retires(op, post, m)
    BY <2>0
  <2> DEFINE decision == Decision(op, gt.i, post, LineAfter(gt.index, m), LatchAfter(gt.index, m))
  <2>2. decision = "nmi" <=> \E j \in gt.index + 1..m : events[j].nmi
    BY <2>1 DEF Retires
  <2>3. gt'.decision = decision /\ gt'.index = m
    BY <2>1 DEF Retires
  <2>4. QED
    BY <2>2, <2>3
<1>2. QED
  BY <1>1, Invariant, PTL DEF Spec, EdgesServed

\* The mask in force for an IRQ is the one before the instruction, unless it is RTI.
THEOREM MaskBeforeInstruction == Spec => MaskDelayed
<1>1. ASSUME Inv, [Next]_vars,
             gt'.ordinal # gt.ordinal, gt'.op # "rti", gt'.decision # "nmi"
      PROVE  gt'.decision = "irq" <=> gt'.irq /\ ~gt.i
  <2>0. PICK op \in Ops :
          \E post \in FlagAfter(op, gt.i), m \in gt.index..Len(events) : Retires(op, post, m)
    BY <1>1, RowsByRetire
  <2>1. PICK post \in FlagAfter(op, gt.i), m \in gt.index..Len(events) : Retires(op, post, m)
    BY <2>0
  <2> DEFINE irq == LineAfter(gt.index, m)
             nmi == LatchAfter(gt.index, m)
             decision == Decision(op, gt.i, post, irq, nmi)
  <2>2. gt'.op = op.kind /\ gt'.decision = decision /\ gt'.irq = irq
    BY <2>1 DEF Retires
  <2>3. decision = "nmi" <=> nmi
    BY <2>1 DEF Retires
  <2>4. ~nmi => (decision = "irq" <=> irq /\ ~PolledI(op, gt.i, post))
    BY <2>1 DEF Retires
  <2>5. PolledI(op, gt.i, post) = gt.i
    BY <1>1, <2>2, OpFacts DEF PolledI, FlagAfter
  <2>6. QED
    BY <1>1, <2>2, <2>3, <2>4, <2>5
<1>2. Inv /\ [Next]_vars =>
        (gt'.ordinal # gt.ordinal /\ gt'.op # "rti" /\ gt'.decision # "nmi" =>
           (gt'.decision = "irq" <=> gt'.irq /\ ~gt.i))
  BY <1>1
<1>3. QED
  BY <1>2, Invariant, PTL DEF Spec, MaskDelayed
=============================================================================
