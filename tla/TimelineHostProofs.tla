------------------------- MODULE TimelineHostProofs -------------------------
(***************************************************************************)
(* Proof that host interrupts, nested and wherever they strike, are unseen *)
(* by the guest: TimelineHost implements GuestTimeline, for every schedule, *)
(* program, width of the clock and number of interrupts in progress.       *)
(*                                                                         *)
(* The argument.  At any moment n interrupts are in progress.  Level 0 is  *)
(* the driver, level i the routine that interrupted level i - 1.  What     *)
(* level i will find when it goes on - its view - is partly in the CPU and *)
(* the scratch memory, partly in the frames above it.  Layout says where.  *)
(* The routine changes its own view only; so the view of the driver stays  *)
(* what the driver left, and DriverInv, which relates that view to the     *)
(* last row, holds whatever is in progress above it.                       *)
(***************************************************************************)
EXTENDS TimelineHost, FiniteSetTheorems, SequenceTheorems, TLAPS

-----------------------------------------------------------------------------
\* Types.
Kinds     == {"plain", "delayed", "rti"}
Decisions == {"none", "irq", "nmi"}
AnyOp     == Ops \cup {NoOp}

RowType == [time : Nat, i : BOOLEAN, irq : BOOLEAN, nmi : BOOLEAN, index : Nat,
            ordinal : Nat, op : Kinds, cost : Nat, entry : Nat, decision : Decisions]

WorkType ==
    [gc : [op : AnyOp, pre : BOOLEAN, cost : Nat],
     gi : [op : AnyOp, pre : BOOLEAN, post : BOOLEAN, irq : BOOLEAN, nmi : BOOLEAN,
           decision : Decisions, cost : Nat],
     gt : [lo : 0..Word - 1, hi : 0..Highs - 1, i : BOOLEAN, irq : BOOLEAN, nmi : BOOLEAN,
           index : Nat, status : {"running", "clock", "target"}, ordinal : Nat, op : Kinds,
           cost : Nat, entry : Nat, decision : Decisions],
     cursor : Nat, header : RowType \cup {None}]

DriverAt ==
    {"next", "describe", "load", "save", "guard", "cost", "charge", "carry", "test", "take",
     "consume", "inputs", "decide", "enter", "output", "settle", "copy", "place", "write",
     "advance", "fault", "done", "failed", "halt"}

\* What a frame holds, by the address of the routine that pushed it.
HeaderHeld == {"poison", "headerBack"}
CursorHeld == HeaderHeld \cup {"saveHeader", "cursorBack"}
TimeHeld   == CursorHeld \cup {"saveCursor", "timeBack"}
WorkHeld   == TimeHeld \cup {"saveTime", "workBack"}
Counted    == WorkHeld \cup {"saveWork", "leave"}
AccHeld    == Counted \cup {"registers"}
RoutineAt  == AccHeld \cup {"nmi", "rti"}

View == [at : DriverAt \cup RoutineAt, op : AnyOp, acc : BOOLEAN \cup Nat, work : WorkType]

Items(at) ==
    IF at \in HeaderHeld THEN 6 ELSE IF at \in CursorHeld THEN 5 ELSE
    IF at \in TimeHeld THEN 4 ELSE IF at \in WorkHeld THEN 3 ELSE
    IF at \in AccHeld THEN 2 ELSE 1

-----------------------------------------------------------------------------
\* Where the views are.

Held(held, st, k, kind, of, same) ==
    IF held THEN st[k] = [kind |-> kind, of |-> of] ELSE same

\* The frame above height p of the stack, between a level and the one it interrupted.
Frame(st, p, upper, lower) ==
    /\ st[p + 1] = [kind |-> "pc", of |-> [at |-> lower.at, op |-> lower.op]]
    /\ Held(upper.at \in AccHeld, st, p + 2, "acc", lower.acc, upper.acc = lower.acc)
    /\ Held(upper.at \in WorkHeld, st, p + 3, "work",
            [gc |-> lower.work.gc, gi |-> lower.work.gi],
            upper.work.gc = lower.work.gc /\ upper.work.gi = lower.work.gi)
    /\ Held(upper.at \in TimeHeld, st, p + 4, "time", lower.work.gt,
            upper.work.gt = lower.work.gt)
    /\ Held(upper.at \in CursorHeld, st, p + 5, "cursor", lower.work.cursor,
            upper.work.cursor = lower.work.cursor)
    /\ Held(upper.at \in HeaderHeld, st, p + 6, "header", lower.work.header,
            upper.work.header = lower.work.header)

\* n levels above the driver, their views v and the heights b of their frames.
Layout(st, top, n, b, v) ==
    /\ n \in Nat
    /\ b \in [0..n -> Nat] /\ v \in [0..n -> View]
    /\ v[n] = top
    /\ v[0].at \in DriverAt /\ \A i \in 1..n : v[i].at \in RoutineAt
    /\ b[0] = 0 /\ \A i \in 1..n : b[i] = b[i - 1] + Items(v[i].at)
    /\ \A i, j \in 0..n : i <= j => b[i] <= b[j]
    /\ \E S : st \in Seq(S)
    /\ Len(st) = b[n]
    /\ \A i \in 1..n : Frame(st, b[i - 1], v[i], v[i - 1])

Present == [at |-> cpu.at, op |-> cpu.op, acc |-> cpu.acc, work |-> work]

-----------------------------------------------------------------------------
\* The view of the driver and the last row.

LastRow == IF Written = {} THEN Initial ELSE out[CHOOSE r \in Written : r + 1 \notin Written]

Time(gt) == gt.hi * Word + gt.lo

Captured(s) == IF s.at \in {"copy", "place", "write"} THEN s.work.gt.ordinal - 1
                                                      ELSE s.work.gt.ordinal

\* The rows written so far are the first ones.
RowsInv(s) ==
    /\ Captured(s) \in 0..Steps
    /\ out = [r \in Rows |-> out[r]]
    /\ \A r \in Rows : IF r < Captured(s) THEN out[r] \in RowType /\ out[r].ordinal = r + 1
                                          ELSE out[r] = None
    /\ s.work.cursor = IF s.at = "advance" THEN Captured(s) - 1 ELSE Captured(s)
    /\ s.at \in {"write", "advance"} => s.acc = Captured(s)
    /\ s.at \notin {"next", "advance", "done", "fault", "failed", "halt"} => Captured(s) < Steps

\* What GuestTimeline would add after a row, by the row and the schedule.
FollowsAs(last, plan, row) ==
    \E op \in Ops, m \in last.index..Len(plan), post, irq, nmi \in BOOLEAN, d \in Decisions :
        /\ ~Guest!ClockFull(last.time)
        /\ post \in Guest!FlagAfter(op, last.i)
        /\ \A j \in last.index + 1..m : plan[j].cycle <= last.time + op.cost
        /\ m < Len(plan) => ~(plan[m + 1].cycle <= last.time + op.cost)
        /\ irq = IF m = last.index THEN last.irq ELSE plan[m].irq
        /\ nmi <=> last.nmi \/ \E j \in last.index + 1..m : plan[j].nmi
        /\ d = Guest!Decision(op, last.i, post, irq, nmi)
        /\ row = [time |-> last.time + op.cost + Guest!EntryCost(d), i |-> post \/ d # "none",
                  irq |-> irq, nmi |-> nmi /\ d # "nmi", index |-> m,
                  ordinal |-> last.ordinal + 1, op |-> op.kind, cost |-> op.cost,
                  entry |-> Guest!EntryCost(d), decision |-> d]

Follows(row) == FollowsAs(LastRow, events, row)

\* Before the clock is charged, GT is the last row.
Before == {"next", "describe", "load", "save", "guard", "cost", "charge", "advance", "fault"}
\* While the events are taken, and while the boundary is decided.
Taking   == {"test", "take", "consume"}
Deciding == {"inputs", "decide", "enter", "output"}

BeforeInv(s) ==
    LET gt == s.work.gt
    IN  /\ Time(gt) = LastRow.time /\ gt.index = LastRow.index
        /\ gt.irq = LastRow.irq /\ gt.nmi = LastRow.nmi
        /\ s.at \in {"next", "describe", "load", "save", "advance"} => gt.i = LastRow.i

\* The instruction, its descriptor and its effect on the I flag.
OpInv(s) ==
    LET gc == s.work.gc gt == s.work.gt
    IN  /\ s.at \in {"describe", "load", "save", "guard", "cost", "charge", "carry"} \cup Taking
                    \cup Deciding => s.op \in Ops
        /\ s.at \in {"load", "save", "guard", "cost", "charge", "carry", "inputs"} \cup Taking
             => gc.op = s.op /\ gc.pre = LastRow.i
        /\ s.at = "save" => s.acc \in Guest!FlagAfter(s.op, LastRow.i)
        /\ s.at \in {"guard", "cost", "charge", "carry"} \cup Taking \cup Deciding
             => gt.i \in Guest!FlagAfter(s.op, LastRow.i)
        /\ s.at \in {"cost", "charge", "carry"} \cup Taking \cup Deciding
             => ~Guest!ClockFull(LastRow.time)
        /\ s.at = "charge" => gc.cost = s.op.cost
        /\ s.at \in {"carry"} \cup Taking \cup Deciding => gt.cost = s.op.cost

\* The clock while its words are added, and after.
ClockInv(s) ==
    LET gt == s.work.gt
    IN  /\ s.at = "carry" =>
             /\ s.acc \in {0, 1} /\ Time(gt) + s.acc * Word = LastRow.time + s.op.cost
             /\ gt.index = LastRow.index /\ gt.irq = LastRow.irq /\ gt.nmi = LastRow.nmi
        /\ s.at \in Taking \cup Deciding => Time(gt) = LastRow.time + s.op.cost

\* The events taken: those before `taken'; the event in X is applied before GT counts it.
TakenInv(s) ==
    LET gt == s.work.gt
        taken == IF s.at = "consume" THEN gt.index + 1 ELSE gt.index
        now == LastRow.time + s.op.cost
    IN  s.at \in Taking \cup Deciding =>
          /\ gt.index >= LastRow.index /\ taken <= Len(events)
          /\ \A j \in LastRow.index + 1..taken : Guest!Due(j, now)
          /\ gt.irq = Guest!LineAfter(LastRow.index, taken)
          /\ gt.nmi = Guest!LatchAfter(LastRow.index, taken)
          /\ s.at = "take" => s.acc = gt.index + 1 /\ s.acc <= Len(events) /\ Guest!Due(s.acc, now)
          /\ s.at = "consume" => s.acc = taken
          /\ s.at \in Deciding => Guest!LoopStops(LastRow.index, gt.index, now)

\* The boundary record, from its inputs to its results.
BoundaryInv(s) ==
    LET gt == s.work.gt gi == s.work.gi
    IN  /\ s.at \in {"decide", "enter", "output"} => gt.op = s.op.kind
        /\ s.at = "decide" =>
             gi = [op |-> s.op, pre |-> LastRow.i, post |-> gt.i, irq |-> gt.irq,
                   nmi |-> gt.nmi, decision |-> "none", cost |-> 0]
        /\ s.at \in {"enter", "output"} =>
             /\ gi.decision = Guest!Decision(s.op, LastRow.i, gt.i, gt.irq, gt.nmi)
             /\ gi.nmi = (gt.nmi /\ gi.decision # "nmi")
        /\ s.at = "enter" => gi.decision # "none"
        /\ s.at = "output" => /\ gi.post = (gt.i \/ gi.decision # "none")
                              /\ gi.cost = Guest!EntryCost(gi.decision)

\* The row, with a carry that is not yet in the upper word.
CarriedRow(gt, carry) ==
    [time |-> Time(gt) + carry * Word, i |-> gt.i, irq |-> gt.irq, nmi |-> gt.nmi,
     index |-> gt.index, ordinal |-> gt.ordinal + 1, op |-> gt.op, cost |-> gt.cost,
     entry |-> gt.entry, decision |-> gt.decision]

\* The row to be captured is one GuestTimeline would add.
RowInv(s) ==
    /\ s.at = "settle" =>
         s.acc \in {0, 1} /\ Follows(CarriedRow(s.work.gt, s.acc))
    /\ s.at \in {"copy", "place", "write"} => Follows(RowOf(s.work.gt))
    /\ s.at \in {"place", "write"} => s.work.header = RowOf(s.work.gt)
    /\ s.at = "write" => s.acc = s.work.cursor

\* The end of the run.
EndInv(s) ==
    /\ outcome = "running" <=> s.at # "halt"
    /\ s.at = "done" => Captured(s) = Steps
    /\ s.at \in {"fault", "failed"} =>
         /\ Captured(s) < Steps
         /\ \/ s.work.gt.status = "clock" /\ Guest!ClockFull(LastRow.time)
            \/ s.work.gt.status = "target" /\ Captured(s) > 0

DriverInv(s) ==
    /\ events \in Plans
    /\ LastRow \in RowType /\ LastRow.time < Word * Highs /\ LastRow.index <= Len(events)
    /\ RowsInv(s)
    /\ s.at \in Before => BeforeInv(s)
    /\ OpInv(s) /\ ClockInv(s) /\ TakenInv(s) /\ BoundaryInv(s) /\ RowInv(s) /\ EndInv(s)

-----------------------------------------------------------------------------
\* What is counted: interrupts in progress, contexts stacked, contexts admitted.
Levels(n, v, where) == {i \in 1..n : v[i].at \in where}

CountInv(n, v) ==
    /\ Interrupts = n
    /\ Contexts = Cardinality(Levels(n, v, WorkHeld))
    /\ depth = Cardinality(Levels(n, v, Counted))
    /\ depth <= 2

-----------------------------------------------------------------------------
\* Sequences: one more item, one item less.
LEMMA AppendFacts ==
    ASSUME NEW S, NEW st \in Seq(S), NEW e
    PROVE  /\ \E T : Append(st, e) \in Seq(T)
           /\ Len(st) \in Nat /\ Len(Append(st, e)) = Len(st) + 1
           /\ \A k \in 1..Len(st) : Append(st, e)[k] = st[k]
           /\ Append(st, e)[Len(st) + 1] = e
<1>1. st \in Seq(S \cup {e}) /\ e \in S \cup {e}
  OBVIOUS
<1>2. Append(st, e) \in Seq(S \cup {e})
  BY <1>1
<1>3. QED
  BY <1>1, <1>2

\* What is left of a stack without its top.
LEMMA FrontFacts ==
    ASSUME NEW S, NEW st \in Seq(S), Len(st) > 0
    PROVE  /\ \E T : Front(st) \in Seq(T)
           /\ Len(st) \in Nat /\ Len(Front(st)) = Len(st) - 1
           /\ \A k \in 1..Len(st) - 1 : Front(st)[k] = st[k]
           /\ Last(st) = st[Len(st)]
<1>1. Front(st) \in Seq(S)
  BY DEF Front
<1>2. Len(st) \in Nat
  OBVIOUS
<1>3. /\ Len(Front(st)) = Len(st) - 1
      /\ \A k \in 1..Len(st) - 1 : Front(st)[k] = st[k]
  <2>1. \A i \in 1..Len(st) - 1 : st[i] \in S
    OBVIOUS
  <2> DEFINE m == Len(st) - 1
  <2>2. m \in Int /\ 1 \in Int /\ m >= 0
    BY <1>2
  <2> HIDE DEF m
  <2>3. /\ Len(SubSeq(st, 1, m)) = IF 1 <= m THEN m - 1 + 1 ELSE 0
        /\ \A k \in 1..m - 1 + 1 : SubSeq(st, 1, m)[k] = st[1 + k - 1]
    BY <2>1, <2>2, SubSeqProperties DEF m
  <2>4. Len(SubSeq(st, 1, m)) = m /\ \A k \in 1..m : SubSeq(st, 1, m)[k] = st[k]
    BY <2>2, <2>3
  <2>5. QED
    BY <2>4 DEF m, Front
<1>4. QED
  BY <1>1, <1>2, <1>3 DEF Last

\* The items of a kind in any sequence.
CountOf(st, kind) == Cardinality({k \in DOMAIN st : st[k].kind = kind})

\* Pushing an item counts it.
LEMMA CountAppend ==
    ASSUME NEW S, NEW st \in Seq(S), NEW e, NEW kind
    PROVE  /\ CountOf(st, kind) \in Nat
           /\ CountOf(Append(st, e), kind) =
                CountOf(st, kind) + (IF e.kind = kind THEN 1 ELSE 0)
<1> DEFINE old == {k \in DOMAIN st : st[k].kind = kind}
           new == {k \in DOMAIN Append(st, e) : Append(st, e)[k].kind = kind}
<1>1. DOMAIN st = 1..Len(st) /\ DOMAIN Append(st, e) = 1..Len(st) + 1 /\ Len(st) \in Nat
  BY AppendFacts
<1>2. IsFiniteSet(old) /\ Cardinality(old) \in Nat
  <2>1. IsFiniteSet(1..Len(st))
    BY <1>1, FS_Interval
  <2>2. old \in SUBSET (1..Len(st))
    BY <1>1
  <2>3. IsFiniteSet(old)
    BY <2>1, <2>2, FS_Subset
  <2>4. QED
    BY <2>3, FS_CardinalityType
<1>3. Len(st) + 1 \notin old
  BY <1>1
<1>4. new = IF e.kind = kind THEN old \cup {Len(st) + 1} ELSE old
  BY <1>1, AppendFacts
<1>5. Cardinality(new) = Cardinality(old) + (IF e.kind = kind THEN 1 ELSE 0)
  <2>1. Cardinality(old \cup {Len(st) + 1}) = Cardinality(old) + 1
    BY <1>2, <1>3, FS_AddElement
  <2> HIDE DEF old, new
  <2>2. QED
    BY <1>2, <1>4, <2>1
<1>6. QED
  BY <1>2, <1>5 DEF CountOf

\* Popping an item uncounts it.
LEMMA CountFront ==
    ASSUME NEW S, NEW st \in Seq(S), Len(st) > 0, NEW kind
    PROVE  /\ CountOf(st, kind) \in Nat
           /\ CountOf(st, kind) =
                CountOf(Front(st), kind) + (IF st[Len(st)].kind = kind THEN 1 ELSE 0)
<1> DEFINE front == Front(st)
           e == st[Len(st)]
<1>1. front \in Seq(S)
  BY DEF Front
<1>2. st = Append(front, e)
  <2>1. Append(front, e) \in Seq(S)
    BY <1>1
  <2>2. Len(Append(front, e)) = Len(st)
    BY <1>1, FrontFacts
  <2>3. ASSUME NEW k \in 1..Len(st) PROVE Append(front, e)[k] = st[k]
    BY <1>1, FrontFacts
  <2>4. QED
    BY <2>1, <2>2, <2>3, SeqEqual
<1> HIDE DEF front, e
<1>3. /\ CountOf(front, kind) \in Nat
      /\ CountOf(Append(front, e), kind) = CountOf(front, kind) + (IF e.kind = kind THEN 1 ELSE 0)
  BY <1>1, CountAppend
<1>4. CountOf(st, kind) = CountOf(Append(front, e), kind)
  BY <1>2
<1> DEFINE c == CountOf(st, kind)
<1> HIDE DEF c
<1>5. c \in Nat /\ c = CountOf(front, kind) + (IF e.kind = kind THEN 1 ELSE 0)
  BY <1>3, <1>4 DEF c
<1>6. QED
  BY <1>5 DEF c, front, e

-----------------------------------------------------------------------------
\* How the views move.

\* A routine has pushed the items its place says.
LEMMA ItemsFacts ==
    ASSUME NEW at
    PROVE  /\ Items(at) \in 1..6
           /\ at \in AccHeld => Items(at) >= 2
           /\ at \in WorkHeld => Items(at) >= 3
           /\ at \in TimeHeld => Items(at) >= 4
           /\ at \in CursorHeld => Items(at) >= 5
           /\ at \in HeaderHeld => Items(at) = 6
BY DEF Items, AccHeld, Counted, WorkHeld, TimeHeld, CursorHeld, HeaderHeld

\* A frame depends on its own items only.
LEMMA FrameSame ==
    ASSUME NEW st, NEW st2, NEW p \in Nat, NEW upper, NEW lower,
           Frame(st, p, upper, lower),
           \A k \in 1..p + Items(upper.at) : st2[k] = st[k]
    PROVE  Frame(st2, p, upper, lower)
<1> DEFINE at == upper.at
<1>1. \A k \in 1..6 : k <= Items(at) => st2[p + k] = st[p + k]
  BY ItemsFacts
<1>2. st2[p + 1] = st[p + 1]
  BY <1>1, ItemsFacts
<1>3. /\ at \in AccHeld => st2[p + 2] = st[p + 2]
      /\ at \in WorkHeld => st2[p + 3] = st[p + 3]
      /\ at \in TimeHeld => st2[p + 4] = st[p + 4]
      /\ at \in CursorHeld => st2[p + 5] = st[p + 5]
      /\ at \in HeaderHeld => st2[p + 6] = st[p + 6]
  BY <1>1, ItemsFacts
<1> HIDE DEF at
<1>4. QED
  BY <1>2, <1>3 DEF Frame, Held, at

\* The level on top moves on and may change its own frame.
LEMMA TopStep ==
    ASSUME NEW st, NEW top, NEW n, NEW b, NEW v, Layout(st, top, n, b, v), n # 0,
           NEW st2, NEW top2 \in View, top2.at \in RoutineAt,
           \E S : st2 \in Seq(S),
           Len(st2) = b[n - 1] + Items(top2.at),
           \A k \in 1..b[n - 1] : st2[k] = st[k],
           Frame(st2, b[n - 1], top2, v[n - 1])
    PROVE  Layout(st2, top2, n, [b EXCEPT ![n] = b[n - 1] + Items(top2.at)],
                  [v EXCEPT ![n] = top2])
<1> DEFINE b2 == [b EXCEPT ![n] = b[n - 1] + Items(top2.at)]
           v2 == [v EXCEPT ![n] = top2]
<1>1. n \in Nat \ {0} /\ b \in [0..n -> Nat] /\ v \in [0..n -> View]
  BY DEF Layout
<1>2. Items(top2.at) \in Nat /\ b[n - 1] \in Nat
  <2>1. Items(top2.at) \in 1..6
    BY ItemsFacts
  <2>2. QED
    BY <1>1, <2>1
<1>3. b2 \in [0..n -> Nat] /\ v2 \in [0..n -> View]
  BY <1>1, <1>2
<1>4. /\ b2[n] = b[n - 1] + Items(top2.at) /\ v2[n] = top2
      /\ \A i \in 0..n - 1 : b2[i] = b[i] /\ v2[i] = v[i]
  BY <1>1
<1>5. v2[0].at \in DriverAt /\ \A i \in 1..n : v2[i].at \in RoutineAt
  BY <1>1, <1>4 DEF Layout
<1>6. b2[0] = 0 /\ \A i \in 1..n : b2[i] = b2[i - 1] + Items(v2[i].at)
  <2>1. b2[0] = 0
    BY <1>1, <1>4 DEF Layout
  <2>2. ASSUME NEW i \in 1..n PROVE b2[i] = b2[i - 1] + Items(v2[i].at)
    <3>1. CASE i = n
      BY <1>1, <1>4, <3>1
    <3>2. CASE i # n
      <4>1. i \in 0..n - 1 /\ i - 1 \in 0..n - 1
        BY <1>1, <3>2
      <4>2. QED
        BY <1>4, <4>1 DEF Layout
    <3>3. QED
      BY <3>1, <3>2
  <2>3. QED
    BY <2>1, <2>2
<1>7. ASSUME NEW i \in 0..n, NEW j \in 0..n, i <= j PROVE b2[i] <= b2[j]
  <2>1. CASE j # n
    <3>1. i \in 0..n - 1 /\ j \in 0..n - 1
      BY <1>1, <1>7, <2>1
    <3>2. QED
      BY <1>4, <1>7, <3>1 DEF Layout
  <2>2. CASE j = n /\ i # n
    <3>1. i \in 0..n - 1 /\ n - 1 \in 0..n /\ i <= n - 1
      BY <1>1, <2>2
    <3>2. b[i] <= b[n - 1]
      BY <1>1, <3>1 DEF Layout
    <3>3. b[i] \in Nat
      BY <1>1
    <3>4. QED
      BY <1>2, <1>4, <2>2, <3>1, <3>2, <3>3
  <2>3. CASE i = n /\ j = n
    BY <1>2, <1>4, <2>3
  <2>4. QED
    BY <1>1, <1>7, <2>1, <2>2, <2>3
<1>8. ASSUME NEW i \in 1..n PROVE Frame(st2, b2[i - 1], v2[i], v2[i - 1])
  <2>1. CASE i = n
    <3>1. n - 1 \in 0..n - 1
      BY <1>1
    <3>2. QED
      BY <1>4, <2>1, <3>1
  <2>2. CASE i # n
    <3>1. i \in 0..n - 1 /\ i - 1 \in 0..n - 1 /\ i <= n - 1 /\ n - 1 \in 0..n
      BY <1>1, <2>2
    <3>2. Frame(st, b[i - 1], v[i], v[i - 1]) /\ b[i] = b[i - 1] + Items(v[i].at) /\ b[i] <= b[n - 1]
      BY <1>1, <3>1 DEF Layout
    <3>3. b[i - 1] \in Nat /\ b[i] \in Nat
      BY <1>1, <3>1
    <3>4. \A k \in 1..b[i - 1] + Items(v[i].at) : st2[k] = st[k]
      BY <1>2, <3>2, <3>3
    <3>5. Frame(st2, b[i - 1], v[i], v[i - 1])
      BY <3>2, <3>3, <3>4, FrameSame
    <3>6. QED
      BY <1>4, <3>1, <3>5
  <2>3. QED
    BY <2>1, <2>2
<1>9. QED
  BY <1>1, <1>3, <1>4, <1>5, <1>6, <1>7, <1>8 DEF Layout

\* A new interrupt: the address is stacked, everything else stays where it is.
LEMMA PushStep ==
    ASSUME NEW st, NEW top, NEW n, NEW b, NEW v, Layout(st, top, n, b, v),
           NEW top2, top2 = [at |-> "nmi", op |-> top.op, acc |-> top.acc, work |-> top.work],
           NEW item, item = [kind |-> "pc", of |-> [at |-> top.at, op |-> top.op]]
    PROVE  Layout(Append(st, item), top2, n + 1,
                  [i \in 0..n + 1 |-> IF i = n + 1 THEN b[n] + 1 ELSE b[i]],
                  [i \in 0..n + 1 |-> IF i = n + 1 THEN top2 ELSE v[i]])
<1> DEFINE st2 == Append(st, item)
           b2 == [i \in 0..n + 1 |-> IF i = n + 1 THEN b[n] + 1 ELSE b[i]]
           v2 == [i \in 0..n + 1 |-> IF i = n + 1 THEN top2 ELSE v[i]]
<1>1. n \in Nat /\ b \in [0..n -> Nat] /\ v \in [0..n -> View] /\ v[n] = top /\ Len(st) = b[n]
  BY DEF Layout
<1>2. top \in View /\ top2 \in View /\ top2.at = "nmi" /\ "nmi" \in RoutineAt
      /\ top2.acc = top.acc /\ top2.work = top.work
  BY <1>1 DEF View, RoutineAt
<1>3. Items("nmi") = 1 /\ "nmi" \notin AccHeld
  BY DEF Items, AccHeld, Counted, WorkHeld, TimeHeld, CursorHeld, HeaderHeld
<1>4. PICK S : st \in Seq(S)
  BY DEF Layout
<1>5. /\ \E T : st2 \in Seq(T)
      /\ Len(st2) = b[n] + 1
      /\ \A k \in 1..b[n] : st2[k] = st[k]
      /\ st2[b[n] + 1] = item
  <2> HIDE DEF Layout
  <2>1. \E T : Append(st, item) \in Seq(T)
    BY <1>4, AppendFacts
  <2>2. /\ Len(Append(st, item)) = Len(st) + 1
        /\ \A k \in 1..Len(st) : Append(st, item)[k] = st[k]
        /\ Append(st, item)[Len(st) + 1] = item
    BY <1>4, AppendFacts
  <2>3. QED
    BY <1>1, <2>1, <2>2
<1>6. b2 \in [0..n + 1 -> Nat] /\ v2 \in [0..n + 1 -> View]
  BY <1>1, <1>2
<1>7. /\ b2[n + 1] = b[n] + 1 /\ v2[n + 1] = top2 /\ n + 1 \in Nat
      /\ \A i \in 0..n : b2[i] = b[i] /\ v2[i] = v[i]
  BY <1>1
<1>8. v2[0].at \in DriverAt /\ \A i \in 1..n + 1 : v2[i].at \in RoutineAt
  BY <1>1, <1>2, <1>7 DEF Layout
<1>9. b2[0] = 0
  BY <1>1, <1>7 DEF Layout
<1>10. ASSUME NEW i \in 1..n + 1 PROVE b2[i] = b2[i - 1] + Items(v2[i].at)
  <2>1. CASE i = n + 1
    BY <1>1, <1>2, <1>3, <1>7, <2>1
  <2>2. CASE i # n + 1
    <3>1. i \in 1..n /\ i \in 0..n /\ i - 1 \in 0..n
      BY <1>1, <2>2
    <3>2. QED
      BY <1>7, <3>1 DEF Layout
  <2>3. QED
    BY <2>1, <2>2
<1>11. ASSUME NEW i \in 0..n + 1, NEW j \in 0..n + 1, i <= j PROVE b2[i] <= b2[j]
  <2>1. CASE j # n + 1
    <3>1. i \in 0..n /\ j \in 0..n
      BY <1>1, <1>11, <2>1
    <3>2. QED
      BY <1>7, <1>11, <3>1 DEF Layout
  <2>2. CASE j = n + 1 /\ i # n + 1
    <3>1. i \in 0..n /\ n \in 0..n /\ i <= n
      BY <1>1, <2>2
    <3>2. b[i] <= b[n] /\ b[i] \in Nat /\ b[n] \in Nat
      BY <1>1, <3>1 DEF Layout
    <3>3. QED
      BY <1>7, <2>2, <3>1, <3>2
  <2>3. CASE i = n + 1 /\ j = n + 1
    BY <1>1, <1>7, <2>3
  <2>4. QED
    BY <2>1, <2>2, <2>3, <1>11, <1>1
<1>12. ASSUME NEW i \in 1..n + 1 PROVE Frame(st2, b2[i - 1], v2[i], v2[i - 1])
  <2>1. CASE i = n + 1
    <3>1. Frame(st2, b[n], top2, top)
      BY <1>2, <1>3, <1>5 DEF Frame, Held, AccHeld, Counted, WorkHeld, TimeHeld, CursorHeld, HeaderHeld
    <3>2. QED
      BY <1>1, <1>7, <2>1, <3>1
  <2>2. CASE i # n + 1
    <3>1. i \in 1..n /\ i \in 0..n /\ i - 1 \in 0..n /\ n \in 0..n /\ i <= n
      BY <1>1, <2>2
    <3>2. Frame(st, b[i - 1], v[i], v[i - 1]) /\ b[i] = b[i - 1] + Items(v[i].at) /\ b[i] <= b[n]
      BY <1>1, <3>1 DEF Layout
    <3>3. b[i - 1] \in Nat /\ b[i] \in Nat /\ b[n] \in Nat
      BY <1>1, <3>1
    <3>4. \A k \in 1..b[i - 1] + Items(v[i].at) : st2[k] = st[k]
      BY <1>5, <3>2, <3>3
    <3>5. Frame(st2, b[i - 1], v[i], v[i - 1])
      BY <3>2, <3>3, <3>4, FrameSame
    <3>6. QED
      BY <1>7, <3>1, <3>5
  <2>3. QED
    BY <2>1, <2>2
<1> HIDE DEF st2, b2, v2
<1>13. Layout(st2, top2, n + 1, b2, v2)
  BY <1>5, <1>6, <1>7, <1>8, <1>9, <1>10, <1>11, <1>12 DEF Layout
<1>14. QED
  BY <1>13 DEF st2, b2, v2

\* A return: what the interrupted level finds is its view.
LEMMA PopStep ==
    ASSUME NEW st, NEW top, NEW n, NEW b, NEW v, Layout(st, top, n, b, v), n # 0,
           top.at = "rti"
    PROVE  /\ Len(st) > 0 /\ Last(st) = [kind |-> "pc", of |-> [at |-> v[n - 1].at, op |-> v[n - 1].op]]
           /\ v[n - 1] = [at |-> v[n - 1].at, op |-> v[n - 1].op, acc |-> top.acc, work |-> top.work]
           /\ Layout(Front(st), v[n - 1], n - 1, [i \in 0..n - 1 |-> b[i]], [i \in 0..n - 1 |-> v[i]])
<1> DEFINE st2 == Front(st)
           b2 == [i \in 0..n - 1 |-> b[i]]
           v2 == [i \in 0..n - 1 |-> v[i]]
           lower == v[n - 1]
<1>1. n \in Nat \ {0} /\ b \in [0..n -> Nat] /\ v \in [0..n -> View] /\ v[n] = top /\ Len(st) = b[n]
  BY DEF Layout
<1>2. Items("rti") = 1 /\ "rti" \notin AccHeld
  BY DEF Items, AccHeld, Counted, WorkHeld, TimeHeld, CursorHeld, HeaderHeld
<1>3. b[n] = b[n - 1] + 1 /\ b[n - 1] \in Nat /\ lower \in View /\ top \in View
  BY <1>1, <1>2 DEF Layout
<1>4. Frame(st, b[n - 1], top, lower)
  BY <1>1 DEF Layout
<1>5. /\ st[b[n - 1] + 1] = [kind |-> "pc", of |-> [at |-> lower.at, op |-> lower.op]]
      /\ top.acc = lower.acc
      /\ top.work.gc = lower.work.gc /\ top.work.gi = lower.work.gi
      /\ top.work.gt = lower.work.gt /\ top.work.cursor = lower.work.cursor
      /\ top.work.header = lower.work.header
  BY <1>2, <1>4 DEF Frame, Held, AccHeld, Counted, WorkHeld, TimeHeld, CursorHeld, HeaderHeld
<1>6. top.work = lower.work
  <2>1. top.work \in WorkType /\ lower.work \in WorkType
    BY <1>3 DEF View
  <2>2. \A w \in WorkType : w = [gc |-> w.gc, gi |-> w.gi, gt |-> w.gt, cursor |-> w.cursor, header |-> w.header]
    BY DEF WorkType
  <2>3. QED
    BY <1>5, <2>1, <2>2
<1>7. lower = [at |-> lower.at, op |-> lower.op, acc |-> top.acc, work |-> top.work]
  BY <1>3, <1>5, <1>6 DEF View
<1>8. PICK S : st \in Seq(S)
  BY DEF Layout
<1>9. /\ Len(st) > 0
      /\ \E T : st2 \in Seq(T)
      /\ Len(st2) = b[n - 1]
      /\ \A k \in 1..b[n - 1] : st2[k] = st[k]
      /\ Last(st) = st[b[n - 1] + 1]
  <2>1. Len(st) = b[n - 1] + 1 /\ Len(st) > 0
    BY <1>1, <1>3
  <2>2. \E T : Front(st) \in Seq(T)
    BY <1>8, <2>1, FrontFacts
  <2>3. /\ Len(Front(st)) = Len(st) - 1
        /\ \A k \in 1..Len(st) - 1 : Front(st)[k] = st[k]
        /\ Last(st) = st[Len(st)]
    BY <1>8, <2>1, FrontFacts
  <2>4. QED
    BY <1>3, <2>1, <2>2, <2>3
<1>10. b2 \in [0..n - 1 -> Nat] /\ v2 \in [0..n - 1 -> View] /\ n - 1 \in Nat
  BY <1>1
<1>11. /\ b2[n - 1] = b[n - 1] /\ v2[n - 1] = lower
       /\ \A i \in 0..n - 1 : b2[i] = b[i] /\ v2[i] = v[i]
  BY <1>1
<1>12. v2[0].at \in DriverAt /\ b2[0] = 0
  BY <1>1, <1>11 DEF Layout
<1>13. ASSUME NEW i \in 1..n - 1
       PROVE  /\ v2[i].at \in RoutineAt
              /\ b2[i] = b2[i - 1] + Items(v2[i].at)
              /\ Frame(st2, b2[i - 1], v2[i], v2[i - 1])
  <2>1. i \in 1..n /\ i \in 0..n - 1 /\ i - 1 \in 0..n - 1 /\ i \in 0..n /\ n - 1 \in 0..n /\ i <= n - 1
    BY <1>1
  <2>2. v[i].at \in RoutineAt /\ b[i] = b[i - 1] + Items(v[i].at) /\ b[i] <= b[n - 1]
        /\ Frame(st, b[i - 1], v[i], v[i - 1])
    BY <2>1 DEF Layout
  <2>3. b[i - 1] \in Nat /\ b[i] \in Nat
    BY <1>1, <2>1
  <2>4. \A k \in 1..b[i - 1] + Items(v[i].at) : st2[k] = st[k]
    BY <1>3, <1>9, <2>2, <2>3
  <2>5. Frame(st2, b[i - 1], v[i], v[i - 1])
    BY <2>2, <2>3, <2>4, FrameSame
  <2>6. QED
    BY <1>11, <2>1, <2>2, <2>5
<1>14. \A i, j \in 0..n - 1 : i <= j => b2[i] <= b2[j]
  BY <1>1, <1>11 DEF Layout
<1> HIDE DEF st2, b2, v2
<1>15. Layout(st2, lower, n - 1, b2, v2)
  BY <1>9, <1>10, <1>11, <1>12, <1>13, <1>14 DEF Layout
<1>16. QED
  BY <1>5, <1>7, <1>9, <1>15 DEF st2, b2, v2

\* With no interrupt in progress the driver moves on.
LEMMA DriverMoves ==
    ASSUME NEW st, NEW top, NEW b, NEW v, Layout(st, top, 0, b, v),
           NEW top2 \in View, top2.at \in DriverAt
    PROVE  Layout(st, top2, 0, b, [v EXCEPT ![0] = top2])
BY DEF Layout

-----------------------------------------------------------------------------
\* The steps of the interrupt routine.

CpuType == [at : DriverAt \cup RoutineAt, op : AnyOp, acc : BOOLEAN \cup Nat]

\* The level on top has a new view, the others keep theirs.
Moved(st, top, n, v) ==
    \E b2, v2 : Layout(st, top, n, b2, v2) /\ \A i \in 0..n - 1 : v2[i] = v[i]

\* An instruction of a routine moves to the next one.
LEMMA StepFacts ==
    ASSUME cpu \in CpuType, NEW from, NEW to, NEW acc, NEW scratch, Step(from, to, acc, scratch)
    PROVE  /\ cpu.at = from /\ work' = scratch
           /\ cpu' = [at |-> to, op |-> cpu.op, acc |-> acc]
           /\ cpu'.at = to /\ cpu'.op = cpu.op /\ cpu'.acc = acc
BY DEF Step, CpuType

\* A running routine is the topmost level, with its frame on top of the stack.
LEMMA TopFacts ==
    ASSUME NEW n, NEW b, NEW v, Layout(stack, Present, n, b, v), cpu.at \in RoutineAt
    PROVE  /\ n \in Nat \ {0} /\ b[n - 1] \in Nat
           /\ v[n - 1] \in View /\ Present \in View /\ v[n] = Present
           /\ Len(stack) = b[n - 1] + Items(cpu.at)
           /\ Frame(stack, b[n - 1], Present, v[n - 1])
           /\ \E S : stack \in Seq(S)
<1>1. n \in Nat /\ b \in [0..n -> Nat] /\ v \in [0..n -> View] /\ v[n] = Present /\ v[0].at \in DriverAt
  BY DEF Layout
<1>2. Present.at = cpu.at
  BY DEF Present
<1>3. DriverAt \cap RoutineAt = {}
  BY DEF DriverAt, RoutineAt, AccHeld, Counted, WorkHeld, TimeHeld, CursorHeld, HeaderHeld
<1>4. n # 0
  BY <1>1, <1>2, <1>3
<1>5. n \in 1..n /\ n - 1 \in 0..n /\ n \in 0..n
  BY <1>1, <1>4
<1>6. b[n] = b[n - 1] + Items(v[n].at) /\ Len(stack) = b[n] /\ Frame(stack, b[n - 1], v[n], v[n - 1])
  BY <1>5 DEF Layout
<1>7. QED
  BY <1>1, <1>2, <1>4, <1>5, <1>6 DEF Layout

\* A push keeps the frames below and adds an item.
LEMMA PushFacts ==
    ASSUME NEW n, NEW b, NEW v, Layout(stack, Present, n, b, v), cpu.at \in RoutineAt,
           NEW item, stack' = Append(stack, item)
    PROVE  LET p == b[n - 1]
               size == Items(cpu.at)
           IN  /\ \E S : stack' \in Seq(S)
               /\ Len(stack') = p + size + 1
               /\ \A k \in 1..p : stack'[k] = stack[k]
               /\ \A k \in 1..size : stack'[p + k] = stack[p + k]
               /\ stack'[p + size + 1] = item
<1> DEFINE p == b[n - 1]
           size == Items(cpu.at)
<1>1. p \in Nat /\ size \in 1..6 /\ Len(stack) = p + size
  BY TopFacts, ItemsFacts
<1>2. PICK S : stack \in Seq(S)
  BY TopFacts
<1>3. \E T : Append(stack, item) \in Seq(T)
  BY <1>2, AppendFacts
<1>4. /\ Len(Append(stack, item)) = Len(stack) + 1
      /\ \A k \in 1..Len(stack) : Append(stack, item)[k] = stack[k]
      /\ Append(stack, item)[Len(stack) + 1] = item
  BY <1>2, AppendFacts
<1> HIDE DEF p, size
<1>5. QED
  BY <1>1, <1>3, <1>4 DEF p, size

\* A pop takes the top item and keeps the frames below.
LEMMA PopFacts ==
    ASSUME NEW n, NEW b, NEW v, Layout(stack, Present, n, b, v), cpu.at \in RoutineAt,
           stack' = Front(stack)
    PROVE  LET p == b[n - 1]
               size == Items(cpu.at)
           IN  /\ \E S : stack' \in Seq(S)
               /\ Len(stack') = p + size - 1
               /\ \A k \in 1..p : stack'[k] = stack[k]
               /\ \A k \in 1..size - 1 : stack'[p + k] = stack[p + k]
               /\ Top = stack[p + size].of
<1> DEFINE p == b[n - 1]
           size == Items(cpu.at)
<1>1. p \in Nat /\ size \in 1..6 /\ Len(stack) = p + size
  BY TopFacts, ItemsFacts
<1>2. PICK S : stack \in Seq(S)
  BY TopFacts
<1>3. \E T : Front(stack) \in Seq(T)
  BY <1>1, <1>2, FrontFacts
<1>4. Len(stack) > 0
  BY <1>1
<1>5. /\ Len(Front(stack)) = Len(stack) - 1
      /\ \A k \in 1..Len(stack) - 1 : Front(stack)[k] = stack[k]
      /\ Last(stack) = stack[Len(stack)]
  BY <1>2, <1>4, FrontFacts
<1> HIDE DEF p, size
<1>6. Len(stack') = p + size - 1 /\ Last(stack) = stack[p + size]
  BY <1>1, <1>5
<1>7. ASSUME NEW k \in 1..p PROVE stack'[k] = stack[k]
  BY <1>1, <1>5
<1>8. ASSUME NEW k \in 1..size - 1 PROVE stack'[p + k] = stack[p + k]
  <2>1. p + k \in 1..Len(stack) - 1
    BY <1>1
  <2>2. QED
    BY <1>5, <2>1
<1>9. QED
  BY <1>3, <1>6, <1>7, <1>8 DEF p, size, Top

\* TopStep for the machine.
LEMMA Moving ==
    ASSUME NEW n, NEW b, NEW v, Layout(stack, Present, n, b, v), cpu.at \in RoutineAt,
           cpu' \in CpuType, cpu'.at \in RoutineAt, work' \in WorkType,
           \E S : stack' \in Seq(S),
           Len(stack') = b[n - 1] + Items(cpu'.at),
           \A k \in 1..b[n - 1] : stack'[k] = stack[k],
           Frame(stack', b[n - 1], Present', v[n - 1])
    PROVE  Moved(stack', Present', n, v)
<1>1. Present' \in View /\ Present'.at = cpu'.at
  BY DEF Present, View, CpuType
<1>2. n \in Nat \ {0} /\ v \in [0..n -> View]
  BY TopFacts DEF Layout
<1> DEFINE b2 == [b EXCEPT ![n] = b[n - 1] + Items(Present'.at)]
           v2 == [v EXCEPT ![n] = Present']
<1>3. Layout(stack', Present', n, b2, v2)
  <2> HIDE DEF Layout, Frame
  <2>1. Len(stack') = b[n - 1] + Items(Present'.at) /\ Present'.at \in RoutineAt /\ n # 0
    BY <1>1, <1>2
  <2>2. QED
    BY <1>1, <2>1, TopStep
<1>4. \A i \in 0..n - 1 : v2[i] = v[i]
  BY <1>2
<1>5. QED
  BY <1>3, <1>4 DEF Moved

\* The labels of the routine with the height of their frames.
LEMMA Labels ==
    /\ {"nmi", "saveWork", "saveTime", "saveCursor", "saveHeader", "poison", "headerBack",
        "cursorBack", "timeBack", "workBack", "leave", "registers", "rti"} = RoutineAt
    /\ Items("nmi") = 1 /\ Items("rti") = 1
    /\ Items("saveWork") = 2 /\ Items("leave") = 2 /\ Items("registers") = 2
    /\ Items("saveTime") = 3 /\ Items("workBack") = 3
    /\ Items("saveCursor") = 4 /\ Items("timeBack") = 4
    /\ Items("saveHeader") = 5 /\ Items("cursorBack") = 5
    /\ Items("poison") = 6 /\ Items("headerBack") = 6
BY DEF Items, RoutineAt, AccHeld, Counted, WorkHeld, TimeHeld, CursorHeld, HeaderHeld

\* After a step of the routine to an address, the level on top is there, with the stack as
\* its frame says, and nothing below has moved.
Arrived(to, n, v) ==
    /\ cpu' \in CpuType /\ cpu'.at = to
    /\ Moved(stack', Present', n, v)

\* GC and GI are saved.
LEMMA SaveWorkStep ==
    ASSUME NEW n, NEW b, NEW v, Layout(stack, Present, n, b, v), cpu \in CpuType, SaveWork
    PROVE  Arrived("saveTime", n, v)
<1> DEFINE p == b[n - 1]
           lower == v[n - 1]
<1>1. /\ cpu.at = "saveWork" /\ work' = work
      /\ cpu' = [at |-> "saveTime", op |-> cpu.op, acc |-> 0]
      /\ stack' = Append(stack, [kind |-> "work", of |-> [gc |-> work.gc, gi |-> work.gi]])
  BY StepFacts DEF SaveWork, SaveStep, Push
<1>2. cpu.at \in RoutineAt /\ Items(cpu.at) = 2 /\ Items("saveTime") = 3 /\ "saveTime" \in RoutineAt
  BY <1>1, Labels
<1>3. p \in Nat /\ Present \in View /\ lower \in View /\ Frame(stack, p, Present, lower)
  BY <1>2, TopFacts
<1>4. /\ \E S : stack' \in Seq(S)
      /\ Len(stack') = p + 3
      /\ \A k \in 1..p : stack'[k] = stack[k]
      /\ \A k \in 1..2 : stack'[p + k] = stack[p + k]
      /\ stack'[p + 3] = [kind |-> "work", of |-> [gc |-> work.gc, gi |-> work.gi]]
  BY <1>1, <1>2, <1>3, PushFacts
<1>5. /\ Present'.at = "saveTime" /\ Present'.acc = 0 /\ Present'.work = work
      /\ Present.at = "saveWork" /\ Present.work = work
  BY <1>1 DEF Present
<1>6. cpu' \in CpuType /\ cpu'.at = "saveTime" /\ work' \in WorkType
  BY <1>1, <1>2, <1>3 DEF CpuType, View, Present
<1> HIDE DEF p, lower
<1>7. Frame(stack', p, Present', lower)
  BY <1>3, <1>4, <1>5 DEF Frame, Held, AccHeld, Counted, WorkHeld, TimeHeld, CursorHeld, HeaderHeld
<1>8. QED
  BY <1>2, <1>4, <1>6, <1>7, Moving DEF Arrived, p, lower

\* GT is saved.
LEMMA SaveTimeStep ==
    ASSUME NEW n, NEW b, NEW v, Layout(stack, Present, n, b, v), cpu \in CpuType, SaveTime
    PROVE  Arrived("saveCursor", n, v)
<1> DEFINE p == b[n - 1]
           lower == v[n - 1]
<1>1. /\ cpu.at = "saveTime" /\ work' = work
      /\ cpu' = [at |-> "saveCursor", op |-> cpu.op, acc |-> 0]
      /\ stack' = Append(stack, [kind |-> "time", of |-> work.gt])
  BY StepFacts DEF SaveTime, SaveStep, Push
<1>2. cpu.at \in RoutineAt /\ Items(cpu.at) = 3 /\ Items("saveCursor") = 4 /\ "saveCursor" \in RoutineAt
  BY <1>1, Labels
<1>3. p \in Nat /\ Present \in View /\ lower \in View /\ Frame(stack, p, Present, lower)
  BY <1>2, TopFacts
<1>4. /\ \E S : stack' \in Seq(S)
      /\ Len(stack') = p + 4
      /\ \A k \in 1..p : stack'[k] = stack[k]
      /\ \A k \in 1..3 : stack'[p + k] = stack[p + k]
      /\ stack'[p + 4] = [kind |-> "time", of |-> work.gt]
  BY <1>1, <1>2, <1>3, PushFacts
<1>5. /\ Present'.at = "saveCursor" /\ Present'.acc = 0 /\ Present'.work = work
      /\ Present.at = "saveTime" /\ Present.work = work
  BY <1>1 DEF Present
<1>6. cpu' \in CpuType /\ cpu'.at = "saveCursor" /\ work' \in WorkType
  BY <1>1, <1>2, <1>3 DEF CpuType, View, Present
<1> HIDE DEF p, lower
<1>7. Frame(stack', p, Present', lower)
  BY <1>3, <1>4, <1>5 DEF Frame, Held, AccHeld, Counted, WorkHeld, TimeHeld, CursorHeld, HeaderHeld
<1>8. QED
  BY <1>2, <1>4, <1>6, <1>7, Moving DEF Arrived, p, lower

\* The capture cursor is saved.
LEMMA SaveCursorStep ==
    ASSUME NEW n, NEW b, NEW v, Layout(stack, Present, n, b, v), cpu \in CpuType, SaveCursor
    PROVE  Arrived("saveHeader", n, v)
<1> DEFINE p == b[n - 1]
           lower == v[n - 1]
<1>1. /\ cpu.at = "saveCursor" /\ work' = work
      /\ cpu' = [at |-> "saveHeader", op |-> cpu.op, acc |-> 0]
      /\ stack' = Append(stack, [kind |-> "cursor", of |-> work.cursor])
  BY StepFacts DEF SaveCursor, SaveStep, Push
<1>2. cpu.at \in RoutineAt /\ Items(cpu.at) = 4 /\ Items("saveHeader") = 5 /\ "saveHeader" \in RoutineAt
  BY <1>1, Labels
<1>3. p \in Nat /\ Present \in View /\ lower \in View /\ Frame(stack, p, Present, lower)
  BY <1>2, TopFacts
<1>4. /\ \E S : stack' \in Seq(S)
      /\ Len(stack') = p + 5
      /\ \A k \in 1..p : stack'[k] = stack[k]
      /\ \A k \in 1..4 : stack'[p + k] = stack[p + k]
      /\ stack'[p + 5] = [kind |-> "cursor", of |-> work.cursor]
  <2> DEFINE size == Items(cpu.at)
             item == [kind |-> "cursor", of |-> work.cursor]
  <2>1. stack' = Append(stack, item)
    BY <1>1
  <2> HIDE DEF item
  <2>2. /\ \E S : stack' \in Seq(S)
        /\ Len(stack') = p + size + 1
        /\ \A k \in 1..p : stack'[k] = stack[k]
        /\ \A k \in 1..size : stack'[p + k] = stack[p + k]
        /\ stack'[p + size + 1] = item
    BY <1>2, <2>1, PushFacts
  <2>3. size = 4
    BY <1>2
  <2> HIDE DEF size
  <2>4. QED
    BY <1>3, <2>2, <2>3 DEF item
<1>5. /\ Present'.at = "saveHeader" /\ Present'.acc = 0 /\ Present'.work = work
      /\ Present.at = "saveCursor" /\ Present.work = work
  BY <1>1 DEF Present
<1>6. cpu' \in CpuType /\ cpu'.at = "saveHeader" /\ work' \in WorkType
  BY <1>1, <1>2, <1>3 DEF CpuType, View, Present
<1> HIDE DEF p, lower
<1>7. Frame(stack', p, Present', lower)
  BY <1>3, <1>4, <1>5 DEF Frame, Held, AccHeld, Counted, WorkHeld, TimeHeld, CursorHeld, HeaderHeld
<1>8. QED
  BY <1>2, <1>4, <1>6, <1>7, Moving DEF Arrived, p, lower

\* The header is saved: nothing of the interrupted level is left in scratch memory.
LEMMA SaveHeaderStep ==
    ASSUME NEW n, NEW b, NEW v, Layout(stack, Present, n, b, v), cpu \in CpuType, SaveHeader
    PROVE  Arrived("poison", n, v)
<1> DEFINE p == b[n - 1]
           lower == v[n - 1]
<1>1. /\ cpu.at = "saveHeader" /\ work' = work
      /\ cpu' = [at |-> "poison", op |-> cpu.op, acc |-> 0]
      /\ stack' = Append(stack, [kind |-> "header", of |-> work.header])
  BY StepFacts DEF SaveHeader, SaveStep, Push
<1>2. cpu.at \in RoutineAt /\ Items(cpu.at) = 5 /\ Items("poison") = 6 /\ "poison" \in RoutineAt
  BY <1>1, Labels
<1>3. p \in Nat /\ Present \in View /\ lower \in View /\ Frame(stack, p, Present, lower)
  BY <1>2, TopFacts
<1>4. /\ \E S : stack' \in Seq(S)
      /\ Len(stack') = p + 6
      /\ \A k \in 1..p : stack'[k] = stack[k]
      /\ \A k \in 1..5 : stack'[p + k] = stack[p + k]
      /\ stack'[p + 6] = [kind |-> "header", of |-> work.header]
  <2> DEFINE size == Items(cpu.at)
             item == [kind |-> "header", of |-> work.header]
  <2>1. stack' = Append(stack, item)
    BY <1>1
  <2> HIDE DEF item
  <2>2. /\ \E S : stack' \in Seq(S)
        /\ Len(stack') = p + size + 1
        /\ \A k \in 1..p : stack'[k] = stack[k]
        /\ \A k \in 1..size : stack'[p + k] = stack[p + k]
        /\ stack'[p + size + 1] = item
    BY <1>2, <2>1, PushFacts
  <2>3. size = 5
    BY <1>2
  <2> HIDE DEF size
  <2>4. QED
    BY <1>3, <2>2, <2>3 DEF item
<1>5. /\ Present'.at = "poison" /\ Present'.acc = 0 /\ Present'.work = work
      /\ Present.at = "saveHeader" /\ Present.work = work
  BY <1>1 DEF Present
<1>6. cpu' \in CpuType /\ cpu'.at = "poison" /\ work' \in WorkType
  BY <1>1, <1>2, <1>3 DEF CpuType, View, Present
<1> HIDE DEF p, lower
<1>7. Frame(stack', p, Present', lower)
  BY <1>3, <1>4, <1>5 DEF Frame, Held, AccHeld, Counted, WorkHeld, TimeHeld, CursorHeld, HeaderHeld
<1>8. QED
  BY <1>2, <1>4, <1>6, <1>7, Moving DEF Arrived, p, lower

\* The header comes back.
LEMMA RestoreHeaderStep ==
    ASSUME NEW n, NEW b, NEW v, Layout(stack, Present, n, b, v), cpu \in CpuType, RestoreHeader
    PROVE  Arrived("cursorBack", n, v)
<1> DEFINE p == b[n - 1]
           lower == v[n - 1]
<1>1. /\ cpu.at = "headerBack" /\ work' = [work EXCEPT !.header = Top]
      /\ cpu' = [at |-> "cursorBack", op |-> cpu.op, acc |-> 1]
      /\ stack' = Front(stack)
  BY StepFacts DEF RestoreHeader, RestoreStep, Pop
<1>2. cpu.at \in RoutineAt /\ Items(cpu.at) = 6 /\ Items("cursorBack") = 5 /\ "cursorBack" \in RoutineAt
  BY <1>1, Labels
<1>3. p \in Nat /\ Present \in View /\ lower \in View /\ Frame(stack, p, Present, lower)
  BY <1>2, TopFacts
<1>4. /\ \E S : stack' \in Seq(S)
      /\ Len(stack') = p + 5
      /\ \A k \in 1..p : stack'[k] = stack[k]
      /\ \A k \in 1..5 : stack'[p + k] = stack[p + k]
      /\ Top = stack[p + 6].of
  <2> DEFINE size == Items(cpu.at)
  <2>1. /\ \E S : stack' \in Seq(S)
        /\ Len(stack') = p + size - 1
        /\ \A k \in 1..p : stack'[k] = stack[k]
        /\ \A k \in 1..size - 1 : stack'[p + k] = stack[p + k]
        /\ Top = stack[p + size].of
    BY <1>1, <1>2, PopFacts
  <2>2. size = 6
    BY <1>2
  <2> HIDE DEF size
  <2>3. QED
    BY <1>3, <2>1, <2>2
<1>5. /\ Present'.at = "cursorBack" /\ Present'.acc = 1 /\ Present'.work = work'
      /\ Present.at = "headerBack" /\ Present.work = work
  BY <1>1 DEF Present
<1>6. work \in WorkType /\ lower.work \in WorkType
  BY <1>3, <1>5 DEF View
<1> HIDE DEF p, lower
<1>7. Top = lower.work.header
  BY <1>3, <1>4, <1>5 DEF Frame, Held, AccHeld, Counted, WorkHeld, TimeHeld, CursorHeld, HeaderHeld
<1>8. work' \in WorkType /\ work'.gc = work.gc /\ work'.gi = work.gi /\ work'.gt = work.gt /\ work'.cursor = work.cursor /\ work'.header = lower.work.header
  BY <1>1, <1>6, <1>7 DEF WorkType
<1>9. Frame(stack', p, Present', lower)
  BY <1>3, <1>4, <1>5, <1>8 DEF Frame, Held, AccHeld, Counted, WorkHeld, TimeHeld, CursorHeld, HeaderHeld
<1>10. cpu' \in CpuType /\ cpu'.at = "cursorBack"
  BY <1>1, <1>2 DEF CpuType
<1>11. QED
  BY <1>2, <1>4, <1>8, <1>9, <1>10, Moving DEF Arrived, p, lower

\* The cursor comes back.
LEMMA RestoreCursorStep ==
    ASSUME NEW n, NEW b, NEW v, Layout(stack, Present, n, b, v), cpu \in CpuType, RestoreCursor
    PROVE  Arrived("timeBack", n, v)
<1> DEFINE p == b[n - 1]
           lower == v[n - 1]
<1>1. /\ cpu.at = "cursorBack" /\ work' = [work EXCEPT !.cursor = Top]
      /\ cpu' = [at |-> "timeBack", op |-> cpu.op, acc |-> 1]
      /\ stack' = Front(stack)
  BY StepFacts DEF RestoreCursor, RestoreStep, Pop
<1>2. cpu.at \in RoutineAt /\ Items(cpu.at) = 5 /\ Items("timeBack") = 4 /\ "timeBack" \in RoutineAt
  BY <1>1, Labels
<1>3. p \in Nat /\ Present \in View /\ lower \in View /\ Frame(stack, p, Present, lower)
  BY <1>2, TopFacts
<1>4. /\ \E S : stack' \in Seq(S)
      /\ Len(stack') = p + 4
      /\ \A k \in 1..p : stack'[k] = stack[k]
      /\ \A k \in 1..4 : stack'[p + k] = stack[p + k]
      /\ Top = stack[p + 5].of
  BY <1>1, <1>2, <1>3, PopFacts
<1>5. /\ Present'.at = "timeBack" /\ Present'.acc = 1 /\ Present'.work = work'
      /\ Present.at = "cursorBack" /\ Present.work = work
  BY <1>1 DEF Present
<1>6. work \in WorkType /\ lower.work \in WorkType
  BY <1>3, <1>5 DEF View
<1> HIDE DEF p, lower
<1>7. Top = lower.work.cursor
  BY <1>3, <1>4, <1>5 DEF Frame, Held, AccHeld, Counted, WorkHeld, TimeHeld, CursorHeld, HeaderHeld
<1>8. work' \in WorkType /\ work'.gc = work.gc /\ work'.gi = work.gi /\ work'.gt = work.gt /\ work'.cursor = lower.work.cursor /\ work'.header = work.header
  BY <1>1, <1>6, <1>7 DEF WorkType
<1>9. Frame(stack', p, Present', lower)
  BY <1>3, <1>4, <1>5, <1>8 DEF Frame, Held, AccHeld, Counted, WorkHeld, TimeHeld, CursorHeld, HeaderHeld
<1>10. cpu' \in CpuType /\ cpu'.at = "timeBack"
  BY <1>1, <1>2 DEF CpuType
<1>11. QED
  BY <1>2, <1>4, <1>8, <1>9, <1>10, Moving DEF Arrived, p, lower

\* GT comes back.
LEMMA RestoreTimeStep ==
    ASSUME NEW n, NEW b, NEW v, Layout(stack, Present, n, b, v), cpu \in CpuType, RestoreTime
    PROVE  Arrived("workBack", n, v)
<1> DEFINE p == b[n - 1]
           lower == v[n - 1]
<1>1. /\ cpu.at = "timeBack" /\ work' = [work EXCEPT !.gt = Top]
      /\ cpu' = [at |-> "workBack", op |-> cpu.op, acc |-> 1]
      /\ stack' = Front(stack)
  BY StepFacts DEF RestoreTime, RestoreStep, Pop
<1>2. cpu.at \in RoutineAt /\ Items(cpu.at) = 4 /\ Items("workBack") = 3 /\ "workBack" \in RoutineAt
  BY <1>1, Labels
<1>3. p \in Nat /\ Present \in View /\ lower \in View /\ Frame(stack, p, Present, lower)
  BY <1>2, TopFacts
<1>4. /\ \E S : stack' \in Seq(S)
      /\ Len(stack') = p + 3
      /\ \A k \in 1..p : stack'[k] = stack[k]
      /\ \A k \in 1..3 : stack'[p + k] = stack[p + k]
      /\ Top = stack[p + 4].of
  BY <1>1, <1>2, <1>3, PopFacts
<1>5. /\ Present'.at = "workBack" /\ Present'.acc = 1 /\ Present'.work = work'
      /\ Present.at = "timeBack" /\ Present.work = work
  BY <1>1 DEF Present
<1>6. work \in WorkType /\ lower.work \in WorkType
  BY <1>3, <1>5 DEF View
<1> HIDE DEF p, lower
<1>7. Top = lower.work.gt
  BY <1>3, <1>4, <1>5 DEF Frame, Held, AccHeld, Counted, WorkHeld, TimeHeld, CursorHeld, HeaderHeld
<1>8. work' \in WorkType /\ work'.gc = work.gc /\ work'.gi = work.gi /\ work'.gt = lower.work.gt /\ work'.cursor = work.cursor /\ work'.header = work.header
  BY <1>1, <1>6, <1>7 DEF WorkType
<1>9. Frame(stack', p, Present', lower)
  BY <1>3, <1>4, <1>5, <1>8 DEF Frame, Held, AccHeld, Counted, WorkHeld, TimeHeld, CursorHeld, HeaderHeld
<1>10. cpu' \in CpuType /\ cpu'.at = "workBack"
  BY <1>1, <1>2 DEF CpuType
<1>11. QED
  BY <1>2, <1>4, <1>8, <1>9, <1>10, Moving DEF Arrived, p, lower

\* GC and GI come back.
LEMMA RestoreWorkStep ==
    ASSUME NEW n, NEW b, NEW v, Layout(stack, Present, n, b, v), cpu \in CpuType, RestoreWork
    PROVE  Arrived("leave", n, v)
<1> DEFINE p == b[n - 1]
           lower == v[n - 1]
<1>1. /\ cpu.at = "workBack" /\ work' = [work EXCEPT !.gc = Top.gc, !.gi = Top.gi]
      /\ cpu' = [at |-> "leave", op |-> cpu.op, acc |-> 1]
      /\ stack' = Front(stack)
  BY StepFacts DEF RestoreWork, RestoreStep, Pop
<1>2. cpu.at \in RoutineAt /\ Items(cpu.at) = 3 /\ Items("leave") = 2 /\ "leave" \in RoutineAt
  BY <1>1, Labels
<1>3. p \in Nat /\ Present \in View /\ lower \in View /\ Frame(stack, p, Present, lower)
  BY <1>2, TopFacts
<1>4. /\ \E S : stack' \in Seq(S)
      /\ Len(stack') = p + 2
      /\ \A k \in 1..p : stack'[k] = stack[k]
      /\ \A k \in 1..2 : stack'[p + k] = stack[p + k]
      /\ Top = stack[p + 3].of
  BY <1>1, <1>2, <1>3, PopFacts
<1>5. /\ Present'.at = "leave" /\ Present'.acc = 1 /\ Present'.work = work'
      /\ Present.at = "workBack" /\ Present.work = work
  BY <1>1 DEF Present
<1>6. work \in WorkType /\ lower.work \in WorkType
  BY <1>3, <1>5 DEF View
<1> HIDE DEF p, lower
<1>7. Top = [gc |-> lower.work.gc, gi |-> lower.work.gi]
  BY <1>3, <1>4, <1>5 DEF Frame, Held, AccHeld, Counted, WorkHeld, TimeHeld, CursorHeld, HeaderHeld
<1>8. work' \in WorkType /\ work'.gc = lower.work.gc /\ work'.gi = lower.work.gi /\ work'.gt = work.gt /\ work'.cursor = work.cursor /\ work'.header = work.header
  BY <1>1, <1>6, <1>7 DEF WorkType
<1>9. Frame(stack', p, Present', lower)
  BY <1>3, <1>4, <1>5, <1>8 DEF Frame, Held, AccHeld, Counted, WorkHeld, TimeHeld, CursorHeld, HeaderHeld
<1>10. cpu' \in CpuType /\ cpu'.at = "leave"
  BY <1>1, <1>2 DEF CpuType
<1>11. QED
  BY <1>2, <1>4, <1>8, <1>9, <1>10, Moving DEF Arrived, p, lower

\* The routine begins: the registers are saved, whether there is room for a context or not.
LEMMA AdmitStep ==
    ASSUME NEW n, NEW b, NEW v, Layout(stack, Present, n, b, v), cpu \in CpuType, Admit
    PROVE  Arrived(IF Room THEN "saveWork" ELSE "registers", n, v)
<1> DEFINE p == b[n - 1]
           lower == v[n - 1]
           to == IF Room THEN "saveWork" ELSE "registers"
           item == [kind |-> "acc", of |-> cpu.acc]
<1>1. /\ cpu.at = "nmi" /\ work' = work
      /\ cpu' = [at |-> to, op |-> cpu.op, acc |-> cpu.acc]
      /\ stack' = Append(stack, item)
  BY StepFacts DEF Admit, Push
<1>2. cpu.at \in RoutineAt /\ Items(cpu.at) = 1 /\ Items(to) = 2 /\ to \in RoutineAt
  BY <1>1, Labels
<1>3. p \in Nat /\ Present \in View /\ lower \in View /\ Frame(stack, p, Present, lower)
  BY <1>2, TopFacts
<1>4. to \in {"saveWork", "registers"}
  OBVIOUS
<1> HIDE DEF to, item
<1>5. /\ \E S : stack' \in Seq(S)
      /\ Len(stack') = p + 2
      /\ \A k \in 1..p : stack'[k] = stack[k]
      /\ \A k \in 1..1 : stack'[p + k] = stack[p + k]
      /\ stack'[p + 2] = item
  BY <1>1, <1>2, <1>3, PushFacts
<1>6. /\ Present'.at = to /\ Present'.acc = cpu.acc /\ Present'.work = work
      /\ Present.at = "nmi" /\ Present.acc = cpu.acc /\ Present.work = work
  BY <1>1 DEF Present
<1>7. cpu' \in CpuType /\ cpu'.at = to /\ work' \in WorkType
  BY <1>1, <1>2, <1>3 DEF CpuType, View, Present
<1> HIDE DEF p, lower
<1>8. item = [kind |-> "acc", of |-> lower.acc]
  BY <1>3, <1>6 DEF Frame, Held, item, AccHeld, Counted, WorkHeld, TimeHeld, CursorHeld, HeaderHeld
<1>9. Frame(stack', p, Present', lower)
  BY <1>3, <1>4, <1>5, <1>6, <1>8 DEF Frame, Held, AccHeld, Counted, WorkHeld, TimeHeld, CursorHeld, HeaderHeld
<1>10. Arrived(to, n, v)
  BY <1>2, <1>5, <1>7, <1>9, Moving DEF Arrived, p, lower
<1>11. QED
  BY <1>10 DEF to

\* The worker overwrites everything; everything is on the stack.
LEMMA PoisonStep ==
    ASSUME NEW n, NEW b, NEW v, Layout(stack, Present, n, b, v), cpu \in CpuType, Poison
    PROVE  Arrived("headerBack", n, v)
<1> DEFINE p == b[n - 1]
           lower == v[n - 1]
<1>1. /\ cpu.at = "poison" /\ work' = Poisoned
      /\ cpu' = [at |-> "headerBack", op |-> cpu.op, acc |-> 1]
      /\ stack' = stack
  BY StepFacts DEF Poison, host
<1>2. cpu.at \in RoutineAt /\ Items(cpu.at) = 6 /\ Items("headerBack") = 6 /\ "headerBack" \in RoutineAt
  BY <1>1, Labels
<1>3. /\ p \in Nat /\ Present \in View /\ lower \in View /\ Frame(stack, p, Present, lower)
      /\ \E S : stack' \in Seq(S)
      /\ Len(stack') = p + 6
  BY <1>1, <1>2, TopFacts
<1>4. /\ Present'.at = "headerBack" /\ Present'.acc = 1
      /\ Present.at = "poison"
  BY <1>1 DEF Present
<1>5. work' \in WorkType
  <2>1. Word - 1 \in Nat /\ Word - 1 >= 13 /\ Highs - 1 \in Nat
    BY ClockAssumption
  <2>2. 1 \in 0..Word - 1 /\ 0 \in 0..Highs - 1
    BY <2>1
  <2>3. QED
    BY <1>1, <2>2 DEF Poisoned, WorkType, Kinds, Decisions, AnyOp
<1>6. cpu' \in CpuType /\ cpu'.at = "headerBack"
  BY <1>1, <1>2 DEF CpuType
<1> HIDE DEF p, lower
<1>7. Frame(stack', p, Present', lower)
  BY <1>1, <1>3, <1>4 DEF Frame, Held, AccHeld, Counted, WorkHeld, TimeHeld, CursorHeld, HeaderHeld
<1>8. QED
  BY <1>1, <1>2, <1>3, <1>5, <1>6, <1>7, Moving DEF Arrived, p, lower

\* The context is no longer counted.
LEMMA LeaveStep ==
    ASSUME NEW n, NEW b, NEW v, Layout(stack, Present, n, b, v), cpu \in CpuType, Leave
    PROVE  Arrived("registers", n, v)
<1> DEFINE p == b[n - 1]
           lower == v[n - 1]
<1>1. /\ cpu.at = "leave" /\ work' = work
      /\ cpu' = [at |-> "registers", op |-> cpu.op, acc |-> cpu.acc]
      /\ stack' = stack
  BY StepFacts DEF Leave
<1>2. cpu.at \in RoutineAt /\ Items(cpu.at) = 2 /\ Items("registers") = 2 /\ "registers" \in RoutineAt
  BY <1>1, Labels
<1>3. /\ p \in Nat /\ Present \in View /\ lower \in View /\ Frame(stack, p, Present, lower)
      /\ \E S : stack' \in Seq(S)
      /\ Len(stack') = p + 2
  BY <1>1, <1>2, TopFacts
<1>4. /\ Present'.at = "registers" /\ Present'.work = work
      /\ Present.at = "leave" /\ Present.work = work
  BY <1>1 DEF Present
<1>5. work' \in WorkType /\ cpu' \in CpuType /\ cpu'.at = "registers"
  BY <1>1, <1>2, <1>3, <1>4 DEF View, CpuType
<1> HIDE DEF p, lower
<1>6. Frame(stack', p, Present', lower)
  BY <1>1, <1>3, <1>4 DEF Frame, Held, AccHeld, Counted, WorkHeld, TimeHeld, CursorHeld, HeaderHeld
<1>7. QED
  BY <1>1, <1>2, <1>3, <1>5, <1>6, Moving DEF Arrived, p, lower

\* The registers come back.
LEMMA RestoreRegistersStep ==
    ASSUME NEW n, NEW b, NEW v, Layout(stack, Present, n, b, v), cpu \in CpuType, RestoreRegisters
    PROVE  Arrived("rti", n, v)
<1> DEFINE p == b[n - 1]
           lower == v[n - 1]
<1>1. /\ cpu.at = "registers" /\ work' = work
      /\ cpu' = [at |-> "rti", op |-> cpu.op, acc |-> Top]
      /\ stack' = Front(stack)
  BY StepFacts DEF RestoreRegisters, Pop
<1>2. cpu.at \in RoutineAt /\ Items(cpu.at) = 2 /\ Items("rti") = 1 /\ "rti" \in RoutineAt
  BY <1>1, Labels
<1>3. p \in Nat /\ Present \in View /\ lower \in View /\ Frame(stack, p, Present, lower)
  BY <1>2, TopFacts
<1>4. /\ \E S : stack' \in Seq(S)
      /\ Len(stack') = p + 1
      /\ \A k \in 1..p : stack'[k] = stack[k]
      /\ \A k \in 1..1 : stack'[p + k] = stack[p + k]
      /\ Top = stack[p + 2].of
  BY <1>1, <1>2, <1>3, PopFacts
<1>5. /\ Present'.at = "rti" /\ Present'.acc = Top /\ Present'.work = work
      /\ Present.at = "registers" /\ Present.work = work
  BY <1>1 DEF Present
<1> HIDE DEF p, lower
<1>6. Top = lower.acc
  BY <1>3, <1>4, <1>5 DEF Frame, Held, AccHeld, Counted, WorkHeld, TimeHeld, CursorHeld, HeaderHeld
<1>7. Frame(stack', p, Present', lower)
  BY <1>3, <1>4, <1>5, <1>6 DEF Frame, Held, AccHeld, Counted, WorkHeld, TimeHeld, CursorHeld, HeaderHeld
<1>8. work' \in WorkType /\ cpu' \in CpuType /\ cpu'.at = "rti"
  BY <1>1, <1>2, <1>3, <1>5, <1>6 DEF View, CpuType
<1>9. QED
  BY <1>2, <1>4, <1>7, <1>8, Moving DEF Arrived, p, lower

\* An interrupt: one level more.
LEMMA NmiStep ==
    ASSUME NEW n, NEW b, NEW v, Layout(stack, Present, n, b, v), cpu \in CpuType, Nmi
    PROVE  /\ cpu' \in CpuType /\ cpu'.at = "nmi" /\ n \in Nat
           /\ \E b2, v2 : Layout(stack', Present', n + 1, b2, v2) /\ \A i \in 0..n : v2[i] = v[i]
<1> DEFINE item == [kind |-> "pc", of |-> [at |-> cpu.at, op |-> cpu.op]]
<1>1. /\ work' = work /\ cpu' = [at |-> "nmi", op |-> cpu.op, acc |-> cpu.acc]
      /\ stack' = Append(stack, item)
  BY DEF Nmi, CpuType
<1>2. cpu' \in CpuType /\ cpu'.at = "nmi"
  BY <1>1, Labels DEF CpuType
<1>3. Present' = [at |-> "nmi", op |-> Present.op, acc |-> Present.acc, work |-> Present.work]
  BY <1>1 DEF Present
<1>4. item = [kind |-> "pc", of |-> [at |-> Present.at, op |-> Present.op]]
  BY DEF Present
<1> DEFINE b2 == [i \in 0..n + 1 |-> IF i = n + 1 THEN b[n] + 1 ELSE b[i]]
           v2 == [i \in 0..n + 1 |-> IF i = n + 1 THEN Present' ELSE v[i]]
<1> HIDE DEF item
<1>5. Layout(Append(stack, item), Present', n + 1, b2, v2)
  BY <1>3, <1>4, PushStep
<1>6. n \in Nat
  BY DEF Layout
<1>7. \A i \in 0..n : v2[i] = v[i]
  BY <1>6
<1>8. QED
  BY <1>1, <1>2, <1>5, <1>6, <1>7

\* A return: one level less, and the CPU and the scratch memory are as it left them.
LEMMA RtiStep ==
    ASSUME NEW n, NEW b, NEW v, Layout(stack, Present, n, b, v), cpu \in CpuType, Rti
    PROVE  /\ cpu' \in CpuType /\ n \in Nat \ {0} /\ v[n - 1] = Present'
           /\ \E b2, v2 : Layout(stack', Present', n - 1, b2, v2) /\ \A i \in 0..n - 1 : v2[i] = v[i]
<1>1. /\ cpu.at = "rti" /\ work' = work
      /\ cpu' = [at |-> Top.at, op |-> Top.op, acc |-> cpu.acc]
      /\ stack' = Front(stack)
  BY DEF Rti, Pop, CpuType
<1>2. n \in Nat \ {0} /\ v[n - 1] \in View
  BY <1>1, Labels, TopFacts
<1>3. Present.at = "rti" /\ Present.acc = cpu.acc /\ Present.work = work
  BY <1>1 DEF Present
<1> DEFINE b2 == [i \in 0..n - 1 |-> b[i]]
           v2 == [i \in 0..n - 1 |-> v[i]]
<1>4. /\ Last(stack) = [kind |-> "pc", of |-> [at |-> v[n - 1].at, op |-> v[n - 1].op]]
      /\ v[n - 1] = [at |-> v[n - 1].at, op |-> v[n - 1].op, acc |-> Present.acc, work |-> Present.work]
      /\ Layout(Front(stack), v[n - 1], n - 1, b2, v2)
  BY <1>2, <1>3, PopStep
<1>5. Top.at = v[n - 1].at /\ Top.op = v[n - 1].op
  BY <1>4 DEF Top
<1>6. Present' = v[n - 1]
  BY <1>1, <1>3, <1>4, <1>5 DEF Present
<1>7. cpu' \in CpuType
  BY <1>1, <1>2, <1>5 DEF View, CpuType
<1>8. \A i \in 0..n - 1 : v2[i] = v[i]
  BY <1>2
<1> HIDE DEF b2, v2
<1>9. QED
  BY <1>1, <1>2, <1>4, <1>6, <1>7, <1>8

-----------------------------------------------------------------------------
\* The counts.

\* The levels at some places, counted with the topmost one and without.
LEMMA LevelsTop ==
    ASSUME NEW n \in Nat \ {0}, NEW v, NEW where
    PROVE  /\ Cardinality(Levels(n, v, where)) \in Nat
           /\ Cardinality(Levels(n - 1, v, where)) \in Nat
           /\ Cardinality(Levels(n, v, where)) =
                Cardinality(Levels(n - 1, v, where)) + (IF v[n].at \in where THEN 1 ELSE 0)
           /\ Cardinality(Levels(n - 1, v, where)) <= n - 1
<1> DEFINE below == Levels(n - 1, v, where)
<1>1. below \in SUBSET (1..n - 1) /\ n \notin below
  BY DEF Levels
<1>2. IsFiniteSet(1..n - 1) /\ Cardinality(1..n - 1) = n - 1
  BY FS_Interval
<1>3. IsFiniteSet(below) /\ Cardinality(below) <= n - 1
  BY <1>1, <1>2, FS_Subset
<1>4. Levels(n, v, where) = IF v[n].at \in where THEN below \cup {n} ELSE below
  BY DEF Levels
<1> HIDE DEF below
<1>5. Cardinality(below) \in Nat /\ Cardinality(below \cup {n}) = Cardinality(below) + 1
  BY <1>1, <1>3, FS_CardinalityType, FS_AddElement
<1>6. QED
  BY <1>3, <1>4, <1>5 DEF below

\* A level changes its address: it may enter or leave what is counted.
LEMMA LevelsMove ==
    ASSUME NEW n \in Nat \ {0}, NEW v, NEW v2, \A i \in 0..n - 1 : v2[i] = v[i], NEW where
    PROVE  /\ Cardinality(Levels(n, v2, where)) \in Nat
           /\ Cardinality(Levels(n, v2, where)) + (IF v[n].at \in where THEN 1 ELSE 0) =
                Cardinality(Levels(n, v, where)) + (IF v2[n].at \in where THEN 1 ELSE 0)
<1>1. Levels(n - 1, v2, where) = Levels(n - 1, v, where)
  BY DEF Levels
<1>2. QED
  BY <1>1, LevelsTop

\* Views that agree give the same levels.
LEMMA LevelsSame ==
    ASSUME NEW n \in Nat, NEW v, NEW v2, \A i \in 0..n : v2[i] = v[i], NEW where
    PROVE  Levels(n, v2, where) = Levels(n, v, where)
BY DEF Levels

\* A push changes the count of its kind of item.
LEMMA PushCount ==
    ASSUME NEW n, NEW b, NEW v, Layout(stack, Present, n, b, v), NEW item,
           stack' = Append(stack, item), NEW kind
    PROVE  Stacked(kind)' = Stacked(kind) + (IF item.kind = kind THEN 1 ELSE 0)
<1>1. PICK S : stack \in Seq(S)
  BY DEF Layout
<1>2. CountOf(Append(stack, item), kind) = CountOf(stack, kind) + (IF item.kind = kind THEN 1 ELSE 0)
  BY <1>1, CountAppend
<1>3. Stacked(kind) = CountOf(stack, kind)
  BY DEF Stacked, CountOf
<1>4. Stacked(kind)' = CountOf(stack', kind)
  BY DEF Stacked, CountOf
<1>5. QED
  BY <1>2, <1>3, <1>4

\* A pop changes the count of its kind of item.
LEMMA PopCount ==
    ASSUME NEW n, NEW b, NEW v, Layout(stack, Present, n, b, v), cpu.at \in RoutineAt,
           stack' = Front(stack), NEW kind
    PROVE  /\ Stacked(kind) \in Nat /\ Stacked(kind)' \in Nat
           /\ Stacked(kind) = Stacked(kind)' + (IF stack[Len(stack)].kind = kind THEN 1 ELSE 0)
<1>1. PICK S : stack \in Seq(S)
  BY DEF Layout
<1>2. Len(stack) > 0
  <2>1. Len(stack) = b[n - 1] + Items(cpu.at) /\ b[n - 1] \in Nat /\ Items(cpu.at) \in 1..6
    BY TopFacts, ItemsFacts
  <2>2. QED
    BY <2>1
<1>3. /\ CountOf(stack, kind) \in Nat
      /\ CountOf(stack, kind) = CountOf(Front(stack), kind) + (IF stack[Len(stack)].kind = kind THEN 1 ELSE 0)
  BY <1>1, <1>2, CountFront
<1>4. Front(stack) \in Seq(S)
  BY <1>1, <1>2 DEF Front
<1>5. CountOf(Front(stack), kind) \in Nat
  BY <1>4, CountAppend
<1>6. Stacked(kind) = CountOf(stack, kind)
  BY DEF Stacked, CountOf
<1>7. Stacked(kind)' = CountOf(stack', kind)
  BY DEF Stacked, CountOf
<1>8. QED
  BY <1>3, <1>5, <1>6, <1>7

\* What lies on top of the stack, by the address of the routine.
LEMMA TopKind ==
    ASSUME NEW n, NEW b, NEW v, Layout(stack, Present, n, b, v), cpu.at \in RoutineAt
    PROVE  /\ cpu.at = "headerBack" => stack[Len(stack)].kind = "header"
           /\ cpu.at = "cursorBack" => stack[Len(stack)].kind = "cursor"
           /\ cpu.at = "timeBack" => stack[Len(stack)].kind = "time"
           /\ cpu.at = "workBack" => stack[Len(stack)].kind = "work"
           /\ cpu.at = "registers" => stack[Len(stack)].kind = "acc"
           /\ cpu.at = "rti" => stack[Len(stack)].kind = "pc"
<1> DEFINE p == b[n - 1]
           lower == v[n - 1]
<1>1. Len(stack) = p + Items(cpu.at) /\ Frame(stack, p, Present, lower) /\ Present.at = cpu.at
  BY TopFacts DEF Present
<1> HIDE DEF p, lower
<1>2. QED
  BY <1>1, Labels DEF Frame, Held, AccHeld, Counted, WorkHeld, TimeHeld, CursorHeld, HeaderHeld

\* A step of the routine keeps the counts.
LEMMA CountMove ==
    ASSUME NEW n \in Nat \ {0}, NEW b, NEW v, Layout(stack, Present, n, b, v), CountInv(n, v),
           NEW b2, NEW v2, Layout(stack', Present', n, b2, v2), \A i \in 0..n - 1 : v2[i] = v[i],
           Interrupts' = Interrupts,
           Contexts' + (IF cpu.at \in WorkHeld THEN 1 ELSE 0) =
               Contexts + (IF cpu'.at \in WorkHeld THEN 1 ELSE 0),
           depth' + (IF cpu.at \in Counted THEN 1 ELSE 0) =
               depth + (IF cpu'.at \in Counted THEN 1 ELSE 0),
           Contexts' \in Int, depth' \in Int, depth' <= 2
    PROVE  CountInv(n, v2)'
<1>1. v[n].at = cpu.at /\ v2[n].at = cpu'.at
  BY DEF Layout, Present
<1>2. \A where : /\ Cardinality(Levels(n, v, where)) \in Nat
                 /\ Cardinality(Levels(n, v2, where)) \in Nat
                 /\ Cardinality(Levels(n, v2, where)) + (IF cpu.at \in where THEN 1 ELSE 0) =
                    Cardinality(Levels(n, v, where)) + (IF cpu'.at \in where THEN 1 ELSE 0)
  <2> TAKE where
  <2> HIDE DEF Layout
  <2>1. Cardinality(Levels(n, v, where)) \in Nat
    BY LevelsTop
  <2>2. QED
    BY <1>1, <2>1, LevelsMove
<1> DEFINE h == Cardinality(Levels(n, v, WorkHeld))
           h2 == Cardinality(Levels(n, v2, WorkHeld))
           c == Cardinality(Levels(n, v, Counted))
           c2 == Cardinality(Levels(n, v2, Counted))
<1>3. /\ h \in Nat /\ h2 \in Nat /\ c \in Nat /\ c2 \in Nat
      /\ h2 + (IF cpu.at \in WorkHeld THEN 1 ELSE 0) = h + (IF cpu'.at \in WorkHeld THEN 1 ELSE 0)
      /\ c2 + (IF cpu.at \in Counted THEN 1 ELSE 0) = c + (IF cpu'.at \in Counted THEN 1 ELSE 0)
  BY <1>2
<1>4. Interrupts = n /\ Contexts = h /\ depth = c
  BY DEF CountInv
<1> DEFINE from(where) == IF cpu.at \in where THEN 1 ELSE 0
           to(where) == IF cpu'.at \in where THEN 1 ELSE 0
<1>5. \A where : from(where) \in {0, 1} /\ to(where) \in {0, 1}
  OBVIOUS
<1> HIDE DEF h, h2, c, c2
<1>6. Contexts' = h2 /\ depth' = c2
  <2>1. Contexts' + from(WorkHeld) = h + to(WorkHeld) /\ h2 + from(WorkHeld) = h + to(WorkHeld)
    BY <1>3, <1>4
  <2>2. depth' + from(Counted) = c + to(Counted) /\ c2 + from(Counted) = c + to(Counted)
    BY <1>3, <1>4
  <2>3. Contexts' \in Int /\ depth' \in Int /\ h \in Nat /\ h2 \in Nat /\ c \in Nat /\ c2 \in Nat
    BY <1>3
  <2> HIDE DEF from, to
  <2>4. \A x, y \in Int : \A d \in {0, 1}, e \in Int : x + d = e /\ y + d = e => x = y
    OBVIOUS
  <2>5. /\ from(WorkHeld) \in {0, 1} /\ h + to(WorkHeld) \in Int
        /\ from(Counted) \in {0, 1} /\ c + to(Counted) \in Int
    BY <1>5, <2>3
  <2>6. QED
    BY <2>1, <2>2, <2>3, <2>4, <2>5
<1>7. CountInv(n, v2)' <=> (/\ Interrupts' = n /\ Contexts' = h2
                            /\ depth' = c2 /\ depth' <= 2)
  BY DEF CountInv, h2, c2, Levels
<1>8. QED
  BY <1>4, <1>6, <1>7

\* What is counted, once the level of the driver is left as it was.
LevelsAfter(v) ==
    /\ cpu' \in CpuType
    /\ \E n2, b2, v2 : Layout(stack', Present', n2, b2, v2) /\ v2[0] = v[0] /\ CountInv(n2, v2)'

\* The places between the counting of an interrupt and its end, spelled out.
LEMMA LabelCounts ==
    /\ WorkHeld = {"poison", "headerBack", "saveHeader", "cursorBack", "saveCursor", "timeBack",
                   "saveTime", "workBack"}
    /\ Counted = WorkHeld \cup {"saveWork", "leave"}
BY DEF Counted, WorkHeld, TimeHeld, CursorHeld, HeaderHeld

\* The counts are numbers, and the depth is at most two.
LEMMA CountTypes ==
    ASSUME NEW n, NEW b, NEW v, Layout(stack, Present, n, b, v), CountInv(n, v), n # 0
    PROVE  /\ n \in Nat \ {0} /\ Interrupts \in Nat /\ Contexts \in Nat /\ depth \in 0..2
<1>1. n \in Nat \ {0}
  BY DEF Layout
<1>2. \A where : Cardinality(Levels(n, v, where)) \in Nat
  BY <1>1, LevelsTop
<1>3. QED
  BY <1>1, <1>2 DEF CountInv

\* A step within the topmost level keeps the counts when it moves them as its places say.
LEMMA Settled ==
    ASSUME NEW n, NEW b, NEW v, Layout(stack, Present, n, b, v), CountInv(n, v),
           cpu.at \in RoutineAt, NEW to, Arrived(to, n, v),
           Interrupts' = Interrupts,
           Contexts' + (IF cpu.at \in WorkHeld THEN 1 ELSE 0) =
               Contexts + (IF to \in WorkHeld THEN 1 ELSE 0),
           depth' + (IF cpu.at \in Counted THEN 1 ELSE 0) =
               depth + (IF to \in Counted THEN 1 ELSE 0),
           Contexts' \in Int, depth' \in Int, depth' <= 2
    PROVE  LevelsAfter(v)
<1>1. n \in Nat \ {0}
  BY TopFacts
<1>2. PICK b2, v2 : /\ Layout(stack', Present', n, b2, v2)
                    /\ \A i \in 0..n - 1 : v2[i] = v[i]
  BY DEF Arrived, Moved
<1>3. CountInv(n, v2)'
  BY <1>1, <1>2, CountMove DEF Arrived
<1>4. v2[0] = v[0]
  BY <1>1, <1>2
<1>5. QED
  BY <1>2, <1>3, <1>4 DEF LevelsAfter, Arrived

\* A step of the routine moves its own level.
LEMMA RoutineSteps ==
    ASSUME NEW n, NEW b, NEW v, Layout(stack, Present, n, b, v), CountInv(n, v),
           cpu \in CpuType, Routine
    PROVE  LevelsAfter(v) \/ Rti
<1> USE DEF Interrupts, Contexts
<1>1. CASE Admit
  <2>1. cpu.at = "nmi" /\ depth' = (IF Room THEN depth + 1 ELSE depth) /\ stack' = Append(stack, [kind |-> "acc", of |-> cpu.acc])
    BY <1>1 DEF Admit, Step, Push, Room
  <2>2. cpu.at \in RoutineAt
    BY <2>1, Labels
  <2>3. /\ Interrupts \in Nat /\ Contexts \in Nat /\ depth \in 0..2
    BY <2>2, TopFacts, CountTypes
  <2>4. Interrupts' = Interrupts /\ Contexts' = Contexts
    <3> DEFINE item == [kind |-> "acc", of |-> cpu.acc]
    <3>1. stack' = Append(stack, item) /\ item.kind = "acc"
      BY <2>1
    <3> HIDE DEF item
    <3>2. \A k : Stacked(k)' = Stacked(k) + (IF item.kind = k THEN 1 ELSE 0)
      BY <3>1, PushCount
    <3>3. QED
      BY <2>3, <3>1, <3>2
  <2>5. Arrived(IF Room THEN "saveWork" ELSE "registers", n, v)
    BY <1>1, AdmitStep
  <2>6. LevelsAfter(v)
    BY <2>1, <2>2, <2>3, <2>4, <2>5, LabelCounts, Settled DEF Room
  <2>7. QED
    BY <2>6
<1>2. CASE SaveWork
  <2>1. cpu.at = "saveWork" /\ depth' = depth /\ stack' = Append(stack, [kind |-> "work", of |-> [gc |-> work.gc, gi |-> work.gi]])
    BY <1>2 DEF SaveWork, Step, SaveStep, Push
  <2>2. cpu.at \in RoutineAt
    BY <2>1, Labels
  <2>3. /\ Interrupts \in Nat /\ Contexts \in Nat /\ depth \in 0..2
    BY <2>2, TopFacts, CountTypes
  <2>4. Interrupts' = Interrupts /\ Contexts' = Contexts + 1
    <3> DEFINE item == [kind |-> "work", of |-> [gc |-> work.gc, gi |-> work.gi]]
    <3>1. stack' = Append(stack, item) /\ item.kind = "work"
      BY <2>1
    <3> HIDE DEF item
    <3>2. \A k : Stacked(k)' = Stacked(k) + (IF item.kind = k THEN 1 ELSE 0)
      BY <3>1, PushCount
    <3>3. QED
      BY <2>3, <3>1, <3>2
  <2>5. Arrived("saveTime", n, v)
    BY <1>2, SaveWorkStep
  <2>6. LevelsAfter(v)
    BY <2>1, <2>2, <2>3, <2>4, <2>5, LabelCounts, Settled
  <2>7. QED
    BY <2>6
<1>3. CASE SaveTime
  <2>1. cpu.at = "saveTime" /\ depth' = depth /\ stack' = Append(stack, [kind |-> "time", of |-> work.gt])
    BY <1>3 DEF SaveTime, Step, SaveStep, Push
  <2>2. cpu.at \in RoutineAt
    BY <2>1, Labels
  <2>3. /\ Interrupts \in Nat /\ Contexts \in Nat /\ depth \in 0..2
    BY <2>2, TopFacts, CountTypes
  <2>4. Interrupts' = Interrupts /\ Contexts' = Contexts
    <3> DEFINE item == [kind |-> "time", of |-> work.gt]
    <3>1. stack' = Append(stack, item) /\ item.kind = "time"
      BY <2>1
    <3> HIDE DEF item
    <3>2. \A k : Stacked(k)' = Stacked(k) + (IF item.kind = k THEN 1 ELSE 0)
      BY <3>1, PushCount
    <3>3. QED
      BY <2>3, <3>1, <3>2
  <2>5. Arrived("saveCursor", n, v)
    BY <1>3, SaveTimeStep
  <2>6. LevelsAfter(v)
    BY <2>1, <2>2, <2>3, <2>4, <2>5, LabelCounts, Settled
  <2>7. QED
    BY <2>6
<1>4. CASE SaveCursor
  <2>1. cpu.at = "saveCursor" /\ depth' = depth /\ stack' = Append(stack, [kind |-> "cursor", of |-> work.cursor])
    BY <1>4 DEF SaveCursor, Step, SaveStep, Push
  <2>2. cpu.at \in RoutineAt
    BY <2>1, Labels
  <2>3. /\ Interrupts \in Nat /\ Contexts \in Nat /\ depth \in 0..2
    BY <2>2, TopFacts, CountTypes
  <2>4. Interrupts' = Interrupts /\ Contexts' = Contexts
    <3> DEFINE item == [kind |-> "cursor", of |-> work.cursor]
    <3>1. stack' = Append(stack, item) /\ item.kind = "cursor"
      BY <2>1
    <3> HIDE DEF item
    <3>2. \A k : Stacked(k)' = Stacked(k) + (IF item.kind = k THEN 1 ELSE 0)
      BY <3>1, PushCount
    <3>3. QED
      BY <2>3, <3>1, <3>2
  <2>5. Arrived("saveHeader", n, v)
    BY <1>4, SaveCursorStep
  <2>6. LevelsAfter(v)
    BY <2>1, <2>2, <2>3, <2>4, <2>5, LabelCounts, Settled
  <2>7. QED
    BY <2>6
<1>5. CASE SaveHeader
  <2>1. cpu.at = "saveHeader" /\ depth' = depth /\ stack' = Append(stack, [kind |-> "header", of |-> work.header])
    BY <1>5 DEF SaveHeader, Step, SaveStep, Push
  <2>2. cpu.at \in RoutineAt
    BY <2>1, Labels
  <2>3. /\ Interrupts \in Nat /\ Contexts \in Nat /\ depth \in 0..2
    BY <2>2, TopFacts, CountTypes
  <2>4. Interrupts' = Interrupts /\ Contexts' = Contexts
    <3> DEFINE item == [kind |-> "header", of |-> work.header]
    <3>1. stack' = Append(stack, item) /\ item.kind = "header"
      BY <2>1
    <3> HIDE DEF item
    <3>2. \A k : Stacked(k)' = Stacked(k) + (IF item.kind = k THEN 1 ELSE 0)
      BY <3>1, PushCount
    <3>3. QED
      BY <2>3, <3>1, <3>2
  <2>5. Arrived("poison", n, v)
    BY <1>5, SaveHeaderStep
  <2>6. LevelsAfter(v)
    BY <2>1, <2>2, <2>3, <2>4, <2>5, LabelCounts, Settled
  <2>7. QED
    BY <2>6
<1>6. CASE Poison
  <2>1. cpu.at = "poison" /\ depth' = depth /\ stack' = stack
    BY <1>6 DEF Poison, Step, host
  <2>2. cpu.at \in RoutineAt
    BY <2>1, Labels
  <2>3. /\ Interrupts \in Nat /\ Contexts \in Nat /\ depth \in 0..2
    BY <2>2, TopFacts, CountTypes
  <2>4. Interrupts' = Interrupts /\ Contexts' = Contexts
    BY <2>1, <2>3 DEF Stacked
  <2>5. Arrived("headerBack", n, v)
    BY <1>6, PoisonStep
  <2>6. LevelsAfter(v)
    BY <2>1, <2>2, <2>3, <2>4, <2>5, LabelCounts, Settled
  <2>7. QED
    BY <2>6
<1>7. CASE RestoreHeader
  <2>1. cpu.at = "headerBack" /\ depth' = depth /\ stack' = Front(stack)
    BY <1>7 DEF RestoreHeader, Step, RestoreStep, Pop
  <2>2. cpu.at \in RoutineAt
    BY <2>1, Labels
  <2>3. /\ Interrupts \in Nat /\ Contexts \in Nat /\ depth \in 0..2
    BY <2>2, TopFacts, CountTypes
  <2>4. Interrupts' = Interrupts /\ Contexts' = Contexts
    <3>1. stack[Len(stack)].kind = "header"
      BY <2>1, <2>2, TopKind
    <3>2. \A k : /\ Stacked(k) \in Nat /\ Stacked(k)' \in Nat
                 /\ Stacked(k) = Stacked(k)' + (IF stack[Len(stack)].kind = k THEN 1 ELSE 0)
      BY <2>1, <2>2, PopCount
    <3>3. QED
      BY <2>3, <3>1, <3>2
  <2>5. Arrived("cursorBack", n, v)
    BY <1>7, RestoreHeaderStep
  <2>6. LevelsAfter(v)
    BY <2>1, <2>2, <2>3, <2>4, <2>5, LabelCounts, Settled
  <2>7. QED
    BY <2>6
<1>8. CASE RestoreCursor
  <2>1. cpu.at = "cursorBack" /\ depth' = depth /\ stack' = Front(stack)
    BY <1>8 DEF RestoreCursor, Step, RestoreStep, Pop
  <2>2. cpu.at \in RoutineAt
    BY <2>1, Labels
  <2>3. /\ Interrupts \in Nat /\ Contexts \in Nat /\ depth \in 0..2
    BY <2>2, TopFacts, CountTypes
  <2>4. Interrupts' = Interrupts /\ Contexts' = Contexts
    <3>1. stack[Len(stack)].kind = "cursor"
      BY <2>1, <2>2, TopKind
    <3>2. \A k : /\ Stacked(k) \in Nat /\ Stacked(k)' \in Nat
                 /\ Stacked(k) = Stacked(k)' + (IF stack[Len(stack)].kind = k THEN 1 ELSE 0)
      BY <2>1, <2>2, PopCount
    <3>3. QED
      BY <2>3, <3>1, <3>2
  <2>5. Arrived("timeBack", n, v)
    BY <1>8, RestoreCursorStep
  <2>6. LevelsAfter(v)
    BY <2>1, <2>2, <2>3, <2>4, <2>5, LabelCounts, Settled
  <2>7. QED
    BY <2>6
<1>9. CASE RestoreTime
  <2>1. cpu.at = "timeBack" /\ depth' = depth /\ stack' = Front(stack)
    BY <1>9 DEF RestoreTime, Step, RestoreStep, Pop
  <2>2. cpu.at \in RoutineAt
    BY <2>1, Labels
  <2>3. /\ Interrupts \in Nat /\ Contexts \in Nat /\ depth \in 0..2
    BY <2>2, TopFacts, CountTypes
  <2>4. Interrupts' = Interrupts /\ Contexts' = Contexts
    <3>1. stack[Len(stack)].kind = "time"
      BY <2>1, <2>2, TopKind
    <3>2. \A k : /\ Stacked(k) \in Nat /\ Stacked(k)' \in Nat
                 /\ Stacked(k) = Stacked(k)' + (IF stack[Len(stack)].kind = k THEN 1 ELSE 0)
      BY <2>1, <2>2, PopCount
    <3>3. QED
      BY <2>3, <3>1, <3>2
  <2>5. Arrived("workBack", n, v)
    BY <1>9, RestoreTimeStep
  <2>6. LevelsAfter(v)
    BY <2>1, <2>2, <2>3, <2>4, <2>5, LabelCounts, Settled
  <2>7. QED
    BY <2>6
<1>10. CASE RestoreWork
  <2>1. cpu.at = "workBack" /\ depth' = depth /\ stack' = Front(stack)
    BY <1>10 DEF RestoreWork, Step, RestoreStep, Pop
  <2>2. cpu.at \in RoutineAt
    BY <2>1, Labels
  <2>3. /\ Interrupts \in Nat /\ Contexts \in Nat /\ depth \in 0..2
    BY <2>2, TopFacts, CountTypes
  <2>4. Interrupts' = Interrupts /\ Contexts' = Contexts - 1
    <3>1. stack[Len(stack)].kind = "work"
      BY <2>1, <2>2, TopKind
    <3>2. \A k : /\ Stacked(k) \in Nat /\ Stacked(k)' \in Nat
                 /\ Stacked(k) = Stacked(k)' + (IF stack[Len(stack)].kind = k THEN 1 ELSE 0)
      BY <2>1, <2>2, PopCount
    <3>3. QED
      BY <2>3, <3>1, <3>2
  <2>5. Arrived("leave", n, v)
    BY <1>10, RestoreWorkStep
  <2>6. LevelsAfter(v)
    BY <2>1, <2>2, <2>3, <2>4, <2>5, LabelCounts, Settled
  <2>7. QED
    BY <2>6
<1>11. CASE Leave
  <2>1. cpu.at = "leave" /\ depth' = depth - 1 /\ stack' = stack
    BY <1>11 DEF Leave, Step
  <2>2. cpu.at \in RoutineAt
    BY <2>1, Labels
  <2>3. /\ Interrupts \in Nat /\ Contexts \in Nat /\ depth \in 0..2
    BY <2>2, TopFacts, CountTypes
  <2>4. Interrupts' = Interrupts /\ Contexts' = Contexts
    BY <2>1, <2>3 DEF Stacked
  <2>5. Arrived("registers", n, v)
    BY <1>11, LeaveStep
  <2>6. LevelsAfter(v)
    BY <2>1, <2>2, <2>3, <2>4, <2>5, LabelCounts, Settled
  <2>7. QED
    BY <2>6
<1>12. CASE RestoreRegisters
  <2>1. cpu.at = "registers" /\ depth' = depth /\ stack' = Front(stack)
    BY <1>12 DEF RestoreRegisters, Step, Pop
  <2>2. cpu.at \in RoutineAt
    BY <2>1, Labels
  <2>3. /\ Interrupts \in Nat /\ Contexts \in Nat /\ depth \in 0..2
    BY <2>2, TopFacts, CountTypes
  <2>4. Interrupts' = Interrupts /\ Contexts' = Contexts
    <3>1. stack[Len(stack)].kind = "acc"
      BY <2>1, <2>2, TopKind
    <3>2. \A k : /\ Stacked(k) \in Nat /\ Stacked(k)' \in Nat
                 /\ Stacked(k) = Stacked(k)' + (IF stack[Len(stack)].kind = k THEN 1 ELSE 0)
      BY <2>1, <2>2, PopCount
    <3>3. QED
      BY <2>3, <3>1, <3>2
  <2>5. Arrived("rti", n, v)
    BY <1>12, RestoreRegistersStep
  <2>6. LevelsAfter(v)
    BY <2>1, <2>2, <2>3, <2>4, <2>5, LabelCounts, Settled
  <2>7. QED
    BY <2>6
<1>13. QED
  BY <1>1, <1>2, <1>3, <1>4, <1>5, <1>6, <1>7, <1>8, <1>9, <1>10, <1>11, <1>12 DEF Routine

\* An interrupt adds a level that holds nothing yet, a return takes one that holds nothing.
LEMMA NmiCounts ==
    ASSUME NEW n, NEW b, NEW v, Layout(stack, Present, n, b, v), CountInv(n, v),
           cpu \in CpuType, Nmi
    PROVE  LevelsAfter(v)
<1> DEFINE item == [kind |-> "pc", of |-> [at |-> cpu.at, op |-> cpu.op]]
<1>1. n \in Nat /\ cpu' \in CpuType /\ cpu'.at = "nmi"
  BY NmiStep
<1>2. PICK b2, v2 : Layout(stack', Present', n + 1, b2, v2) /\ \A i \in 0..n : v2[i] = v[i]
  BY NmiStep
<1>3. v2[n + 1].at = "nmi"
  BY <1>1, <1>2 DEF Layout, Present
<1>4. ASSUME NEW where, "nmi" \notin where
      PROVE  Cardinality(Levels(n + 1, v2, where)) = Cardinality(Levels(n, v, where))
  <2>1. Levels(n + 1, v2, where) = Levels(n, v, where)
    BY <1>1, <1>2, <1>3, <1>4 DEF Levels
  <2>2. QED
    BY <2>1
<1>5. "nmi" \notin WorkHeld /\ "nmi" \notin Counted
  BY LabelCounts
<1>6. stack' = Append(stack, item) /\ item.kind = "pc" /\ depth' = depth
  BY DEF Nmi
<1> HIDE DEF item
<1>7. Interrupts' = Interrupts + 1 /\ Contexts' = Contexts + 0
  BY <1>6, PushCount DEF Interrupts, Contexts
<1>8. Contexts \in Nat
  <2>1. \E S : stack \in Seq(S)
    BY DEF Layout
  <2>2. CountOf(stack, "work") \in Nat
    BY <2>1, CountAppend
  <2>3. QED
    BY <2>2 DEF Contexts, Stacked, CountOf
<1>9. CountInv(n + 1, v2)'
  <2>1. /\ Interrupts' = n + 1
        /\ Contexts' = Cardinality(Levels(n + 1, v2, WorkHeld))
        /\ depth' = Cardinality(Levels(n + 1, v2, Counted)) /\ depth' <= 2
    BY <1>4, <1>5, <1>6, <1>7, <1>8 DEF CountInv
  <2>2. QED
    BY <2>1 DEF CountInv, Levels
<1>10. v2[0] = v[0]
  BY <1>1, <1>2
<1>11. QED
  BY <1>1, <1>2, <1>9, <1>10 DEF LevelsAfter

\* RTI ends the topmost level and its counts.
LEMMA RtiCounts ==
    ASSUME NEW n, NEW b, NEW v, Layout(stack, Present, n, b, v), CountInv(n, v),
           cpu \in CpuType, Rti
    PROVE  LevelsAfter(v)
<1>1. n \in Nat \ {0} /\ cpu' \in CpuType
  BY RtiStep
<1>2. PICK b2, v2 : Layout(stack', Present', n - 1, b2, v2) /\ \A i \in 0..n - 1 : v2[i] = v[i]
  BY RtiStep
<1>3. cpu.at = "rti" /\ cpu.at \in RoutineAt /\ stack' = Front(stack) /\ depth' = depth
  BY Labels DEF Rti, Pop
<1>4. v[n].at = "rti"
  BY <1>3 DEF Layout, Present
<1>5. ASSUME NEW where, "rti" \notin where
      PROVE  Cardinality(Levels(n - 1, v2, where)) = Cardinality(Levels(n, v, where))
  <2>1. Levels(n - 1, v2, where) = Levels(n, v, where)
    BY <1>1, <1>2, <1>4, <1>5 DEF Levels
  <2>2. QED
    BY <2>1
<1>6. "rti" \notin WorkHeld /\ "rti" \notin Counted
  BY LabelCounts
<1>7. stack[Len(stack)].kind = "pc"
  BY <1>3, TopKind
<1>8. Interrupts = Interrupts' + 1 /\ Contexts' = Contexts /\ Interrupts' \in Nat
  <2>1. \A k : /\ Stacked(k) \in Nat /\ Stacked(k)' \in Nat
               /\ Stacked(k) = Stacked(k)' + (IF stack[Len(stack)].kind = k THEN 1 ELSE 0)
    BY <1>3, PopCount
  <2>2. QED
    BY <1>7, <2>1 DEF Interrupts, Contexts
<1>9. CountInv(n - 1, v2)'
  <2>1. Interrupts' = n - 1
    <3>1. \A x \in Nat, y \in Nat : y = x + 1 => x = y - 1
      OBVIOUS
    <3>2. n = Interrupts' + 1
      BY <1>8 DEF CountInv
    <3>3. QED
      BY <1>1, <1>8, <3>1, <3>2
  <2>2. /\ Contexts' = Cardinality(Levels(n - 1, v2, WorkHeld))
        /\ depth' = Cardinality(Levels(n - 1, v2, Counted)) /\ depth' <= 2
    BY <1>3, <1>5, <1>6, <1>8 DEF CountInv
  <2>3. QED
    BY <2>1, <2>2 DEF CountInv, Levels
<1>10. v2[0] = v[0]
  BY <1>1, <1>2
<1>11. QED
  BY <1>1, <1>2, <1>9, <1>10 DEF LevelsAfter

-----------------------------------------------------------------------------
\* The steps of the driver, on its view.
LEMMA WordSum ==
    ASSUME NEW lo \in 0..Word - 1, NEW k \in 0..7
    PROVE  /\ (lo + k) % Word \in 0..Word - 1 /\ (lo + k) \div Word \in {0, 1}
           /\ ((lo + k) % Word) + ((lo + k) \div Word) * Word = lo + k
<1>1. Word \in Nat /\ Word >= 14 /\ lo + k \in 0..2 * Word - 1
  BY ClockAssumption
<1>2. CASE lo + k < Word
  <2>1. (lo + k) % Word = lo + k /\ (lo + k) \div Word = 0
    BY <1>1, <1>2
  <2>2. QED
    BY <1>1, <1>2, <2>1
<1>3. CASE lo + k >= Word
  <2>1. (lo + k) % Word = lo + k - Word /\ (lo + k) \div Word = 1
    BY <1>1, <1>3
  <2>2. QED
    BY <1>1, <1>3, <2>1
<1>4. QED
  BY <1>1, <1>2, <1>3



\* The helpers of the abstract timeline, by their values here.
LEMMA GuestViews ==
    /\ \A j, now : Guest!Due(j, now) <=> events[j].cycle <= now
    /\ \A i, m : Guest!LineAfter(i, m) = (IF m = i THEN LastRow.irq ELSE events[m].irq)
    /\ \A i, m : Guest!LatchAfter(i, m) = (LastRow.nmi \/ \E j \in i + 1..m : events[j].nmi)
    /\ \A i, m, now : Guest!LoopStops(i, m, now) <=>
           /\ \A j \in i + 1..m : events[j].cycle <= now
           /\ m < Len(events) => ~(events[m + 1].cycle <= now)
BY DEF Guest!Due, Guest!LineAfter, Guest!LatchAfter, Guest!LoopStops, LastRow

\* A view stays good while the schedule, the rows and the outcome do.
LEMMA QuietKeeps ==
    ASSUME NEW t, UNCHANGED <<events, out, outcome>>, DriverInv(t)
    PROVE  DriverInv(t)'
<1>1. LastRow' = LastRow
  BY DEF LastRow, Written
<1>2. RowsInv(t)' <=> RowsInv(t)
  BY DEF RowsInv, Captured
<1>3. BeforeInv(t)' <=> BeforeInv(t)
  BY <1>1 DEF BeforeInv, Time
<1>4. OpInv(t)' <=> OpInv(t)
  BY <1>1 DEF OpInv, Guest!ClockFull, Guest!FlagAfter
<1>5. ClockInv(t)' <=> ClockInv(t)
  BY <1>1 DEF ClockInv, Time
<1>6. TakenInv(t)' <=> TakenInv(t)
  BY <1>1 DEF TakenInv, Guest!Due, Guest!LineAfter, Guest!LatchAfter, Guest!LoopStops, LastRow
<1>7. BoundaryInv(t)' <=> BoundaryInv(t)
  BY <1>1 DEF BoundaryInv, Guest!Decision, Guest!EntryCost, Guest!PolledI
<1>8. \A row : Follows(row)' <=> Follows(row)
  BY <1>1 DEF Follows, FollowsAs, Guest!FlagAfter, Guest!Decision, Guest!PolledI, Guest!EntryCost,
       Guest!ClockFull
<1>9. RowInv(t)' <=> RowInv(t)
  BY <1>8 DEF RowInv, RowOf, CarriedRow, Time
<1>10. EndInv(t)' <=> EndInv(t)
  BY <1>1 DEF EndInv, Captured, Guest!ClockFull
<1>11. QED
  BY <1>1, <1>2, <1>3, <1>4, <1>5, <1>6, <1>7, <1>9, <1>10 DEF DriverInv

\* A schedule is a sequence of events.
LEMMA PlanFacts ==
    ASSUME events \in Plans
    PROVE  /\ Len(events) \in Nat
           /\ \A j \in 1..Len(events) : /\ events[j].cycle \in Nat
                                        /\ events[j].irq \in BOOLEAN /\ events[j].nmi \in BOOLEAN
<1>1. events \in Seq(Guest!Event)
  BY PlansAssumption
<1>2. \A j \in 1..Len(events) : events[j] \in Guest!Event
  BY <1>1
<1>3. QED
  BY <1>1, <1>2 DEF Guest!Event

\* An instruction has a kind and costs 2 to 7 cycles.
LEMMA OpFacts ==
    ASSUME NEW op \in Ops
    PROVE  op.kind \in Kinds /\ op.cost \in 2..7
BY OpsAssumption DEF Guest!Op, Kinds

\* The words of a time that fits.
LEMMA HighSum ==
    ASSUME NEW hi \in 0..Highs - 1, NEW a \in {0, 1}, NEW lo \in 0..Word - 1,
           hi * Word + lo + a * Word < Word * Highs
    PROVE  /\ (hi + a) % Highs = hi + a /\ hi + a \in 0..Highs - 1
           /\ (hi + a) * Word + lo = hi * Word + lo + a * Word
<1>1. Word \in Nat /\ Word >= 14 /\ Highs \in Nat \ {0}
  BY ClockAssumption
<1>2. (hi + a) * Word = hi * Word + a * Word
  BY <1>1
<1>3. hi + a < Highs
  <2>1. ASSUME hi + a >= Highs PROVE FALSE
    <3>1. a = 1 /\ hi + 1 = Highs
      BY <1>1, <2>1
    <3>2. Highs * Word = hi * Word + a * Word
      BY <1>1, <3>1
    <3>3. hi * Word \in Int /\ a * Word \in Int
      BY <1>1
    <3>4. QED
      BY <1>1, <3>2, <3>3
  <2>2. QED
    BY <1>1, <2>1
<1>4. QED
  BY <1>1, <1>2, <1>3

\* An instruction and an entry fit when the clock is not full.
LEMMA Fits ==
    ASSUME LastRow \in RowType, ~Guest!ClockFull(LastRow.time)
    PROVE  /\ Word * Highs \in Nat /\ LastRow.time \in Nat
           /\ LastRow.time + 14 < Word * Highs
<1>1. Word * Highs \in Nat
  BY ClockAssumption
<1>2. LastRow.time \in Nat
  BY DEF RowType
<1>3. QED
  BY <1>1, <1>2 DEF Guest!ClockFull, Guest!Limit, Guest!Wrap

\* The last of the rows o, when the first c are there.
LastOf(o) ==
    LET there == {r \in Rows : o[r] # None}
    IN  IF there = {} THEN Initial ELSE o[CHOOSE r \in there : r + 1 \notin there]

\* The last of the rows written, by their number.
LEMMA LastOfFacts ==
    ASSUME NEW o, NEW c \in 0..Steps,
           \A r \in Rows : IF r < c THEN o[r] \in RowType /\ o[r].ordinal = r + 1 ELSE o[r] = None
    PROVE  /\ LastOf(o) = IF c = 0 THEN Initial ELSE o[c - 1]
           /\ LastOf(o).ordinal = c
<1> DEFINE there == {r \in Rows : o[r] # None}
<1>1. Steps \in Nat /\ c \in Nat
  BY StepsAssumption
<1>2. \A r \in Rows : r < c => o[r] # None
  BY DEF Rows, None
<1>3. there = 0..c - 1
  BY <1>1, <1>2 DEF Rows
<1>4. CASE c = 0
  <2>1. there = {}
    BY <1>3, <1>4
  <2>2. QED
    BY <1>4, <2>1 DEF LastOf, Initial
<1>5. CASE c # 0
  <2>1. there # {} /\ c - 1 \in there /\ c - 1 \in Rows
    BY <1>1, <1>3, <1>5 DEF Rows
  <2>2. \A r \in there : r + 1 \notin there <=> r = c - 1
    BY <1>1, <1>3, <1>5
  <2>3. (CHOOSE r \in there : r + 1 \notin there) = c - 1
    BY <2>1, <2>2
  <2>4. LastOf(o) = o[c - 1]
    BY <2>1, <2>3 DEF LastOf
  <2>5. o[c - 1].ordinal = c
    BY <1>1, <1>5, <2>1
  <2>6. QED
    BY <1>5, <2>4, <2>5
<1>6. QED
  BY <1>4, <1>5

\* The last row carries the number of rows.
LEMMA LastRowFacts ==
    ASSUME NEW s, RowsInv(s)
    PROVE  LastRow.ordinal = Captured(s)
<1>1. LastRow = LastOf(out)
  BY DEF LastRow, LastOf, Written
<1>2. QED
  BY <1>1, LastOfFacts DEF RowsInv

\* A decision keeps the scratch memory typed.
LEMMA DecisionTyped ==
    ASSUME NEW w \in WorkType, NEW d \in Decisions, NEW nmi \in BOOLEAN
    PROVE  [w EXCEPT !.gi.decision = d, !.gi.nmi = nmi] \in WorkType
BY DEF WorkType

\* The outputs keep the scratch memory typed.
LEMMA OutputTyped ==
    ASSUME NEW w \in WorkType, NEW lo \in 0..Word - 1
    PROVE  [w EXCEPT !.gt.i = w.gi.post, !.gt.nmi = w.gi.nmi, !.gt.decision = w.gi.decision,
                     !.gt.entry = w.gi.cost, !.gt.lo = lo] \in WorkType
BY DEF WorkType

\* The carry keeps the scratch memory typed.
LEMMA SettleTyped ==
    ASSUME NEW w \in WorkType, NEW hi \in 0..Highs - 1, NEW ordinal \in Nat
    PROVE  [w EXCEPT !.gt.hi = hi, !.gt.ordinal = ordinal] \in WorkType
BY DEF WorkType

\* The scratch memory gives a row.
LEMMA RowTyped ==
    ASSUME NEW w \in WorkType
    PROVE  RowOf(w.gt) \in RowType
<1>1. w.gt.hi \in Nat /\ w.gt.lo \in Nat /\ Word \in Nat
  BY ClockAssumption DEF WorkType
<1>2. w.gt.hi * Word \in Nat
  BY <1>1
<1>3. w.gt.hi * Word + w.gt.lo \in Nat
  BY <1>1, <1>2
<1>4. /\ w.gt.i \in BOOLEAN /\ w.gt.irq \in BOOLEAN /\ w.gt.nmi \in BOOLEAN
      /\ w.gt.index \in Nat /\ w.gt.ordinal \in Nat /\ w.gt.op \in Kinds
      /\ w.gt.cost \in Nat /\ w.gt.entry \in Nat /\ w.gt.decision \in Decisions
  BY DEF WorkType
<1>5. QED
  BY <1>3, <1>4 DEF RowOf, RowType

\* An entry costs 7 cycles or none.
LEMMA EntryFacts ==
    ASSUME NEW d
    PROVE  Guest!EntryCost(d) \in {0, 7}
BY DEF Guest!EntryCost, Guest!Entry

\* What follows a row fits the clock and the schedule.
LEMMA FollowsFacts ==
    ASSUME events \in Plans, LastRow \in RowType, NEW row, Follows(row)
    PROVE  row.time < Word * Highs /\ row.index <= Len(events)
<1>1. PICK op \in Ops, d \in Decisions, m \in LastRow.index..Len(events) :
        /\ ~Guest!ClockFull(LastRow.time)
        /\ row.time = LastRow.time + op.cost + Guest!EntryCost(d) /\ row.index = m
  BY DEF Follows, FollowsAs
<1>2. ~Guest!ClockFull(LastRow.time) /\ row.index <= Len(events)
  BY <1>1, PlanFacts DEF RowType
<1>3. PICK e \in {0, 7} : row.time = LastRow.time + op.cost + e
  BY <1>1, EntryFacts
<1>4. op.cost \in 2..7
  BY OpFacts
<1>5. Word * Highs \in Nat /\ LastRow.time \in Nat /\ LastRow.time + 14 < Word * Highs
  BY <1>2, Fits
<1> DEFINE wrap == Word * Highs
<1> HIDE DEF wrap
<1>6. wrap \in Nat /\ LastRow.time \in Nat /\ LastRow.time + 14 < wrap
  BY <1>5 DEF wrap
<1>7. row.time < wrap
  BY <1>3, <1>4, <1>6
<1>8. QED
  BY <1>2, <1>7 DEF wrap

\* The next instruction.
LEMMA DispatchKeeps ==
    ASSUME NEW s \in View, DriverInv(s), s.at = "next", s.work.gt.ordinal # Steps, NEW op \in Ops,
           NEW t, t = [at |-> "describe", op |-> op, acc |-> s.acc,
                    work |-> s.work]
    PROVE  t \in View /\ DriverInv(t)
<1>1. s.work \in WorkType
  BY DEF View
<1>2. t \in View
  BY <1>1 DEF View, WorkType, DriverAt, AnyOp, Kinds, Decisions
<1>3. /\ t.at = "describe" /\ t.op = op /\ t.acc = s.acc
      /\ t.work = s.work
  BY <1>1 DEF WorkType
<1>4. RowsInv(t)
  BY <1>1, <1>3, StepsAssumption DEF DriverInv, RowsInv, Captured
<1>5. t.at \in Before => BeforeInv(t)
  BY <1>1, <1>3 DEF DriverInv, BeforeInv, Before, Time
<1>6. OpInv(t)
  BY <1>1, <1>3 DEF DriverInv, OpInv, BeforeInv, Before, Taking, Deciding
<1>7. ClockInv(t)
  BY <1>1, <1>3 DEF DriverInv, ClockInv, BeforeInv, Before, Time, Taking, Deciding
<1>8. TakenInv(t)
  BY <1>1, <1>3 DEF DriverInv, TakenInv, ClockInv, Taking, Deciding
<1>9. BoundaryInv(t)
  BY <1>1, <1>3 DEF DriverInv, BoundaryInv
<1>10. RowInv(t)
  BY <1>1, <1>3 DEF DriverInv, RowInv, RowOf, CarriedRow, Time
<1>11. EndInv(t)
  BY <1>1, <1>3 DEF DriverInv, EndInv, RowsInv, Captured
<1>12. QED
  BY <1>2, <1>4, <1>5, <1>6, <1>7, <1>8, <1>9, <1>10, <1>11 DEF DriverInv

\* No code for a computed target.
LEMMA NoEntryKeeps ==
    ASSUME NEW s \in View, DriverInv(s), s.at = "next", s.work.gt.ordinal # Steps, s.work.gt.ordinal > 0,
           NEW t, t = [at |-> "fault", op |-> s.op, acc |-> s.acc,
                    work |-> [s.work EXCEPT !.gt.status = "target"]]
    PROVE  t \in View /\ DriverInv(t)
<1>1. s.work \in WorkType
  BY DEF View
<1>2. t \in View
  BY <1>1 DEF View, WorkType, DriverAt, AnyOp, Kinds, Decisions
<1>3. /\ t.at = "fault" /\ t.op = s.op /\ t.acc = s.acc
      /\ t.work.cursor = s.work.cursor /\ t.work.header = s.work.header
      /\ t.work.gc = s.work.gc
      /\ t.work.gi = s.work.gi
      /\ t.work.gt.lo = s.work.gt.lo /\ t.work.gt.hi = s.work.gt.hi
      /\ t.work.gt.i = s.work.gt.i /\ t.work.gt.irq = s.work.gt.irq
      /\ t.work.gt.nmi = s.work.gt.nmi /\ t.work.gt.index = s.work.gt.index
      /\ t.work.gt.status = "target" /\ t.work.gt.ordinal = s.work.gt.ordinal
      /\ t.work.gt.op = s.work.gt.op /\ t.work.gt.cost = s.work.gt.cost
      /\ t.work.gt.entry = s.work.gt.entry /\ t.work.gt.decision = s.work.gt.decision
  BY <1>1 DEF WorkType
<1>4. RowsInv(t)
  BY <1>1, <1>3, StepsAssumption DEF DriverInv, RowsInv, Captured
<1>5. t.at \in Before => BeforeInv(t)
  BY <1>1, <1>3 DEF DriverInv, BeforeInv, Before, Time
<1>6. OpInv(t)
  BY <1>1, <1>3 DEF DriverInv, OpInv, BeforeInv, Before, Taking, Deciding
<1>7. ClockInv(t)
  BY <1>1, <1>3 DEF DriverInv, ClockInv, BeforeInv, Before, Time, Taking, Deciding
<1>8. TakenInv(t)
  BY <1>1, <1>3 DEF DriverInv, TakenInv, ClockInv, Taking, Deciding
<1>9. BoundaryInv(t)
  BY <1>1, <1>3 DEF DriverInv, BoundaryInv
<1>10. RowInv(t)
  BY <1>1, <1>3 DEF DriverInv, RowInv, RowOf, CarriedRow, Time
<1>11. EndInv(t)
  BY <1>1, <1>3, StepsAssumption DEF DriverInv, EndInv, RowsInv, Captured
<1>12. QED
  BY <1>2, <1>4, <1>5, <1>6, <1>7, <1>8, <1>9, <1>10, <1>11 DEF DriverInv

\* The descriptor.
LEMMA DescribeKeeps ==
    ASSUME NEW s \in View, DriverInv(s), s.at = "describe",
           NEW t, t = [at |-> "load", op |-> s.op, acc |-> s.acc,
                    work |-> [s.work EXCEPT !.gc.op = s.op,
                                             !.gc.pre = s.work.gt.i]]
    PROVE  t \in View /\ DriverInv(t)
<1>1. s.work \in WorkType
  BY DEF View
<1>2. t \in View
  BY <1>1 DEF View, WorkType, DriverAt, AnyOp, Kinds, Decisions
<1>3. /\ t.at = "load" /\ t.op = s.op /\ t.acc = s.acc
      /\ t.work.cursor = s.work.cursor /\ t.work.header = s.work.header
      /\ t.work.gc.op = s.op /\ t.work.gc.pre = s.work.gt.i /\ t.work.gc.cost = s.work.gc.cost
      /\ t.work.gi = s.work.gi
      /\ t.work.gt = s.work.gt
  BY <1>1 DEF WorkType
<1>4. RowsInv(t)
  BY <1>1, <1>3, StepsAssumption DEF DriverInv, RowsInv, Captured
<1>5. t.at \in Before => BeforeInv(t)
  BY <1>1, <1>3 DEF DriverInv, BeforeInv, Before, Time
<1>6. OpInv(t)
  BY <1>1, <1>3 DEF DriverInv, OpInv, BeforeInv, Before, Taking, Deciding
<1>7. ClockInv(t)
  BY <1>1, <1>3 DEF DriverInv, ClockInv, BeforeInv, Before, Time, Taking, Deciding
<1>8. TakenInv(t)
  BY <1>1, <1>3 DEF DriverInv, TakenInv, ClockInv, Taking, Deciding
<1>9. BoundaryInv(t)
  BY <1>1, <1>3 DEF DriverInv, BoundaryInv
<1>10. RowInv(t)
  BY <1>1, <1>3 DEF DriverInv, RowInv, RowOf, CarriedRow, Time
<1>11. EndInv(t)
  BY <1>1, <1>3 DEF DriverInv, EndInv, RowsInv, Captured
<1>12. QED
  BY <1>2, <1>4, <1>5, <1>6, <1>7, <1>8, <1>9, <1>10, <1>11 DEF DriverInv

\* The instruction runs.
LEMMA ExecuteKeeps ==
    ASSUME NEW s \in View, DriverInv(s), s.at = "load", NEW i \in BOOLEAN, i \in Guest!FlagAfter(s.op, s.work.gt.i),
           NEW t, t = [at |-> "save", op |-> s.op, acc |-> i,
                    work |-> s.work]
    PROVE  t \in View /\ DriverInv(t)
<1>1. s.work \in WorkType
  BY DEF View
<1>2. t \in View
  BY <1>1 DEF View, WorkType, DriverAt, AnyOp, Kinds, Decisions
<1>3. /\ t.at = "save" /\ t.op = s.op /\ t.acc = i
      /\ t.work = s.work
  BY <1>1 DEF WorkType
<1>4. RowsInv(t)
  BY <1>1, <1>3, StepsAssumption DEF DriverInv, RowsInv, Captured
<1>5. t.at \in Before => BeforeInv(t)
  BY <1>1, <1>3 DEF DriverInv, BeforeInv, Before, Time
<1>6. OpInv(t)
  BY <1>1, <1>3 DEF DriverInv, OpInv, BeforeInv, Before, Taking, Deciding
<1>7. ClockInv(t)
  BY <1>1, <1>3 DEF DriverInv, ClockInv, BeforeInv, Before, Time, Taking, Deciding
<1>8. TakenInv(t)
  BY <1>1, <1>3 DEF DriverInv, TakenInv, ClockInv, Taking, Deciding
<1>9. BoundaryInv(t)
  BY <1>1, <1>3 DEF DriverInv, BoundaryInv
<1>10. RowInv(t)
  BY <1>1, <1>3 DEF DriverInv, RowInv, RowOf, CarriedRow, Time
<1>11. EndInv(t)
  BY <1>1, <1>3 DEF DriverInv, EndInv, RowsInv, Captured
<1>12. QED
  BY <1>2, <1>4, <1>5, <1>6, <1>7, <1>8, <1>9, <1>10, <1>11 DEF DriverInv

\* Its effect on the I flag.
LEMMA SaveKeeps ==
    ASSUME NEW s \in View, DriverInv(s), s.at = "save", s.acc \in BOOLEAN,
           NEW t, t = [at |-> "guard", op |-> s.op, acc |-> s.acc,
                    work |-> [s.work EXCEPT !.gt.i = s.acc]]
    PROVE  t \in View /\ DriverInv(t)
<1>1. s.work \in WorkType
  BY DEF View
<1>2. t \in View
  BY <1>1 DEF View, WorkType, DriverAt, AnyOp, Kinds, Decisions
<1>3. /\ t.at = "guard" /\ t.op = s.op /\ t.acc = s.acc
      /\ t.work.cursor = s.work.cursor /\ t.work.header = s.work.header
      /\ t.work.gc = s.work.gc
      /\ t.work.gi = s.work.gi
      /\ t.work.gt.lo = s.work.gt.lo /\ t.work.gt.hi = s.work.gt.hi
      /\ t.work.gt.i = s.acc /\ t.work.gt.irq = s.work.gt.irq
      /\ t.work.gt.nmi = s.work.gt.nmi /\ t.work.gt.index = s.work.gt.index
      /\ t.work.gt.status = s.work.gt.status /\ t.work.gt.ordinal = s.work.gt.ordinal
      /\ t.work.gt.op = s.work.gt.op /\ t.work.gt.cost = s.work.gt.cost
      /\ t.work.gt.entry = s.work.gt.entry /\ t.work.gt.decision = s.work.gt.decision
  BY <1>1 DEF WorkType
<1>4. RowsInv(t)
  BY <1>1, <1>3, StepsAssumption DEF DriverInv, RowsInv, Captured
<1>5. t.at \in Before => BeforeInv(t)
  BY <1>1, <1>3 DEF DriverInv, BeforeInv, Before, Time
<1>6. OpInv(t)
  BY <1>1, <1>3 DEF DriverInv, OpInv, BeforeInv, Before, Taking, Deciding
<1>7. ClockInv(t)
  BY <1>1, <1>3 DEF DriverInv, ClockInv, BeforeInv, Before, Time, Taking, Deciding
<1>8. TakenInv(t)
  BY <1>1, <1>3 DEF DriverInv, TakenInv, ClockInv, Taking, Deciding
<1>9. BoundaryInv(t)
  BY <1>1, <1>3 DEF DriverInv, BoundaryInv
<1>10. RowInv(t)
  BY <1>1, <1>3 DEF DriverInv, RowInv, RowOf, CarriedRow, Time
<1>11. EndInv(t)
  BY <1>1, <1>3 DEF DriverInv, EndInv, RowsInv, Captured
<1>12. QED
  BY <1>2, <1>4, <1>5, <1>6, <1>7, <1>8, <1>9, <1>10, <1>11 DEF DriverInv

\* No room on the clock.
LEMMA FullKeeps ==
    ASSUME NEW s \in View, DriverInv(s), s.at = "guard", Guest!ClockFull(Time(s.work.gt)),
           NEW t, t = [at |-> "fault", op |-> s.op, acc |-> s.acc,
                    work |-> [s.work EXCEPT !.gt.status = "clock"]]
    PROVE  t \in View /\ DriverInv(t)
<1>1. s.work \in WorkType
  BY DEF View
<1>2. t \in View
  BY <1>1 DEF View, WorkType, DriverAt, AnyOp, Kinds, Decisions
<1>3. /\ t.at = "fault" /\ t.op = s.op /\ t.acc = s.acc
      /\ t.work.cursor = s.work.cursor /\ t.work.header = s.work.header
      /\ t.work.gc = s.work.gc
      /\ t.work.gi = s.work.gi
      /\ t.work.gt.lo = s.work.gt.lo /\ t.work.gt.hi = s.work.gt.hi
      /\ t.work.gt.i = s.work.gt.i /\ t.work.gt.irq = s.work.gt.irq
      /\ t.work.gt.nmi = s.work.gt.nmi /\ t.work.gt.index = s.work.gt.index
      /\ t.work.gt.status = "clock" /\ t.work.gt.ordinal = s.work.gt.ordinal
      /\ t.work.gt.op = s.work.gt.op /\ t.work.gt.cost = s.work.gt.cost
      /\ t.work.gt.entry = s.work.gt.entry /\ t.work.gt.decision = s.work.gt.decision
  BY <1>1 DEF WorkType
<1>4. RowsInv(t)
  BY <1>1, <1>3, StepsAssumption DEF DriverInv, RowsInv, Captured
<1>5. t.at \in Before => BeforeInv(t)
  BY <1>1, <1>3 DEF DriverInv, BeforeInv, Before, Time
<1>6. OpInv(t)
  BY <1>1, <1>3 DEF DriverInv, OpInv, BeforeInv, Before, Taking, Deciding
<1>7. ClockInv(t)
  BY <1>1, <1>3 DEF DriverInv, ClockInv, BeforeInv, Before, Time, Taking, Deciding
<1>8. TakenInv(t)
  BY <1>1, <1>3 DEF DriverInv, TakenInv, ClockInv, Taking, Deciding
<1>9. BoundaryInv(t)
  BY <1>1, <1>3 DEF DriverInv, BoundaryInv
<1>10. RowInv(t)
  BY <1>1, <1>3 DEF DriverInv, RowInv, RowOf, CarriedRow, Time
<1>11. EndInv(t)
  BY <1>1, <1>3 DEF DriverInv, EndInv, RowsInv, Captured, BeforeInv, Before
<1>12. QED
  BY <1>2, <1>4, <1>5, <1>6, <1>7, <1>8, <1>9, <1>10, <1>11 DEF DriverInv

\* Room on the clock.
LEMMA RoomKeeps ==
    ASSUME NEW s \in View, DriverInv(s), s.at = "guard", ~Guest!ClockFull(Time(s.work.gt)),
           NEW t, t = [at |-> "cost", op |-> s.op, acc |-> s.acc,
                    work |-> [s.work EXCEPT !.gt.status = "running"]]
    PROVE  t \in View /\ DriverInv(t)
<1>1. s.work \in WorkType
  BY DEF View
<1>2. t \in View
  BY <1>1 DEF View, WorkType, DriverAt, AnyOp, Kinds, Decisions
<1>3. /\ t.at = "cost" /\ t.op = s.op /\ t.acc = s.acc
      /\ t.work.cursor = s.work.cursor /\ t.work.header = s.work.header
      /\ t.work.gc = s.work.gc
      /\ t.work.gi = s.work.gi
      /\ t.work.gt.lo = s.work.gt.lo /\ t.work.gt.hi = s.work.gt.hi
      /\ t.work.gt.i = s.work.gt.i /\ t.work.gt.irq = s.work.gt.irq
      /\ t.work.gt.nmi = s.work.gt.nmi /\ t.work.gt.index = s.work.gt.index
      /\ t.work.gt.status = "running" /\ t.work.gt.ordinal = s.work.gt.ordinal
      /\ t.work.gt.op = s.work.gt.op /\ t.work.gt.cost = s.work.gt.cost
      /\ t.work.gt.entry = s.work.gt.entry /\ t.work.gt.decision = s.work.gt.decision
  BY <1>1 DEF WorkType
<1>4. RowsInv(t)
  BY <1>1, <1>3, StepsAssumption DEF DriverInv, RowsInv, Captured
<1>5. t.at \in Before => BeforeInv(t)
  BY <1>1, <1>3 DEF DriverInv, BeforeInv, Before, Time
<1>6. OpInv(t)
  BY <1>1, <1>3 DEF DriverInv, OpInv, BeforeInv, Before, Taking, Deciding
<1>7. ClockInv(t)
  BY <1>1, <1>3 DEF DriverInv, ClockInv, BeforeInv, Before, Time, Taking, Deciding
<1>8. TakenInv(t)
  BY <1>1, <1>3 DEF DriverInv, TakenInv, ClockInv, Taking, Deciding
<1>9. BoundaryInv(t)
  BY <1>1, <1>3 DEF DriverInv, BoundaryInv
<1>10. RowInv(t)
  BY <1>1, <1>3 DEF DriverInv, RowInv, RowOf, CarriedRow, Time
<1>11. EndInv(t)
  BY <1>1, <1>3 DEF DriverInv, EndInv, RowsInv, Captured
<1>12. QED
  BY <1>2, <1>4, <1>5, <1>6, <1>7, <1>8, <1>9, <1>10, <1>11 DEF DriverInv

\* The cost of the instruction.
LEMMA CostKeeps ==
    ASSUME NEW s \in View, DriverInv(s), s.at = "cost",
           NEW t, t = [at |-> "charge", op |-> s.op, acc |-> s.acc,
                    work |-> [s.work EXCEPT !.gc.cost = s.work.gc.op.cost]]
    PROVE  t \in View /\ DriverInv(t)
<1>1. s.work \in WorkType
  BY DEF View
<1>2. s.op \in Ops /\ s.work.gc.op = s.op /\ s.op.cost \in Nat
  BY OpsAssumption DEF DriverInv, OpInv, Guest!Op
<1>3. t \in View
  BY <1>1, <1>2 DEF View, WorkType, DriverAt, AnyOp, Kinds, Decisions
<1>4. /\ t.at = "charge" /\ t.op = s.op /\ t.acc = s.acc
      /\ t.work.cursor = s.work.cursor /\ t.work.header = s.work.header
      /\ t.work.gc.op = s.work.gc.op /\ t.work.gc.pre = s.work.gc.pre /\ t.work.gc.cost = s.work.gc.op.cost
      /\ t.work.gi = s.work.gi
      /\ t.work.gt = s.work.gt
  BY <1>1 DEF WorkType
<1>5. RowsInv(t)
  BY <1>1, <1>2, <1>4, StepsAssumption DEF DriverInv, RowsInv, Captured
<1>6. t.at \in Before => BeforeInv(t)
  BY <1>1, <1>2, <1>4 DEF DriverInv, BeforeInv, Before, Time
<1>7. OpInv(t)
  BY <1>1, <1>2, <1>4 DEF DriverInv, OpInv, BeforeInv, Before, Taking, Deciding
<1>8. ClockInv(t)
  BY <1>1, <1>2, <1>4 DEF DriverInv, ClockInv, BeforeInv, Before, Time, Taking, Deciding
<1>9. TakenInv(t)
  BY <1>1, <1>2, <1>4 DEF DriverInv, TakenInv, ClockInv, Taking, Deciding
<1>10. BoundaryInv(t)
  BY <1>1, <1>2, <1>4 DEF DriverInv, BoundaryInv
<1>11. RowInv(t)
  BY <1>1, <1>2, <1>4 DEF DriverInv, RowInv, RowOf, CarriedRow, Time
<1>12. EndInv(t)
  BY <1>1, <1>2, <1>4 DEF DriverInv, EndInv, RowsInv, Captured
<1>13. QED
  BY <1>3, <1>5, <1>6, <1>7, <1>8, <1>9, <1>10, <1>11, <1>12 DEF DriverInv

\* The lower word takes the cost; the carry is in the CPU.
LEMMA ChargeKeeps ==
    ASSUME NEW s \in View, DriverInv(s), s.at = "charge", NEW lo \in 0..Word - 1, NEW carry \in {0, 1},
           lo + carry * Word = s.work.gt.lo + s.work.gc.cost,
           NEW t, t = [at |-> "carry", op |-> s.op, acc |-> carry,
                    work |-> [s.work EXCEPT !.gt.cost = s.work.gc.cost,
                                             !.gt.lo = lo]]
    PROVE  t \in View /\ DriverInv(t)
<1>1. s.work \in WorkType
  BY DEF View
<1>2. s.work.gc.cost = s.op.cost
  BY DEF DriverInv, OpInv
<1>3. /\ Word \in Nat /\ s.work.gt.hi \in Nat /\ s.work.gt.lo \in Nat /\ lo \in Nat
      /\ s.work.gc.cost \in Nat
  BY <1>1, ClockAssumption DEF WorkType
<1>4. s.work.gt.hi * Word \in Nat /\ carry * Word \in Nat
  BY <1>3
<1>5. t \in View
  <2>1. t.work \in WorkType
    BY <1>1, <1>3 DEF WorkType, Kinds, Decisions
  <2>2. t.op \in AnyOp /\ t.acc \in BOOLEAN \cup Nat
    BY <1>1, <1>3 DEF View, WorkType
  <2>3. QED
    BY <2>1, <2>2 DEF View, DriverAt
<1>6. /\ t.at = "carry" /\ t.op = s.op /\ t.acc = carry
      /\ t.work.cursor = s.work.cursor /\ t.work.header = s.work.header
      /\ t.work.gc = s.work.gc
      /\ t.work.gi = s.work.gi
      /\ t.work.gt.lo = lo /\ t.work.gt.hi = s.work.gt.hi
      /\ t.work.gt.i = s.work.gt.i /\ t.work.gt.irq = s.work.gt.irq
      /\ t.work.gt.nmi = s.work.gt.nmi /\ t.work.gt.index = s.work.gt.index
      /\ t.work.gt.status = s.work.gt.status /\ t.work.gt.ordinal = s.work.gt.ordinal
      /\ t.work.gt.op = s.work.gt.op /\ t.work.gt.cost = s.work.gc.cost
      /\ t.work.gt.entry = s.work.gt.entry /\ t.work.gt.decision = s.work.gt.decision
  BY <1>1 DEF WorkType
<1>7. RowsInv(t)
  BY <1>1, <1>2, <1>3, <1>4, <1>6, StepsAssumption DEF DriverInv, RowsInv, Captured
<1>8. t.at \in Before => BeforeInv(t)
  BY <1>1, <1>2, <1>3, <1>4, <1>6 DEF DriverInv, BeforeInv, Before, Time
<1>9. OpInv(t)
  BY <1>1, <1>2, <1>3, <1>4, <1>6 DEF DriverInv, OpInv, BeforeInv, Before, Taking, Deciding
<1>10. ClockInv(t)
  <2>1. /\ s.work.gt.hi * Word + s.work.gt.lo = LastRow.time
        /\ s.work.gt.index = LastRow.index /\ s.work.gt.irq = LastRow.irq /\ s.work.gt.nmi = LastRow.nmi
    BY DEF DriverInv, BeforeInv, Before, Time
  <2>2. s.work.gt.hi * Word + lo + carry * Word = LastRow.time + s.op.cost
    BY <1>2, <1>3, <1>4, <2>1
  <2>3. QED
    BY <1>6, <2>1, <2>2 DEF ClockInv, Time, Taking, Deciding
<1>11. TakenInv(t)
  BY <1>1, <1>2, <1>3, <1>4, <1>6 DEF DriverInv, TakenInv, ClockInv, Taking, Deciding
<1>12. BoundaryInv(t)
  BY <1>1, <1>2, <1>3, <1>4, <1>6 DEF DriverInv, BoundaryInv
<1>13. RowInv(t)
  BY <1>1, <1>2, <1>3, <1>4, <1>6 DEF DriverInv, RowInv, RowOf, CarriedRow, Time
<1>14. EndInv(t)
  BY <1>1, <1>2, <1>3, <1>4, <1>6 DEF DriverInv, EndInv, RowsInv, Captured
<1>15. QED
  BY <1>5, <1>7, <1>8, <1>9, <1>10, <1>11, <1>12, <1>13, <1>14 DEF DriverInv

\* The upper word takes the carry.
LEMMA CarryKeeps ==
    ASSUME NEW s \in View, DriverInv(s), s.at = "carry", NEW hi \in 0..Highs - 1,
           hi * Word + s.work.gt.lo = Time(s.work.gt) + s.acc * Word,
           NEW t, t = [at |-> "test", op |-> s.op, acc |-> s.acc,
                    work |-> [s.work EXCEPT !.gt.hi = hi]]
    PROVE  t \in View /\ DriverInv(t)
<1>1. s.work \in WorkType
  BY DEF View
<1>2. LastRow \in RowType /\ LastRow.index <= Len(events) /\ events \in Plans
  BY DEF DriverInv
<1>3. LastRow.index \in Nat /\ LastRow.nmi \in BOOLEAN /\ Len(events) \in Nat
  BY <1>2, PlanFacts DEF RowType
<1>4. t \in View
  BY <1>1, <1>2, <1>3 DEF View, WorkType, DriverAt, AnyOp, Kinds, Decisions
<1>5. /\ t.at = "test" /\ t.op = s.op /\ t.acc = s.acc
      /\ t.work.cursor = s.work.cursor /\ t.work.header = s.work.header
      /\ t.work.gc = s.work.gc
      /\ t.work.gi = s.work.gi
      /\ t.work.gt.lo = s.work.gt.lo /\ t.work.gt.hi = hi
      /\ t.work.gt.i = s.work.gt.i /\ t.work.gt.irq = s.work.gt.irq
      /\ t.work.gt.nmi = s.work.gt.nmi /\ t.work.gt.index = s.work.gt.index
      /\ t.work.gt.status = s.work.gt.status /\ t.work.gt.ordinal = s.work.gt.ordinal
      /\ t.work.gt.op = s.work.gt.op /\ t.work.gt.cost = s.work.gt.cost
      /\ t.work.gt.entry = s.work.gt.entry /\ t.work.gt.decision = s.work.gt.decision
  BY <1>1 DEF WorkType
<1>6. RowsInv(t)
  BY <1>1, <1>2, <1>3, <1>5, StepsAssumption DEF DriverInv, RowsInv, Captured
<1>7. t.at \in Before => BeforeInv(t)
  BY <1>1, <1>2, <1>3, <1>5 DEF DriverInv, BeforeInv, Before, Time
<1>8. OpInv(t)
  BY <1>1, <1>2, <1>3, <1>5 DEF DriverInv, OpInv, BeforeInv, Before, Taking, Deciding
<1>9. ClockInv(t)
  BY <1>1, <1>2, <1>3, <1>5 DEF DriverInv, ClockInv, BeforeInv, Before, Time, Taking, Deciding
<1>10. TakenInv(t)
  BY <1>1, <1>2, <1>3, <1>5, GuestViews DEF DriverInv, TakenInv, ClockInv, Taking, Deciding
<1>11. BoundaryInv(t)
  BY <1>1, <1>2, <1>3, <1>5 DEF DriverInv, BoundaryInv
<1>12. RowInv(t)
  BY <1>1, <1>2, <1>3, <1>5 DEF DriverInv, RowInv, RowOf, CarriedRow, Time
<1>13. EndInv(t)
  BY <1>1, <1>2, <1>3, <1>5 DEF DriverInv, EndInv, RowsInv, Captured
<1>14. QED
  BY <1>4, <1>6, <1>7, <1>8, <1>9, <1>10, <1>11, <1>12, <1>13 DEF DriverInv

\* An event is due.
LEMMA DueKeeps ==
    ASSUME NEW s \in View, DriverInv(s), s.at = "test", s.work.gt.index < Len(events),
           Guest!Due(s.work.gt.index + 1, Time(s.work.gt)),
           NEW t, t = [at |-> "take", op |-> s.op, acc |-> s.work.gt.index + 1,
                    work |-> s.work]
    PROVE  t \in View /\ DriverInv(t)
<1>1. s.work \in WorkType
  BY DEF View
<1>2. s.work.gt.index \in Nat /\ Len(events) \in Nat
  BY <1>1, PlanFacts DEF DriverInv, WorkType
<1>3. t \in View
  BY <1>1, <1>2 DEF View, WorkType, DriverAt, AnyOp, Kinds, Decisions
<1>4. /\ t.at = "take" /\ t.op = s.op /\ t.acc = s.work.gt.index + 1
      /\ t.work = s.work
  BY <1>1 DEF WorkType
<1>5. RowsInv(t)
  BY <1>1, <1>2, <1>4, StepsAssumption DEF DriverInv, RowsInv, Captured
<1>6. t.at \in Before => BeforeInv(t)
  BY <1>1, <1>2, <1>4 DEF DriverInv, BeforeInv, Before, Time
<1>7. OpInv(t)
  BY <1>1, <1>2, <1>4 DEF DriverInv, OpInv, BeforeInv, Before, Taking, Deciding
<1>8. ClockInv(t)
  BY <1>1, <1>2, <1>4 DEF DriverInv, ClockInv, BeforeInv, Before, Time, Taking, Deciding
<1>9. TakenInv(t)
  BY <1>1, <1>2, <1>4 DEF DriverInv, TakenInv, ClockInv, Taking, Deciding
<1>10. BoundaryInv(t)
  BY <1>1, <1>2, <1>4 DEF DriverInv, BoundaryInv
<1>11. RowInv(t)
  BY <1>1, <1>2, <1>4 DEF DriverInv, RowInv, RowOf, CarriedRow, Time
<1>12. EndInv(t)
  BY <1>1, <1>2, <1>4 DEF DriverInv, EndInv, RowsInv, Captured
<1>13. QED
  BY <1>3, <1>5, <1>6, <1>7, <1>8, <1>9, <1>10, <1>11, <1>12 DEF DriverInv

\* No event is due any more.
LEMMA NotDueKeeps ==
    ASSUME NEW s \in View, DriverInv(s), s.at = "test", ~(/\ s.work.gt.index < Len(events)
                                                      /\ Guest!Due(s.work.gt.index + 1, Time(s.work.gt))),
           NEW t, t = [at |-> "inputs", op |-> s.op, acc |-> s.acc,
                    work |-> s.work]
    PROVE  t \in View /\ DriverInv(t)
<1>1. s.work \in WorkType
  BY DEF View
<1>2. s.work.gt.index \in Nat /\ Len(events) \in Nat
  BY <1>1, PlanFacts DEF DriverInv, WorkType
<1>3. t \in View
  BY <1>1, <1>2 DEF View, WorkType, DriverAt, AnyOp, Kinds, Decisions
<1>4. /\ t.at = "inputs" /\ t.op = s.op /\ t.acc = s.acc
      /\ t.work = s.work
  BY <1>1 DEF WorkType
<1>5. RowsInv(t)
  BY <1>1, <1>2, <1>4, StepsAssumption DEF DriverInv, RowsInv, Captured
<1>6. t.at \in Before => BeforeInv(t)
  BY <1>1, <1>2, <1>4 DEF DriverInv, BeforeInv, Before, Time
<1>7. OpInv(t)
  BY <1>1, <1>2, <1>4 DEF DriverInv, OpInv, BeforeInv, Before, Taking, Deciding
<1>8. ClockInv(t)
  BY <1>1, <1>2, <1>4 DEF DriverInv, ClockInv, BeforeInv, Before, Time, Taking, Deciding
<1>9. TakenInv(t)
  <2>1. /\ Time(s.work.gt) = LastRow.time + s.op.cost
        /\ \A j \in LastRow.index + 1..s.work.gt.index : Guest!Due(j, LastRow.time + s.op.cost)
    BY DEF DriverInv, ClockInv, TakenInv, Taking
  <2>2. Guest!LoopStops(LastRow.index, s.work.gt.index, LastRow.time + s.op.cost)
    BY <2>1, GuestViews
  <2>3. QED
    BY <1>1, <1>2, <1>4, <2>2 DEF DriverInv, TakenInv, Taking, Deciding
<1>10. BoundaryInv(t)
  BY <1>1, <1>2, <1>4 DEF DriverInv, BoundaryInv
<1>11. RowInv(t)
  BY <1>1, <1>2, <1>4 DEF DriverInv, RowInv, RowOf, CarriedRow, Time
<1>12. EndInv(t)
  BY <1>1, <1>2, <1>4 DEF DriverInv, EndInv, RowsInv, Captured
<1>13. QED
  BY <1>3, <1>5, <1>6, <1>7, <1>8, <1>9, <1>10, <1>11, <1>12 DEF DriverInv

\* The event in X sets the line and may set the latch.
LEMMA TakeKeeps ==
    ASSUME NEW s \in View, DriverInv(s), s.at = "take",
           NEW t, t = [at |-> "consume", op |-> s.op, acc |-> s.acc,
                    work |-> [s.work EXCEPT !.gt.irq = events[s.acc].irq,
                                             !.gt.nmi = (s.work.gt.nmi \/ events[s.acc].nmi)]]
    PROVE  t \in View /\ DriverInv(t)
<1>1. s.work \in WorkType
  BY DEF View
<1>2. /\ s.acc = s.work.gt.index + 1 /\ s.acc \in 1..Len(events) /\ s.work.gt.index \in Nat
      /\ events[s.acc].irq \in BOOLEAN /\ events[s.acc].nmi \in BOOLEAN
  <2>1. events \in Plans /\ s.acc = s.work.gt.index + 1 /\ s.acc <= Len(events) /\ s.work.gt.index \in Nat
    BY <1>1 DEF DriverInv, TakenInv, Taking, WorkType
  <2>2. s.acc \in 1..Len(events)
    BY <2>1, PlanFacts
  <2>3. QED
    BY <2>1, <2>2, PlanFacts
<1>3. LastRow.index \in Nat /\ LastRow.index <= s.work.gt.index /\ LastRow.nmi \in BOOLEAN /\ Len(events) \in Nat
  BY PlanFacts DEF DriverInv, TakenInv, Taking, RowType
<1>4. t \in View
  <2>1. t.work \in WorkType
    BY <1>1, <1>2 DEF WorkType, Kinds, Decisions
  <2>2. t.op \in AnyOp /\ t.acc \in BOOLEAN \cup Nat
    BY <1>1, <1>2 DEF View, WorkType
  <2>3. QED
    BY <2>1, <2>2 DEF View, DriverAt
<1>5. /\ t.at = "consume" /\ t.op = s.op /\ t.acc = s.acc
      /\ t.work.cursor = s.work.cursor /\ t.work.header = s.work.header
      /\ t.work.gc = s.work.gc
      /\ t.work.gi = s.work.gi
      /\ t.work.gt.lo = s.work.gt.lo /\ t.work.gt.hi = s.work.gt.hi
      /\ t.work.gt.i = s.work.gt.i /\ t.work.gt.irq = events[s.acc].irq
      /\ t.work.gt.nmi = (s.work.gt.nmi \/ events[s.acc].nmi) /\ t.work.gt.index = s.work.gt.index
      /\ t.work.gt.status = s.work.gt.status /\ t.work.gt.ordinal = s.work.gt.ordinal
      /\ t.work.gt.op = s.work.gt.op /\ t.work.gt.cost = s.work.gt.cost
      /\ t.work.gt.entry = s.work.gt.entry /\ t.work.gt.decision = s.work.gt.decision
  BY <1>1 DEF WorkType
<1>6. RowsInv(t)
  BY <1>1, <1>2, <1>3, <1>5, StepsAssumption DEF DriverInv, RowsInv, Captured
<1>7. t.at \in Before => BeforeInv(t)
  BY <1>1, <1>2, <1>3, <1>5 DEF DriverInv, BeforeInv, Before, Time
<1>8. OpInv(t)
  BY <1>1, <1>2, <1>3, <1>5 DEF DriverInv, OpInv, BeforeInv, Before, Taking, Deciding
<1>9. ClockInv(t)
  BY <1>1, <1>2, <1>3, <1>5 DEF DriverInv, ClockInv, BeforeInv, Before, Time, Taking, Deciding
<1>10. TakenInv(t)
  <2> DEFINE x == s.work.gt.index
             now == LastRow.time + s.op.cost
  <2>1. /\ \A j \in LastRow.index + 1..x : Guest!Due(j, now)
        /\ Guest!Due(x + 1, now)
        /\ s.work.gt.nmi = Guest!LatchAfter(LastRow.index, x)
    BY <1>2 DEF DriverInv, TakenInv, Taking
  <2> HIDE DEF x, now
  <2>2. x \in Nat /\ LastRow.index \in Nat /\ LastRow.index <= x
    BY <1>2, <1>3 DEF x
  <2>3. \A j \in LastRow.index + 1..x + 1 : j \in LastRow.index + 1..x \/ j = x + 1
    BY <2>2
  <2>4. \A j \in LastRow.index + 1..x + 1 : Guest!Due(j, now)
    BY <2>1, <2>3
  <2>5. events[x + 1].irq = Guest!LineAfter(LastRow.index, x + 1)
    BY <2>2, GuestViews
  <2>6. (s.work.gt.nmi \/ events[x + 1].nmi) = Guest!LatchAfter(LastRow.index, x + 1)
    <3>1. (\E j \in LastRow.index + 1..x + 1 : events[j].nmi)
            <=> (\E j \in LastRow.index + 1..x : events[j].nmi) \/ events[x + 1].nmi
      BY <2>2, <2>3
    <3>2. /\ Guest!LatchAfter(LastRow.index, x) = (LastRow.nmi \/ \E j \in LastRow.index + 1..x : events[j].nmi)
          /\ Guest!LatchAfter(LastRow.index, x + 1) = (LastRow.nmi \/ \E j \in LastRow.index + 1..x + 1 : events[j].nmi)
      BY GuestViews
    <3>3. QED
      BY <2>1, <3>1, <3>2, Zenon
  <2>7. QED
    <3>0. s.acc = x + 1 /\ x + 1 <= Len(events)
      BY <1>2, <1>3 DEF x
    <3>1. /\ t.at = "consume" /\ t.acc = x + 1 /\ t.op = s.op /\ x + 1 <= Len(events)
          /\ t.work.gt.index = x /\ t.work.gt.irq = Guest!LineAfter(LastRow.index, x + 1)
      <4>1. t.acc = s.acc /\ t.work.gt.index = x /\ t.work.gt.irq = events[s.acc].irq /\ t.at = "consume" /\ t.op = s.op
        BY <1>5 DEF x
      <4>2. QED
        BY <2>5, <3>0, <4>1, Zenon
    <3>2. t.work.gt.nmi = Guest!LatchAfter(LastRow.index, x + 1)
      <4>1. t.work.gt.nmi = (s.work.gt.nmi \/ events[s.acc].nmi) /\ s.acc = x + 1
        BY <1>5, <1>2 DEF x
      <4>2. QED
        BY <2>6, <4>1, Zenon
    <3>3. QED
      BY <2>2, <2>4, <3>1, <3>2 DEF TakenInv, Taking, Deciding, now
<1>11. BoundaryInv(t)
  BY <1>1, <1>2, <1>3, <1>5 DEF DriverInv, BoundaryInv
<1>12. RowInv(t)
  BY <1>1, <1>2, <1>3, <1>5 DEF DriverInv, RowInv, RowOf, CarriedRow, Time
<1>13. EndInv(t)
  BY <1>1, <1>2, <1>3, <1>5 DEF DriverInv, EndInv, RowsInv, Captured
<1>14. QED
  BY <1>4, <1>6, <1>7, <1>8, <1>9, <1>10, <1>11, <1>12, <1>13 DEF DriverInv

\* The event is counted.
LEMMA ConsumeKeeps ==
    ASSUME NEW s \in View, DriverInv(s), s.at = "consume",
           NEW t, t = [at |-> "test", op |-> s.op, acc |-> s.acc,
                    work |-> [s.work EXCEPT !.gt.index = s.work.gt.index + 1]]
    PROVE  t \in View /\ DriverInv(t)
<1>1. s.work \in WorkType
  BY DEF View
<1>2. s.work.gt.index \in Nat /\ LastRow.index \in Nat /\ LastRow.index <= s.work.gt.index
  BY <1>1 DEF WorkType, RowType, DriverInv, TakenInv, Taking
<1>3. t \in View
  BY <1>1, <1>2 DEF View, WorkType, DriverAt, AnyOp, Kinds, Decisions
<1>4. /\ t.at = "test" /\ t.op = s.op /\ t.acc = s.acc
      /\ t.work.cursor = s.work.cursor /\ t.work.header = s.work.header
      /\ t.work.gc = s.work.gc
      /\ t.work.gi = s.work.gi
      /\ t.work.gt.lo = s.work.gt.lo /\ t.work.gt.hi = s.work.gt.hi
      /\ t.work.gt.i = s.work.gt.i /\ t.work.gt.irq = s.work.gt.irq
      /\ t.work.gt.nmi = s.work.gt.nmi /\ t.work.gt.index = s.work.gt.index + 1
      /\ t.work.gt.status = s.work.gt.status /\ t.work.gt.ordinal = s.work.gt.ordinal
      /\ t.work.gt.op = s.work.gt.op /\ t.work.gt.cost = s.work.gt.cost
      /\ t.work.gt.entry = s.work.gt.entry /\ t.work.gt.decision = s.work.gt.decision
  BY <1>1 DEF WorkType
<1>5. RowsInv(t)
  BY <1>1, <1>2, <1>4, StepsAssumption DEF DriverInv, RowsInv, Captured
<1>6. t.at \in Before => BeforeInv(t)
  BY <1>1, <1>2, <1>4 DEF DriverInv, BeforeInv, Before, Time
<1>7. OpInv(t)
  BY <1>1, <1>2, <1>4 DEF DriverInv, OpInv, BeforeInv, Before, Taking, Deciding
<1>8. ClockInv(t)
  BY <1>1, <1>2, <1>4 DEF DriverInv, ClockInv, BeforeInv, Before, Time, Taking, Deciding
<1>9. TakenInv(t)
  BY <1>1, <1>2, <1>4 DEF DriverInv, TakenInv, ClockInv, Taking, Deciding
<1>10. BoundaryInv(t)
  BY <1>1, <1>2, <1>4 DEF DriverInv, BoundaryInv
<1>11. RowInv(t)
  BY <1>1, <1>2, <1>4 DEF DriverInv, RowInv, RowOf, CarriedRow, Time
<1>12. EndInv(t)
  BY <1>1, <1>2, <1>4 DEF DriverInv, EndInv, RowsInv, Captured
<1>13. QED
  BY <1>3, <1>5, <1>6, <1>7, <1>8, <1>9, <1>10, <1>11, <1>12 DEF DriverInv

\* The inputs of the boundary.
LEMMA InputsKeeps ==
    ASSUME NEW s \in View, DriverInv(s), s.at = "inputs",
           NEW t, t = [at |-> "decide", op |-> s.op, acc |-> s.acc,
                    work |-> [s.work EXCEPT !.gi = [op |-> s.work.gc.op, pre |-> s.work.gc.pre, post |-> s.work.gt.i,
               irq |-> s.work.gt.irq, nmi |-> s.work.gt.nmi, decision |-> "none", cost |-> 0],
                                             !.gt.op = s.work.gc.op.kind]]
    PROVE  t \in View /\ DriverInv(t)
<1>1. s.work \in WorkType
  BY DEF View
<1>2. s.op \in Ops /\ s.work.gc.op = s.op /\ s.op.kind \in Kinds
  BY OpFacts DEF DriverInv, OpInv, Taking, Deciding
<1>3. t \in View
  <2>1. t.work \in WorkType
    BY <1>1, <1>2 DEF WorkType, Kinds, Decisions
  <2>2. t.op \in AnyOp /\ t.acc \in BOOLEAN \cup Nat
    BY <1>1, <1>2 DEF View, WorkType
  <2>3. QED
    BY <2>1, <2>2 DEF View, DriverAt
<1>4. /\ t.at = "decide" /\ t.op = s.op /\ t.acc = s.acc
      /\ t.work.cursor = s.work.cursor /\ t.work.header = s.work.header
      /\ t.work.gc = s.work.gc
      /\ t.work.gi = [op |-> s.work.gc.op, pre |-> s.work.gc.pre, post |-> s.work.gt.i,
               irq |-> s.work.gt.irq, nmi |-> s.work.gt.nmi, decision |-> "none", cost |-> 0]
      /\ t.work.gt.lo = s.work.gt.lo /\ t.work.gt.hi = s.work.gt.hi
      /\ t.work.gt.i = s.work.gt.i /\ t.work.gt.irq = s.work.gt.irq
      /\ t.work.gt.nmi = s.work.gt.nmi /\ t.work.gt.index = s.work.gt.index
      /\ t.work.gt.status = s.work.gt.status /\ t.work.gt.ordinal = s.work.gt.ordinal
      /\ t.work.gt.op = s.work.gc.op.kind /\ t.work.gt.cost = s.work.gt.cost
      /\ t.work.gt.entry = s.work.gt.entry /\ t.work.gt.decision = s.work.gt.decision
  BY <1>1 DEF WorkType
<1>5. RowsInv(t)
  BY <1>1, <1>2, <1>4, StepsAssumption DEF DriverInv, RowsInv, Captured
<1>6. t.at \in Before => BeforeInv(t)
  BY <1>1, <1>2, <1>4 DEF DriverInv, BeforeInv, Before, Time
<1>7. OpInv(t)
  BY <1>1, <1>2, <1>4 DEF DriverInv, OpInv, BeforeInv, Before, Taking, Deciding
<1>8. ClockInv(t)
  BY <1>1, <1>2, <1>4 DEF DriverInv, ClockInv, BeforeInv, Before, Time, Taking, Deciding
<1>9. TakenInv(t)
  BY <1>1, <1>2, <1>4 DEF DriverInv, TakenInv, ClockInv, Taking, Deciding
<1>10. BoundaryInv(t)
  BY <1>1, <1>2, <1>4 DEF DriverInv, BoundaryInv, OpInv, Taking
<1>11. RowInv(t)
  BY <1>1, <1>2, <1>4 DEF DriverInv, RowInv, RowOf, CarriedRow, Time
<1>12. EndInv(t)
  BY <1>1, <1>2, <1>4 DEF DriverInv, EndInv, RowsInv, Captured
<1>13. QED
  BY <1>3, <1>5, <1>6, <1>7, <1>8, <1>9, <1>10, <1>11, <1>12 DEF DriverInv

\* No interrupt is entered.
LEMMA PassKeeps ==
    ASSUME NEW s \in View, DriverInv(s), s.at = "decide", Guest!Decision(s.work.gi.op, s.work.gi.pre, s.work.gi.post, s.work.gi.irq, s.work.gi.nmi) = "none",
           NEW t, t = [at |-> "output", op |-> s.op, acc |-> s.acc,
                    work |-> [s.work EXCEPT !.gi.decision = "none",
                                             !.gi.nmi = (s.work.gi.nmi /\ "none" # "nmi")]]
    PROVE  t \in View /\ DriverInv(t)
<1>1. s.work \in WorkType
  BY DEF View
<1>2. t \in View
  <2>1. t.work \in WorkType
    BY <1>1 DEF WorkType, Kinds, Decisions
  <2>2. t.op \in AnyOp /\ t.acc \in BOOLEAN \cup Nat
    BY <1>1 DEF View, WorkType
  <2>3. QED
    BY <2>1, <2>2 DEF View, DriverAt
<1>3. /\ t.at = "output" /\ t.op = s.op /\ t.acc = s.acc
      /\ t.work.cursor = s.work.cursor /\ t.work.header = s.work.header
      /\ t.work.gc = s.work.gc
      /\ t.work.gi.op = s.work.gi.op /\ t.work.gi.pre = s.work.gi.pre /\ t.work.gi.post = s.work.gi.post
      /\ t.work.gi.irq = s.work.gi.irq /\ t.work.gi.nmi = (s.work.gi.nmi /\ "none" # "nmi")
      /\ t.work.gi.decision = "none" /\ t.work.gi.cost = s.work.gi.cost
      /\ t.work.gt = s.work.gt
  BY <1>1 DEF WorkType
<1>4. RowsInv(t)
  BY <1>1, <1>3, StepsAssumption DEF DriverInv, RowsInv, Captured
<1>5. t.at \in Before => BeforeInv(t)
  BY <1>1, <1>3 DEF DriverInv, BeforeInv, Before, Time
<1>6. OpInv(t)
  BY <1>1, <1>3 DEF DriverInv, OpInv, BeforeInv, Before, Taking, Deciding
<1>7. ClockInv(t)
  BY <1>1, <1>3 DEF DriverInv, ClockInv, BeforeInv, Before, Time, Taking, Deciding
<1>8. TakenInv(t)
  BY <1>1, <1>3 DEF DriverInv, TakenInv, ClockInv, Taking, Deciding
<1>9. BoundaryInv(t)
  BY <1>1, <1>3 DEF DriverInv, BoundaryInv, WorkType, Guest!EntryCost
<1>10. RowInv(t)
  BY <1>1, <1>3 DEF DriverInv, RowInv, RowOf, CarriedRow, Time
<1>11. EndInv(t)
  BY <1>1, <1>3 DEF DriverInv, EndInv, RowsInv, Captured
<1>12. QED
  BY <1>2, <1>4, <1>5, <1>6, <1>7, <1>8, <1>9, <1>10, <1>11 DEF DriverInv

\* An interrupt is entered.
LEMMA ServeKeeps ==
    ASSUME NEW s \in View, DriverInv(s), s.at = "decide", NEW d \in {"irq", "nmi"}, NEW nmi \in BOOLEAN,
           nmi <=> s.work.gi.nmi /\ d # "nmi",
           Guest!Decision(s.work.gi.op, s.work.gi.pre, s.work.gi.post, s.work.gi.irq, s.work.gi.nmi) = d,
           NEW t, t = [at |-> "enter", op |-> s.op, acc |-> s.acc,
                    work |-> [s.work EXCEPT !.gi.decision = d,
                                             !.gi.nmi = nmi]]
    PROVE  t \in View /\ DriverInv(t)
<1>1. s.work \in WorkType
  BY DEF View
<1>2. d \in Decisions
  BY DEF Decisions
<1>3. t \in View
  <2>1. t.work \in WorkType
    BY <1>1, <1>2, DecisionTyped
  <2>2. t.op \in AnyOp /\ t.acc \in BOOLEAN \cup Nat
    BY <1>1 DEF View
  <2>3. QED
    BY <2>1, <2>2 DEF View, DriverAt
<1>4. /\ t.at = "enter" /\ t.op = s.op /\ t.acc = s.acc
      /\ t.work.cursor = s.work.cursor /\ t.work.header = s.work.header
      /\ t.work.gc = s.work.gc
      /\ t.work.gi.op = s.work.gi.op /\ t.work.gi.pre = s.work.gi.pre /\ t.work.gi.post = s.work.gi.post
      /\ t.work.gi.irq = s.work.gi.irq /\ t.work.gi.nmi = nmi
      /\ t.work.gi.decision = d /\ t.work.gi.cost = s.work.gi.cost
      /\ t.work.gt = s.work.gt
  BY <1>1 DEF WorkType
<1>5. RowsInv(t)
  BY <1>1, <1>2, <1>4, StepsAssumption DEF DriverInv, RowsInv, Captured
<1>6. t.at \in Before => BeforeInv(t)
  BY <1>1, <1>2, <1>4 DEF DriverInv, BeforeInv, Before, Time
<1>7. OpInv(t)
  BY <1>1, <1>2, <1>4 DEF DriverInv, OpInv, BeforeInv, Before, Taking, Deciding
<1>8. ClockInv(t)
  BY <1>1, <1>2, <1>4 DEF DriverInv, ClockInv, BeforeInv, Before, Time, Taking, Deciding
<1>9. TakenInv(t)
  BY <1>1, <1>2, <1>4 DEF DriverInv, TakenInv, ClockInv, Taking, Deciding
<1>10. BoundaryInv(t)
  BY <1>1, <1>2, <1>4 DEF DriverInv, BoundaryInv
<1>11. RowInv(t)
  BY <1>1, <1>2, <1>4 DEF DriverInv, RowInv, RowOf, CarriedRow, Time
<1>12. EndInv(t)
  BY <1>1, <1>2, <1>4 DEF DriverInv, EndInv, RowsInv, Captured
<1>13. QED
  BY <1>3, <1>5, <1>6, <1>7, <1>8, <1>9, <1>10, <1>11, <1>12 DEF DriverInv

\* The entry masks IRQs and costs seven cycles.
LEMMA EnterKeeps ==
    ASSUME NEW s \in View, DriverInv(s), s.at = "enter",
           NEW t, t = [at |-> "output", op |-> s.op, acc |-> s.acc,
                    work |-> [s.work EXCEPT !.gi.post = TRUE,
                                             !.gi.cost = Guest!Entry]]
    PROVE  t \in View /\ DriverInv(t)
<1>1. s.work \in WorkType
  BY DEF View
<1>2. Guest!Entry = 7
  BY DEF Guest!Entry
<1>3. t \in View
  <2>1. t.work \in WorkType
    BY <1>1, <1>2 DEF WorkType, Kinds, Decisions
  <2>2. t.op \in AnyOp /\ t.acc \in BOOLEAN \cup Nat
    BY <1>1, <1>2 DEF View, WorkType
  <2>3. QED
    BY <2>1, <2>2 DEF View, DriverAt
<1>4. /\ t.at = "output" /\ t.op = s.op /\ t.acc = s.acc
      /\ t.work.cursor = s.work.cursor /\ t.work.header = s.work.header
      /\ t.work.gc = s.work.gc
      /\ t.work.gi.op = s.work.gi.op /\ t.work.gi.pre = s.work.gi.pre /\ t.work.gi.post = TRUE
      /\ t.work.gi.irq = s.work.gi.irq /\ t.work.gi.nmi = s.work.gi.nmi
      /\ t.work.gi.decision = s.work.gi.decision /\ t.work.gi.cost = Guest!Entry
      /\ t.work.gt = s.work.gt
  BY <1>1 DEF WorkType
<1>5. RowsInv(t)
  BY <1>1, <1>2, <1>4, StepsAssumption DEF DriverInv, RowsInv, Captured
<1>6. t.at \in Before => BeforeInv(t)
  BY <1>1, <1>2, <1>4 DEF DriverInv, BeforeInv, Before, Time
<1>7. OpInv(t)
  BY <1>1, <1>2, <1>4 DEF DriverInv, OpInv, BeforeInv, Before, Taking, Deciding
<1>8. ClockInv(t)
  BY <1>1, <1>2, <1>4 DEF DriverInv, ClockInv, BeforeInv, Before, Time, Taking, Deciding
<1>9. TakenInv(t)
  BY <1>1, <1>2, <1>4 DEF DriverInv, TakenInv, ClockInv, Taking, Deciding
<1>10. BoundaryInv(t)
  <2>1. s.work.gi.decision # "none"
    BY DEF DriverInv, BoundaryInv
  <2>2. Guest!EntryCost(s.work.gi.decision) = Guest!Entry /\ (s.work.gt.i \/ s.work.gi.decision # "none") = TRUE
    BY <2>1 DEF Guest!EntryCost
  <2>3. QED
    <3>1. t.work.gi.post = (t.work.gt.i \/ t.work.gi.decision # "none")
      BY <1>4, <2>2, Zenon
    <3>2. QED
      BY <1>4, <2>2, <3>1 DEF DriverInv, BoundaryInv
<1>11. RowInv(t)
  BY <1>1, <1>2, <1>4 DEF DriverInv, RowInv, RowOf, CarriedRow, Time
<1>12. EndInv(t)
  BY <1>1, <1>2, <1>4 DEF DriverInv, EndInv, RowsInv, Captured
<1>13. QED
  BY <1>3, <1>5, <1>6, <1>7, <1>8, <1>9, <1>10, <1>11, <1>12 DEF DriverInv

\* The cursor is in X.
LEMMA PlaceKeeps ==
    ASSUME NEW s \in View, DriverInv(s), s.at = "place",
           NEW t, t = [at |-> "write", op |-> s.op, acc |-> s.work.cursor,
                    work |-> s.work]
    PROVE  t \in View /\ DriverInv(t)
<1>1. s.work \in WorkType
  BY DEF View
<1>2. t \in View
  <2>1. t.work \in WorkType
    BY <1>1 DEF WorkType, Kinds, Decisions
  <2>2. t.op \in AnyOp /\ t.acc \in BOOLEAN \cup Nat
    BY <1>1 DEF View, WorkType
  <2>3. QED
    BY <2>1, <2>2 DEF View, DriverAt
<1>3. /\ t.at = "write" /\ t.op = s.op /\ t.acc = s.work.cursor
      /\ t.work = s.work
  BY <1>1 DEF WorkType
<1>4. RowsInv(t)
  BY <1>1, <1>3, StepsAssumption DEF DriverInv, RowsInv, Captured
<1>5. t.at \in Before => BeforeInv(t)
  BY <1>1, <1>3 DEF DriverInv, BeforeInv, Before, Time
<1>6. OpInv(t)
  BY <1>1, <1>3 DEF DriverInv, OpInv, BeforeInv, Before, Taking, Deciding
<1>7. ClockInv(t)
  BY <1>1, <1>3 DEF DriverInv, ClockInv, BeforeInv, Before, Time, Taking, Deciding
<1>8. TakenInv(t)
  BY <1>1, <1>3 DEF DriverInv, TakenInv, ClockInv, Taking, Deciding
<1>9. BoundaryInv(t)
  BY <1>1, <1>3 DEF DriverInv, BoundaryInv
<1>10. RowInv(t)
  BY <1>1, <1>3 DEF DriverInv, RowInv, RowOf, CarriedRow, Time
<1>11. EndInv(t)
  BY <1>1, <1>3 DEF DriverInv, EndInv, RowsInv, Captured
<1>12. QED
  BY <1>2, <1>4, <1>5, <1>6, <1>7, <1>8, <1>9, <1>10, <1>11 DEF DriverInv

\* The cursor is stored.
LEMMA AdvanceKeeps ==
    ASSUME NEW s \in View, DriverInv(s), s.at = "advance",
           NEW t, t = [at |-> "next", op |-> s.op, acc |-> s.acc,
                    work |-> [s.work EXCEPT !.cursor = s.acc]]
    PROVE  t \in View /\ DriverInv(t)
<1>1. s.work \in WorkType
  BY DEF View
<1>2. s.acc = s.work.gt.ordinal /\ s.acc \in Nat
  BY <1>1 DEF WorkType, DriverInv, RowsInv, Captured
<1>3. t \in View
  BY <1>1, <1>2 DEF View, WorkType, DriverAt, AnyOp, Kinds, Decisions
<1>4. /\ t.at = "next" /\ t.op = s.op /\ t.acc = s.acc
      /\ t.work.cursor = s.acc /\ t.work.header = s.work.header
      /\ t.work.gc = s.work.gc
      /\ t.work.gi = s.work.gi
      /\ t.work.gt = s.work.gt
  BY <1>1 DEF WorkType
<1>5. RowsInv(t)
  BY <1>1, <1>2, <1>4, StepsAssumption DEF DriverInv, RowsInv, Captured
<1>6. t.at \in Before => BeforeInv(t)
  BY <1>1, <1>2, <1>4 DEF DriverInv, BeforeInv, Before, Time
<1>7. OpInv(t)
  BY <1>1, <1>2, <1>4 DEF DriverInv, OpInv, BeforeInv, Before, Taking, Deciding
<1>8. ClockInv(t)
  BY <1>1, <1>2, <1>4 DEF DriverInv, ClockInv, BeforeInv, Before, Time, Taking, Deciding
<1>9. TakenInv(t)
  BY <1>1, <1>2, <1>4 DEF DriverInv, TakenInv, ClockInv, Taking, Deciding
<1>10. BoundaryInv(t)
  BY <1>1, <1>2, <1>4 DEF DriverInv, BoundaryInv
<1>11. RowInv(t)
  BY <1>1, <1>2, <1>4 DEF DriverInv, RowInv, RowOf, CarriedRow, Time
<1>12. EndInv(t)
  BY <1>1, <1>2, <1>4 DEF DriverInv, EndInv, RowsInv, Captured
<1>13. QED
  BY <1>3, <1>5, <1>6, <1>7, <1>8, <1>9, <1>10, <1>11, <1>12 DEF DriverInv

\* All instructions have run.
LEMMA DoneKeeps ==
    ASSUME NEW s \in View, DriverInv(s), s.at = "next", s.work.gt.ordinal = Steps,
           NEW t, t = [at |-> "done", op |-> s.op, acc |-> s.acc,
                    work |-> s.work]
    PROVE  t \in View /\ DriverInv(t)
<1>1. s.work \in WorkType
  BY DEF View
<1>2. t \in View
  BY <1>1 DEF View, WorkType, DriverAt, AnyOp, Kinds, Decisions
<1>3. /\ t.at = "done" /\ t.op = s.op /\ t.acc = s.acc
      /\ t.work = s.work
  BY <1>1 DEF WorkType
<1>4. RowsInv(t)
  BY <1>1, <1>3, StepsAssumption DEF DriverInv, RowsInv, Captured
<1>5. t.at \in Before => BeforeInv(t)
  BY <1>1, <1>3 DEF DriverInv, BeforeInv, Before, Time
<1>6. OpInv(t)
  BY <1>1, <1>3 DEF DriverInv, OpInv, BeforeInv, Before, Taking, Deciding
<1>7. ClockInv(t)
  BY <1>1, <1>3 DEF DriverInv, ClockInv, BeforeInv, Before, Time, Taking, Deciding
<1>8. TakenInv(t)
  BY <1>1, <1>3 DEF DriverInv, TakenInv, ClockInv, Taking, Deciding
<1>9. BoundaryInv(t)
  BY <1>1, <1>3 DEF DriverInv, BoundaryInv
<1>10. RowInv(t)
  BY <1>1, <1>3 DEF DriverInv, RowInv, RowOf, CarriedRow, Time
<1>11. EndInv(t)
  BY <1>1, <1>3 DEF DriverInv, EndInv, RowsInv, Captured
<1>12. QED
  BY <1>2, <1>4, <1>5, <1>6, <1>7, <1>8, <1>9, <1>10, <1>11 DEF DriverInv

\* The run has failed.
LEMMA FailedKeeps ==
    ASSUME NEW s \in View, DriverInv(s), s.at = "fault",
           NEW t, t = [at |-> "failed", op |-> s.op, acc |-> s.acc,
                    work |-> s.work]
    PROVE  t \in View /\ DriverInv(t)
<1>1. s.work \in WorkType
  BY DEF View
<1>2. t \in View
  BY <1>1 DEF View, WorkType, DriverAt, AnyOp, Kinds, Decisions
<1>3. /\ t.at = "failed" /\ t.op = s.op /\ t.acc = s.acc
      /\ t.work = s.work
  BY <1>1 DEF WorkType
<1>4. RowsInv(t)
  BY <1>1, <1>3, StepsAssumption DEF DriverInv, RowsInv, Captured
<1>5. t.at \in Before => BeforeInv(t)
  BY <1>1, <1>3 DEF DriverInv, BeforeInv, Before, Time
<1>6. OpInv(t)
  BY <1>1, <1>3 DEF DriverInv, OpInv, BeforeInv, Before, Taking, Deciding
<1>7. ClockInv(t)
  BY <1>1, <1>3 DEF DriverInv, ClockInv, BeforeInv, Before, Time, Taking, Deciding
<1>8. TakenInv(t)
  BY <1>1, <1>3 DEF DriverInv, TakenInv, ClockInv, Taking, Deciding
<1>9. BoundaryInv(t)
  BY <1>1, <1>3 DEF DriverInv, BoundaryInv
<1>10. RowInv(t)
  BY <1>1, <1>3 DEF DriverInv, RowInv, RowOf, CarriedRow, Time
<1>11. EndInv(t)
  BY <1>1, <1>3 DEF DriverInv, EndInv, RowsInv, Captured
<1>12. QED
  BY <1>2, <1>4, <1>5, <1>6, <1>7, <1>8, <1>9, <1>10, <1>11 DEF DriverInv

\* The results of the boundary; the lower word takes the cost of an entry.
LEMMA OutputKeeps ==
    ASSUME NEW s \in View, DriverInv(s), s.at = "output", NEW lo \in 0..Word - 1, NEW carry \in {0, 1},
           lo + carry * Word = s.work.gt.lo + s.work.gi.cost,
           NEW t, t = [at |-> "settle", op |-> s.op, acc |-> carry,
                    work |-> [s.work EXCEPT !.gt.i = s.work.gi.post,
                                             !.gt.nmi = s.work.gi.nmi,
                                             !.gt.decision = s.work.gi.decision,
                                             !.gt.entry = s.work.gi.cost,
                                             !.gt.lo = lo]]
    PROVE  t \in View /\ DriverInv(t)
<1>1. s.work \in WorkType
  BY DEF View
<1>2. t \in View
  <2>1. t.work \in WorkType
    BY <1>1, OutputTyped
  <2>2. t.op \in AnyOp /\ t.acc \in BOOLEAN \cup Nat
    BY <1>1 DEF View
  <2>3. QED
    BY <2>1, <2>2 DEF View, DriverAt
<1>3. /\ t.at = "settle" /\ t.op = s.op /\ t.acc = carry
      /\ t.work.cursor = s.work.cursor /\ t.work.header = s.work.header
      /\ t.work.gc = s.work.gc
      /\ t.work.gi = s.work.gi
      /\ t.work.gt.lo = lo /\ t.work.gt.hi = s.work.gt.hi
      /\ t.work.gt.i = s.work.gi.post /\ t.work.gt.irq = s.work.gt.irq
      /\ t.work.gt.nmi = s.work.gi.nmi /\ t.work.gt.index = s.work.gt.index
      /\ t.work.gt.status = s.work.gt.status /\ t.work.gt.ordinal = s.work.gt.ordinal
      /\ t.work.gt.op = s.work.gt.op /\ t.work.gt.cost = s.work.gt.cost
      /\ t.work.gt.entry = s.work.gi.cost /\ t.work.gt.decision = s.work.gi.decision
  BY <1>1 DEF WorkType
<1>4. RowsInv(t)
  BY <1>1, <1>3, StepsAssumption DEF DriverInv, RowsInv, Captured
<1>5. t.at \in Before => BeforeInv(t)
  BY <1>1, <1>3 DEF DriverInv, BeforeInv, Before, Time
<1>6. OpInv(t)
  BY <1>1, <1>3 DEF DriverInv, OpInv, BeforeInv, Before, Taking, Deciding
<1>7. ClockInv(t)
  BY <1>1, <1>3 DEF DriverInv, ClockInv, BeforeInv, Before, Time, Taking, Deciding
<1>8. TakenInv(t)
  BY <1>1, <1>3 DEF DriverInv, TakenInv, ClockInv, Taking, Deciding
<1>9. BoundaryInv(t)
  BY <1>1, <1>3 DEF DriverInv, BoundaryInv
<1>10. RowInv(t)
  <2> DEFINE op == s.op
             post == s.work.gt.i
             m == s.work.gt.index
             irq == s.work.gt.irq
             nmi == s.work.gt.nmi
             d == s.work.gi.decision
             cost == Guest!EntryCost(d)
             now == LastRow.time + op.cost
             r == [time |-> now + cost, i |-> post \/ d # "none", irq |-> irq,
                   nmi |-> nmi /\ d # "nmi", index |-> m, ordinal |-> LastRow.ordinal + 1,
                   op |-> op.kind, cost |-> op.cost, entry |-> cost, decision |-> d]
  <2>1. /\ op \in Ops /\ post \in Guest!FlagAfter(op, LastRow.i) /\ ~Guest!ClockFull(LastRow.time)
        /\ s.work.gt.cost = op.cost
    BY DEF DriverInv, OpInv, Deciding, Taking
  <2>2. /\ m \in LastRow.index..Len(events)
        /\ irq = (IF m = LastRow.index THEN LastRow.irq ELSE events[m].irq)
        /\ nmi <=> (LastRow.nmi \/ \E j \in LastRow.index + 1..m : events[j].nmi)
        /\ \A j \in LastRow.index + 1..m : events[j].cycle <= now
        /\ m < Len(events) => ~(events[m + 1].cycle <= now)
    <3>1. /\ m >= LastRow.index /\ m <= Len(events) /\ m \in Nat
          /\ irq = Guest!LineAfter(LastRow.index, m) /\ nmi = Guest!LatchAfter(LastRow.index, m)
          /\ Guest!LoopStops(LastRow.index, m, now)
      BY <1>1 DEF DriverInv, TakenInv, Deciding, Taking, WorkType
    <3>2. LastRow.index \in Nat /\ Len(events) \in Nat
      BY PlanFacts DEF DriverInv, RowType
    <3> HIDE DEF m, irq, nmi, now
    <3>3. m \in LastRow.index..Len(events)
      BY <3>1, <3>2
    <3>4. irq = (IF m = LastRow.index THEN LastRow.irq ELSE events[m].irq)
      BY <3>1, GuestViews
    <3>5. nmi <=> (LastRow.nmi \/ \E j \in LastRow.index + 1..m : events[j].nmi)
      BY <3>1, GuestViews, Zenon
    <3>6. QED
      BY <3>1, <3>3, <3>4, <3>5, GuestViews
  <2>3. /\ d = Guest!Decision(op, LastRow.i, post, irq, nmi) /\ s.work.gt.op = op.kind
        /\ s.work.gi.nmi = (nmi /\ d # "nmi") /\ s.work.gi.post = (post \/ d # "none")
        /\ s.work.gi.cost = cost
    BY DEF DriverInv, BoundaryInv
  <2>4. post \in BOOLEAN /\ irq \in BOOLEAN /\ nmi \in BOOLEAN /\ d \in Decisions
    BY <1>1 DEF WorkType
  <2>5. Follows(r)
    <3> HIDE DEF op, post, m, irq, nmi, d, cost, r
    <3>1. r = [time |-> LastRow.time + op.cost + Guest!EntryCost(d), i |-> post \/ d # "none",
               irq |-> irq, nmi |-> nmi /\ d # "nmi", index |-> m,
               ordinal |-> LastRow.ordinal + 1, op |-> op.kind, cost |-> op.cost,
               entry |-> Guest!EntryCost(d), decision |-> d]
      BY DEF r, cost
    <3> SUFFICES FollowsAs(LastRow, events, r)
      BY DEF Follows
    <3> USE <2>1, <2>2, <2>4 DEF FollowsAs
    <3> WITNESS op \in Ops, m \in LastRow.index..Len(events), post \in BOOLEAN, irq \in BOOLEAN,
                nmi \in BOOLEAN, d \in Decisions
    <3>2. QED
      BY <2>1, <2>2, <2>3, <3>1, Zenon
  <2>6. LastRow.ordinal = s.work.gt.ordinal
    BY LastRowFacts DEF DriverInv, Captured
  <2>7. Time(t.work.gt) + carry * Word = now + cost
    <3>1. Time(s.work.gt) = now
      BY DEF DriverInv, ClockInv, Deciding, Taking
    <3>2. Word \in Nat /\ s.work.gt.hi \in Nat /\ s.work.gt.lo \in Nat /\ lo \in Nat /\ carry \in Nat
      BY <1>1, ClockAssumption DEF WorkType
    <3> DEFINE high == s.work.gt.hi * Word
               over == carry * Word
    <3>3. high \in Nat /\ over \in Nat
      <4>1. high \in Nat
        <5>1. \A x, y \in Nat : x * y \in Nat
          OBVIOUS
        <5>2. QED
          BY <3>2, <5>1
      <4>2. over \in {0, Word}
        BY <3>2
      <4>3. QED
        BY <3>2, <4>1, <4>2
    <3>4. cost \in Nat
      BY EntryFacts
    <3> HIDE DEF now, cost
    <3>5. /\ high + s.work.gt.lo = now /\ Time(t.work.gt) = high + lo
          /\ lo + over = s.work.gt.lo + cost
      BY <1>3, <2>3, <3>1 DEF Time
    <3> HIDE DEF high, over
    <3>6. Time(t.work.gt) + over = now + cost
      <4>1. \A x, y, z \in Nat : (x + y) + z = x + (y + z)
        OBVIOUS
      <4>2. (high + lo) + over = high + (lo + over)
        BY <3>2, <3>3, <4>1
      <4>3. (high + s.work.gt.lo) + cost = high + (s.work.gt.lo + cost)
        BY <3>2, <3>3, <3>4, <4>1
      <4>4. QED
        BY <3>5, <4>2, <4>3, Zenon
    <3>7. QED
      BY <3>6 DEF over
  <2>8. CarriedRow(t.work.gt, carry) = r
    <3> HIDE DEF now, cost
    <3>1. /\ t.work.gt.i = (post \/ d # "none") /\ t.work.gt.nmi = (nmi /\ d # "nmi")
          /\ t.work.gt.entry = cost /\ t.work.gt.decision = d
          /\ t.work.gt.irq = irq /\ t.work.gt.index = m /\ t.work.gt.cost = op.cost
          /\ t.work.gt.op = op.kind /\ t.work.gt.ordinal = LastRow.ordinal
      BY <1>3, <2>1, <2>3, <2>6
    <3> HIDE DEF op, post, m, irq, nmi, d
    <3>2. QED
      BY <2>7, <3>1, Zenon DEF CarriedRow
  <2>9. Follows(CarriedRow(t.work.gt, t.acc))
    <3> HIDE DEF r
    <3>1. QED
      BY <1>3, <2>5, <2>8
  <2>10. QED
    BY <1>3, <2>9 DEF RowInv
<1>11. EndInv(t)
  BY <1>1, <1>3 DEF DriverInv, EndInv, RowsInv, Captured
<1>12. QED
  BY <1>2, <1>4, <1>5, <1>6, <1>7, <1>8, <1>9, <1>10, <1>11 DEF DriverInv

\* The upper word takes the carry; the instruction is counted.
LEMMA SettleKeeps ==
    ASSUME NEW s \in View, DriverInv(s), s.at = "settle", NEW hi \in 0..Highs - 1,
           hi * Word + s.work.gt.lo = Time(s.work.gt) + s.acc * Word,
           NEW t, t = [at |-> "copy", op |-> s.op, acc |-> s.acc,
                    work |-> [s.work EXCEPT !.gt.hi = hi,
                                             !.gt.ordinal = s.work.gt.ordinal + 1]]
    PROVE  t \in View /\ DriverInv(t)
<1>1. s.work \in WorkType
  BY DEF View
<1>2. s.work.gt.ordinal + 1 \in Nat
  BY <1>1 DEF WorkType
<1>3. t \in View
  <2>1. t.work \in WorkType
    BY <1>1, <1>2, SettleTyped
  <2>2. t.op \in AnyOp /\ t.acc \in BOOLEAN \cup Nat
    BY <1>1 DEF View
  <2>3. QED
    BY <2>1, <2>2 DEF View, DriverAt
<1>4. /\ t.at = "copy" /\ t.op = s.op /\ t.acc = s.acc
      /\ t.work.cursor = s.work.cursor /\ t.work.header = s.work.header
      /\ t.work.gc = s.work.gc
      /\ t.work.gi = s.work.gi
      /\ t.work.gt.lo = s.work.gt.lo /\ t.work.gt.hi = hi
      /\ t.work.gt.i = s.work.gt.i /\ t.work.gt.irq = s.work.gt.irq
      /\ t.work.gt.nmi = s.work.gt.nmi /\ t.work.gt.index = s.work.gt.index
      /\ t.work.gt.status = s.work.gt.status /\ t.work.gt.ordinal = s.work.gt.ordinal + 1
      /\ t.work.gt.op = s.work.gt.op /\ t.work.gt.cost = s.work.gt.cost
      /\ t.work.gt.entry = s.work.gt.entry /\ t.work.gt.decision = s.work.gt.decision
  BY <1>1 DEF WorkType
<1>5. RowsInv(t)
  <2>1. s.work.gt.ordinal \in Nat /\ Captured(t) = Captured(s)
    BY <1>1, <1>2, <1>4 DEF WorkType, Captured
  <2>2. QED
    BY <1>4, <2>1, StepsAssumption DEF DriverInv, RowsInv
<1>6. t.at \in Before => BeforeInv(t)
  BY <1>1, <1>2, <1>4 DEF DriverInv, BeforeInv, Before, Time
<1>7. OpInv(t)
  BY <1>1, <1>2, <1>4 DEF DriverInv, OpInv, BeforeInv, Before, Taking, Deciding
<1>8. ClockInv(t)
  BY <1>1, <1>2, <1>4 DEF DriverInv, ClockInv, BeforeInv, Before, Time, Taking, Deciding
<1>9. TakenInv(t)
  BY <1>1, <1>2, <1>4 DEF DriverInv, TakenInv, ClockInv, Taking, Deciding
<1>10. BoundaryInv(t)
  BY <1>1, <1>2, <1>4 DEF DriverInv, BoundaryInv
<1>11. RowInv(t)
  <2>1. Follows(CarriedRow(s.work.gt, s.acc))
    BY DEF DriverInv, RowInv
  <2>2. RowOf(t.work.gt) = CarriedRow(s.work.gt, s.acc)
    BY <1>4 DEF RowOf, CarriedRow
  <2>3. QED
    BY <1>4, <2>1, <2>2 DEF RowInv
<1>12. EndInv(t)
  BY <1>4 DEF DriverInv, EndInv
<1>13. QED
  BY <1>3, <1>5, <1>6, <1>7, <1>8, <1>9, <1>10, <1>11, <1>12 DEF DriverInv

\* The header is assembled.
LEMMA AssembleKeeps ==
    ASSUME NEW s \in View, DriverInv(s), s.at = "copy",
           NEW t, t = [at |-> "place", op |-> s.op, acc |-> s.acc,
                    work |-> [s.work EXCEPT !.header = RowOf(s.work.gt)]]
    PROVE  t \in View /\ DriverInv(t)
<1>1. s.work \in WorkType
  BY DEF View
<1>2. RowOf(s.work.gt) \in RowType
  BY <1>1, RowTyped
<1>3. t \in View
  BY <1>1, <1>2 DEF View, WorkType, DriverAt, AnyOp, Kinds, Decisions
<1>4. /\ t.at = "place" /\ t.op = s.op /\ t.acc = s.acc
      /\ t.work.cursor = s.work.cursor /\ t.work.header = RowOf(s.work.gt)
      /\ t.work.gc = s.work.gc
      /\ t.work.gi = s.work.gi
      /\ t.work.gt = s.work.gt
  BY <1>1 DEF WorkType
<1>5. RowsInv(t)
  BY <1>1, <1>2, <1>4, StepsAssumption DEF DriverInv, RowsInv, Captured
<1>6. t.at \in Before => BeforeInv(t)
  BY <1>1, <1>2, <1>4 DEF DriverInv, BeforeInv, Before, Time
<1>7. OpInv(t)
  BY <1>1, <1>2, <1>4 DEF DriverInv, OpInv, BeforeInv, Before, Taking, Deciding
<1>8. ClockInv(t)
  BY <1>1, <1>2, <1>4 DEF DriverInv, ClockInv, BeforeInv, Before, Time, Taking, Deciding
<1>9. TakenInv(t)
  BY <1>1, <1>2, <1>4 DEF DriverInv, TakenInv, ClockInv, Taking, Deciding
<1>10. BoundaryInv(t)
  BY <1>1, <1>2, <1>4 DEF DriverInv, BoundaryInv
<1>11. RowInv(t)
  BY <1>1, <1>2, <1>4 DEF DriverInv, RowInv, RowOf, CarriedRow, Time
<1>12. EndInv(t)
  BY <1>1, <1>2, <1>4 DEF DriverInv, EndInv, RowsInv, Captured
<1>13. QED
  BY <1>3, <1>5, <1>6, <1>7, <1>8, <1>9, <1>10, <1>11, <1>12 DEF DriverInv

\* The row is written at the cursor.
LEMMA WriteKeeps ==
    ASSUME NEW s \in View, DriverInv(s), s.at = "write",
           NEW t, t = [at |-> "advance", op |-> s.op, acc |-> s.acc + 1, work |-> s.work],
           out' = [out EXCEPT ![s.acc] = s.work.header], UNCHANGED <<events, outcome>>
    PROVE  t \in View /\ DriverInv(t)' /\ LastRow' = RowOf(s.work.gt)
<1> DEFINE c == s.work.gt.ordinal - 1
           row == RowOf(s.work.gt)
<1>1. s.work \in WorkType
  BY DEF View
<1>2. /\ c \in 0..Steps /\ c < Steps /\ s.acc = c /\ s.work.cursor = c /\ Steps \in Nat
      /\ out = [r \in Rows |-> out[r]]
      /\ \A r \in Rows : IF r < c THEN out[r] \in RowType /\ out[r].ordinal = r + 1 ELSE out[r] = None
  BY StepsAssumption DEF DriverInv, RowsInv, Captured
<1>3. s.work.header = row /\ Follows(row)
  BY DEF DriverInv, RowInv
<1>4. row \in RowType
  BY <1>1, RowTyped
<1>5. row.time < Word * Highs /\ row.index <= Len(events)
  BY <1>3, FollowsFacts DEF DriverInv
<1>6. /\ row.time = Time(s.work.gt) /\ row.index = s.work.gt.index /\ row.irq = s.work.gt.irq
      /\ row.nmi = s.work.gt.nmi /\ row.i = s.work.gt.i /\ row.ordinal = c + 1
  <2>1. s.work.gt.ordinal \in Nat
    BY <1>1 DEF WorkType
  <2>2. QED
    BY <2>1 DEF RowOf, Time
<1>7. t \in View
  <2>1. t.acc \in Nat
    BY <1>2
  <2>2. QED
    BY <1>1, <2>1 DEF View, DriverAt
<1>8. t.at = "advance" /\ t.acc = c + 1 /\ t.work = s.work /\ Captured(t) = c + 1
  <2>1. s.work.gt.ordinal \in Nat
    BY <1>1 DEF WorkType
  <2>2. QED
    BY <1>2, <2>1 DEF Captured
<1>9. c \in Rows /\ out' = [out EXCEPT ![c] = row]
  BY <1>2, <1>3 DEF Rows
<1> HIDE DEF c, row
<1>10. /\ out' = [r \in Rows |-> out'[r]]
       /\ \A r \in Rows : IF r < c + 1 THEN out'[r] \in RowType /\ out'[r].ordinal = r + 1
                                       ELSE out'[r] = None
  <2>1. \A r \in Rows : out'[r] = IF r = c THEN row ELSE out[r]
    BY <1>2, <1>9
  <2>2. out' = [r \in Rows |-> out'[r]]
    BY <1>2, <1>9
  <2>3. \A r \in Rows : r < c + 1 <=> r < c \/ r = c
    BY <1>2 DEF Rows
  <2>4. QED
    BY <1>2, <1>4, <1>6, <2>1, <2>2, <2>3
<1>11. RowsInv(t)'
  <2>1. Captured(t)' = c + 1
    BY <1>8 DEF Captured
  <2>10. c + 1 \in 0..Steps /\ c + 1 \in Nat
    BY <1>2
  <2>11. t.work.cursor = (c + 1) - 1
    BY <1>2, <1>8
  <2> DEFINE k == c + 1
  <2>2. /\ out' = [r \in Rows |-> out'[r]]
        /\ \A r \in Rows : IF r < k THEN out'[r] \in RowType /\ out'[r].ordinal = r + 1
                                     ELSE out'[r] = None
    BY <1>10
  <2>3. /\ Captured(t)' = k /\ k \in 0..Steps /\ t.work.cursor = k - 1 /\ t.acc = k
    <3>1. Captured(t)' = k
      BY <2>1
    <3>2. k \in 0..Steps
      BY <2>10
    <3>3. t.work.cursor = k - 1
      BY <2>11, Zenon
    <3>4. t.acc = k
      BY <1>8
    <3>5. QED
      BY <3>1, <3>2, <3>3, <3>4, Zenon
  <2> HIDE DEF k
  <2>4. \A r \in Rows : IF r < Captured(t)' THEN out'[r] \in RowType /\ out'[r].ordinal = r + 1
                                            ELSE out'[r] = None
    BY <2>2, <2>3, Zenon
  <2>5. t.work.cursor = IF t.at = "advance" THEN Captured(t)' - 1 ELSE Captured(t)'
    BY <1>8, <2>3
  <2>6. Captured(t)' \in 0..Steps
    BY <2>3
  <2>7. t.at \in {"write", "advance"} => t.acc = Captured(t)'
    BY <2>3
  <2>8. t.at \notin {"next", "advance", "done", "fault", "failed", "halt"} => Captured(t)' < Steps
    BY <1>8
  <2>9. QED
    BY <2>2, <2>4, <2>5, <2>6, <2>7, <2>8, Zenon DEF RowsInv
<1>12. LastRow' = row
  <2>1. LastRow' = LastOf(out')
    BY DEF LastRow, LastOf, Written
  <2> DEFINE k == c + 1
  <2>2. k \in 0..Steps /\ k # 0 /\ k - 1 = c
    BY <1>2
  <2>3. \A r \in Rows : IF r < k THEN out'[r] \in RowType /\ out'[r].ordinal = r + 1
                                 ELSE out'[r] = None
    BY <1>10
  <2> HIDE DEF k
  <2>4. LastOf(out') = IF k = 0 THEN Initial ELSE out'[k - 1]
    BY <2>2, <2>3, LastOfFacts
  <2>5. LastOf(out') = out'[c]
    BY <2>2, <2>4
  <2>6. QED
    BY <1>2, <1>9, <2>1, <2>5
<1>13. BeforeInv(t)'
  BY <1>6, <1>8, <1>12 DEF BeforeInv, Time
<1>14. OpInv(t)' /\ ClockInv(t)' /\ TakenInv(t)' /\ BoundaryInv(t)' /\ RowInv(t)' /\ EndInv(t)'
  BY <1>8 DEF DriverInv, OpInv, ClockInv, TakenInv, BoundaryInv, RowInv, EndInv, Taking, Deciding
<1>15. events' \in Plans /\ LastRow'.index <= Len(events') /\ LastRow'.time < Word * Highs /\ LastRow' \in RowType
  BY <1>4, <1>5, <1>12 DEF DriverInv
<1>16. LastRow' = RowOf(s.work.gt)
  BY <1>12 DEF row
<1>17. QED
  BY <1>7, <1>11, <1>13, <1>14, <1>15, <1>16 DEF DriverInv

\* The marker is written.
LEMMA MarkKeeps ==
    ASSUME NEW s \in View, DriverInv(s), s.at \in {"done", "failed"},
           NEW t, t = [at |-> "halt", op |-> s.op, acc |-> s.acc, work |-> s.work],
           outcome' = IF s.at = "done" THEN "done" ELSE s.work.gt.status,
           UNCHANGED <<events, out>>
    PROVE  t \in View /\ DriverInv(t)'
<1>1. t \in View
  BY DEF View, DriverAt
<1>2. t.at = "halt" /\ t.work = s.work /\ t.acc = s.acc
  OBVIOUS
<1>3. LastRow' = LastRow
  BY DEF LastRow, Written
<1>4. RowsInv(t)'
  BY <1>2 DEF DriverInv, RowsInv, Captured
<1>5. outcome' # "running"
  BY DEF DriverInv, EndInv
<1>6. EndInv(t)'
  BY <1>2, <1>5 DEF EndInv
<1>7. ~(t.at \in Before) /\ OpInv(t)' /\ ClockInv(t)' /\ TakenInv(t)' /\ BoundaryInv(t)' /\ RowInv(t)'
  BY <1>2 DEF OpInv, ClockInv, TakenInv, BoundaryInv, RowInv, Before, Taking, Deciding
<1>8. QED
  BY <1>1, <1>3, <1>4, <1>6, <1>7 DEF DriverInv

-----------------------------------------------------------------------------
\* The invariant: n interrupts in progress, whose frames are laid out on the stack.
Inv ==
    /\ cpu \in CpuType
    /\ \E n, b, v : Layout(stack, Present, n, b, v) /\ DriverInv(v[0]) /\ CountInv(n, v)

\* The driver has moved, and what it left is as it should be.
Kept ==
    \E t \in View : /\ t = Present' /\ cpu' = [at |-> t.at, op |-> t.op, acc |-> t.acc]
                    /\ t.at \in DriverAt /\ DriverInv(t)'

\* Equal views are equally good after a step.
LEMMA ViewSame ==
    ASSUME NEW s, NEW t, s = t, DriverInv(s)'
    PROVE  DriverInv(t)'
OBVIOUS

\* With the driver running, no interrupt is in progress.
LEMMA DriverLevel ==
    ASSUME Inv, cpu.at \in DriverAt
    PROVE  /\ cpu \in CpuType
           /\ \E b, v : /\ Layout(stack, Present, 0, b, v) /\ CountInv(0, v)
           /\ \E s \in View : s = Present /\ DriverInv(s)
<1>1. PICK n, b, v : Layout(stack, Present, n, b, v) /\ DriverInv(v[0]) /\ CountInv(n, v)
  BY DEF Inv
<1>2. n = 0
  <2>1. DriverAt \cap RoutineAt = {}
    BY DEF DriverAt, RoutineAt, AccHeld, Counted, WorkHeld, TimeHeld, CursorHeld, HeaderHeld
  <2>2. n \in Nat /\ v[n].at = cpu.at /\ \A i \in 1..n : v[i].at \in RoutineAt
    BY <1>1 DEF Layout, Present
  <2>3. n # 0 => n \in 1..n
    BY <2>2
  <2>4. QED
    BY <2>1, <2>2, <2>3
<1>3. v[0] \in View /\ v[0] = Present
  BY <1>1, <1>2 DEF Layout
<1>4. QED
  BY <1>1, <1>2, <1>3 DEF Inv

\* A step of the driver that leaves a good view keeps the invariant.
LEMMA DriverKeeps ==
    ASSUME Inv, cpu.at \in DriverAt, Kept, UNCHANGED <<stack, depth>>
    PROVE  Inv'
<1>1. PICK b, v : Layout(stack, Present, 0, b, v) /\ CountInv(0, v)
  BY DriverLevel
<1>2. PICK t \in View : /\ t = Present' /\ cpu' = [at |-> t.at, op |-> t.op, acc |-> t.acc]
                        /\ t.at \in DriverAt /\ DriverInv(t)'
  BY DEF Kept
<1>3. PICK w : w = [v EXCEPT ![0] = t]
  OBVIOUS
<1>4. Layout(stack', Present', 0, b, w)
  <2>1. Layout(stack, t, 0, b, w)
    BY <1>1, <1>2, <1>3, DriverMoves
  <2>2. QED
    BY <1>2, <2>1
<1>5. w[0] = t
  BY <1>1, <1>3 DEF Layout
<1>6. CountInv(0, w)'
  <2>1. \A x : Levels(0, x, WorkHeld) = {} /\ Levels(0, x, Counted) = {}
    BY DEF Levels
  <2>2. QED
    BY <1>1, <2>1 DEF CountInv, Interrupts, Contexts, Stacked
<1>7. cpu' \in CpuType
  <2>1. PICK at, op, acc : cpu' = [at |-> at, op |-> op, acc |-> acc]
                           /\ at = t.at /\ op = t.op /\ acc = t.acc
    BY <1>2
  <2>2. QED
    BY <1>2, <2>1 DEF CpuType, View
<1>8. DriverInv(w[0])'
  BY <1>2, <1>5, ViewSame
<1>9. QED
  BY <1>4, <1>6, <1>7, <1>8 DEF Inv

\* A step of the driver, as a step of its view.
LEMMA StepView ==
    ASSUME cpu \in CpuType, NEW s, s = Present, NEW t, t = Present',
           NEW from, NEW to, NEW acc, NEW scratch, Step(from, to, acc, scratch)
    PROVE  /\ s.at = from /\ s.op = cpu.op /\ s.acc = cpu.acc /\ s.work = work
           /\ t = [at |-> to, op |-> s.op, acc |-> acc, work |-> scratch]
           /\ cpu' = [at |-> t.at, op |-> t.op, acc |-> t.acc]
<1>1. s.at = cpu.at /\ s.op = cpu.op /\ s.acc = cpu.acc /\ s.work = work
  BY DEF Present
<1>2. /\ cpu.at = from /\ work' = scratch
      /\ cpu' = [at |-> to, op |-> cpu.op, acc |-> acc]
      /\ cpu'.at = to /\ cpu'.op = cpu.op /\ cpu'.acc = acc
  BY StepFacts
<1>3. t = [at |-> to, op |-> s.op, acc |-> acc, work |-> scratch]
  BY <1>1, <1>2 DEF Present
<1>4. QED
  BY <1>1, <1>2, <1>3

\* A step that writes no row and leaves a good view is one of the driver.
LEMMA QuietStep ==
    ASSUME NEW t \in View, t = Present', cpu' = [at |-> t.at, op |-> t.op, acc |-> t.acc],
           t.at \in DriverAt, DriverInv(t), UNCHANGED <<events, out, outcome>>
    PROVE  Kept
<1>1. DriverInv(t)'
  BY QuietKeeps
<1>2. QED
  BY <1>1 DEF Kept

\* Fields by name.
LEMMA FieldUpdates ==
    ASSUME work \in WorkType, NEW x
    PROVE  /\ GT("status", x) = [work EXCEPT !.gt.status = x]
           /\ GT("i", x) = [work EXCEPT !.gt.i = x]
           /\ GT("index", x) = [work EXCEPT !.gt.index = x]
           /\ GC("cost", x) = [work EXCEPT !.gc.cost = x]
BY DEF GT, GC

\* Dispatching an instruction keeps the driver's view good.
LEMMA DispatchStep ==
    ASSUME cpu \in CpuType, NEW s \in View, s = Present, DriverInv(s), NEW t, t = Present', Dispatch
    PROVE  Kept
<1>1. s.at = cpu.at /\ s.acc = cpu.acc /\ s.work = work
  BY DEF Present
<1>2. PICK op \in Ops : cpu' = [cpu EXCEPT !.at = "describe", !.op = op]
  BY DEF Dispatch
<1>3. cpu.at = "next" /\ work.gt.ordinal # Steps /\ UNCHANGED <<work, events, out, outcome>>
  BY DEF Dispatch, More, Quiet
<1>4. cpu' = [at |-> "describe", op |-> op, acc |-> cpu.acc]
  BY <1>2 DEF CpuType
<1>5. t = [at |-> "describe", op |-> op, acc |-> s.acc, work |-> s.work]
  BY <1>1, <1>3, <1>4 DEF Present
<1>6. t \in View /\ DriverInv(t)
  BY <1>1, <1>3, <1>5, DispatchKeeps
<1>7. t.at \in DriverAt /\ cpu' = [at |-> t.at, op |-> t.op, acc |-> t.acc]
  BY <1>1, <1>4, <1>5 DEF DriverAt
<1>8. QED
  BY <1>3, <1>6, <1>7, QuietStep

\* Finding no entry for a computed target keeps the driver's view good.
LEMMA NoEntryStep ==
    ASSUME cpu \in CpuType, NEW s \in View, s = Present, DriverInv(s), NEW t, t = Present', NoEntry
    PROVE  Kept
<1>1. work \in WorkType /\ s.work = work
  BY DEF View, Present
<1>2. /\ Step("next", "fault", cpu.acc, [work EXCEPT !.gt.status = "target"])
      /\ UNCHANGED <<events, out, outcome>> /\ work.gt.ordinal # Steps /\ work.gt.ordinal > 0
  BY <1>1, FieldUpdates DEF NoEntry, Quiet, More
<1>3. /\ s.at = "next" /\ s.op = cpu.op /\ s.acc = cpu.acc
      /\ t = [at |-> "fault", op |-> s.op, acc |-> cpu.acc, work |-> [work EXCEPT !.gt.status = "target"]]
      /\ cpu' = [at |-> t.at, op |-> t.op, acc |-> t.acc]
  BY <1>2, StepView
<1>4. t = [at |-> "fault", op |-> s.op, acc |-> s.acc, work |-> [s.work EXCEPT !.gt.status = "target"]]
  BY <1>1, <1>3
<1>5. t \in View /\ DriverInv(t)
  BY <1>1, <1>2, <1>3, <1>4, NoEntryKeeps
<1>6. t.at \in DriverAt
  BY <1>4 DEF DriverAt
<1>7. QED
  BY <1>2, <1>3, <1>5, <1>6, QuietStep

\* Describing the instruction keeps the driver's view good.
LEMMA DescribeStep ==
    ASSUME cpu \in CpuType, NEW s \in View, s = Present, DriverInv(s), NEW t, t = Present', Describe
    PROVE  Kept
<1>1. work \in WorkType /\ s.work = work
  BY DEF View, Present
<1>2. /\ Step("describe", "load", cpu.acc, [work EXCEPT !.gc.op = cpu.op, !.gc.pre = work.gt.i])
      /\ UNCHANGED <<events, out, outcome>>
  BY <1>1, FieldUpdates DEF Describe, Quiet
<1>3. /\ s.at = "describe" /\ s.op = cpu.op /\ s.acc = cpu.acc
      /\ t = [at |-> "load", op |-> s.op, acc |-> cpu.acc, work |-> [work EXCEPT !.gc.op = cpu.op, !.gc.pre = work.gt.i]]
      /\ cpu' = [at |-> t.at, op |-> t.op, acc |-> t.acc]
  BY <1>2, StepView
<1>4. t = [at |-> "load", op |-> s.op, acc |-> s.acc, work |-> [s.work EXCEPT !.gc.op = s.op, !.gc.pre = s.work.gt.i]]
  BY <1>1, <1>3
<1>5. t \in View /\ DriverInv(t)
  BY <1>1, <1>2, <1>3, <1>4, DescribeKeeps
<1>6. t.at \in DriverAt
  BY <1>4 DEF DriverAt
<1>7. QED
  BY <1>2, <1>3, <1>5, <1>6, QuietStep

\* Executing the instruction keeps the driver's view good.
LEMMA ExecuteStep ==
    ASSUME cpu \in CpuType, NEW s \in View, s = Present, DriverInv(s), NEW t, t = Present', Execute
    PROVE  Kept
<1>1. work \in WorkType /\ s.work = work /\ s.op = cpu.op
  BY DEF View, Present
<1>2. PICK i \in Guest!FlagAfter(cpu.op, work.gt.i) : Step("load", "save", i, work)
  BY DEF Execute
<1>3. i \in BOOLEAN
  BY <1>1 DEF Guest!FlagAfter, WorkType
<1>4. UNCHANGED <<events, out, outcome>>
  BY DEF Execute, Quiet
<1>5. /\ s.at = "load" /\ t = [at |-> "save", op |-> s.op, acc |-> i, work |-> s.work]
      /\ cpu' = [at |-> t.at, op |-> t.op, acc |-> t.acc]
  BY <1>1, <1>2, StepView
<1>6. t \in View /\ DriverInv(t)
  BY <1>1, <1>2, <1>3, <1>5, ExecuteKeeps
<1>7. t.at \in DriverAt
  BY <1>5 DEF DriverAt
<1>8. QED
  BY <1>4, <1>5, <1>6, <1>7, QuietStep

\* Saving the flag the instruction left keeps the driver's view good.
LEMMA SaveStepKeeps ==
    ASSUME cpu \in CpuType, NEW s \in View, s = Present, DriverInv(s), NEW t, t = Present', Save
    PROVE  Kept
<1>1. work \in WorkType /\ s.work = work
  BY DEF View, Present
<1>2. /\ Step("save", "guard", cpu.acc, [work EXCEPT !.gt.i = cpu.acc])
      /\ UNCHANGED <<events, out, outcome>>
  BY <1>1, FieldUpdates DEF Save, Quiet
<1>3. /\ s.at = "save" /\ s.op = cpu.op /\ s.acc = cpu.acc
      /\ t = [at |-> "guard", op |-> s.op, acc |-> cpu.acc, work |-> [work EXCEPT !.gt.i = cpu.acc]]
      /\ cpu' = [at |-> t.at, op |-> t.op, acc |-> t.acc]
  BY <1>2, StepView
<1>4. s.acc \in BOOLEAN
  BY <1>3 DEF DriverInv, OpInv, Guest!FlagAfter, RowType
<1>5. t = [at |-> "guard", op |-> s.op, acc |-> s.acc, work |-> [s.work EXCEPT !.gt.i = s.acc]]
  BY <1>1, <1>3, <1>4
<1>6. t \in View /\ DriverInv(t)
  BY <1>1, <1>2, <1>3, <1>4, <1>5, SaveKeeps
<1>7. t.at \in DriverAt
  BY <1>5 DEF DriverAt
<1>8. QED
  BY <1>2, <1>3, <1>6, <1>7, QuietStep

\* Testing whether the clock has room keeps the driver's view good.
LEMMA GuardStep ==
    ASSUME cpu \in CpuType, NEW s \in View, s = Present, DriverInv(s), NEW t, t = Present', Guard
    PROVE  Kept
<1>1. work \in WorkType /\ s.work = work /\ s.acc = cpu.acc
  BY DEF View, Present
<1>2. Clock = Time(s.work.gt) /\ UNCHANGED <<events, out, outcome>>
  BY <1>1 DEF Clock, Time, Guard, Quiet
<1>3. CASE Guest!ClockFull(Clock)
  <2>1. Step("guard", "fault", cpu.acc, [work EXCEPT !.gt.status = "clock"])
    BY <1>1, <1>3, FieldUpdates DEF Guard
  <2>2. /\ s.at = "guard"
        /\ t = [at |-> "fault", op |-> s.op, acc |-> s.acc, work |-> [s.work EXCEPT !.gt.status = "clock"]]
        /\ cpu' = [at |-> t.at, op |-> t.op, acc |-> t.acc]
    BY <1>1, <2>1, StepView
  <2>3. t \in View /\ DriverInv(t)
    BY <1>2, <1>3, <2>2, FullKeeps
  <2>4. t.at \in DriverAt
    BY <2>2 DEF DriverAt
  <2>5. QED
    BY <1>2, <2>2, <2>3, <2>4, QuietStep
<1>4. CASE ~Guest!ClockFull(Clock)
  <2>1. Step("guard", "cost", cpu.acc, [work EXCEPT !.gt.status = "running"])
    BY <1>1, <1>4, FieldUpdates DEF Guard
  <2>2. /\ s.at = "guard"
        /\ t = [at |-> "cost", op |-> s.op, acc |-> s.acc, work |-> [s.work EXCEPT !.gt.status = "running"]]
        /\ cpu' = [at |-> t.at, op |-> t.op, acc |-> t.acc]
    BY <1>1, <2>1, StepView
  <2>3. t \in View /\ DriverInv(t)
    BY <1>2, <1>4, <2>2, RoomKeeps
  <2>4. t.at \in DriverAt
    BY <2>2 DEF DriverAt
  <2>5. QED
    BY <1>2, <2>2, <2>3, <2>4, QuietStep
<1>5. QED
  BY <1>3, <1>4

\* Looking the cost up keeps the driver's view good.
LEMMA CostStep ==
    ASSUME cpu \in CpuType, NEW s \in View, s = Present, DriverInv(s), NEW t, t = Present', Cost
    PROVE  Kept
<1>1. work \in WorkType /\ s.work = work
  BY DEF View, Present
<1>2. /\ Step("cost", "charge", cpu.acc, [work EXCEPT !.gc.cost = work.gc.op.cost])
      /\ UNCHANGED <<events, out, outcome>>
  BY <1>1, FieldUpdates DEF Cost, Quiet
<1>3. /\ s.at = "cost" /\ s.op = cpu.op /\ s.acc = cpu.acc
      /\ t = [at |-> "charge", op |-> s.op, acc |-> cpu.acc, work |-> [work EXCEPT !.gc.cost = work.gc.op.cost]]
      /\ cpu' = [at |-> t.at, op |-> t.op, acc |-> t.acc]
  BY <1>2, StepView
<1>4. t = [at |-> "charge", op |-> s.op, acc |-> s.acc, work |-> [s.work EXCEPT !.gc.cost = s.work.gc.op.cost]]
  BY <1>1, <1>3
<1>5. t \in View /\ DriverInv(t)
  BY <1>1, <1>2, <1>3, <1>4, CostKeeps
<1>6. t.at \in DriverAt
  BY <1>4 DEF DriverAt
<1>7. QED
  BY <1>2, <1>3, <1>5, <1>6, QuietStep

\* Adding the cost to the low word keeps the driver's view good.
LEMMA ChargeStep ==
    ASSUME cpu \in CpuType, NEW s \in View, s = Present, DriverInv(s), NEW t, t = Present', Charge
    PROVE  Kept
<1> DEFINE k == work.gc.cost
           lo == (work.gt.lo + k) % Word
           carry == (work.gt.lo + k) \div Word
<1>1. work \in WorkType /\ s.work = work /\ s.at = cpu.at
  BY DEF View, Present
<1>2. /\ Step("charge", "carry", carry, [work EXCEPT !.gt.cost = k, !.gt.lo = lo])
      /\ UNCHANGED <<events, out, outcome>>
  <2>1. [work EXCEPT !.gt = LowPlus([work.gt EXCEPT !.cost = k], k)]
          = [work EXCEPT !.gt.cost = k, !.gt.lo = lo]
    BY <1>1 DEF LowPlus, WorkType
  <2>2. CarryOf([work.gt EXCEPT !.cost = k], k) = carry
    BY <1>1 DEF CarryOf, WorkType
  <2>3. [work.gt EXCEPT !.cost = k].cost = k
    BY <1>1 DEF WorkType
  <2>4. QED
    BY <2>1, <2>2, <2>3 DEF Charge, Quiet
<1>3. /\ s.at = "charge" /\ t = [at |-> "carry", op |-> s.op, acc |-> carry,
                                 work |-> [work EXCEPT !.gt.cost = k, !.gt.lo = lo]]
      /\ cpu' = [at |-> t.at, op |-> t.op, acc |-> t.acc]
  BY <1>2, StepView
<1>4. work.gt.lo \in 0..Word - 1 /\ k \in 0..7
  <2>1. s.op \in Ops /\ s.work.gc.cost = s.op.cost
    BY <1>3 DEF DriverInv, OpInv
  <2>2. k \in 2..7
    BY <1>1, <2>1, OpFacts
  <2>3. QED
    BY <1>1, <2>2 DEF WorkType
<1>5. lo \in 0..Word - 1 /\ carry \in {0, 1} /\ lo + carry * Word = work.gt.lo + k
  BY <1>4, WordSum
<1> HIDE DEF k, lo, carry
<1>6. k = s.work.gc.cost /\ lo + carry * Word = s.work.gt.lo + s.work.gc.cost
  BY <1>1, <1>5 DEF k
<1>7. t = [at |-> "carry", op |-> s.op, acc |-> carry,
           work |-> [s.work EXCEPT !.gt.cost = s.work.gc.cost, !.gt.lo = lo]]
  BY <1>1, <1>3, <1>6
<1>8. t \in View /\ DriverInv(t)
  BY <1>3, <1>5, <1>6, <1>7, ChargeKeeps
<1>9. t.at \in DriverAt
  BY <1>3 DEF DriverAt
<1>10. QED
  BY <1>2, <1>3, <1>8, <1>9, QuietStep

\* Carrying into the high word keeps the driver's view good.
LEMMA CarryStep ==
    ASSUME cpu \in CpuType, NEW s \in View, s = Present, DriverInv(s), NEW t, t = Present', Carry
    PROVE  Kept
<1> DEFINE hi == (work.gt.hi + cpu.acc) % Highs
<1>1. work \in WorkType /\ s.work = work /\ s.at = cpu.at /\ s.acc = cpu.acc
  BY DEF View, Present
<1>2. /\ Step("carry", "test", cpu.acc, [work EXCEPT !.gt.hi = hi])
      /\ UNCHANGED <<events, out, outcome>>
  <2>1. [work EXCEPT !.gt = HighPlus(work.gt, cpu.acc)] = [work EXCEPT !.gt.hi = hi]
    BY <1>1 DEF HighPlus, WorkType
  <2>2. QED
    BY <2>1 DEF Carry, Quiet
<1>3. /\ s.at = "carry" /\ t = [at |-> "test", op |-> s.op, acc |-> cpu.acc,
                                work |-> [work EXCEPT !.gt.hi = hi]]
      /\ cpu' = [at |-> t.at, op |-> t.op, acc |-> t.acc]
  BY <1>2, StepView
<1>4. /\ s.acc \in {0, 1} /\ Time(s.work.gt) + s.acc * Word < Word * Highs
  <2>1. /\ s.op \in Ops /\ s.acc \in {0, 1} /\ ~Guest!ClockFull(LastRow.time)
        /\ Time(s.work.gt) + s.acc * Word = LastRow.time + s.op.cost
    BY <1>3 DEF DriverInv, OpInv, ClockInv
  <2>2. s.op.cost \in 2..7
    BY <2>1, OpFacts
  <2>3. Word * Highs \in Nat /\ LastRow.time \in Nat /\ LastRow.time + 14 < Word * Highs
    BY <2>1, Fits DEF DriverInv
  <2> DEFINE wrap == Word * Highs
             last == LastRow.time
             cost == s.op.cost
  <2>4. wrap \in Nat /\ last \in Nat /\ last + 14 < wrap /\ cost \in 2..7
    BY <2>2, <2>3
  <2> HIDE DEF wrap, last, cost
  <2>5. last + cost < wrap
    BY <2>4
  <2>6. QED
    BY <2>1, <2>5 DEF wrap, last, cost
<1>5. /\ hi \in 0..Highs - 1 /\ hi * Word + s.work.gt.lo = Time(s.work.gt) + s.acc * Word
  <2>1. s.work.gt.hi \in 0..Highs - 1 /\ s.work.gt.lo \in 0..Word - 1
    BY <1>1 DEF WorkType
  <2>2. s.work.gt.hi * Word + s.work.gt.lo + s.acc * Word < Word * Highs
    BY <1>4 DEF Time
  <2>3. /\ (s.work.gt.hi + s.acc) % Highs = s.work.gt.hi + s.acc /\ s.work.gt.hi + s.acc \in 0..Highs - 1
        /\ (s.work.gt.hi + s.acc) * Word + s.work.gt.lo
             = s.work.gt.hi * Word + s.work.gt.lo + s.acc * Word
    BY <1>4, <2>1, <2>2, HighSum
  <2>4. hi = s.work.gt.hi + s.acc
    BY <1>1, <2>3
  <2> HIDE DEF hi
  <2>5. QED
    BY <2>3, <2>4 DEF Time
<1> HIDE DEF hi
<1>6. t = [at |-> "test", op |-> s.op, acc |-> s.acc, work |-> [s.work EXCEPT !.gt.hi = hi]]
  BY <1>1, <1>3
<1>7. t \in View /\ DriverInv(t)
  BY <1>3, <1>5, <1>6, CarryKeeps
<1>8. t.at \in DriverAt
  BY <1>3 DEF DriverAt
<1>9. QED
  BY <1>2, <1>3, <1>7, <1>8, QuietStep

\* Testing whether the next event is due keeps the driver's view good.
LEMMA TestStep ==
    ASSUME cpu \in CpuType, NEW s \in View, s = Present, DriverInv(s), NEW t, t = Present', Test
    PROVE  Kept
<1>1. s.work = work /\ s.acc = cpu.acc
  BY DEF Present
<1>2. /\ EventDue <=> /\ s.work.gt.index < Len(events)
                      /\ Guest!Due(s.work.gt.index + 1, Time(s.work.gt))
      /\ UNCHANGED <<events, out, outcome>>
  BY <1>1 DEF EventDue, Clock, Time, Test, Quiet
<1>3. CASE EventDue
  <2>1. Step("test", "take", work.gt.index + 1, work)
    BY <1>3 DEF Test
  <2>2. /\ s.at = "test"
        /\ t = [at |-> "take", op |-> s.op, acc |-> s.work.gt.index + 1, work |-> s.work]
        /\ cpu' = [at |-> t.at, op |-> t.op, acc |-> t.acc]
    BY <1>1, <2>1, StepView
  <2>3. t \in View /\ DriverInv(t)
    BY <1>2, <1>3, <2>2, DueKeeps
  <2>4. t.at \in DriverAt
    BY <2>2 DEF DriverAt
  <2>5. QED
    BY <1>2, <2>2, <2>3, <2>4, QuietStep
<1>4. CASE ~EventDue
  <2>1. Step("test", "inputs", cpu.acc, work)
    BY <1>4 DEF Test
  <2>2. /\ s.at = "test" /\ t = [at |-> "inputs", op |-> s.op, acc |-> s.acc, work |-> s.work]
        /\ cpu' = [at |-> t.at, op |-> t.op, acc |-> t.acc]
    BY <1>1, <2>1, StepView
  <2>3. t \in View /\ DriverInv(t)
    BY <1>2, <1>4, <2>2, NotDueKeeps
  <2>4. t.at \in DriverAt
    BY <2>2 DEF DriverAt
  <2>5. QED
    BY <1>2, <2>2, <2>3, <2>4, QuietStep
<1>5. QED
  BY <1>3, <1>4

\* Taking an event that is due keeps the driver's view good.
LEMMA TakeStep ==
    ASSUME cpu \in CpuType, NEW s \in View, s = Present, DriverInv(s), NEW t, t = Present', Take
    PROVE  Kept
<1>1. work \in WorkType /\ s.work = work
  BY DEF View, Present
<1>2. /\ Step("take", "consume", cpu.acc, [work EXCEPT !.gt.irq = events[cpu.acc].irq, !.gt.nmi = work.gt.nmi \/ events[cpu.acc].nmi])
      /\ UNCHANGED <<events, out, outcome>>
  BY <1>1, FieldUpdates DEF Take, Quiet
<1>3. /\ s.at = "take" /\ s.op = cpu.op /\ s.acc = cpu.acc
      /\ t = [at |-> "consume", op |-> s.op, acc |-> cpu.acc, work |-> [work EXCEPT !.gt.irq = events[cpu.acc].irq, !.gt.nmi = work.gt.nmi \/ events[cpu.acc].nmi]]
      /\ cpu' = [at |-> t.at, op |-> t.op, acc |-> t.acc]
  BY <1>2, StepView
<1>4. t = [at |-> "consume", op |-> s.op, acc |-> s.acc, work |-> [s.work EXCEPT !.gt.irq = events[s.acc].irq, !.gt.nmi = s.work.gt.nmi \/ events[s.acc].nmi]]
  BY <1>1, <1>3
<1>5. t \in View /\ DriverInv(t)
  BY <1>1, <1>2, <1>3, <1>4, TakeKeeps
<1>6. t.at \in DriverAt
  BY <1>4 DEF DriverAt
<1>7. QED
  BY <1>2, <1>3, <1>5, <1>6, QuietStep

\* Passing the event taken keeps the driver's view good.
LEMMA ConsumeStep ==
    ASSUME cpu \in CpuType, NEW s \in View, s = Present, DriverInv(s), NEW t, t = Present', Consume
    PROVE  Kept
<1>1. work \in WorkType /\ s.work = work
  BY DEF View, Present
<1>2. /\ Step("consume", "test", cpu.acc, [work EXCEPT !.gt.index = work.gt.index + 1])
      /\ UNCHANGED <<events, out, outcome>>
  BY <1>1, FieldUpdates DEF Consume, Quiet
<1>3. /\ s.at = "consume" /\ s.op = cpu.op /\ s.acc = cpu.acc
      /\ t = [at |-> "test", op |-> s.op, acc |-> cpu.acc, work |-> [work EXCEPT !.gt.index = work.gt.index + 1]]
      /\ cpu' = [at |-> t.at, op |-> t.op, acc |-> t.acc]
  BY <1>2, StepView
<1>4. t = [at |-> "test", op |-> s.op, acc |-> s.acc, work |-> [s.work EXCEPT !.gt.index = s.work.gt.index + 1]]
  BY <1>1, <1>3
<1>5. t \in View /\ DriverInv(t)
  BY <1>1, <1>2, <1>3, <1>4, ConsumeKeeps
<1>6. t.at \in DriverAt
  BY <1>4 DEF DriverAt
<1>7. QED
  BY <1>2, <1>3, <1>5, <1>6, QuietStep

\* Collecting the inputs of the decision keeps the driver's view good.
LEMMA InputsStep ==
    ASSUME cpu \in CpuType, NEW s \in View, s = Present, DriverInv(s), NEW t, t = Present', Inputs
    PROVE  Kept
<1>1. work \in WorkType /\ s.work = work
  BY DEF View, Present
<1>2. /\ Step("inputs", "decide", cpu.acc, [work EXCEPT !.gi = [op |-> work.gc.op, pre |-> work.gc.pre, post |-> work.gt.i,
                     irq |-> work.gt.irq, nmi |-> work.gt.nmi, decision |-> "none", cost |-> 0],
               !.gt.op = work.gc.op.kind])
      /\ UNCHANGED <<events, out, outcome>>
  BY <1>1, FieldUpdates DEF Inputs, Quiet
<1>3. /\ s.at = "inputs" /\ s.op = cpu.op /\ s.acc = cpu.acc
      /\ t = [at |-> "decide", op |-> s.op, acc |-> cpu.acc, work |-> [work EXCEPT !.gi = [op |-> work.gc.op, pre |-> work.gc.pre, post |-> work.gt.i,
                     irq |-> work.gt.irq, nmi |-> work.gt.nmi, decision |-> "none", cost |-> 0],
               !.gt.op = work.gc.op.kind]]
      /\ cpu' = [at |-> t.at, op |-> t.op, acc |-> t.acc]
  BY <1>2, StepView
<1>4. t = [at |-> "decide", op |-> s.op, acc |-> s.acc, work |-> [s.work EXCEPT !.gi = [op |-> s.work.gc.op, pre |-> s.work.gc.pre, post |-> s.work.gt.i,
                     irq |-> s.work.gt.irq, nmi |-> s.work.gt.nmi, decision |-> "none", cost |-> 0],
               !.gt.op = s.work.gc.op.kind]]
  BY <1>1, <1>3
<1>5. t \in View /\ DriverInv(t)
  BY <1>1, <1>2, <1>3, <1>4, InputsKeeps
<1>6. t.at \in DriverAt
  BY <1>4 DEF DriverAt
<1>7. QED
  BY <1>2, <1>3, <1>5, <1>6, QuietStep

\* Entering the interrupt keeps the driver's view good.
LEMMA EnterStep ==
    ASSUME cpu \in CpuType, NEW s \in View, s = Present, DriverInv(s), NEW t, t = Present', Enter
    PROVE  Kept
<1>1. work \in WorkType /\ s.work = work
  BY DEF View, Present
<1>2. /\ Step("enter", "output", cpu.acc, [work EXCEPT !.gi.post = TRUE, !.gi.cost = Guest!Entry])
      /\ UNCHANGED <<events, out, outcome>>
  BY <1>1, FieldUpdates DEF Enter, Quiet
<1>3. /\ s.at = "enter" /\ s.op = cpu.op /\ s.acc = cpu.acc
      /\ t = [at |-> "output", op |-> s.op, acc |-> cpu.acc, work |-> [work EXCEPT !.gi.post = TRUE, !.gi.cost = Guest!Entry]]
      /\ cpu' = [at |-> t.at, op |-> t.op, acc |-> t.acc]
  BY <1>2, StepView
<1>4. t = [at |-> "output", op |-> s.op, acc |-> s.acc, work |-> [s.work EXCEPT !.gi.post = TRUE, !.gi.cost = Guest!Entry]]
  BY <1>1, <1>3
<1>5. t \in View /\ DriverInv(t)
  BY <1>1, <1>2, <1>3, <1>4, EnterKeeps
<1>6. t.at \in DriverAt
  BY <1>4 DEF DriverAt
<1>7. QED
  BY <1>2, <1>3, <1>5, <1>6, QuietStep

\* Assembling the row keeps the driver's view good.
LEMMA AssembleStep ==
    ASSUME cpu \in CpuType, NEW s \in View, s = Present, DriverInv(s), NEW t, t = Present', Assemble
    PROVE  Kept
<1>1. work \in WorkType /\ s.work = work
  BY DEF View, Present
<1>2. /\ Step("copy", "place", cpu.acc, [work EXCEPT !.header = RowOf(work.gt)])
      /\ UNCHANGED <<events, out, outcome>>
  BY <1>1, FieldUpdates DEF Assemble, Quiet
<1>3. /\ s.at = "copy" /\ s.op = cpu.op /\ s.acc = cpu.acc
      /\ t = [at |-> "place", op |-> s.op, acc |-> cpu.acc, work |-> [work EXCEPT !.header = RowOf(work.gt)]]
      /\ cpu' = [at |-> t.at, op |-> t.op, acc |-> t.acc]
  BY <1>2, StepView
<1>4. t = [at |-> "place", op |-> s.op, acc |-> s.acc, work |-> [s.work EXCEPT !.header = RowOf(s.work.gt)]]
  BY <1>1, <1>3
<1>5. t \in View /\ DriverInv(t)
  BY <1>1, <1>2, <1>3, <1>4, AssembleKeeps
<1>6. t.at \in DriverAt
  BY <1>4 DEF DriverAt
<1>7. QED
  BY <1>2, <1>3, <1>5, <1>6, QuietStep

\* Loading the cursor keeps the driver's view good.
LEMMA PlaceStep ==
    ASSUME cpu \in CpuType, NEW s \in View, s = Present, DriverInv(s), NEW t, t = Present', Place
    PROVE  Kept
<1>1. work \in WorkType /\ s.work = work
  BY DEF View, Present
<1>2. /\ Step("place", "write", work.cursor, work)
      /\ UNCHANGED <<events, out, outcome>>
  BY <1>1, FieldUpdates DEF Place, Quiet
<1>3. /\ s.at = "place" /\ s.op = cpu.op /\ s.acc = cpu.acc
      /\ t = [at |-> "write", op |-> s.op, acc |-> work.cursor, work |-> work]
      /\ cpu' = [at |-> t.at, op |-> t.op, acc |-> t.acc]
  BY <1>2, StepView
<1>4. t = [at |-> "write", op |-> s.op, acc |-> s.work.cursor, work |-> s.work]
  BY <1>1, <1>3
<1>5. t \in View /\ DriverInv(t)
  BY <1>1, <1>2, <1>3, <1>4, PlaceKeeps
<1>6. t.at \in DriverAt
  BY <1>4 DEF DriverAt
<1>7. QED
  BY <1>2, <1>3, <1>5, <1>6, QuietStep

\* Moving the cursor behind the row keeps the driver's view good.
LEMMA AdvanceStep ==
    ASSUME cpu \in CpuType, NEW s \in View, s = Present, DriverInv(s), NEW t, t = Present', Advance
    PROVE  Kept
<1>1. work \in WorkType /\ s.work = work
  BY DEF View, Present
<1>2. /\ Step("advance", "next", cpu.acc, [work EXCEPT !.cursor = cpu.acc])
      /\ UNCHANGED <<events, out, outcome>>
  BY <1>1, FieldUpdates DEF Advance, Quiet
<1>3. /\ s.at = "advance" /\ s.op = cpu.op /\ s.acc = cpu.acc
      /\ t = [at |-> "next", op |-> s.op, acc |-> cpu.acc, work |-> [work EXCEPT !.cursor = cpu.acc]]
      /\ cpu' = [at |-> t.at, op |-> t.op, acc |-> t.acc]
  BY <1>2, StepView
<1>4. t = [at |-> "next", op |-> s.op, acc |-> s.acc, work |-> [s.work EXCEPT !.cursor = s.acc]]
  BY <1>1, <1>3
<1>5. t \in View /\ DriverInv(t)
  BY <1>1, <1>2, <1>3, <1>4, AdvanceKeeps
<1>6. t.at \in DriverAt
  BY <1>4 DEF DriverAt
<1>7. QED
  BY <1>2, <1>3, <1>5, <1>6, QuietStep

\* Deciding about the interrupt keeps the driver's view good.
LEMMA DecideStep ==
    ASSUME cpu \in CpuType, NEW s \in View, s = Present, DriverInv(s), NEW t, t = Present', Decide
    PROVE  Kept
<1>1. work \in WorkType /\ s.work = work /\ s.acc = cpu.acc
  BY DEF View, Present
<1>2. PICK d, nmi : /\ d = Guest!Decision(work.gi.op, work.gi.pre, work.gi.post, work.gi.irq, work.gi.nmi)
                    /\ nmi = (work.gi.nmi /\ d # "nmi")
  OBVIOUS
<1>3. /\ Step("decide", IF d = "none" THEN "output" ELSE "enter", cpu.acc,
              [work EXCEPT !.gi.decision = d, !.gi.nmi = nmi])
      /\ UNCHANGED <<events, out, outcome>>
  BY <1>2 DEF Decide, Quiet
<1>4. /\ s.at = "decide"
      /\ t = [at |-> IF d = "none" THEN "output" ELSE "enter", op |-> s.op, acc |-> s.acc,
              work |-> [s.work EXCEPT !.gi.decision = d, !.gi.nmi = nmi]]
      /\ cpu' = [at |-> t.at, op |-> t.op, acc |-> t.acc]
  BY <1>1, <1>3, StepView
<1>5. t.at \in DriverAt
  BY <1>4 DEF DriverAt
<1>6. d \in Decisions
  BY <1>2 DEF Guest!Decision, Decisions
<1>7. t \in View /\ DriverInv(t)
  <2>1. CASE d = "none"
    <3>1. nmi = (s.work.gi.nmi /\ "none" # "nmi")
      BY <1>1, <1>2, <2>1
    <3>2. t = [at |-> "output", op |-> s.op, acc |-> s.acc,
               work |-> [s.work EXCEPT !.gi.decision = "none",
                                       !.gi.nmi = (s.work.gi.nmi /\ "none" # "nmi")]]
      BY <1>4, <2>1, <3>1
    <3>3. QED
      BY <1>1, <1>2, <1>4, <2>1, <3>2, PassKeeps
  <2>2. CASE d # "none"
    <3>1. d \in {"irq", "nmi"} /\ nmi \in BOOLEAN
      BY <1>2, <1>6, <2>2 DEF Decisions
    <3>2. nmi <=> s.work.gi.nmi /\ d # "nmi"
      BY <1>1, <1>2
    <3>3. t = [at |-> "enter", op |-> s.op, acc |-> s.acc,
               work |-> [s.work EXCEPT !.gi.decision = d, !.gi.nmi = nmi]]
      BY <1>4, <2>2
    <3>4. QED
      BY <1>1, <1>2, <1>4, <3>1, <3>2, <3>3, ServeKeeps
  <2>3. QED
    BY <2>1, <2>2
<1>8. QED
  BY <1>3, <1>4, <1>5, <1>7, QuietStep

\* Copying the outputs and adding the cost of the entry keeps the driver's view good.
LEMMA OutputStep ==
    ASSUME cpu \in CpuType, NEW s \in View, s = Present, DriverInv(s), NEW t, t = Present', Output
    PROVE  Kept
<1> DEFINE gi == work.gi
           k == gi.cost
           lo == (work.gt.lo + k) % Word
           carry == (work.gt.lo + k) \div Word
           to == [work EXCEPT !.gt.i = gi.post, !.gt.nmi = gi.nmi, !.gt.decision = gi.decision,
                              !.gt.entry = k, !.gt.lo = lo]
<1>1. work \in WorkType /\ s.work = work
  BY DEF View, Present
<1>2. Step("output", "settle", carry, to) /\ UNCHANGED <<events, out, outcome>>
  <2> DEFINE gt == [work.gt EXCEPT !.i = gi.post, !.nmi = gi.nmi, !.decision = gi.decision,
                                   !.entry = k]
  <2>1. gt.lo = work.gt.lo
    BY <1>1 DEF WorkType
  <2>2. [work EXCEPT !.gt = LowPlus(gt, k)] = to
    BY <1>1 DEF LowPlus, WorkType
  <2>3. CarryOf(gt, k) = carry
    BY <2>1 DEF CarryOf
  <2>4. QED
    BY <2>2, <2>3 DEF Output, Quiet
<1>3. /\ s.at = "output" /\ t = [at |-> "settle", op |-> s.op, acc |-> carry, work |-> to]
      /\ cpu' = [at |-> t.at, op |-> t.op, acc |-> t.acc]
  BY <1>2, StepView
<1>4. work.gt.lo \in 0..Word - 1 /\ k \in 0..7
  <2>1. s.work.gi.cost = Guest!EntryCost(s.work.gi.decision)
    BY <1>3 DEF DriverInv, BoundaryInv
  <2>2. k \in {0, 7}
    BY <1>1, <2>1, EntryFacts
  <2>3. QED
    BY <1>1, <2>2 DEF WorkType
<1>5. lo \in 0..Word - 1 /\ carry \in {0, 1} /\ lo + carry * Word = work.gt.lo + k
  BY <1>4, WordSum
<1> HIDE DEF lo, carry
<1>6. lo + carry * Word = s.work.gt.lo + s.work.gi.cost
  BY <1>1, <1>5
<1>7. t = [at |-> "settle", op |-> s.op, acc |-> carry,
           work |-> [s.work EXCEPT !.gt.i = s.work.gi.post, !.gt.nmi = s.work.gi.nmi,
                                   !.gt.decision = s.work.gi.decision,
                                   !.gt.entry = s.work.gi.cost, !.gt.lo = lo]]
  BY <1>1, <1>3
<1>8. t \in View /\ DriverInv(t)
  BY <1>3, <1>5, <1>6, <1>7, OutputKeeps
<1>9. t.at \in DriverAt
  BY <1>3 DEF DriverAt
<1>10. QED
  BY <1>2, <1>3, <1>8, <1>9, QuietStep

\* Carrying into the high word and counting the row keeps the driver's view good.
LEMMA SettleStep ==
    ASSUME cpu \in CpuType, NEW s \in View, s = Present, DriverInv(s), NEW t, t = Present', Settle
    PROVE  Kept
<1> DEFINE hi == (work.gt.hi + cpu.acc) % Highs
           to == [work EXCEPT !.gt.hi = hi, !.gt.ordinal = work.gt.ordinal + 1]
<1>1. work \in WorkType /\ s.work = work /\ s.at = cpu.at /\ s.acc = cpu.acc
  BY DEF View, Present
<1>2. Step("settle", "copy", cpu.acc, to) /\ UNCHANGED <<events, out, outcome>>
  <2> DEFINE gt == HighPlus(work.gt, cpu.acc)
  <2>1. [work EXCEPT !.gt = [gt EXCEPT !.ordinal = @ + 1]] = to
    BY <1>1 DEF HighPlus, WorkType
  <2>2. QED
    BY <2>1 DEF Settle, Quiet
<1>3. /\ s.at = "settle" /\ t = [at |-> "copy", op |-> s.op, acc |-> cpu.acc, work |-> to]
      /\ cpu' = [at |-> t.at, op |-> t.op, acc |-> t.acc]
  BY <1>2, StepView
<1>4. /\ s.acc \in {0, 1} /\ Time(s.work.gt) + s.acc * Word < Word * Highs
  <2>1. s.acc \in {0, 1} /\ Follows(CarriedRow(s.work.gt, s.acc))
    BY <1>3 DEF DriverInv, RowInv
  <2>2. CarriedRow(s.work.gt, s.acc).time < Word * Highs
    BY <2>1, FollowsFacts DEF DriverInv
  <2>3. CarriedRow(s.work.gt, s.acc).time = Time(s.work.gt) + s.acc * Word
    BY DEF CarriedRow
  <2>4. QED
    BY <2>1, <2>2, <2>3
<1>5. /\ hi \in 0..Highs - 1 /\ hi * Word + s.work.gt.lo = Time(s.work.gt) + s.acc * Word
  <2>1. s.work.gt.hi \in 0..Highs - 1 /\ s.work.gt.lo \in 0..Word - 1
    BY <1>1 DEF WorkType
  <2>2. s.work.gt.hi * Word + s.work.gt.lo + s.acc * Word < Word * Highs
    BY <1>4 DEF Time
  <2>3. /\ (s.work.gt.hi + s.acc) % Highs = s.work.gt.hi + s.acc /\ s.work.gt.hi + s.acc \in 0..Highs - 1
        /\ (s.work.gt.hi + s.acc) * Word + s.work.gt.lo
             = s.work.gt.hi * Word + s.work.gt.lo + s.acc * Word
    BY <1>4, <2>1, <2>2, HighSum
  <2>4. hi = s.work.gt.hi + s.acc
    BY <1>1, <2>3
  <2> HIDE DEF hi
  <2>5. QED
    BY <2>3, <2>4 DEF Time
<1> HIDE DEF hi
<1>6. t = [at |-> "copy", op |-> s.op, acc |-> s.acc,
           work |-> [s.work EXCEPT !.gt.hi = hi, !.gt.ordinal = s.work.gt.ordinal + 1]]
  BY <1>1, <1>3
<1>7. t \in View /\ DriverInv(t)
  BY <1>3, <1>5, <1>6, SettleKeeps
<1>8. t.at \in DriverAt
  BY <1>3 DEF DriverAt
<1>9. QED
  BY <1>2, <1>3, <1>7, <1>8, QuietStep

\* Writing the row keeps the driver's view good.
LEMMA WriteStep ==
    ASSUME cpu \in CpuType, NEW s \in View, s = Present, DriverInv(s), NEW t, t = Present', Write
    PROVE  Kept
<1>1. s.work = work /\ s.acc = cpu.acc
  BY DEF Present
<1>2. Step("write", "advance", cpu.acc + 1, work)
  BY DEF Write
<1>3. /\ s.at = "write" /\ t = [at |-> "advance", op |-> s.op, acc |-> s.acc + 1, work |-> s.work]
      /\ cpu' = [at |-> t.at, op |-> t.op, acc |-> t.acc]
  BY <1>1, <1>2, StepView
<1>4. out' = [out EXCEPT ![s.acc] = s.work.header] /\ UNCHANGED <<events, outcome>>
  BY <1>1 DEF Write
<1>5. t \in View /\ DriverInv(t)'
  BY <1>3, <1>4, WriteKeeps
<1>6. t.at \in DriverAt
  BY <1>3 DEF DriverAt
<1>7. QED
  BY <1>3, <1>5, <1>6 DEF Kept

\* Disarming the NMI keeps the driver's view good.
LEMMA DisarmStep ==
    ASSUME cpu \in CpuType, NEW s \in View, s = Present, DriverInv(s), NEW t, t = Present', Disarm
    PROVE  Kept
<1>1. s.work = work /\ s.acc = cpu.acc
  BY DEF Present
<1>2. UNCHANGED <<events, out, outcome>>
  BY DEF Disarm
<1>3. CASE work.gt.ordinal = Steps /\ Step("next", "done", cpu.acc, work)
  <2>1. /\ s.at = "next" /\ t = [at |-> "done", op |-> s.op, acc |-> s.acc, work |-> s.work]
        /\ cpu' = [at |-> t.at, op |-> t.op, acc |-> t.acc]
    BY <1>1, <1>3, StepView
  <2>2. t \in View /\ DriverInv(t)
    BY <1>1, <1>3, <2>1, DoneKeeps
  <2>3. t.at \in DriverAt
    BY <2>1 DEF DriverAt
  <2>4. QED
    BY <1>2, <2>1, <2>2, <2>3, QuietStep
<1>4. CASE Step("fault", "failed", cpu.acc, work)
  <2>1. /\ s.at = "fault" /\ t = [at |-> "failed", op |-> s.op, acc |-> s.acc, work |-> s.work]
        /\ cpu' = [at |-> t.at, op |-> t.op, acc |-> t.acc]
    BY <1>1, <1>4, StepView
  <2>2. t \in View /\ DriverInv(t)
    BY <2>1, FailedKeeps
  <2>3. t.at \in DriverAt
    BY <2>1 DEF DriverAt
  <2>4. QED
    BY <1>2, <2>1, <2>2, <2>3, QuietStep
<1>5. QED
  BY <1>3, <1>4 DEF Disarm

\* Writing the marker keeps the driver's view good.
LEMMA MarkStep ==
    ASSUME cpu \in CpuType, NEW s \in View, s = Present, DriverInv(s), NEW t, t = Present', Mark
    PROVE  Kept
<1>1. s.work = work /\ s.acc = cpu.acc
  BY DEF Present
<1>2. PICK from \in {"done", "failed"} :
        /\ Step(from, "halt", cpu.acc, work)
        /\ outcome' = IF from = "done" THEN "done" ELSE work.gt.status
  BY DEF Mark
<1>3. /\ s.at = from /\ t = [at |-> "halt", op |-> s.op, acc |-> s.acc, work |-> s.work]
      /\ cpu' = [at |-> t.at, op |-> t.op, acc |-> t.acc]
  BY <1>1, <1>2, StepView
<1>4. UNCHANGED <<events, out>>
  BY DEF Mark
<1>5. outcome' = IF s.at = "done" THEN "done" ELSE s.work.gt.status
  BY <1>1, <1>2, <1>3
<1>6. t \in View /\ DriverInv(t)'
  BY <1>3, <1>4, <1>5, MarkKeeps
<1>7. t.at \in DriverAt
  BY <1>3 DEF DriverAt
<1>8. QED
  BY <1>3, <1>6, <1>7 DEF Kept

\* Equal views are equally good.
LEMMA ViewIs ==
    ASSUME NEW s, NEW t, s = t, DriverInv(s)
    PROVE  DriverInv(t)
OBVIOUS

\* A step that changes nothing keeps the invariant.
LEMMA StutterKeeps ==
    ASSUME Inv, UNCHANGED vars
    PROVE  Inv'
<1>1. PICK n, b, v : Layout(stack, Present, n, b, v) /\ DriverInv(v[0]) /\ CountInv(n, v)
  BY DEF Inv
<1>2. UNCHANGED <<events, cpu, work, out, outcome, stack, depth>>
  BY DEF vars, host
<1>3. DriverInv(v[0])'
  BY <1>1, <1>2, QuietKeeps
<1>4. Layout(stack', Present', n, b, v)
  BY <1>1, <1>2 DEF Present
<1>5. CountInv(n, v)'
  BY <1>1, <1>2 DEF CountInv, Interrupts, Contexts, Stacked
<1>6. QED
  BY <1>2, <1>3, <1>4, <1>5 DEF Inv

\* Every step of the driver.
LEMMA DriverSteps ==
    ASSUME Inv, Driver
    PROVE  Inv'
<1>1. CASE Halt
  BY <1>1, StutterKeeps DEF Halt
<1>2. CASE ~Halt
  <2>1. cpu.at \in DriverAt /\ UNCHANGED <<stack, depth>>
    BY <1>2 DEF Driver, Dispatch, More, NoEntry, Describe, Execute, Save, Guard, Cost, Charge,
       Carry, Test, Take, Consume, Inputs, Decide, Enter, Output, Settle, Assemble, Place, Write,
       Advance, Disarm, Mark, Step, Quiet, host, DriverAt
  <2>2. cpu \in CpuType
    BY DEF Inv
  <2>3. PICK s \in View : s = Present /\ DriverInv(s)
    BY <2>1, DriverLevel
  <2>4. PICK t : t = Present'
    OBVIOUS
  <2>5. Kept
    BY <1>2, <2>2, <2>3, <2>4, DispatchStep, NoEntryStep, DescribeStep, ExecuteStep, SaveStepKeeps,
       GuardStep, CostStep, ChargeStep, CarryStep, TestStep, TakeStep, ConsumeStep, InputsStep,
       DecideStep, EnterStep, OutputStep, SettleStep, AssembleStep, PlaceStep, WriteStep,
       AdvanceStep, DisarmStep, MarkStep DEF Driver
  <2>6. QED
    BY <2>1, <2>5, DriverKeeps
<1>3. QED
  BY <1>1, <1>2

\* Every step of the interrupt routine, and every interrupt.
LEMMA RoutineKeeps ==
    ASSUME Inv, Nmi \/ Routine
    PROVE  Inv'
<1>1. PICK n, b, v : Layout(stack, Present, n, b, v) /\ DriverInv(v[0]) /\ CountInv(n, v)
  BY DEF Inv
<1>2. cpu \in CpuType
  BY DEF Inv
<1>3. LevelsAfter(v)
  BY <1>1, <1>2, NmiCounts, RoutineSteps, RtiCounts
<1>4. PICK n2, b2, v2 : /\ Layout(stack', Present', n2, b2, v2) /\ v2[0] = v[0]
                        /\ CountInv(n2, v2)'
  BY <1>3 DEF LevelsAfter
<1>5. UNCHANGED <<events, out, outcome>>
  BY DEF Nmi, Routine, Admit, SaveWork, SaveTime, SaveCursor, SaveHeader, SaveStep, Poison,
     RestoreHeader, RestoreCursor, RestoreTime, RestoreWork, RestoreStep, Leave,
     RestoreRegisters, Rti, Hidden
<1>6. DriverInv(v2[0])'
  <2>1. PICK t : t = v[0] /\ t = v2[0]
    BY <1>4
  <2>2. DriverInv(t)
    BY <1>1, <2>1, ViewIs
  <2>3. DriverInv(t)'
    BY <1>5, <2>2, QuietKeeps
  <2>4. QED
    BY <2>1, <2>3, ViewSame
<1>7. cpu' \in CpuType
  BY <1>3 DEF LevelsAfter
<1>8. QED
  BY <1>4, <1>6, <1>7 DEF Inv

-----------------------------------------------------------------------------
\* The beginning, and what follows from the invariant.
LEMMA InitInv ==
    ASSUME Init
    PROVE  Inv
<1>1. PICK s : s = Present
  OBVIOUS
<1>2. /\ s.at = "next" /\ s.op = NoOp /\ s.acc = 0 /\ s.work = work
      /\ s = [at |-> "next", op |-> NoOp, acc |-> 0, work |-> work]
  BY <1>1 DEF Init, Present
<1>3. work \in WorkType
  BY ClockAssumption DEF Init, WorkType, AnyOp, Kinds, Decisions
<1>4. s \in View
  BY <1>2, <1>3 DEF View, DriverAt, AnyOp
<1>5. Written = {} /\ LastRow = Initial
  BY DEF Init, Written, LastRow, Rows
<1>6. LastRow \in RowType /\ LastRow.time < Word * Highs /\ LastRow.index <= Len(events) /\ events \in Plans
  <2>1. \A x, y \in Nat \ {0} : 0 < x * y
    OBVIOUS
  <2>2. 0 < Word * Highs
    BY <2>1, ClockAssumption
  <2>3. events \in Plans
    BY DEF Init
  <2>4. Initial \in RowType /\ Initial.time = 0 /\ Initial.index = 0
    BY DEF Initial, RowType, Kinds, Decisions
  <2>5. 0 <= Len(events)
    BY <2>3, PlanFacts
  <2>6. QED
    BY <1>5, <2>2, <2>3, <2>4, <2>5
<1>7. RowsInv(s)
  <2>1. Captured(s) = 0
    BY <1>2 DEF Init, Captured
  <2>2. out = [r \in Rows |-> out[r]] /\ \A r \in Rows : ~(r < 0) /\ out[r] = None
    BY StepsAssumption DEF Init, Rows
  <2>3. s.work.cursor = 0
    BY <1>2 DEF Init
  <2>4. QED
    BY <1>2, <2>1, <2>2, <2>3, StepsAssumption DEF RowsInv
<1>8. BeforeInv(s)
  <2>1. work.gt.hi = 0 /\ work.gt.lo = 0 /\ work.gt.index = 0 /\ work.gt.i = TRUE
        /\ work.gt.irq = FALSE /\ work.gt.nmi = FALSE
    BY DEF Init
  <2>2. Time(s.work.gt) = 0
    BY <1>2, <2>1, ClockAssumption DEF Time
  <2>3. QED
    BY <1>2, <1>5, <2>1, <2>2 DEF BeforeInv, Initial
<1>9. OpInv(s) /\ ClockInv(s) /\ TakenInv(s) /\ BoundaryInv(s) /\ RowInv(s) /\ EndInv(s)
  BY <1>2 DEF Init, OpInv, ClockInv, TakenInv, BoundaryInv, RowInv, EndInv, Taking, Deciding
<1>10. DriverInv(s)
  BY <1>6, <1>7, <1>8, <1>9 DEF DriverInv
<1>11. PICK b, v : b = [i \in 0..0 |-> 0] /\ v = [i \in 0..0 |-> s]
  OBVIOUS
<1>12. Layout(stack, Present, 0, b, v)
  <2>1. stack = <<>> /\ Len(stack) = 0 /\ \E S : stack \in Seq(S)
    BY DEF Init
  <2>2. b \in [0..0 -> Nat] /\ v \in [0..0 -> View] /\ b[0] = 0 /\ v[0] = s
    BY <1>4, <1>11
  <2>3. v[0].at \in DriverAt
    BY <1>2, <2>2 DEF DriverAt
  <2>4. QED
    BY <1>1, <2>1, <2>2, <2>3 DEF Layout
<1>13. CountInv(0, v)
  <2>1. Levels(0, v, WorkHeld) = {} /\ Levels(0, v, Counted) = {}
    BY DEF Levels
  <2>2. {k \in DOMAIN stack : stack[k].kind = "pc"} = {} /\ {k \in DOMAIN stack : stack[k].kind = "work"} = {}
    BY DEF Init
  <2>3. Interrupts = 0 /\ Contexts = 0
    BY <2>2, FS_EmptySet DEF Interrupts, Contexts, Stacked
  <2>4. depth = 0 /\ Cardinality({}) = 0
    BY FS_EmptySet DEF Init
  <2>5. QED
    BY <2>1, <2>3, <2>4 DEF CountInv
<1>14. cpu \in CpuType
  BY DEF Init, CpuType, DriverAt, AnyOp
<1>15. v[0] = s
  BY <1>11
<1>16. DriverInv(v[0])
  BY <1>10, <1>15, ViewIs
<1>17. QED
  BY <1>12, <1>13, <1>14, <1>16 DEF Inv

\* Every step keeps the invariant.
LEMMA NextInv ==
    ASSUME Inv, [Next]_vars
    PROVE  Inv'
BY DriverSteps, RoutineKeeps, StutterKeeps DEF Next

\* The invariant holds in every reachable state.
LEMMA Invariant == Spec => []Inv
<1>1. Init => Inv
  BY InitInv
<1>2. Inv /\ [Next]_vars => Inv'
  BY NextInv
<1>3. QED
  BY <1>1, <1>2, PTL DEF Spec

\* Counting the levels.
LEMMA LevelsFinite ==
    ASSUME NEW n \in Nat, NEW v
    PROVE  /\ \A where : /\ IsFiniteSet(Levels(n, v, where)) /\ Cardinality(Levels(n, v, where)) \in 0..n
                         /\ v[n].at \notin where /\ n # 0 => Cardinality(Levels(n, v, where)) <= n - 1
           /\ \A p, q : p \subseteq q => Cardinality(Levels(n, v, p)) <= Cardinality(Levels(n, v, q))
<1>1. \A m \in Nat : IsFiniteSet(1..m) /\ Cardinality(1..m) = m
  BY FS_Interval
<1>2. ASSUME NEW where
      PROVE  IsFiniteSet(Levels(n, v, where)) /\ Cardinality(Levels(n, v, where)) \in 0..n
  <2>1. Levels(n, v, where) \subseteq 1..n
    BY DEF Levels
  <2>2. IsFiniteSet(Levels(n, v, where)) /\ Cardinality(Levels(n, v, where)) <= Cardinality(1..n)
    BY <1>1, <2>1, FS_Subset
  <2>3. Cardinality(Levels(n, v, where)) \in Nat
    BY <2>2, FS_CardinalityType
  <2>4. QED
    BY <1>1, <2>2, <2>3
<1>3. ASSUME NEW where, v[n].at \notin where, n # 0
      PROVE  Cardinality(Levels(n, v, where)) <= n - 1
  <2>1. Levels(n, v, where) \subseteq 1..n - 1 /\ n - 1 \in Nat
    BY <1>3 DEF Levels
  <2>2. Cardinality(Levels(n, v, where)) <= Cardinality(1..n - 1)
    BY <1>1, <2>1, FS_Subset
  <2>3. QED
    BY <1>1, <2>1, <2>2
<1>4. ASSUME NEW p, NEW q, p \subseteq q
      PROVE  Cardinality(Levels(n, v, p)) <= Cardinality(Levels(n, v, q))
  <2>1. Levels(n, v, p) \subseteq Levels(n, v, q)
    BY <1>4 DEF Levels
  <2>2. QED
    BY <1>2, <2>1, FS_Subset
<1>5. QED
  BY <1>2, <1>3, <1>4

\* Outside the interrupt routine the host stack is empty and nothing is counted; within it
\* every stacked context is counted, every counted one is an interrupt in progress, and no
\* more than two are stacked, however many interrupts there are.
THEOREM BalancedAlways == Spec => []Balanced
<1>1. ASSUME Inv PROVE Balanced
  <2>1. PICK n, b, v : Layout(stack, Present, n, b, v) /\ CountInv(n, v)
    BY <1>1 DEF Inv
  <2>2. n \in Nat /\ b[0] = 0 /\ Len(stack) = b[n] /\ \E S : stack \in Seq(S)
    BY <2>1 DEF Layout
  <2>3. /\ Interrupts = n /\ Contexts = Cardinality(Levels(n, v, WorkHeld))
        /\ depth = Cardinality(Levels(n, v, Counted))
    BY <2>1 DEF CountInv
  <2>4. Contexts <= depth /\ depth \in 0..n
    BY <2>2, <2>3, LevelsFinite DEF Counted
  <2>5. n = 0 => stack = <<>> /\ depth = 0
    BY <2>2, <2>4
  <2>6. depth <= 2
    BY <2>1 DEF CountInv
  <2>7. Contexts <= 2
    <3>1. Contexts \in 0..n
      BY <2>2, <2>3, LevelsFinite
    <3>2. QED
      BY <2>2, <2>4, <2>6, <3>1
  <2>8. QED
    BY <2>2, <2>3, <2>4, <2>5, <2>7 DEF Balanced
<1>2. QED
  BY <1>1, Invariant, PTL

\* An interrupt is refused, and the run failed for it, only above two others in progress.
THEOREM RefusedOnlyThirdAlways == Spec => RefusedOnlyThird
<1>1. ASSUME Inv, [Next]_vars PROVE [refused' # refused => Interrupts > 2]_vars
  <2> SUFFICES ASSUME refused' # refused PROVE Interrupts > 2
    OBVIOUS
  <2>1. Admit /\ ~Room
    BY <1>1 DEF Next, vars, host, Driver, Dispatch, NoEntry, Describe, Execute, Save, Guard, Cost,
       Charge, Carry, Test, Take, Consume, Inputs, Decide, Enter, Output, Settle, Assemble, Place,
       Write, Advance, Disarm, Mark, Halt, Quiet, Nmi, Routine, Admit, SaveWork, SaveTime,
       SaveCursor, SaveHeader, SaveStep, Poison, RestoreHeader, RestoreCursor, RestoreTime,
       RestoreWork, RestoreStep, Leave, RestoreRegisters, Rti
  <2>2. PICK n, b, v : Layout(stack, Present, n, b, v) /\ CountInv(n, v)
    BY <1>1 DEF Inv
  <2>3. cpu.at = "nmi" /\ "nmi" \in RoutineAt /\ "nmi" \notin Counted
    BY <2>1, Labels, LabelCounts DEF Admit, Step, RoutineAt
  <2>4. n \in Nat \ {0} /\ v[n].at = "nmi"
    <3>1. v[n] = Present /\ n \in Nat \ {0}
      BY <2>2, <2>3, TopFacts
    <3>2. QED
      BY <2>3, <3>1 DEF Present
  <2>5. /\ Interrupts = n /\ depth = Cardinality(Levels(n, v, Counted)) /\ depth <= 2
    BY <2>2 DEF CountInv
  <2>6. depth \in 0..n /\ depth <= n - 1
    BY <2>3, <2>4, <2>5, LevelsFinite
  <2>7. ~(depth < 2)
    BY <2>1 DEF Room
  <2>8. QED
    BY <2>4, <2>5, <2>6, <2>7
<1>2. QED
  BY <1>1, Invariant, PTL DEF Spec, RefusedOnlyThird

-----------------------------------------------------------------------------
\* The refinement.
\* The row that is written is one GuestTimeline adds.
LEMMA WriteRetires ==
    ASSUME Inv, Write
    PROVE  \E op \in Ops : Guest!Retire(op)
<1>1. cpu \in CpuType /\ cpu.at = "write" /\ cpu.at \in DriverAt
  BY DEF Inv, Write, Step, DriverAt
<1>2. PICK s \in View : s = Present /\ DriverInv(s)
  BY <1>1, DriverLevel
<1>3. PICK t : t = Present'
  OBVIOUS
<1>4. s.work = work /\ s.acc = cpu.acc
  BY <1>2 DEF Present
<1>5. Step("write", "advance", cpu.acc + 1, work)
  BY DEF Write
<1>6. s.at = "write" /\ t = [at |-> "advance", op |-> s.op, acc |-> s.acc + 1, work |-> s.work]
  BY <1>1, <1>2, <1>3, <1>4, <1>5, StepView
<1>7. out' = [out EXCEPT ![s.acc] = s.work.header] /\ UNCHANGED <<events, outcome>>
  BY <1>4 DEF Write
<1>8. PICK row : row = RowOf(s.work.gt)
  OBVIOUS
<1>9. LastRow' = row
  BY <1>2, <1>6, <1>7, <1>8, WriteKeeps
<1>10. Follows(row)
  BY <1>2, <1>6, <1>8 DEF DriverInv, RowInv
<1>11. outcome = "running" /\ LastRow.ordinal < Steps
  <2>1. LastRow.ordinal = Captured(s) /\ Captured(s) < Steps
    BY <1>2, <1>6, LastRowFacts DEF DriverInv, RowsInv
  <2>2. QED
    BY <1>2, <1>6, <2>1 DEF DriverInv, EndInv
<1>12. events \in Plans /\ LastRow \in RowType
  BY <1>2 DEF DriverInv
<1>13. PICK op \in Ops, m \in LastRow.index..Len(events), post \in BOOLEAN, irq \in BOOLEAN,
            nmi \in BOOLEAN, d \in Decisions :
        /\ ~Guest!ClockFull(LastRow.time)
        /\ post \in Guest!FlagAfter(op, LastRow.i)
        /\ \A j \in LastRow.index + 1..m : events[j].cycle <= LastRow.time + op.cost
        /\ m < Len(events) => ~(events[m + 1].cycle <= LastRow.time + op.cost)
        /\ irq = IF m = LastRow.index THEN LastRow.irq ELSE events[m].irq
        /\ nmi <=> LastRow.nmi \/ \E j \in LastRow.index + 1..m : events[j].nmi
        /\ d = Guest!Decision(op, LastRow.i, post, irq, nmi)
        /\ row = [time |-> LastRow.time + op.cost + Guest!EntryCost(d), i |-> post \/ d # "none",
                  irq |-> irq, nmi |-> nmi /\ d # "nmi", index |-> m,
                  ordinal |-> LastRow.ordinal + 1, op |-> op.kind, cost |-> op.cost,
                  entry |-> Guest!EntryCost(d), decision |-> d]
  BY <1>10, Zenon DEF Follows, FollowsAs
<1>14. /\ (LastRow.time + op.cost) % Guest!Wrap = LastRow.time + op.cost
       /\ (LastRow.time + op.cost + Guest!EntryCost(d)) % Guest!Wrap
            = LastRow.time + op.cost + Guest!EntryCost(d)
  <2> DEFINE wrap == Word * Highs
             last == LastRow.time
             cost == op.cost
             entry == Guest!EntryCost(d)
  <2>1. wrap \in Nat /\ last \in Nat /\ last + 14 < wrap
    BY <1>12, <1>13, Fits
  <2>2. cost \in 2..7 /\ entry \in {0, 7}
    BY OpFacts, EntryFacts
  <2> HIDE DEF wrap, last, cost, entry
  <2>3. \A x, w \in Nat : x < w => x % w = x
    OBVIOUS
  <2>4. last + cost \in Nat /\ last + cost < wrap /\ last + cost + entry \in Nat /\ last + cost + entry < wrap
    BY <2>1, <2>2
  <2>5. (last + cost) % wrap = last + cost /\ (last + cost + entry) % wrap = last + cost + entry
    BY <2>1, <2>3, <2>4
  <2>6. QED
    BY <2>5 DEF wrap, last, cost, entry, Guest!Wrap
<1> DEFINE now == LastRow.time + op.cost
<1>15. /\ Guest!LineAfter(LastRow.index, m) = irq
       /\ Guest!LatchAfter(LastRow.index, m) = nmi
       /\ Guest!LoopStops(LastRow.index, m, now)
  <2>1. Guest!LineAfter(LastRow.index, m) = irq
    BY <1>13, GuestViews
  <2>2. Guest!LatchAfter(LastRow.index, m) = (LastRow.nmi \/ \E j \in LastRow.index + 1..m : events[j].nmi)
    BY GuestViews, Zenon
  <2>3. Guest!LatchAfter(LastRow.index, m) = nmi
    BY <1>13, <2>2, Zenon
  <2>4. Guest!LoopStops(LastRow.index, m, now)
    BY <1>13, GuestViews
  <2>5. QED
    BY <2>1, <2>3, <2>4
<1>16. Guest!Running
  BY <1>11 DEF Guest!Running, LastRow
<1>17. \E p \in Guest!FlagAfter(op, LastRow.i), k \in LastRow.index..Len(events) :
         LET time     == (LastRow.time + op.cost) % Guest!Wrap
             line     == Guest!LineAfter(LastRow.index, k)
             latch    == Guest!LatchAfter(LastRow.index, k)
             decision == Guest!Decision(op, LastRow.i, p, line, latch)
             entry    == Guest!EntryCost(decision)
         IN  /\ Guest!LoopStops(LastRow.index, k, time)
             /\ LastRow' = [time |-> (time + entry) % Guest!Wrap, i |-> p \/ decision # "none",
                            irq |-> line, nmi |-> latch /\ decision # "nmi", index |-> k,
                            ordinal |-> LastRow.ordinal + 1, op |-> op.kind, cost |-> op.cost,
                            entry |-> entry, decision |-> decision]
  <2>1. post \in Guest!FlagAfter(op, LastRow.i)
    BY <1>13
  <2>2. LastRow' = [time |-> (now + Guest!EntryCost(d)) % Guest!Wrap, i |-> post \/ d # "none",
                    irq |-> irq, nmi |-> nmi /\ d # "nmi", index |-> m,
                    ordinal |-> LastRow.ordinal + 1, op |-> op.kind, cost |-> op.cost,
                    entry |-> Guest!EntryCost(d), decision |-> d]
    <3>1. row = [time |-> LastRow.time + op.cost + Guest!EntryCost(d), i |-> post \/ d # "none",
                  irq |-> irq, nmi |-> nmi /\ d # "nmi", index |-> m,
                  ordinal |-> LastRow.ordinal + 1, op |-> op.kind, cost |-> op.cost,
                  entry |-> Guest!EntryCost(d), decision |-> d]
      BY <1>13, Zenon
    <3>2. QED
      BY <1>9, <1>14, <3>1, Zenon
  <2>3. /\ (LastRow.time + op.cost) % Guest!Wrap = now
        /\ Guest!LineAfter(LastRow.index, m) = irq /\ Guest!LatchAfter(LastRow.index, m) = nmi
        /\ d = Guest!Decision(op, LastRow.i, post, irq, nmi)
        /\ Guest!LoopStops(LastRow.index, m, now)
    BY <1>13, <1>14, <1>15
  <2> HIDE DEF now
  <2> USE <2>1, <2>2, <2>3
  <2> WITNESS post \in Guest!FlagAfter(op, LastRow.i), m \in LastRow.index..Len(events)
  <2>4. QED
    BY <2>2, <2>3, Zenon
<1>18. Guest!Retire(op)
  BY <1>7, <1>13, <1>16, <1>17, Zenon DEF Guest!Retire, LastRow
<1>19. QED
  BY <1>18

\* The marker that is written is one GuestTimeline writes.
LEMMA MarkEnds ==
    ASSUME Inv, Mark
    PROVE  Guest!Finish \/ Guest!OutOfTime \/ Guest!UnknownTarget
<1>1. cpu \in CpuType /\ cpu.at \in {"done", "failed"} /\ cpu.at \in DriverAt
  BY DEF Inv, Mark, Step, DriverAt
<1>2. PICK s \in View : s = Present /\ DriverInv(s)
  BY <1>1, DriverLevel
<1>3. s.at = cpu.at /\ s.work = work
  BY <1>2 DEF Present
<1>4. UNCHANGED <<events, out>> /\ outcome' = IF cpu.at = "done" THEN "done" ELSE work.gt.status
  BY DEF Mark, Step
<1>5. LastRow' = LastRow
  BY <1>4 DEF LastRow, Written
<1>6. outcome = "running" /\ LastRow.ordinal = Captured(s)
  BY <1>1, <1>2, <1>3, LastRowFacts DEF DriverInv, EndInv
<1>7. CASE cpu.at = "done"
  BY <1>2, <1>3, <1>4, <1>5, <1>6, <1>7 DEF DriverInv, EndInv, Guest!Finish, LastRow
<1>8. CASE cpu.at = "failed"
  <2>1. /\ LastRow.ordinal < Steps
        /\ \/ outcome' = "clock" /\ Guest!ClockFull(LastRow.time)
           \/ outcome' = "target" /\ LastRow.ordinal > 0
    BY <1>2, <1>3, <1>4, <1>6, <1>8 DEF DriverInv, EndInv
  <2>2. QED
    BY <1>4, <1>5, <1>6, <2>1 DEF Guest!OutOfTime, Guest!UnknownTarget, Guest!Running, LastRow
<1>9. QED
  BY <1>1, <1>7, <1>8

\* Nothing else is seen.
LEMMA OthersStutter ==
    ASSUME [Next]_vars, ~Write, ~Mark
    PROVE  UNCHANGED Guest!vars
<1>1. UNCHANGED <<events, out, outcome>>
  BY DEF Next, vars, host, Driver, Dispatch, NoEntry, Describe, Execute, Save, Guard, Cost,
     Charge, Carry, Test, Take, Consume, Inputs, Decide, Enter, Output, Settle, Assemble, Place,
     Advance, Disarm, Halt, Quiet, Hidden, Nmi, Routine, Admit, SaveWork, SaveTime,
     SaveCursor, SaveHeader, SaveStep, Poison, RestoreHeader, RestoreCursor, RestoreTime,
     RestoreWork, RestoreStep, Leave, RestoreRegisters, Rti
<1>2. LastRow' = LastRow
  BY <1>1 DEF LastRow, Written
<1>3. QED
  BY <1>1, <1>2 DEF Guest!vars, LastRow

\* Whatever interrupts, and wherever, the rows and the marker are those of a run of
\* GuestTimeline, where there are no host interrupts.
THEOREM UnseenByGuestAlways == Spec => UnseenByGuest
<1>1. Init => Guest!Init
  <2> SUFFICES ASSUME Init PROVE Guest!Init
    OBVIOUS
  <2>1. Written = {} /\ LastRow = Initial
    BY DEF Init, Written, LastRow, Rows
  <2>2. QED
    BY <2>1 DEF Init, Guest!Init, Guest!InitialRow, Initial, LastRow
<1>2. Inv /\ [Next]_vars => [Guest!Next]_Guest!vars
  BY WriteRetires, MarkEnds, OthersStutter DEF Guest!Next
<1>3. QED
  BY <1>1, <1>2, Invariant, PTL DEF Spec, UnseenByGuest, Guest!Spec

\* The rows keep their order, the clock its width and the count its bound, also while
\* the scratch memory belongs to the interrupt routine.
THEOREM TypesAlways == Spec => []TypeOK
<1> DEFINE Bits == enabled \in BOOLEAN /\ refused \in BOOLEAN
<1>1. Init => Bits
  BY DEF Init
<1>2. Bits /\ [Next]_vars => Bits'
  BY DEF Next, vars, host, Driver, Dispatch, NoEntry, Describe, Execute, Save, Guard, Cost,
     Charge, Carry, Test, Take, Consume, Inputs, Decide, Enter, Output, Settle, Assemble, Place,
     Write, Advance, Disarm, Mark, Halt, Quiet, Hidden, Nmi, Routine, Admit, SaveWork, SaveTime,
     SaveCursor, SaveHeader, SaveStep, Poison, RestoreHeader, RestoreCursor, RestoreTime,
     RestoreWork, RestoreStep, Leave, RestoreRegisters, Rti
<1>3. ASSUME Inv, Bits PROVE TypeOK
  <2>1. PICK n, b, v : Layout(stack, Present, n, b, v) /\ DriverInv(v[0]) /\ CountInv(n, v)
    BY <1>3 DEF Inv
  <2>2. n \in Nat /\ n \in 0..n /\ v[n] = Present /\ v[n] \in View
    BY <2>1 DEF Layout
  <2>3. work \in WorkType
    BY <2>2 DEF View, Present
  <2>4. work.gt.lo \in 0..Word - 1 /\ work.gt.hi \in 0..Highs - 1
    BY <2>3 DEF WorkType
  <2>5. depth \in 0..2
    <3>1. Cardinality(Levels(n, v, Counted)) \in 0..n
      BY <2>2, LevelsFinite
    <3>2. QED
      BY <2>1, <2>2, <3>1 DEF CountInv
  <2>6. PICK c \in 0..Steps : \A r \in Rows : IF r < c THEN out[r] \in RowType /\ out[r].ordinal = r + 1
                                                     ELSE out[r] = None
    BY <2>1 DEF DriverInv, RowsInv
  <2>7. \A r \in Rows : out[r] # None => out[r].ordinal = r + 1
    BY <2>6
  <2>8. ASSUME NEW r \in Rows, r > 0, out[r] # None PROVE out[r - 1] # None
    <3>1. r - 1 \in Rows /\ r < c /\ r - 1 < c
      BY <2>6, <2>8, StepsAssumption DEF Rows
    <3>2. out[r - 1] \in RowType
      BY <2>6, <3>1
    <3>3. QED
      BY <3>2 DEF RowType, None
  <2>9. QED
    BY <1>3, <2>4, <2>5, <2>7, <2>8 DEF TypeOK
<1>4. QED
  BY <1>1, <1>2, <1>3, Invariant, PTL DEF Spec

=============================================================================
