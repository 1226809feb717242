--------------------------- MODULE ApuUnitsProofs ---------------------------
(***************************************************************************)
(* The counters of the APU for every set of channels, lengths, periods and *)
(* loads: their ranges, the silence of disabled channels, the alignment of *)
(* the four-step sequencer, the rates of the length and of the linear      *)
(* counter, the decay of the notes.  And the sweep unit, for every width   *)
(* of the pitch table and every set of shifts: the period stays in the     *)
(* table, a sweep is monotone, and sweeps come at the pace of the divider. *)
(***************************************************************************)
EXTENDS ApuCounters, MCPulseSweep, TLAPS

\* The registers alone, which the clocks read and never write.
RegisterType ==
    /\ on \in [Channels -> BOOLEAN] /\ halt \in [Channels -> BOOLEAN]
    /\ fixed \in [Envelopes -> BOOLEAN] /\ period \in [Envelopes -> Periods]
    /\ load \in Loads /\ five \in BOOLEAN

Inv == TypeOK /\ DisabledSilent /\ FourStepAligned

-----------------------------------------------------------------------------
(* One clock.                                                              *)

\* Counting down stays within the naturals, and within any range from zero.
LEMMA LessRange ==
    ASSUME NEW m \in Nat, NEW n \in 0..m
    PROVE  Less(n) \in 0..m
BY DEF Less

\* Counting a natural down gives a natural.
LEMMA LessNat ==
    ASSUME NEW n \in Nat
    PROVE  Less(n) \in Nat
BY DEF Less

\* A half frame keeps the types and touches the length counters only, each of
\* which it leaves alone or counts down.
LEMMA HalfFacts ==
    ASSUME RegisterType, NEW k \in CountType
    PROVE  /\ ApuHalf(k) \in CountType
           /\ ApuHalf(k).phase = k.phase
           /\ \A c \in Channels : ApuHalf(k).length[c] =
                  IF halt[c] THEN k.length[c] ELSE Less(k.length[c])
<1> DEFINE l == [c \in Channels |->
                    IF halt[c] THEN k.length[c] ELSE Less(k.length[c])]
<1>1. l \in [Channels -> Nat]
  <2>1. k.length \in [Channels -> Nat]
    BY DEF CountType
  <2>2. \A c \in Channels : l[c] \in Nat
    BY <2>1, LessNat
  <2>. QED  BY <2>2
<1>2. ApuHalf(k) = [k EXCEPT !.length = l]
  BY DEF ApuHalf
<1> HIDE DEF l
<1>3. ApuHalf(k) \in CountType /\ ApuHalf(k).phase = k.phase
        /\ ApuHalf(k).length = l
  BY <1>1, <1>2 DEF CountType
<1>. QED  BY <1>3 DEF l

\* A quarter frame keeps the types, the lengths and the phase.
LEMMA QuarterFacts ==
    ASSUME RegisterType, NEW k \in CountType
    PROVE  /\ ApuQuarter(k) \in CountType
           /\ ApuQuarter(k).phase = k.phase
           /\ ApuQuarter(k).length = k.length
<1> DEFINE r == [e \in Envelopes |-> FALSE]
           d == [e \in Envelopes |-> DecayAfter(k, e)]
           v == [e \in Envelopes |-> DividerAfter(k, e)]
           n == IF k.reload THEN load ELSE Less(k.linear)
           b == k.reload /\ halt[Triangle]
<1>1. d \in [Envelopes -> 0..Peak]
  <2>1. \A e \in Envelopes : k.decay[e] \in 0..Peak /\ Peak \in Nat
    BY ValueAssumption DEF CountType
  <2>2. \A e \in Envelopes : Less(k.decay[e]) \in 0..Peak
    BY <2>1, LessRange
  <2>3. ASSUME NEW e \in Envelopes
        PROVE  DecayAfter(k, e) \in {Peak, Less(k.decay[e]), k.decay[e]}
    BY Zenon DEF DecayAfter
  <2>4. Peak \in 0..Peak
    BY ValueAssumption
  <2>5. \A e \in Envelopes : DecayAfter(k, e) \in 0..Peak
    BY <2>1, <2>2, <2>3, <2>4, Zenon
  <2>. QED  BY <2>5
<1>2. v \in [Envelopes -> 0..Peak]
  <2>1. \A e \in Envelopes :
           /\ k.divider[e] \in 0..Peak /\ period[e] \in 0..Peak
           /\ k.restart[e] \in BOOLEAN /\ Peak \in Nat
    BY ValueAssumption DEF CountType, RegisterType
  <2>2. ASSUME NEW e \in Envelopes, ~Restarted(k, e), ~Decays(k, e)
        PROVE  DividerAfter(k, e) = Less(k.divider[e])
    BY <2>1, <2>2, Zenon DEF DividerAfter, Restarted, Decays, Less
  <2>3. ASSUME NEW e \in Envelopes
        PROVE  DividerAfter(k, e) \in {period[e], Less(k.divider[e])}
    BY <2>2, Zenon DEF DividerAfter
  <2>4. \A e \in Envelopes : DividerAfter(k, e) \in 0..Peak
    BY <2>1, <2>3, LessRange
  <2>. QED  BY <2>4
<1>3. n \in Nat
  <2>1. k.linear \in Nat /\ load \in Nat
    BY ValueAssumption DEF CountType, RegisterType
  <2>. QED  BY <2>1, LessNat
<1>4. b \in BOOLEAN
  OBVIOUS
<1>5. r \in [Envelopes -> BOOLEAN]
  OBVIOUS
<1>6. ApuQuarter(k) = [k EXCEPT !.restart = r, !.decay = d, !.divider = v,
                                !.linear = n, !.reload = b]
  BY DEF ApuQuarter
<1> HIDE DEF r, d, v, n, b
<1>. QED  BY <1>1, <1>2, <1>3, <1>4, <1>5, <1>6 DEF CountType

\* A tick moves the sequencer on; a half frame counts each running length
\* counter down, and no other tick touches it.
LEMMA TickFacts ==
    ASSUME RegisterType, NEW k \in CountType
    PROVE  /\ Tick(k) \in CountType
           /\ Tick(k).phase = NextPhase(k.phase)
           /\ \A c \in Channels : Tick(k).length[c] =
                  IF HalfDue(k.phase) /\ ~halt[c] THEN Less(k.length[c])
                  ELSE k.length[c]
<1> DEFINE half == IF HalfDue(k.phase) THEN ApuHalf(k) ELSE k
           both == IF QuarterDue(k.phase) THEN ApuQuarter(half) ELSE half
<1>1. half \in CountType
  BY HalfFacts
<1>2. \A c \in Channels : half.length[c] =
          IF HalfDue(k.phase) /\ ~halt[c] THEN Less(k.length[c])
          ELSE k.length[c]
  BY HalfFacts
<1> HIDE DEF half
<1>3. both \in CountType /\ both.length = half.length
  BY <1>1, QuarterFacts
<1>4. NextPhase(k.phase) \in 0..4
  BY DEF NextPhase, Steps, CountType
<1>5. Tick(k) = [both EXCEPT !.phase = NextPhase(k.phase)]
  BY DEF Tick, half
<1> HIDE DEF both
<1>6. /\ Tick(k) \in CountType /\ Tick(k).phase = NextPhase(k.phase)
      /\ Tick(k).length = both.length
  BY <1>3, <1>4, <1>5 DEF CountType
<1>. QED  BY <1>2, <1>3, <1>6

\* A frame of the host: the sequencer of the four-step sequence comes back to
\* its first phase, and the lengths are counted as LengthRate says.
LEMMA FrameFacts ==
    ASSUME RegisterType, NEW k \in CountType, ~five => k.phase = 0,
           NEW f, f = Tick(Tick(Tick(Tick(k))))
    PROVE  /\ f \in CountType
           /\ ~five => f.phase = 0
           /\ \A c \in Channels :
                 LET before == k.length[c]
                     after  == f.length[c]
                 IN  IF halt[c] THEN after = before
                     ELSE IF five
                     THEN after \in {Less(before), Less(Less(before))}
                     ELSE after = Less(Less(before))
<1>1. PICK k1 \in CountType : k1 = Tick(k)
  BY TickFacts
<1>2. PICK k2 \in CountType : k2 = Tick(k1)
  BY TickFacts
<1>3. PICK k3 \in CountType : k3 = Tick(k2)
  BY TickFacts
<1>4. f = Tick(k3) /\ f \in CountType
  BY <1>1, <1>2, <1>3, TickFacts
<1>5. /\ k1.phase = NextPhase(k.phase) /\ k2.phase = NextPhase(k1.phase)
      /\ k3.phase = NextPhase(k2.phase) /\ f.phase = NextPhase(k3.phase)
  BY <1>1, <1>2, <1>3, <1>4, TickFacts
<1>6. k.phase \in 0..4 /\ five \in BOOLEAN
  BY DEF CountType, RegisterType
<1>7. ASSUME ~five
      PROVE  /\ k.phase = 0 /\ k1.phase = 1 /\ k2.phase = 2 /\ k3.phase = 3
             /\ f.phase = 0
  BY <1>5, <1>6, <1>7 DEF NextPhase, Steps
<1>8. ASSUME NEW c \in Channels
      PROVE  LET before == k.length[c]
                 after  == f.length[c]
             IN  IF halt[c] THEN after = before
                 ELSE IF five
                 THEN after \in {Less(before), Less(Less(before))}
                 ELSE after = Less(Less(before))
  <2> DEFINE runs(p) == HalfDue(p) /\ ~halt[c]
             l0 == k.length[c]   l1 == k1.length[c]   l2 == k2.length[c]
             l3 == k3.length[c]  l4 == f.length[c]
  <2>1. /\ l1 = IF runs(k.phase) THEN Less(l0) ELSE l0
        /\ l2 = IF runs(k1.phase) THEN Less(l1) ELSE l1
        /\ l3 = IF runs(k2.phase) THEN Less(l2) ELSE l2
        /\ l4 = IF runs(k3.phase) THEN Less(l3) ELSE l3
    BY <1>1, <1>2, <1>3, <1>4, TickFacts
  <2> HIDE DEF l0, l1, l2, l3, l4
  <2>2. CASE halt[c]
    BY <2>1, <2>2 DEF l0, l4
  <2>3. CASE ~halt[c] /\ ~five
    <3>1. /\ ~HalfDue(k.phase) /\ HalfDue(k1.phase)
          /\ ~HalfDue(k2.phase) /\ HalfDue(k3.phase)
      BY <1>7, <2>3 DEF HalfDue
    <3>2. l4 = Less(Less(l0))
      BY <2>1, <2>3, <3>1, Zenon
    <3>. QED  BY <2>3, <3>2 DEF l0, l4
  <2>4. CASE ~halt[c] /\ five
    <3> DEFINE h0 == HalfDue(k.phase)   h1 == HalfDue(k1.phase)
               h2 == HalfDue(k2.phase)  h3 == HalfDue(k3.phase)
    <3>1. \/ ~h0 /\ h1 /\ ~h2 /\ ~h3
          \/ h0 /\ ~h1 /\ ~h2 /\ h3
          \/ ~h0 /\ ~h1 /\ h2 /\ ~h3
          \/ ~h0 /\ h1 /\ ~h2 /\ h3
          \/ h0 /\ ~h1 /\ h2 /\ ~h3
      BY <1>5, <1>6, <2>4 DEF HalfDue, NextPhase, Steps
    <3> HIDE DEF h0, h1, h2, h3
    <3>2. /\ l1 = IF h0 THEN Less(l0) ELSE l0
          /\ l2 = IF h1 THEN Less(l1) ELSE l1
          /\ l3 = IF h2 THEN Less(l2) ELSE l2
          /\ l4 = IF h3 THEN Less(l3) ELSE l3
      BY <2>1, <2>4, Zenon DEF h0, h1, h2, h3
    <3>3. l4 = Less(l0) \/ l4 = Less(Less(l0))
      BY <3>1, <3>2
    <3>. QED  BY <2>4, <3>3 DEF l0, l4
  <2>5. halt[c] \in BOOLEAN
    BY DEF RegisterType
  <2>. QED  BY <2>2, <2>3, <2>4
<1>. QED  BY <1>4, <1>7, <1>8

\* A quarter frame reloads the linear counter or counts it down; no other tick
\* touches it.
LEMMA LinearTick ==
    ASSUME RegisterType, NEW k \in CountType
    PROVE  /\ Tick(k).linear = IF QuarterDue(k.phase)
                               THEN IF k.reload THEN load ELSE Less(k.linear)
                               ELSE k.linear
           /\ Tick(k).reload <=> k.reload /\ (QuarterDue(k.phase) => halt[Triangle])
<1> DEFINE half == IF HalfDue(k.phase) THEN ApuHalf(k) ELSE k
           both == IF QuarterDue(k.phase) THEN ApuQuarter(half) ELSE half
<1>1. half \in CountType /\ half.linear = k.linear /\ half.reload = k.reload
  <2>1. ApuHalf(k).linear = k.linear /\ ApuHalf(k).reload = k.reload
    BY DEF ApuHalf, CountType
  <2>. QED  BY <2>1, HalfFacts
<1> HIDE DEF half
<1>2. both \in CountType
  BY <1>1, QuarterFacts
<1>3. /\ ApuQuarter(half).linear = IF half.reload THEN load ELSE Less(half.linear)
      /\ ApuQuarter(half).reload = (half.reload /\ halt[Triangle])
  BY <1>1 DEF ApuQuarter, CountType
<1>4. /\ both.linear = IF QuarterDue(k.phase)
                       THEN IF k.reload THEN load ELSE Less(k.linear) ELSE k.linear
      /\ both.reload <=> k.reload /\ (QuarterDue(k.phase) => halt[Triangle])
  BY <1>1, <1>3
<1>5. Tick(k) = [both EXCEPT !.phase = NextPhase(k.phase)]
  BY DEF Tick, half
<1> HIDE DEF both
<1>6. Tick(k).linear = both.linear /\ Tick(k).reload = both.reload
  BY <1>2, <1>5 DEF CountType
<1>. QED  BY <1>4, <1>6

\* The linear counter over a frame.
LEMMA LinearFrame ==
    ASSUME RegisterType, NEW k \in CountType, ~five => k.phase = 0,
           NEW f, f = Tick(Tick(Tick(Tick(k))))
    PROVE  LET start == IF k.reload THEN load + 1 ELSE k.linear
           IN  IF k.reload /\ halt[Triangle]
               THEN f.linear = load /\ f.reload
               ELSE /\ ~f.reload
                    /\ \/ f.linear = IF start > 4 THEN start - 4 ELSE 0
                       \/ five /\ f.linear = IF start > 3 THEN start - 3 ELSE 0
<1>1. PICK k1 \in CountType : k1 = Tick(k)
  BY TickFacts
<1>2. PICK k2 \in CountType : k2 = Tick(k1)
  BY TickFacts
<1>3. PICK k3 \in CountType : k3 = Tick(k2)
  BY TickFacts
<1>4. f = Tick(k3) /\ f \in CountType
  BY <1>1, <1>2, <1>3, TickFacts
<1>5. /\ k1.phase = NextPhase(k.phase) /\ k2.phase = NextPhase(k1.phase)
      /\ k3.phase = NextPhase(k2.phase)
  BY <1>1, <1>2, <1>3, TickFacts
<1> DEFINE q0 == QuarterDue(k.phase)   q1 == QuarterDue(k1.phase)
           q2 == QuarterDue(k2.phase)  q3 == QuarterDue(k3.phase)
           l0 == k.linear  l1 == k1.linear  l2 == k2.linear  l3 == k3.linear  l4 == f.linear
           r0 == k.reload  r1 == k1.reload  r2 == k2.reload  r3 == k3.reload  r4 == f.reload
           h == halt[Triangle]
\* Of four ticks in a row, at most one is not a quarter frame, and only in the five-step
\* sequence.
<1>6. \/ q0 /\ q1 /\ q2 /\ q3
      \/ five /\ ~q0 /\ q1 /\ q2 /\ q3
      \/ five /\ q0 /\ ~q1 /\ q2 /\ q3
      \/ five /\ q0 /\ q1 /\ ~q2 /\ q3
      \/ five /\ q0 /\ q1 /\ q2 /\ ~q3
  <2>1. k.phase \in 0..4
    BY DEF CountType
  <2>. QED  BY <1>5, <2>1 DEF QuarterDue, NextPhase, Steps
<1>7. /\ l1 = IF q0 THEN IF r0 THEN load ELSE Less(l0) ELSE l0
      /\ l2 = IF q1 THEN IF r1 THEN load ELSE Less(l1) ELSE l1
      /\ l3 = IF q2 THEN IF r2 THEN load ELSE Less(l2) ELSE l2
      /\ l4 = IF q3 THEN IF r3 THEN load ELSE Less(l3) ELSE l3
  BY <1>1, <1>2, <1>3, <1>4, LinearTick
<1>8. /\ r1 <=> r0 /\ (q0 => h)
      /\ r2 <=> r1 /\ (q1 => h)
      /\ r3 <=> r2 /\ (q2 => h)
      /\ r4 <=> r3 /\ (q3 => h)
  BY <1>1, <1>2, <1>3, <1>4, LinearTick
<1>9. load \in Nat /\ l0 \in Nat /\ k.reload = r0 /\ k.linear = l0
  BY ValueAssumption DEF RegisterType, CountType
<1> HIDE DEF q0, q1, q2, q3, l0, l1, l2, l3, l4, r0, r1, r2, r3, r4, h
<1>10. CASE r0 /\ h
  <2>1. r1 /\ r2 /\ r3 /\ r4
    BY <1>8, <1>10
  <2>2. l4 = load
    BY <1>6, <1>7, <1>10, <2>1
  <2>. QED  BY <1>9, <1>10, <2>1, <2>2 DEF h, l4, r4
<1>11. CASE ~(r0 /\ h)
  <2> DEFINE start == IF r0 THEN load + 1 ELSE l0
  <2>1. ~r4
    BY <1>6, <1>8, <1>11
  <2>2. \/ l4 = IF start > 4 THEN start - 4 ELSE 0
        \/ five /\ l4 = IF start > 3 THEN start - 3 ELSE 0
    <3>1. CASE r0
      <4>1. ~h
        BY <1>11, <3>1
      <4>. QED  BY <1>6, <1>7, <1>8, <1>9, <3>1, <4>1 DEF Less
    <3>2. CASE ~r0
      <4>1. ~r1 /\ ~r2 /\ ~r3
        BY <1>8, <3>2
      <4>. QED  BY <1>6, <1>7, <1>9, <3>2, <4>1 DEF Less
    <3>. QED  BY <3>1, <3>2
  <2>. QED  BY <1>9, <1>11, <2>1, <2>2 DEF h, l4, r4
<1>. QED  BY <1>10, <1>11

-----------------------------------------------------------------------------
(* The invariant.                                                          *)

\* The invariant holds at the start.
LEMMA InvInit == Init => Inv
<1> SUFFICES ASSUME Init PROVE Inv
  OBVIOUS
<1>1. TypeOK
  <2>1. count \in CountType
    <3>1. Peak \in Nat /\ 0 \in 0..Peak /\ 0 \in 0..4
      BY ValueAssumption
    <3>. QED  BY <3>1 DEF Init, CountType
  <2>. QED  BY <2>1, ValueAssumption DEF Init, TypeOK
<1>2. DisabledSilent /\ FourStepAligned
  BY DEF Init, DisabledSilent, FourStepAligned
<1>. QED  BY <1>1, <1>2 DEF Inv

\* Every register write and every frame keeps it.
LEMMA InvNext == Inv /\ [Next]_vars => Inv'
<1> SUFFICES ASSUME Inv, [Next]_vars
             PROVE  Inv'
  OBVIOUS
<1>1. /\ RegisterType /\ count \in CountType
      /\ \A c \in Channels : ~on[c] => count.length[c] = 0
      /\ ~five => count.phase = 0
  BY DEF Inv, TypeOK, RegisterType, DisabledSilent, FourStepAligned
<1> USE DEF Inv, TypeOK, DisabledSilent, FourStepAligned
<1>2. CASE WriteVolume
  <2>1. PICK e \in Envelopes, h \in BOOLEAN, f \in BOOLEAN, n \in Periods :
           /\ halt' = [halt EXCEPT ![e] = h]
           /\ fixed' = [fixed EXCEPT ![e] = f]
           /\ period' = [period EXCEPT ![e] = n]
    BY <1>2 DEF WriteVolume
  <2>2. UNCHANGED <<on, load, five, count>>
    BY <1>2 DEF WriteVolume
  <2>3. /\ halt' \in [Channels -> BOOLEAN] /\ fixed' \in [Envelopes -> BOOLEAN]
        /\ period' \in [Envelopes -> Periods]
    BY <1>1, <2>1 DEF RegisterType, Channels
  <2>. QED  BY <2>2, <2>3 DEF CountType
<1>3. CASE WriteLinear
  <2>1. halt' \in [Channels -> BOOLEAN]
    BY <1>1, <1>3 DEF WriteLinear, RegisterType
  <2>. QED  BY <1>3, <2>1 DEF WriteLinear, CountType
<1>4. CASE WriteLength
  <2>1. PICK c \in Channels, n \in Lengths :
           count' = [count EXCEPT
              !.length = Loaded(c, n),
              !.restart = [e \in Envelopes |-> e = c \/ @[e]],
              !.reload = @ \/ c = Triangle]
    BY <1>4 DEF WriteLength
  <2>2. Loaded(c, n) \in [Channels -> Nat]
    BY <1>1, ValueAssumption DEF Loaded, CountType
  <2>3. \A x \in Channels : ~on[x] => Loaded(c, n)[x] = 0
    BY <1>1 DEF Loaded, CountType
  <2>4. /\ count' \in CountType /\ count'.length = Loaded(c, n)
        /\ count'.phase = count.phase
    BY <1>1, <2>1, <2>2 DEF CountType
  <2>. QED  BY <1>1, <1>4, <2>3, <2>4 DEF WriteLength, registers, RegisterType
<1>5. CASE WriteEnable
  <2> DEFINE l == [c \in Channels |-> IF on'[c] THEN count.length[c] ELSE 0]
  <2>1. on' \in [Channels -> BOOLEAN] /\ count' = [count EXCEPT !.length = l]
    BY <1>5 DEF WriteEnable
  <2>2. l \in [Channels -> Nat]
    BY <1>1 DEF CountType
  <2>3. \A c \in Channels : ~on'[c] => l[c] = 0
    OBVIOUS
  <2> HIDE DEF l
  <2>4. /\ count' \in CountType /\ count'.length = l
        /\ count'.phase = count.phase
    BY <1>1, <2>1, <2>2 DEF CountType
  <2>. QED  BY <1>1, <1>5, <2>1, <2>3, <2>4 DEF WriteEnable, RegisterType
<1>6. CASE WriteFrame
  <2> DEFINE k == ResetPhase(count)
  <2>1. k \in CountType /\ k.phase = 0 /\ k.length = count.length
    BY <1>1 DEF ResetPhase, CountType
  <2> HIDE DEF k
  <2>2. /\ five' \in BOOLEAN /\ UNCHANGED <<on, halt, fixed, period, load>>
        /\ count' = IF five' THEN ApuQuarter(ApuHalf(k)) ELSE k
    BY <1>6 DEF WriteFrame, k
  <2>3. /\ ApuHalf(k) \in CountType
        /\ \A c \in Channels : ApuHalf(k).length[c] =
               IF halt[c] THEN count.length[c] ELSE Less(count.length[c])
    BY <1>1, <2>1, HalfFacts
  <2>4. /\ ApuQuarter(ApuHalf(k)) \in CountType
        /\ ApuQuarter(ApuHalf(k)).length = ApuHalf(k).length
    BY <1>1, <2>3, QuarterFacts
  <2>5. \A c \in Channels : count.length[c] = 0 => count'.length[c] = 0
    BY <2>1, <2>2, <2>3, <2>4 DEF Less
  <2>6. count' \in CountType /\ (~five' => count'.phase = 0)
    BY <2>1, <2>2, <2>4
  <2>. QED  BY <1>1, <2>2, <2>5, <2>6 DEF RegisterType
<1>7. CASE ApuFrame
  <2>1. /\ count' \in CountType /\ (~five => count'.phase = 0)
        /\ \A c \in Channels : count.length[c] = 0 => count'.length[c] = 0
    BY <1>1, <1>7, FrameFacts DEF ApuFrame, Less
  <2>. QED  BY <1>1, <1>7, <2>1 DEF ApuFrame, registers, RegisterType
<1>8. CASE UNCHANGED vars
  BY <1>1, <1>8 DEF vars, registers, RegisterType, CountType
<1>. QED  BY <1>2, <1>3, <1>4, <1>5, <1>6, <1>7, <1>8 DEF Next

-----------------------------------------------------------------------------
(* Envelopes.                                                              *)

\* A quarter frame never raises the envelope of a channel that is neither
\* retriggered nor looped, and retriggers none.
LEMMA QuarterFades ==
    ASSUME RegisterType, NEW k \in CountType, NEW e \in Envelopes,
           ~k.restart[e], ~halt[e]
    PROVE  ApuQuarter(k).decay[e] <= k.decay[e] /\ ~ApuQuarter(k).restart[e]
<1>1. /\ ApuQuarter(k).decay[e] = DecayAfter(k, e)
      /\ ApuQuarter(k).restart[e] = FALSE
  BY DEF ApuQuarter, CountType
<1>2. DecayAfter(k, e) = Less(k.decay[e]) \/ DecayAfter(k, e) = k.decay[e]
  BY Zenon DEF DecayAfter, Restarted
<1>3. k.decay[e] \in 0..Peak /\ Peak \in Nat
  BY ValueAssumption DEF CountType
<1>. QED  BY <1>1, <1>2, <1>3 DEF Less

\* Neither does a tick.
LEMMA TickFades ==
    ASSUME RegisterType, NEW k \in CountType, NEW e \in Envelopes,
           ~k.restart[e], ~halt[e]
    PROVE  Tick(k).decay[e] <= k.decay[e] /\ ~Tick(k).restart[e]
<1> DEFINE half == IF HalfDue(k.phase) THEN ApuHalf(k) ELSE k
           both == IF QuarterDue(k.phase) THEN ApuQuarter(half) ELSE half
<1>1. half \in CountType
  BY HalfFacts
<1>2. half.decay = k.decay /\ half.restart = k.restart
  BY DEF ApuHalf, CountType
<1> HIDE DEF half
<1>3. k.decay[e] \in 0..Peak /\ Peak \in Nat
  BY ValueAssumption DEF CountType
<1>4. both.decay[e] <= k.decay[e] /\ ~both.restart[e]
  BY <1>1, <1>2, <1>3, QuarterFades
<1>5. both \in CountType
  BY <1>1, QuarterFacts
<1>6. Tick(k) = [both EXCEPT !.phase = NextPhase(k.phase)]
  BY DEF Tick, half
<1> HIDE DEF both
<1>7. Tick(k).decay = both.decay /\ Tick(k).restart = both.restart
  BY <1>5, <1>6 DEF CountType
<1>. QED  BY <1>4, <1>7

\* Nor, therefore, does a frame.
LEMMA FrameFades ==
    ASSUME RegisterType, NEW k \in CountType, NEW e \in Envelopes,
           ~k.restart[e], ~halt[e]
    PROVE  Tick(Tick(Tick(Tick(k)))).decay[e] <= k.decay[e]
<1>1. PICK k1 \in CountType : k1 = Tick(k)
  BY TickFacts
<1>2. PICK k2 \in CountType : k2 = Tick(k1)
  BY TickFacts
<1>3. PICK k3 \in CountType : k3 = Tick(k2)
  BY TickFacts
<1>4. PICK k4 \in CountType : k4 = Tick(k3)
  BY TickFacts
<1>5. ~k1.restart[e] /\ ~k2.restart[e] /\ ~k3.restart[e]
  BY <1>1, <1>2, <1>3, TickFades
<1>6. /\ k1.decay[e] <= k.decay[e] /\ k2.decay[e] <= k1.decay[e]
      /\ k3.decay[e] <= k2.decay[e] /\ k4.decay[e] <= k3.decay[e]
  BY <1>1, <1>2, <1>3, <1>4, <1>5, TickFades
<1>7. /\ k.decay[e] \in Int /\ k1.decay[e] \in Int /\ k2.decay[e] \in Int
      /\ k3.decay[e] \in Int /\ k4.decay[e] \in Int
  BY ValueAssumption DEF CountType
<1>8. k4.decay[e] <= k.decay[e]
  BY <1>6, <1>7
<1>. QED  BY <1>1, <1>2, <1>3, <1>4, <1>8

-----------------------------------------------------------------------------
(* The theorems.                                                           *)

\* The invariant of the counters.
THEOREM CounterInvariant == Spec => []Inv
BY InvInit, InvNext, PTL DEF Spec

\* Every counter keeps to its range.
THEOREM CountersInRange == Spec => []TypeOK
<1>1. Inv => TypeOK
  BY DEF Inv
<1>. QED  BY <1>1, CounterInvariant, PTL

\* A disabled channel holds no note.
THEOREM DisabledStaySilent == Spec => []DisabledSilent
<1>1. Inv => DisabledSilent
  BY DEF Inv
<1>. QED  BY <1>1, CounterInvariant, PTL

\* The four-step sequencer stands at its first phase between frames.
THEOREM SequencerAligned == Spec => []FourStepAligned
<1>1. Inv => FourStepAligned
  BY DEF Inv
<1>. QED  BY <1>1, CounterInvariant, PTL

\* A frame counts the lengths as the sequence in force says.
THEOREM LengthsCounted == Spec => LengthRate
<1> DEFINE counted ==
       \A c \in Channels :
          LET before == count.length[c]
              after  == count'.length[c]
          IN  IF halt[c] THEN after = before
              ELSE IF five THEN after \in {Less(before), Less(Less(before))}
              ELSE after = Less(Less(before))
<1>1. Inv /\ [Next]_vars => [ApuFrame => counted]_vars
  <2> SUFFICES ASSUME Inv, ApuFrame PROVE counted
    OBVIOUS
  <2>1. RegisterType /\ count \in CountType /\ (~five => count.phase = 0)
    BY DEF Inv, TypeOK, RegisterType, FourStepAligned
  <2>. QED  BY <2>1, FrameFacts DEF ApuFrame
<1>2. Spec => [][ApuFrame => counted]_vars
  BY <1>1, CounterInvariant, PTL DEF Spec
<1>. QED  BY <1>2 DEF LengthRate

\* The volume of a note left alone never rises from a frame to the next.
THEOREM NotesOnlyFade == Spec => NotesFade
<1> DEFINE fades ==
       \A e \in Envelopes :
          ~count.restart[e] /\ ~halt[e] => Volume(e)' <= Volume(e)
<1>1. Inv /\ [Next]_vars => [ApuFrame => fades]_vars
  <2> SUFFICES ASSUME Inv, ApuFrame, NEW e \in Envelopes,
                      ~count.restart[e], ~halt[e]
               PROVE  Volume(e)' <= Volume(e)
    OBVIOUS
  <2>1. RegisterType /\ count \in CountType /\ (~five => count.phase = 0)
    BY DEF Inv, TypeOK, RegisterType, FourStepAligned
  <2>2. count'.decay[e] <= count.decay[e]
    BY <2>1, FrameFades DEF ApuFrame
  <2>3. /\ ~five => count'.phase = 0
        /\ count' \in CountType
        /\ count.length[e] = 0 => count'.length[e] = 0
    BY <2>1, FrameFacts DEF ApuFrame, Less, Channels
  <2>4. /\ count.decay[e] \in Nat /\ count'.decay[e] \in Nat
        /\ period[e] \in Nat
    <3>1. /\ Peak \in Nat /\ Periods \subseteq 0..Peak
          /\ period \in [Envelopes -> Periods]
      BY <2>1, ValueAssumption DEF RegisterType
    <3>2. count.decay[e] \in 0..Peak /\ count'.decay[e] \in 0..Peak
      BY <2>1, <2>3 DEF CountType
    <3>3. period[e] \in 0..Peak
      BY <3>1
    <3>4. \A n \in 0..Peak : n \in Nat
      BY <3>1
    <3>. QED  BY <3>2, <3>3, <3>4, Zenon
  <2>5. UNCHANGED <<fixed, period>>
    BY DEF ApuFrame, registers
  <2>. QED  BY <2>2, <2>3, <2>4, <2>5 DEF Volume
<1>2. Spec => [][ApuFrame => fades]_vars
  BY <1>1, CounterInvariant, PTL DEF Spec
<1>. QED  BY <1>2 DEF NotesFade

\* A frame ends a reload of the linear counter that is not held, and counts it down by three
\* or four.
THEOREM LinearCounted == Spec => LinearRate
<1> DEFINE counted ==
       LET start == IF count.reload THEN load + 1 ELSE count.linear
       IN  IF count.reload /\ halt[Triangle]
           THEN count'.linear = load /\ count'.reload
           ELSE /\ ~count'.reload
                /\ \/ count'.linear = IF start > 4 THEN start - 4 ELSE 0
                   \/ five /\ count'.linear = IF start > 3 THEN start - 3 ELSE 0
<1>1. Inv /\ [Next]_vars => [ApuFrame => counted]_vars
  <2> SUFFICES ASSUME Inv, ApuFrame PROVE counted
    OBVIOUS
  <2>1. RegisterType /\ count \in CountType /\ (~five => count.phase = 0)
    BY DEF Inv, TypeOK, RegisterType, FourStepAligned
  <2>. QED  BY <2>1, LinearFrame DEF ApuFrame
<1>2. Spec => [][ApuFrame => counted]_vars
  BY <1>1, CounterInvariant, PTL DEF Spec
<1>. QED  BY <1>2 DEF LinearRate

-----------------------------------------------------------------------------
(* The sweep unit.                                                         *)

\* A division of naturals gives no more than the dividend, and no more than
\* half of it unless the divisor is one.
LEMMA Halving ==
    ASSUME NEW p \in Nat, NEW d \in Nat \ {0}
    PROVE  /\ p \div d \in 0..p
           /\ d # 1 => 2 * (p \div d) <= p
<1> DEFINE q == p \div d  r == p % d
<1>1. p = d * q + r /\ 0 <= r /\ r < d /\ q \in Int /\ r \in Int
  OBVIOUS
<1> HIDE DEF q, r
<1>2. q >= 0
  <2>1. CASE q <= -1
    <3>1. d * q <= -d
      BY <1>1, <2>1
    <3>. QED  BY <1>1, <3>1
  <2>. QED  BY <1>1, <2>1
<1>3. d * q >= q /\ (d # 1 => d * q >= 2 * q)
  BY <1>1, <1>2
<1>. QED  BY <1>1, <1>2, <1>3 DEF q

\* A sweep that is not muted stays in the table and moves the period the way
\* it is told.
LEMMA SweepFacts ==
    ASSUME SweepTypeOK, Sweeps
    PROVE  /\ SweepTarget \in 0..(Width - 1)
           /\ control.negate => SweepTarget <= swperiod
           /\ ~control.negate => SweepTarget >= swperiod
<1>1. /\ swperiod \in Nat /\ swperiod < Width /\ Width \in Nat
      /\ swperiod >= Floor /\ Floor \in Nat /\ 2 <= Floor
  BY SweepAssumption DEF SweepTypeOK, Sweeps, SweepMuted
<1>2. Change \in 0..swperiod /\ 2 * Change <= swperiod
  <2>1. control.by \in Nat \ {0} /\ control.by # 1
    BY SweepAssumption DEF SweepTypeOK, Control, Sweeps
  <2>. QED  BY <1>1, <2>1, Halving DEF Change
<1>3. CASE control.negate
  <2> DEFINE t == swperiod - Change - (IF first THEN 1 ELSE 0)
  <2>1. t \in 0..swperiod
    BY <1>1, <1>2
  <2>2. t % Width = t
    BY <1>1, <2>1
  <2>. QED  BY <1>1, <1>3, <2>1, <2>2 DEF SweepTarget
<1>4. CASE ~control.negate
  BY <1>1, <1>2, <1>4 DEF SweepTarget, Sweeps, SweepMuted
<1>. QED  BY <1>3, <1>4

\* The types hold at the start.
LEMMA SweepInitTypes == SweepInit => SweepTypeOK
<1> SUFFICES ASSUME SweepInit PROVE SweepTypeOK
  OBVIOUS
<1>1. control \in Control
  BY SweepAssumption DEF SweepInit, Control
<1>2. swperiod \in 0..(Width - 1) /\ divider \in 0..MaxDivider
  BY SweepAssumption DEF SweepInit
<1>3. first \in BOOLEAN /\ reload \in BOOLEAN
  BY DEF SweepInit
<1>. QED  BY <1>1, <1>2, <1>3 DEF SweepTypeOK

\* Every write and every half frame keeps the types.
LEMMA SweepStepTypes ==
    ASSUME SweepTypeOK, [SweepNext]_sweepVars
    PROVE  SweepTypeOK'
<1>1. CASE WriteControl
  BY <1>1 DEF WriteControl, SweepTypeOK
<1>2. CASE WriteLow
  <2>1. PICK v \in 0..(Low - 1) : swperiod' = swperiod - (swperiod % Low) + v
    BY <1>2 DEF WriteLow
  <2>2. swperiod' \in 0..(Width - 1)
    BY <2>1, SweepAssumption DEF SweepTypeOK
  <2>. QED  BY <1>2, <2>2 DEF WriteLow, SweepTypeOK
<1>3. CASE WriteHigh
  <2>1. PICK v \in 0..((Width \div Low) - 1) :
           swperiod' = v * Low + (swperiod % Low)
    BY <1>3 DEF WriteHigh
  <2>2. swperiod' \in 0..(Width - 1)
    BY <2>1, SweepAssumption DEF SweepTypeOK
  <2>. QED  BY <1>3, <2>2 DEF WriteHigh, SweepTypeOK
<1>4. CASE SweepHalf
  <2>1. swperiod' \in 0..(Width - 1)
    BY <1>4, SweepFacts DEF SweepHalf, SweepTypeOK
  <2>2. divider' \in 0..MaxDivider
    BY <1>4, SweepAssumption DEF SweepHalf, NextDivider, SweepTypeOK, Control
  <2>. QED  BY <1>4, <2>1, <2>2 DEF SweepHalf, SweepTypeOK
<1>5. CASE UNCHANGED sweepVars
  BY <1>5 DEF sweepVars, SweepTypeOK
<1>. QED  BY <1>1, <1>2, <1>3, <1>4, <1>5 DEF SweepNext

\* The period of a pulse never leaves the pitch table.
THEOREM PeriodInTable == SweepSpec => []SweepTypeOK
BY SweepInitTypes, SweepStepTypes, PTL DEF SweepSpec

\* A sweep never moves a period against its direction or around the table.
THEOREM SweepIsMonotone == SweepSpec => SweepsOneWay
<1> DEFINE moves == IF control.negate THEN swperiod' <= swperiod
                    ELSE swperiod' >= swperiod
<1>1. SweepTypeOK => [SweepHalf => moves]_sweepVars
  BY SweepFacts DEF SweepHalf, SweepTypeOK
<1>2. SweepSpec => [][SweepHalf => moves]_sweepVars
  BY <1>1, PeriodInTable, PTL
<1>. QED  BY <1>2 DEF SweepsOneWay

\* Once a sweep has been made, the half frames since then and those left on the divider make
\* up the interval.
PaceInv ==
    /\ SweepTypeOK
    /\ age \in Nat /\ paced \in BOOLEAN
    /\ paced => ~reload /\ divider <= control.every /\ age + divider >= control.every

\* With the divider at P, a sweep comes no sooner than P + 1 half frames after the one before.
THEOREM SweepsKeepPace == MCSpec => SweepsPaced
<1> DEFINE apart == SweepHalf /\ Sweeps /\ paced => age >= control.every
           mcVars == <<sweepVars, paced, age>>
<1>1. MCInit => PaceInv
  <2> SUFFICES ASSUME MCInit PROVE PaceInv
    OBVIOUS
  <2>1. age = 0 /\ paced = FALSE /\ SweepTypeOK
    BY SweepInitTypes DEF MCInit
  <2>2. ~paced
    BY <2>1
  <2>. QED  BY <2>1, <2>2 DEF PaceInv
<1>2. PaceInv /\ [MCNext]_mcVars => PaceInv'
  <2> SUFFICES ASSUME PaceInv, [MCNext]_mcVars PROVE PaceInv'
    OBVIOUS
  <2>1. [SweepNext]_sweepVars
    BY DEF MCNext, RewriteControl, RewritePeriod, Half, SweepNext
  <2>2. SweepTypeOK'
    BY <2>1, SweepStepTypes DEF PaceInv
  <2>3. CASE RewriteControl
    BY <2>2, <2>3 DEF RewriteControl, PaceInv
  <2>4. CASE RewritePeriod
    <3>1. UNCHANGED <<control, divider, reload, paced, age>>
      BY <2>4 DEF RewritePeriod, WriteLow, WriteHigh
    <3>. QED  BY <2>2, <3>1 DEF PaceInv
  <2>5. CASE Half
    <3>1. /\ divider' = (IF divider = 0 \/ reload THEN control.every ELSE divider - 1)
          /\ reload' = FALSE /\ control' = control
          /\ paced' = (paced \/ Sweeps)
          /\ age' = IF Sweeps THEN 0 ELSE IF age <= MaxDivider THEN age + 1 ELSE age
      BY <2>5 DEF Half, SweepHalf, NextDivider
    <3>2. /\ control.every \in Nat /\ control.every <= MaxDivider /\ MaxDivider \in Nat
          /\ divider \in Nat /\ age \in Nat /\ paced \in BOOLEAN
      BY SweepAssumption DEF PaceInv, SweepTypeOK, Control
    <3>3. CASE Sweeps
      <4>1. divider = 0
        BY <3>3 DEF Sweeps
      <4>2. divider' = control.every /\ age' = 0 /\ paced' = TRUE
        BY <3>1, <3>3, <4>1
      <4>. QED  BY <2>2, <3>1, <3>2, <4>2 DEF PaceInv
    <3>4. CASE ~Sweeps
      <4>1. paced' = paced /\ age' = (IF age <= MaxDivider THEN age + 1 ELSE age)
        BY <3>1, <3>2, <3>4
      <4>2. age' \in Nat
        BY <3>2, <4>1
      <4>3. paced => divider' <= control.every /\ age' + divider' >= control.every
        BY <3>1, <3>2, <4>1 DEF PaceInv
      <4>. QED  BY <2>2, <3>1, <3>2, <4>1, <4>2, <4>3 DEF PaceInv
    <3>. QED  BY <3>3, <3>4
  <2>6. CASE UNCHANGED mcVars
    BY <2>2, <2>6 DEF PaceInv, sweepVars
  <2>. QED  BY <2>3, <2>4, <2>5, <2>6 DEF MCNext
<1>3. PaceInv => [apart]_mcVars
  BY SweepAssumption DEF PaceInv, Sweeps, SweepTypeOK, Control
<1>4. MCSpec => [][apart]_mcVars
  BY <1>1, <1>2, <1>3, PTL DEF MCSpec
<1>. QED  BY <1>4 DEF SweepsPaced
=============================================================================
