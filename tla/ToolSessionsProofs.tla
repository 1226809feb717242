------------------------- MODULE ToolSessionsProofs -------------------------
(***************************************************************************)
(* Proofs about the sessions with the tools around the bridge.             *)
(*                                                                         *)
(* The evidence scripts: a row is as its stage demands and from this run,  *)
(* every item of the stages that are behind has one, and the report and    *)
(* the flag of a folder only hold what such rows showed (VerifierInv).     *)
(*                                                                         *)
(* The patch tools: every piece is at most once in its file, an observer   *)
(* of the board lies on those below it, and the innermost running tool has *)
(* written exactly the files before its next write, while those that       *)
(* called it have written none (PatchInv).  A file that was changed by     *)
(* hand shows it, and what its object was compiled from is known           *)
(* (FreshInv).                                                             *)
(***************************************************************************)
EXTENDS MCToolSessions, FiniteSetTheorems, TLAPS

-----------------------------------------------------------------------------
(***************************************************************************)
(* The evidence scripts.                                                   *)
(***************************************************************************)

\* What the proofs use of a script's plan.
WellFormed(plan) ==
  /\ plan.stages \in Seq({"agree", "differ", "reject", "refuse", "reread", "note", "record"})
  /\ plan.stages # <<>>
  /\ plan.clear \in BOOLEAN /\ plan.limit \in BOOLEAN
  /\ plan.publish # "flag" => \A k \in DOMAIN plan.stages : plan.stages[k] # "record"
  /\ plan.notes = "final" => plan.clear = FALSE /\ plan.limit = FALSE

\* What a stage other than "record" demands.
Demands == {"agree", "differ", "reject", "refuse", "reread", "note"}

\* The constructors of plans, with the changes the scripts make to them, give well formed plans.
LEMMA CheckedShape ==
  ASSUME NEW stages \in Seq(Demands) \ {<<>>}
  PROVE  /\ WellFormed(Checks(stages)) /\ WellFormed(Clearing(stages))
         /\ WellFormed(Matrix(stages)) /\ WellFormed(Noting(Checks(stages)))
         /\ WellFormed(Noting(Clearing(stages))) /\ WellFormed(Noting(Matrix(stages)))
         /\ WellFormed(Closing(Checks(stages)))
         /\ WellFormed([Noting(Checks(stages)) EXCEPT !.limit = TRUE])
         /\ WellFormed([Noting(Matrix(stages)) EXCEPT !.drain = FALSE])
         /\ WellFormed([Closing(Checks(stages)) EXCEPT !.publish = "always"])
  BY DEF WellFormed, Demands, Checks, Clearing, Matrix, Noting, Closing, Verifier

\* A plan that only records is well formed.
LEMMA RecordedShape ==
  WellFormed(Records(<<"record">>))
  BY DEF WellFormed, Records, Verifier

\* The lists of demands the plans are built from.
LEMMA PlanStages ==
  /\ <<"agree">> \in Seq(Demands) \ {<<>>}
  /\ <<"agree", "agree">> \in Seq(Demands) \ {<<>>}
  /\ <<"agree", "differ">> \in Seq(Demands) \ {<<>>}
  /\ <<"agree", "agree", "agree">> \in Seq(Demands) \ {<<>>}
  /\ <<"agree", "differ", "agree">> \in Seq(Demands) \ {<<>>}
  /\ <<"agree", "refuse", "agree">> \in Seq(Demands) \ {<<>>}
  /\ <<"agree", "differ", "refuse">> \in Seq(Demands) \ {<<>>}
  /\ <<"agree", "refuse", "differ">> \in Seq(Demands) \ {<<>>}
  /\ <<"agree", "agree", "differ", "note">> \in Seq(Demands) \ {<<>>}
  /\ <<"agree", "agree", "refuse", "agree">> \in Seq(Demands) \ {<<>>}
  /\ <<"agree", "differ", "refuse", "note">> \in Seq(Demands) \ {<<>>}
  /\ <<"agree", "agree", "differ", "refuse">> \in Seq(Demands) \ {<<>>}
  /\ <<"agree", "agree", "reject", "refuse">> \in Seq(Demands) \ {<<>>}
  /\ <<"agree", "differ", "agree", "reread">> \in Seq(Demands) \ {<<>>}
  /\ <<"agree", "differ", "refuse", "differ">> \in Seq(Demands) \ {<<>>}
  /\ <<"agree", "agree", "agree", "reject", "refuse">> \in Seq(Demands) \ {<<>>}
  /\ <<"agree", "differ", "refuse", "differ", "note">> \in Seq(Demands) \ {<<>>}
  /\ <<"agree", "agree", "differ", "refuse", "differ">> \in Seq(Demands) \ {<<>>}
  /\ <<"agree", "agree", "reject", "refuse", "differ">> \in Seq(Demands) \ {<<>>}
  /\ <<"agree", "agree", "reject", "refuse", "reject">> \in Seq(Demands) \ {<<>>}
  /\ <<"agree", "agree", "refuse", "differ", "refuse", "differ">> \in Seq(Demands) \ {<<>>}
  BY DEF Demands

\* Every plan of the list is well formed.
LEMMA PlansWellFormed == \A s \in AllScripts : WellFormed(Plans[s])
<1>1. WellFormed(ApuEnvelopes) /\ WellFormed(ApuMatrix) /\ WellFormed(ApuSweep) /\ WellFormed(Audio)
  BY CheckedShape, PlanStages DEF ApuEnvelopes, ApuMatrix, ApuSweep, Audio
<1>2. WellFormed(AudioMatrix) /\ WellFormed(CostProbe) /\ WellFormed(DefaultBuilds) /\ WellFormed(IdleObserved)
  BY CheckedShape, PlanStages DEF AudioMatrix, CostProbe, DefaultBuilds, IdleObserved
<1>3. WellFormed(IndexedMatrix) /\ WellFormed(MemoryResult) /\ WellFormed(ObjectCache) /\ WellFormed(SweepMatrix)
  BY CheckedShape, PlanStages DEF IndexedMatrix, MemoryResult, ObjectCache, SweepMatrix
<1>4. WellFormed(SweepOracle) /\ WellFormed(Viewer) /\ WellFormed(FillMode) /\ WellFormed(CycleWindows)
  BY CheckedShape, PlanStages DEF SweepOracle, Viewer, FillMode, CycleWindows
<1>5. WellFormed(GuestCycles)
  BY CheckedShape, PlanStages DEF GuestCycles
<1>6. WellFormed(IndirectPaths) /\ WellFormed(DmaUploads) /\ WellFormed(PadPoll) /\ WellFormed(UpdateClock)
  BY CheckedShape, PlanStages DEF IndirectPaths, DmaUploads, PadPoll, UpdateClock
<1>7. WellFormed(InlineDispatch) /\ WellFormed(BufferedReads) /\ WellFormed(CounterBuilds)
  BY CheckedShape, PlanStages DEF InlineDispatch, BufferedReads, CounterBuilds
<1>8. WellFormed(OamOffsets)
  BY CheckedShape, PlanStages DEF OamOffsets
<1>9. WellFormed(InterruptEdges) /\ WellFormed(ChrSetsControls) /\ WellFormed(ChrModesControls) /\ WellFormed(NametablesControls)
  BY CheckedShape, PlanStages DEF InterruptEdges, ChrSetsControls, ChrModesControls, NametablesControls
<1>10. WellFormed(OamPortsControls) /\ WellFormed(OamDmaControls) /\ WellFormed(PalettesControls)
  BY CheckedShape, PlanStages DEF OamPortsControls, OamDmaControls, PalettesControls
<1>11. WellFormed(Timeline) /\ WellFormed(RamTimeline) /\ WellFormed(RomTimeline) /\ WellFormed(BankTimeline)
  BY CheckedShape, PlanStages DEF Timeline, RamTimeline, RomTimeline, BankTimeline
<1>12. WellFormed(WramTimeline) /\ WellFormed(CpuIoTimeline) /\ WellFormed(PpuBlanked) /\ WellFormed(ChrBlanked)
  BY CheckedShape, PlanStages DEF WramTimeline, CpuIoTimeline, PpuBlanked, ChrBlanked
<1>13. WellFormed(HostNmi)
  BY CheckedShape, PlanStages DEF HostNmi
<1>14. WellFormed(ChrSets) /\ WellFormed(ChrModes) /\ WellFormed(Nametables) /\ WellFormed(OamPorts)
  BY CheckedShape, PlanStages DEF ChrSets, ChrModes, Nametables, OamPorts
<1>15. WellFormed(OamDma)
  BY CheckedShape, PlanStages DEF OamDma
<1>16. WellFormed(Palettes)
  BY CheckedShape, PlanStages DEF Palettes
<1>17. WellFormed(Route)
  BY CheckedShape, PlanStages DEF Route
<1>18. WellFormed(Masks) /\ WellFormed(MaskSplits) /\ WellFormed(MaskCycle) /\ WellFormed(NativeCpu)
      /\ WellFormed(Raster) /\ WellFormed(ReferencePath) /\ WellFormed(Scene)
  BY RecordedShape DEF Masks, MaskSplits, MaskCycle, NativeCpu, Raster, ReferencePath, Scene
<1>19. QED
  BY <1>1, <1>2, <1>3, <1>4, <1>5, <1>6, <1>7, <1>8, <1>9, <1>10, <1>11, <1>12, <1>13, <1>14, <1>15, <1>16, <1>17, <1>18 DEF Plans, AllScripts

-----------------------------------------------------------------------------
\* A judgement of the item stands in the rows.
HasRow(k, i) == \E r \in rows : r.stage = k /\ r.item = i

\* A row rests on a capture its stage accepts, taken by the present run.
RowSound(r, made) ==
  /\ r.stage \in DOMAIN Plan.stages
  /\ r.what \in Accepted(Plan.stages[r.stage])
  /\ Plan.stages[r.stage] # "reread" => r.run = made

\* While nothing has failed, an item that is neither waiting nor running is judged.
Covered ==
  job = "checking" /\ ~failed =>
    /\ \A k \in 1 .. stage - 1 : \A i \in Selected(k) : HasRow(k, i)
    /\ \A i \in Selected(stage) : i \in pending \/ i \in active \/ HasRow(stage, i)

\* What a passing report rests on.
ReportSound ==
  report.passed =>
    /\ \A r \in report.rows :
         /\ RowSound(r, report.run)
         /\ Plan.stages[r.stage] = "record" => r.what = "agrees"
    /\ report.complete =>
         \A k \in Stages : \A i \in ItemsOf(k) :
           \E r \in report.rows : r.stage = k /\ r.item = i
    /\ Plan.clear => report.run = run

\* A progress file that says "passed" belongs to the report, until the next run
\* has judged its first item.
ProgressSound ==
  progress.passed =>
    /\ Plan.notes = "final"
    /\ report.passed /\ report.run = progress.run
    /\ job # "closing"
    /\ job = "checking" => Plan.publish # "always" /\ (failed \/ rows = {})

VerifierTypes ==
  /\ script \in AllScripts
  /\ job \in {"idle", "checking", "closing"}
  /\ stage \in DOMAIN Plan.stages
  /\ failed \in BOOLEAN /\ limited \in BOOLEAN
  /\ limited => Plan.limit

VerifierInv ==
  /\ VerifierTypes
  /\ \A r \in rows : RowSound(r, run)
  /\ Covered
  /\ ReportSound
  /\ job = "closing" => report.run = run /\ Plan.notes = "final"
  /\ ProgressSound

\* The plan that runs has stages, in a sequence.
LEMMA PlanFacts ==
  ASSUME script \in AllScripts
  PROVE  /\ WellFormed(Plan)
         /\ Stages = 1 .. Len(Plan.stages) /\ Len(Plan.stages) \in Nat \ {0}
<1>1. WellFormed(Plan)
  BY PlansWellFormed DEF Plan
<1>2. QED
  BY <1>1 DEF WellFormed, Stages

\* Before the first run the invariant holds.
LEMMA VerifierStart == VerifierInit => VerifierInv
<1> SUFFICES ASSUME VerifierInit
             PROVE  VerifierInv
  OBVIOUS
<1>1. script \in AllScripts
  BY ScriptsAssumption DEF VerifierInit
<1>2. 1 \in DOMAIN Plan.stages
  BY <1>1, PlanFacts DEF Stages
<1>3. QED
  BY <1>1, <1>2 DEF VerifierInit, VerifierInv, VerifierTypes, Covered, ReportSound, ProgressSound, NoReport

\* A new run starts without rows; the captures of earlier runs stay.
LEMMA LaunchKeeps ==
  ASSUME VerifierInv, NEW smoke \in BOOLEAN, Launch(smoke)
  PROVE  VerifierInv'
<1>1. script \in AllScripts /\ Plan' = Plan /\ Stages' = Stages
  BY DEF Launch, VerifierInv, VerifierTypes, Plan, Stages
<1>2. WellFormed(Plan) /\ 1 \in Stages
  BY <1>1, PlanFacts
<1>3. VerifierTypes'
  BY <1>1, <1>2 DEF Launch, VerifierInv, VerifierTypes, NoReport, Stages
<1>4. (\A r \in rows : RowSound(r, run))'
  BY DEF Launch
<1>5. Covered'
  BY DEF Launch, Covered, Selected
<1>6. ReportSound'
  <2>1. CASE Plan.clear
    BY <2>1 DEF Launch, ReportSound, NoReport
  <2>2. CASE ~Plan.clear
    BY <1>1, <2>2 DEF Launch, VerifierInv, ReportSound, RowSound, ItemsOf
  <2>3. QED
    BY <2>1, <2>2
<1>7. ProgressSound'
  <2>1. SUFFICES ASSUME progress'.passed
                 PROVE  ProgressSound'
    BY DEF ProgressSound
  <2>2. progress' = progress /\ Plan.publish # "always"
    BY <2>1 DEF Launch
  <2>3. Plan.notes = "final" /\ report.passed /\ report.run = progress.run
    BY <2>1, <2>2 DEF VerifierInv, ProgressSound
  <2>4. report' = report
    BY <1>2, <2>3 DEF Launch, WellFormed
  <2>5. QED
    BY <1>1, <2>2, <2>3, <2>4 DEF Launch, ProgressSound
<1>8. job' # "closing"
  BY DEF Launch
<1>9. QED
  BY <1>3, <1>4, <1>5, <1>6, <1>7, <1>8 DEF VerifierInv

\* Starting a process for the next item changes no row.
LEMMA BeginKeeps ==
  ASSUME VerifierInv, Begin
  PROVE  VerifierInv'
<1>1. Plan' = Plan /\ Stages' = Stages
  BY DEF Begin, Plan, Stages
<1>2. Covered'
  BY <1>1 DEF Begin, VerifierInv, Covered, Selected, ItemsOf, HasRow
<1>3. QED
  BY <1>1, <1>2 DEF Begin, VerifierInv, VerifierTypes, RowSound, ReportSound, ProgressSound, ItemsOf

\* What a judgement that is good adds to the rows.
LEMMA GoodRow ==
  ASSUME script \in AllScripts, stage \in DOMAIN Plan.stages, NEW i, NEW result,
         ExitAccepted(Kind, result), Captured(i, result).what \in Accepted(Kind)
  PROVE  RowSound([stage |-> stage, item |-> i, what |-> Captured(i, result).what,
                   run |-> Captured(i, result).run], run)
  BY DEF RowSound, ExitAccepted, Captured, Kind

\* A process that ends leaves its capture, and a row when it is accepted.
LEMMA JudgeKeeps ==
  ASSUME VerifierInv, NEW i \in active, NEW result \in Results, Judge(i, result)
  PROVE  VerifierInv'
<1> DEFINE seen == Captured(i, result)
           good == ExitAccepted(Kind, result) /\ seen.what \in Accepted(Kind)
           row  == [stage |-> stage, item |-> i, what |-> seen.what, run |-> seen.run]
<1>1. /\ script' = script /\ run' = run /\ limited' = limited /\ stage' = stage /\ report' = report
      /\ Plan' = Plan /\ Stages' = Stages
      /\ job = "checking" /\ job' = job
      /\ failed' = (failed \/ ~good)
      /\ active' = active \ {i} /\ pending' = IF good \/ Plan.drain THEN pending ELSE {}
  BY DEF Judge, Plan, Stages
<1>2. /\ good /\ ~failed => /\ rows' = rows \cup {row}
                            /\ progress' = IF stage = 1 /\ Plan.notes # "none"
                                           THEN [run |-> run, passed |-> FALSE] ELSE progress
      /\ ~(good /\ ~failed) => rows' = rows /\ progress' = progress
  BY DEF Judge
<1>3. good => RowSound(row, run)
  BY GoodRow DEF VerifierInv, VerifierTypes
<1>4. \A k, j : HasRow(k, j) => HasRow(k, j)'
  BY <1>2 DEF HasRow
<1>5. good /\ ~failed => HasRow(stage, i)'
  <2>1. row.stage = stage /\ row.item = i
    OBVIOUS
  <2>2. good /\ ~failed => row \in rows'
    BY <1>2
  <2>3. QED
    BY <1>1, <2>1, <2>2 DEF HasRow
<1>12. failed' \in BOOLEAN
  BY <1>1
<1> HIDE DEF seen, good, row
<1>6. VerifierTypes'
  BY <1>1, <1>2, <1>12 DEF VerifierInv, VerifierTypes
<1>7. (\A r \in rows : RowSound(r, run))'
  BY <1>1, <1>2, <1>3 DEF VerifierInv, RowSound
<1>8. Covered'
  <2> SUFFICES ASSUME ~failed'
               PROVE  /\ \A k \in 1 .. stage - 1 : \A j \in Selected(k) : HasRow(k, j)'
                      /\ \A j \in Selected(stage) : j \in pending' \/ j \in active' \/ HasRow(stage, j)'
    BY <1>1 DEF Covered, Selected, ItemsOf
  <2>1. good /\ ~failed
    BY <1>1
  <2>2. /\ \A k \in 1 .. stage - 1 : \A j \in Selected(k) : HasRow(k, j)
        /\ \A j \in Selected(stage) : j \in pending \/ j \in active \/ HasRow(stage, j)
    BY <1>1, <2>1 DEF VerifierInv, Covered
  <2>3. QED
    BY <1>1, <1>4, <1>5, <2>1, <2>2
<1>9. ReportSound'
  BY <1>1 DEF VerifierInv, ReportSound, RowSound, ItemsOf
<1>10. ProgressSound'
  <2>1. SUFFICES ASSUME progress'.passed
                 PROVE  ProgressSound'
    BY DEF ProgressSound
  <2>2. progress' = progress
    BY <1>2, <2>1
  <2>3. /\ Plan.notes = "final" /\ report.passed /\ report.run = progress.run
        /\ Plan.publish # "always" /\ (failed \/ rows = {})
    BY <1>1, <2>1, <2>2 DEF VerifierInv, ProgressSound
  <2>4. failed' \/ rows' = {}
    <3>1. CASE good /\ ~failed
      <4>1. stage # 1
        BY <1>2, <2>1, <2>3, <3>1
      <4>2. 1 \in 1 .. stage - 1
        BY <4>1, PlanFacts DEF VerifierInv, VerifierTypes, Stages
      <4>3. rows = {}
        BY <2>3, <3>1
      <4>4. limited = FALSE
        BY <2>3, PlanFacts DEF VerifierInv, VerifierTypes, WellFormed
      <4>5. 1 \in Selected(1)
        BY <4>4, CasesAssumption DEF Selected, ItemsOf
      <4>6. HasRow(1, 1)
        BY <1>1, <3>1, <4>2, <4>5 DEF VerifierInv, Covered
      <4>7. QED
        BY <4>3, <4>6 DEF HasRow
    <3>2. CASE ~(good /\ ~failed)
      BY <1>1, <1>2, <2>3, <3>2
    <3>3. QED
      BY <3>1, <3>2
  <2>5. QED
    BY <1>1, <2>2, <2>3, <2>4 DEF ProgressSound
<1>11. QED
  BY <1>1, <1>6, <1>7, <1>8, <1>9, <1>10 DEF VerifierInv

\* A stage follows one that is done and in which nothing failed.
LEMMA AdvanceKeeps ==
  ASSUME VerifierInv, Advance
  PROVE  VerifierInv'
<1>1. /\ Plan' = Plan /\ Stages' = Stages /\ stage' = stage + 1 /\ pending' = Selected(stage + 1)
      /\ job = "checking" /\ job' = job /\ ~failed /\ ~failed' /\ rows' = rows
      /\ pending = {} /\ active = {} /\ limited' = limited
  BY DEF Advance, StageDone, Plan, Stages
<1>2. stage \in Nat /\ stage' \in DOMAIN Plan.stages
  BY PlanFacts DEF Advance, VerifierInv, VerifierTypes, Stages
<1>3. VerifierTypes'
  BY <1>1, <1>2 DEF Advance, VerifierInv, VerifierTypes
<1>4. Covered'
  <2>1. /\ \A k \in 1 .. stage - 1 : \A i \in Selected(k) : HasRow(k, i)
        /\ \A i \in Selected(stage) : HasRow(stage, i)
    BY <1>1 DEF VerifierInv, Covered
  <2>2. \A k \in 1 .. (stage + 1) - 1 : k \in 1 .. stage - 1 \/ k = stage
    BY <1>2
  <2>3. QED
    BY <1>1, <2>1, <2>2 DEF Covered, Selected, ItemsOf, HasRow
<1>5. ReportSound' /\ ProgressSound' /\ (\A r \in rows : RowSound(r, run))'
  BY <1>1 DEF Advance, VerifierInv, ReportSound, ProgressSound, RowSound, ItemsOf
<1>6. QED
  BY <1>1, <1>3, <1>4, <1>5 DEF VerifierInv

\* A script that has judged its last stage has a row for every item it selected.
LEMMA PublishKeeps ==
  ASSUME VerifierInv, Publish
  PROVE  VerifierInv'
<1>1. /\ Plan' = Plan /\ Stages' = Stages /\ stage' = stage /\ limited' = limited /\ script' = script
      /\ failed' = failed /\ rows' = rows /\ run' = run /\ progress' = progress
      /\ job' = IF Plan.notes = "final" THEN "closing" ELSE "idle"
      /\ report' = [run |-> run, passed |-> Verdict, complete |-> ~limited, rows |-> rows]
      /\ job = "checking" /\ pending = {} /\ active = {}
  BY DEF Publish, StageDone, Plan, Stages
<1>2. WellFormed(Plan) /\ Stages = 1 .. Len(Plan.stages) /\ Len(Plan.stages) \in Nat \ {0}
  BY PlanFacts DEF VerifierInv, VerifierTypes
<1>3. ASSUME ~failed
      PROVE  /\ stage = Len(Plan.stages)
             /\ \A k \in Stages : \A i \in Selected(k) : HasRow(k, i)
  <2>1. stage = Len(Plan.stages)
    BY <1>3 DEF Publish
  <2>2. /\ \A k \in 1 .. stage - 1 : \A i \in Selected(k) : HasRow(k, i)
        /\ \A i \in Selected(stage) : HasRow(stage, i)
    BY <1>1, <1>3 DEF VerifierInv, Covered
  <2>3. \A k \in Stages : k \in 1 .. stage - 1 \/ k = stage
    BY <1>2, <2>1
  <2>4. QED
    BY <2>1, <2>2, <2>3
<1>4. VerifierTypes' /\ Covered' /\ (\A r \in rows : RowSound(r, run))'
  BY <1>1 DEF VerifierInv, VerifierTypes, Covered, RowSound
<1>5. ReportSound'
  <2>1. SUFFICES ASSUME Verdict
                 PROVE  /\ \A r \in rows : Plan.stages[r.stage] = "record" => r.what = "agrees"
                        /\ ~limited => \A k \in Stages : \A i \in ItemsOf(k) : HasRow(k, i)
    BY <1>1 DEF VerifierInv, ReportSound, RowSound, ItemsOf, HasRow
  <2>2. ~failed
    BY <2>1 DEF Publish, Verdict
  <2>3. \A r \in rows : Plan.stages[r.stage] = "record" => r.what = "agrees"
    BY <1>2, <2>1 DEF VerifierInv, RowSound, WellFormed, Verdict
  <2>4. QED
    BY <1>3, <2>2, <2>3 DEF Selected
<1>6. ~progress.passed
  <2>1. SUFFICES ASSUME progress.passed
                 PROVE  FALSE
    OBVIOUS
  <2>2. Plan.notes = "final" /\ Plan.publish # "always" /\ (failed \/ rows = {})
    BY <1>1, <2>1 DEF VerifierInv, ProgressSound
  <2>3. ~failed /\ rows = {}
    BY <2>2 DEF Publish
  <2>4. limited = FALSE
    BY <1>2, <2>2 DEF VerifierInv, VerifierTypes, WellFormed
  <2>5. 1 \in Selected(1) /\ 1 \in Stages
    BY <1>2, <2>4, CasesAssumption DEF Selected, ItemsOf
  <2>6. HasRow(1, 1)
    BY <1>3, <2>3, <2>5
  <2>7. QED
    BY <2>3, <2>6 DEF HasRow
<1>7. ProgressSound'
  BY <1>1, <1>6 DEF ProgressSound
<1>8. job' = "closing" => report'.run = run' /\ Plan'.notes = "final"
  BY <1>1
<1>9. QED
  BY <1>4, <1>5, <1>7, <1>8 DEF VerifierInv

\* Closing copies the verdict of the report to the progress file.
LEMMA CloseProgressKeeps ==
  ASSUME VerifierInv, CloseProgress
  PROVE  VerifierInv'
<1>1. Plan' = Plan /\ Stages' = Stages
  BY DEF CloseProgress, Plan, Stages
<1>2. ProgressSound'
  BY <1>1 DEF CloseProgress, VerifierInv, ProgressSound
<1>3. QED
  BY <1>1, <1>2 DEF CloseProgress, VerifierInv, VerifierTypes, Covered, ReportSound, RowSound, ItemsOf

\* A run that gives up or is aborted leaves rows and report as they are.
LEMMA StoppedKeeps ==
  ASSUME VerifierInv, GiveUp \/ Abort
  PROVE  VerifierInv'
<1>1. /\ Plan' = Plan /\ Stages' = Stages /\ job' = "idle"
      /\ UNCHANGED <<script, run, limited, stage, failed, rows, report, progress>>
  BY DEF GiveUp, Abort, Plan, Stages
<1>2. QED
  BY <1>1 DEF VerifierInv, VerifierTypes, Covered, ReportSound, ProgressSound, RowSound, ItemsOf

\* Every step of a script keeps the invariant.
LEMMA VerifierStep ==
  ASSUME VerifierInv, VerifierNext \/ UNCHANGED verifierVars
  PROVE  VerifierInv'
<1>1. CASE VerifierNext
  BY <1>1, LaunchKeeps, BeginKeeps, JudgeKeeps, AdvanceKeeps, PublishKeeps, CloseProgressKeeps,
     StoppedKeeps DEF VerifierNext
<1>2. CASE UNCHANGED verifierVars
  <2>1. Plan' = Plan /\ Stages' = Stages
    BY <1>2 DEF verifierVars, Plan, Stages
  <2>2. QED
    BY <1>2, <2>1 DEF verifierVars, VerifierInv, VerifierTypes, Covered, ReportSound, ProgressSound,
                      RowSound, HasRow, Selected, ItemsOf
<1>3. QED
  BY <1>1, <1>2

\* A result a stage accepts is the one a passing report claims.
LEMMA AcceptedIsClaimed ==
  ASSUME NEW kind \in Demands \cup {"record"}, NEW what \in Accepted(kind),
         kind = "record" => what = "agrees"
  PROVE  Claimed(kind, what)
  BY DEF Demands, Accepted, Claimed

\* The invariant says that a published pass is whole and fresh.
LEMMA VerifierShows == VerifierInv => PassIsWhole /\ PassIsFresh
<1> SUFFICES ASSUME VerifierInv
             PROVE  PassIsWhole /\ PassIsFresh
  OBVIOUS
<1>1. \A k \in Stages : Plan.stages[k] \in Demands \cup {"record"}
  BY PlanFacts DEF VerifierInv, VerifierTypes, WellFormed, Demands
<1>2. ASSUME report.passed, NEW r \in report.rows
      PROVE  Claimed(Plan.stages[r.stage], r.what)
  BY <1>1, <1>2, AcceptedIsClaimed DEF VerifierInv, ReportSound, RowSound, Stages
<1>3. PassIsWhole
  BY <1>2 DEF VerifierInv, ReportSound, ProgressSound, PassIsWhole
<1>4. PassIsFresh
  BY DEF VerifierInv, ReportSound, RowSound, PassIsFresh
<1>5. QED
  BY <1>3, <1>4

-----------------------------------------------------------------------------
(***************************************************************************)
(* The patch tools.                                                        *)
(***************************************************************************)
\* The pieces files are made of.
Pieces ==
  {"pinned", "comment", "moved", "costsV1",
   "small", "large", "map", "wram", "cpuio", "ppu", "chr",
   "stimulusInclude", "stimulus", "wramGetter", "cpuGetter", "ppuGetter", "fillGetter",
   "chrGetter", "cycleInclude", "cycle", "boundaryInclude", "boundary", "idleInclude", "idle",
   "play", "dmaInclude", "dma", "profile", "costs", "indirectX", "coalesced", "dispatch",
   "paletteReads"}

Has(s, p) == \E i \in DOMAIN s : s[i] = p

AtMostOnce(s, p) == \A i, j \in DOMAIN s : s[i] = p /\ s[j] = p => i = j

\* Counting a piece and looking for it agree.
LEMMA OccursHas ==
  ASSUME NEW f, tree[f] \in Seq(Pieces), NEW p
  PROVE  /\ Occurs(f, p) \in Nat
         /\ Occurs(f, p) = 0 <=> ~Has(tree[f], p)
         /\ Occurs(f, p) = 1 => Has(tree[f], p)
         /\ Has(tree[f], p) /\ AtMostOnce(tree[f], p) => Occurs(f, p) = 1
<1> DEFINE At == {i \in DOMAIN tree[f] : tree[f][i] = p}
<1>1. DOMAIN tree[f] = 1 .. Len(tree[f]) /\ Len(tree[f]) \in Nat
  OBVIOUS
<1>2. IsFiniteSet(1 .. Len(tree[f]))
  <2>1. 1 \in Int /\ Len(tree[f]) \in Int
    BY <1>1
  <2>2. QED
    BY <2>1, FS_Interval
<1>3. IsFiniteSet(At)
  <2>1. At \subseteq 1 .. Len(tree[f])
    BY <1>1
  <2>2. QED
    BY <1>2, <2>1, FS_Subset
<1>4. Cardinality(At) \in Nat /\ (Cardinality(At) = 0 <=> At = {})
  BY <1>3, FS_CardinalityType, FS_EmptySet
<1>5. ASSUME Has(tree[f], p), AtMostOnce(tree[f], p)
      PROVE  Cardinality(At) = 1
  <2>1. PICK i \in DOMAIN tree[f] : tree[f][i] = p
    BY <1>5 DEF Has
  <2>2. At = {i}
    BY <1>5, <2>1 DEF AtMostOnce
  <2>3. QED
    BY <2>2, FS_Singleton
<1>6. At = {} <=> ~Has(tree[f], p)
  BY DEF Has
<1>7. Occurs(f, p) = Cardinality(At)
  BY DEF Occurs
<1> HIDE DEF At
<1>8. QED
  BY <1>4, <1>5, <1>6, <1>7

\* A joined text has the pieces of both halves.
LEMMA JoinedHas ==
  ASSUME NEW s \in Seq(Pieces), NEW q \in Seq(Pieces)
  PROVE  /\ s \o q \in Seq(Pieces)
         /\ \A p : Has(s \o q, p) <=> Has(s, p) \/ Has(q, p)
<1>1. /\ s \o q \in Seq(Pieces) /\ DOMAIN (s \o q) = 1 .. Len(s) + Len(q)
      /\ DOMAIN s = 1 .. Len(s) /\ DOMAIN q = 1 .. Len(q) /\ Len(s) \in Nat /\ Len(q) \in Nat
      /\ \A i \in 1 .. Len(s) + Len(q) : (s \o q)[i] = IF i <= Len(s) THEN s[i] ELSE q[i - Len(s)]
  OBVIOUS
<1>2. ASSUME NEW p, Has(s \o q, p)
      PROVE  Has(s, p) \/ Has(q, p)
  <2>1. PICK i \in 1 .. Len(s) + Len(q) : (s \o q)[i] = p
    BY <1>1, <1>2 DEF Has
  <2>2. CASE i <= Len(s)
    BY <1>1, <2>1, <2>2 DEF Has
  <2>3. CASE ~(i <= Len(s))
    <3>1. i - Len(s) \in DOMAIN q
      BY <1>1, <2>3
    <3>2. QED
      BY <1>1, <2>1, <2>3, <3>1 DEF Has
  <2>4. QED
    BY <2>2, <2>3
<1>3. ASSUME NEW p, Has(s, p)
      PROVE  Has(s \o q, p)
  BY <1>1, <1>3 DEF Has
<1>4. ASSUME NEW p, Has(q, p)
      PROVE  Has(s \o q, p)
  <2>1. PICK i \in 1 .. Len(q) : q[i] = p
    BY <1>1, <1>4 DEF Has
  <2>2. i + Len(s) \in 1 .. Len(s) + Len(q) /\ ~(i + Len(s) <= Len(s)) /\ (i + Len(s)) - Len(s) = i
    BY <1>1
  <2>3. (s \o q)[i + Len(s)] = p
    BY <1>1, <2>1, <2>2
  <2>4. QED
    BY <1>1, <2>2, <2>3 DEF Has
<1>5. QED
  BY <1>1, <1>2, <1>3, <1>4

\* Joining texts with no piece in common repeats none.
LEMMA JoinedOnce ==
  ASSUME NEW s \in Seq(Pieces), NEW q \in Seq(Pieces), NEW p,
         AtMostOnce(s, p), AtMostOnce(q, p), ~(Has(s, p) /\ Has(q, p))
  PROVE  AtMostOnce(s \o q, p)
<1>1. /\ DOMAIN (s \o q) = 1 .. Len(s) + Len(q)
      /\ DOMAIN s = 1 .. Len(s) /\ DOMAIN q = 1 .. Len(q) /\ Len(s) \in Nat /\ Len(q) \in Nat
      /\ \A i \in 1 .. Len(s) + Len(q) : (s \o q)[i] = IF i <= Len(s) THEN s[i] ELSE q[i - Len(s)]
  OBVIOUS
<1>2. ASSUME NEW i \in DOMAIN (s \o q), (s \o q)[i] = p
      PROVE  \/ i \in DOMAIN s /\ s[i] = p
             \/ i - Len(s) \in DOMAIN q /\ q[i - Len(s)] = p
  BY <1>1, <1>2
<1>3. QED
  BY <1>1, <1>2 DEF AtMostOnce, Has

\* The pieces of the end of a text are in the text.
LEMMA SuffixHas ==
  ASSUME NEW q \in Seq(Pieces), NEW s \in Seq(Pieces), IsSuffix(q, s), NEW k \in DOMAIN q
  PROVE  Has(s, q[k])
<1>1. /\ Reverse(q) \in Seq(Pieces) /\ Len(Reverse(q)) = Len(q)
      /\ \A i \in 1 .. Len(q) : Reverse(q)[i] = q[(Len(q) - i) + 1]
  BY DEF Reverse
<1>2. /\ Reverse(s) \in Seq(Pieces) /\ Len(Reverse(s)) = Len(s)
      /\ \A i \in 1 .. Len(s) : Reverse(s)[i] = s[(Len(s) - i) + 1]
  BY DEF Reverse
<1>3. Len(q) <= Len(s) /\ \A i \in 1 .. Len(q) : Reverse(q)[i] = Reverse(s)[i]
  <2>1. Len(q) <= Len(s) /\ SubSeq(Reverse(q), 1, Len(q)) = SubSeq(Reverse(s), 1, Len(q))
    BY <1>1, <1>2 DEF IsSuffix, IsPrefix
  <2>2. ASSUME NEW r \in Seq(Pieces), Len(q) <= Len(r), NEW i \in 1 .. Len(q)
        PROVE  SubSeq(r, 1, Len(q))[i] = r[i]
    BY <2>2
  <2>3. QED
    BY <1>1, <1>2, <2>1, <2>2
<1>4. Len(q) \in Nat /\ Len(s) \in Nat /\ k \in 1 .. Len(q) /\ DOMAIN s = 1 .. Len(s)
  OBVIOUS
<1>5. PICK i \in 1 .. Len(q) : (Len(q) - i) + 1 = k
  <2>1. (Len(q) - k) + 1 \in 1 .. Len(q) /\ (Len(q) - ((Len(q) - k) + 1)) + 1 = k
    BY <1>4
  <2>2. QED
    BY <2>1
<1>6. Reverse(q)[i] = q[k] /\ Reverse(s)[i] = s[(Len(s) - i) + 1] /\ (Len(s) - i) + 1 \in 1 .. Len(s)
  BY <1>1, <1>2, <1>3, <1>4, <1>5
<1>7. QED
  BY <1>3, <1>4, <1>6 DEF Has

-----------------------------------------------------------------------------
\* The tools, by name.
ToolNames ==
  {"stimulus512", "stimulus2048", "map", "wram", "cpuio", "ppu", "chr", "cycle", "boundary",
   "idle", "play", "dma", "idleHost", "profile", "costs", "indirectX", "coalesced", "dispatch",
   "paletteReads"}

\* The tools, by name.
LEMMA ToolNamed ==
  /\ Tool("stimulus512") = Stimulus("small")
  /\ Tool("stimulus2048") = Stimulus("large")
  /\ Tool("map") = MapCapture
  /\ Tool("wram") = Wram
  /\ Tool("cpuio") = CpuIo
  /\ Tool("ppu") = PpuBlank
  /\ Tool("chr") = ChrBlank
  /\ Tool("cycle") = CycleObserver
  /\ Tool("boundary") = InterruptProbe
  /\ Tool("idle") = IdleObserver(Cpu)
  /\ Tool("play") = PlayProbe
  /\ Tool("dma") = DmaTrace
  /\ Tool("idleHost") = IdleObserver("cpuexec.cpp")
  /\ Tool("profile") = Profile
  /\ Tool("costs") = FrameCosts
  /\ Tool("indirectX") = IndirectX
  /\ Tool("coalesced") = NametableDmaPatch
  /\ Tool("dispatch") = DispatchPatch
  /\ Tool("paletteReads") = PaletteReads
  BY DEF Tool

\* The layers of the probe are texts.
LEMMA TextsTyped ==
  /\ MapLayers \in Seq(Pieces) /\ WramLayers \in Seq(Pieces) /\ CpuIoLayers \in Seq(Pieces)
  /\ PpuLayers \in Seq(Pieces) /\ ChrLayers \in Seq(Pieces)
  /\ <<>> \in Seq(Pieces) /\ <<"small">> \in Seq(Pieces) /\ <<"large">> \in Seq(Pieces)
<1>1. MapLayers \in Seq(Pieces) /\ WramLayers \in Seq(Pieces)
  BY DEF MapLayers, WramLayers, Pieces
<1>2. <<"cpuio">> \in Seq(Pieces) /\ <<"ppu">> \in Seq(Pieces) /\ <<"chr">> \in Seq(Pieces)
  BY DEF Pieces
<1>3. CpuIoLayers \in Seq(Pieces)
  BY <1>1, <1>2 DEF CpuIoLayers
<1>4. PpuLayers \in Seq(Pieces)
  BY <1>2, <1>3 DEF PpuLayers
<1>5. ChrLayers \in Seq(Pieces)
  BY <1>2, <1>4 DEF ChrLayers
<1>6. QED
  BY <1>1, <1>3, <1>4, <1>5 DEF Pieces

\* What each of them writes.
LEMMA Stimulus512Is ==
  /\ Tool("stimulus512").mark = {<<Cpu, "stimulus">>}
  /\ Tool("stimulus512").once = StimulusHooks
  /\ Tool("stimulus512").ends = {}
  /\ Tool("stimulus512").exact = {<<Probe, <<"small">>>>}
  /\ Tool("stimulus512").clean = {<<Cpu, "stimulusInclude">>}
  /\ Tool("stimulus512").before = {}
  /\ Tool("stimulus512").base = "none" /\ Tool("stimulus512").under = <<>>
  /\ Tool("stimulus512").touch = FALSE /\ Tool("stimulus512").again = 0
  /\ Tool("stimulus512").writes = <<<<Probe, <<"small">>>>,
                                    <<Cpu, <<"stimulusInclude", "stimulus">>>>>>
<1>1. Tool("stimulus512") = Stimulus("small")
  BY ToolNamed
<1>2. QED
  BY <1>1 DEF Stimulus, Patch

\* What the large stimulus looks for and writes.
LEMMA Stimulus2048Is ==
  /\ Tool("stimulus2048").mark = {<<Cpu, "stimulus">>}
  /\ Tool("stimulus2048").once = StimulusHooks
  /\ Tool("stimulus2048").ends = {}
  /\ Tool("stimulus2048").exact = {<<Probe, <<"large">>>>}
  /\ Tool("stimulus2048").clean = {<<Cpu, "stimulusInclude">>}
  /\ Tool("stimulus2048").before = {}
  /\ Tool("stimulus2048").base = "none" /\ Tool("stimulus2048").under = <<>>
  /\ Tool("stimulus2048").touch = FALSE /\ Tool("stimulus2048").again = 0
  /\ Tool("stimulus2048").writes = <<<<Probe, <<"large">>>>,
                                     <<Cpu, <<"stimulusInclude", "stimulus">>>>>>
<1>1. Tool("stimulus2048") = Stimulus("large")
  BY ToolNamed
<1>2. QED
  BY <1>1 DEF Stimulus, Patch

\* What the map capture looks for and writes.
LEMMA MapIs ==
  /\ Tool("map").mark = {<<Probe, "map">>}
  /\ Tool("map").once = StimulusHooks
  /\ Tool("map").ends = {}
  /\ Tool("map").exact = {<<Probe, MapLayers>>}
  /\ Tool("map").clean = {}
  /\ Tool("map").before = {}
  /\ Tool("map").base = "stimulus2048" /\ Tool("map").under = <<"large">>
  /\ Tool("map").touch = TRUE /\ Tool("map").again = 0
  /\ Tool("map").writes = <<<<Probe, MapLayers>>>>
<1>1. Tool("map") = MapCapture
  BY ToolNamed
<1>2. QED
  BY <1>1 DEF MapCapture, Patch

\* What the WRAM getter looks for and writes.
LEMMA WramIs ==
  /\ Tool("wram").mark = {<<Board, "wramGetter">>, <<Probe, "wram">>}
  /\ Tool("wram").once = DispatchHooks \cup {<<Board, "wramGetter">>, <<Board, "pinned">>}
  /\ Tool("wram").ends = {<<Board, <<"wramGetter">>>>}
  /\ Tool("wram").exact = {<<Probe, WramLayers>>}
  /\ Tool("wram").clean = {}
  /\ Tool("wram").before = {}
  /\ Tool("wram").base = "stimulus2048" /\ Tool("wram").under = <<"large">>
  /\ Tool("wram").touch = TRUE /\ Tool("wram").again = 0
  /\ Tool("wram").writes = <<<<Board, <<"wramGetter">>>>,
                             <<Probe, WramLayers>>>>
<1>1. Tool("wram") = Wram
  BY ToolNamed
<1>2. QED
  BY <1>1 DEF Wram, Patch

\* What the CPU I/O getter looks for and writes.
LEMMA CpuioIs ==
  /\ Tool("cpuio").mark = {<<Board, "cpuGetter">>, <<Probe, "cpuio">>}
  /\ Tool("cpuio").once = DispatchHooks \cup {<<Board, "cpuGetter">>}
  /\ Tool("cpuio").ends = {<<Board, <<"wramGetter", "cpuGetter">>>>}
  /\ Tool("cpuio").exact = {<<Probe, CpuIoLayers>>}
  /\ Tool("cpuio").clean = {}
  /\ Tool("cpuio").before = {}
  /\ Tool("cpuio").base = "wram" /\ Tool("cpuio").under = WramLayers
  /\ Tool("cpuio").touch = TRUE /\ Tool("cpuio").again = 0
  /\ Tool("cpuio").writes = <<<<Board, <<"cpuGetter">>>>,
                              <<Probe, CpuIoLayers>>>>
<1>1. Tool("cpuio") = CpuIo
  BY ToolNamed
<1>2. QED
  BY <1>1 DEF CpuIo, Patch

\* What the blanked PPU getters looks for and writes.
LEMMA PpuIs ==
  /\ Tool("ppu").mark = {<<Ppu, "ppuGetter">>, <<Board, "fillGetter">>, <<Probe, "ppu">>}
  /\ Tool("ppu").once = DispatchHooks
  /\ Tool("ppu").ends = {<<Ppu, <<"ppuGetter">>>>, <<Board, <<"fillGetter">>>>}
  /\ Tool("ppu").exact = {<<Probe, PpuLayers>>}
  /\ Tool("ppu").clean = {}
  /\ Tool("ppu").before = {}
  /\ Tool("ppu").base = "cpuio" /\ Tool("ppu").under = CpuIoLayers
  /\ Tool("ppu").touch = TRUE /\ Tool("ppu").again = 0
  /\ Tool("ppu").writes = <<<<Ppu, <<"ppuGetter">>>>,
                            <<Board, <<"fillGetter">>>>,
                            <<Probe, PpuLayers>>>>
<1>1. Tool("ppu") = PpuBlank
  BY ToolNamed
<1>2. QED
  BY <1>1 DEF PpuBlank, Patch

\* What the CHR getter looks for and writes.
LEMMA ChrIs ==
  /\ Tool("chr").mark = {<<Board, "chrGetter">>, <<Probe, "chr">>}
  /\ Tool("chr").once = DispatchHooks
  /\ Tool("chr").ends = {<<Board, <<"chrGetter">>>>, <<Ppu, <<"ppuGetter">>>>}
  /\ Tool("chr").exact = {<<Probe, ChrLayers>>}
  /\ Tool("chr").clean = {}
  /\ Tool("chr").before = {}
  /\ Tool("chr").base = "ppu" /\ Tool("chr").under = PpuLayers
  /\ Tool("chr").touch = TRUE /\ Tool("chr").again = 0
  /\ Tool("chr").writes = <<<<Board, <<"chrGetter">>>>,
                            <<Probe, ChrLayers>>>>
<1>1. Tool("chr") = ChrBlank
  BY ToolNamed
<1>2. QED
  BY <1>1 DEF ChrBlank, Patch

\* What the cycle observer looks for and writes.
LEMMA CycleIs ==
  /\ Tool("cycle").mark = {<<Cpu, "cycle">>}
  /\ Tool("cycle").once = {<<Cpu, "cycle">>, <<Cpu, "cycleInclude">>}
  /\ Tool("cycle").ends = {}
  /\ Tool("cycle").exact = {<<"n2s_cycle_observer.h", <<>>>>}
  /\ Tool("cycle").clean = {<<Cpu, "cycleInclude">>}
  /\ Tool("cycle").before = {}
  /\ Tool("cycle").base = "none" /\ Tool("cycle").under = <<>>
  /\ Tool("cycle").touch = FALSE /\ Tool("cycle").again = 0
  /\ Tool("cycle").writes = <<<<"n2s_cycle_observer.h", <<>>>>,
                              <<Cpu, <<"cycleInclude", "cycle">>>>>>
<1>1. Tool("cycle") = CycleObserver
  BY ToolNamed
<1>2. QED
  BY <1>1 DEF CycleObserver, Patch

\* What the interrupt probe looks for and writes.
LEMMA BoundaryIs ==
  /\ Tool("boundary").mark = {<<Cpu, "boundary">>}
  /\ Tool("boundary").once = {<<Cpu, "boundary">>, <<Cpu, "boundaryInclude">>}
  /\ Tool("boundary").ends = {}
  /\ Tool("boundary").exact = {<<"n2s_interrupt_probe.h", <<>>>>}
  /\ Tool("boundary").clean = {<<Cpu, "boundaryInclude">>}
  /\ Tool("boundary").before = {}
  /\ Tool("boundary").base = "none" /\ Tool("boundary").under = <<>>
  /\ Tool("boundary").touch = FALSE /\ Tool("boundary").again = 0
  /\ Tool("boundary").writes = <<<<"n2s_interrupt_probe.h", <<>>>>,
                                 <<Cpu, <<"boundaryInclude", "boundary">>>>>>
<1>1. Tool("boundary") = InterruptProbe
  BY ToolNamed
<1>2. QED
  BY <1>1 DEF InterruptProbe, Patch

\* What the idle observer of the NES core looks for and writes.
LEMMA IdleIs ==
  /\ Tool("idle").mark = {<<Cpu, "idle">>}
  /\ Tool("idle").once = {<<Cpu, "idle">>, <<Cpu, "idleInclude">>}
  /\ Tool("idle").ends = {}
  /\ Tool("idle").exact = {<<"n2s_idle_observer.h", <<>>>>}
  /\ Tool("idle").clean = {<<Cpu, p>> : p \in {"idleInclude", "costs", "costsV1", "profile"}}
  /\ Tool("idle").before = {}
  /\ Tool("idle").base = "none" /\ Tool("idle").under = <<>>
  /\ Tool("idle").touch = FALSE /\ Tool("idle").again = 0
  /\ Tool("idle").writes = <<<<"n2s_idle_observer.h", <<>>>>,
                             <<Cpu, <<"idleInclude", "idle">>>>>>
<1>1. Tool("idle") = IdleObserver(Cpu)
  BY ToolNamed
<1>2. QED
  BY <1>1 DEF IdleObserver, Patch

\* What the play probe looks for and writes.
LEMMA PlayIs ==
  /\ Tool("play").mark = {<<Cpu, "play">>}
  /\ Tool("play").once = {}
  /\ Tool("play").ends = {}
  /\ Tool("play").exact = {}
  /\ Tool("play").clean = {}
  /\ Tool("play").before = {}
  /\ Tool("play").base = "none" /\ Tool("play").under = <<>>
  /\ Tool("play").touch = TRUE /\ Tool("play").again = 2
  /\ Tool("play").writes = <<<<Cpu, <<"play">>>>,
                             <<"n2s_probe.inc", <<>>>>>>
<1>1. Tool("play") = PlayProbe
  BY ToolNamed
<1>2. QED
  BY <1>1 DEF PlayProbe, Patch

\* What the DMA trace looks for and writes.
LEMMA DmaIs ==
  /\ Tool("dma").mark = {<<"NstCpu.cpp", "dmaInclude">>}
  /\ Tool("dma").once = {<<"NstCpu.cpp", p>> : p \in {"dmaInclude", "dma", "pinned"}}
  /\ Tool("dma").ends = {}
  /\ Tool("dma").exact = {<<"n2s_dma_trace.h", <<>>>>}
  /\ Tool("dma").clean = {<<"NstCpu.cpp", "dma">>}
  /\ Tool("dma").before = {}
  /\ Tool("dma").base = "none" /\ Tool("dma").under = <<>>
  /\ Tool("dma").touch = FALSE /\ Tool("dma").again = 0
  /\ Tool("dma").writes = <<<<"n2s_dma_trace.h", <<>>>>,
                            <<"NstCpu.cpp", <<"dmaInclude", "dma">>>>>>
<1>1. Tool("dma") = DmaTrace
  BY ToolNamed
<1>2. QED
  BY <1>1 DEF DmaTrace, Patch

\* What the idle observer of the SNES core looks for and writes.
LEMMA IdleHostIs ==
  /\ Tool("idleHost").mark = {<<"cpuexec.cpp", "idle">>}
  /\ Tool("idleHost").once = {<<"cpuexec.cpp", "idle">>, <<"cpuexec.cpp", "idleInclude">>}
  /\ Tool("idleHost").ends = {}
  /\ Tool("idleHost").exact = {<<"n2s_idle_observer.h", <<>>>>}
  /\ Tool("idleHost").clean = {<<"cpuexec.cpp", p>> : p \in {"idleInclude", "costs", "costsV1", "profile"}}
  /\ Tool("idleHost").before = {}
  /\ Tool("idleHost").base = "none" /\ Tool("idleHost").under = <<>>
  /\ Tool("idleHost").touch = FALSE /\ Tool("idleHost").again = 0
  /\ Tool("idleHost").writes = <<<<"n2s_idle_observer.h", <<>>>>,
                                 <<"cpuexec.cpp", <<"idleInclude", "idle">>>>>>
<1>1. Tool("idleHost") = IdleObserver("cpuexec.cpp")
  BY ToolNamed
<1>2. QED
  BY <1>1 DEF IdleObserver, Patch

\* What the profiler looks for and writes.
LEMMA ProfileIs ==
  /\ Tool("profile").mark = {<<"cpuexec.cpp", "profile">>}
  /\ Tool("profile").once = {}
  /\ Tool("profile").ends = {}
  /\ Tool("profile").exact = {}
  /\ Tool("profile").clean = {}
  /\ Tool("profile").before = {}
  /\ Tool("profile").base = "none" /\ Tool("profile").under = <<>>
  /\ Tool("profile").touch = FALSE /\ Tool("profile").again = 0
  /\ Tool("profile").writes = <<<<"cpuexec.cpp", <<"profile">>>>>>
<1>1. Tool("profile") = Profile
  BY ToolNamed
<1>2. QED
  BY <1>1 DEF Profile, Patch

\* What the frame-cost profiler looks for and writes.
LEMMA CostsIs ==
  /\ Tool("costs").mark = {<<"cpuexec.cpp", "costs">>}
  /\ Tool("costs").once = {}
  /\ Tool("costs").ends = {}
  /\ Tool("costs").exact = {}
  /\ Tool("costs").clean = {<<"cpuexec.cpp", "costsV1">>, <<"cpuexec.cpp", "profile">>}
  /\ Tool("costs").before = {}
  /\ Tool("costs").base = "none" /\ Tool("costs").under = <<>>
  /\ Tool("costs").touch = FALSE /\ Tool("costs").again = 0
  /\ Tool("costs").writes = <<<<"cpuexec.cpp", <<"costs">>>>>>
<1>1. Tool("costs") = FrameCosts
  BY ToolNamed
<1>2. QED
  BY <1>1 DEF FrameCosts, Patch

\* What the indexed indirect patch looks for and writes.
LEMMA IndirectXIs ==
  /\ Tool("indirectX").mark = {}
  /\ Tool("indirectX").once = {}
  /\ Tool("indirectX").ends = {}
  /\ Tool("indirectX").exact = {}
  /\ Tool("indirectX").clean = {<<"indirect_x_fixture.py", "indirectX">>}
  /\ Tool("indirectX").before = {"native.s", "build_native.py"}
  /\ Tool("indirectX").anchors = {"native.s", "build_native.py", "indirect_x_fixture.py"}
  /\ Tool("indirectX").base = "none" /\ Tool("indirectX").under = <<>>
  /\ Tool("indirectX").touch = FALSE /\ Tool("indirectX").again = 0
  /\ Tool("indirectX").writes = <<<<"native.s", <<"indirectX">>>>,
                                  <<"build_native.py", <<"indirectX">>>>,
                                  <<"indirect_x_fixture.py", <<"indirectX">>>>>>
<1> DEFINE files == <<"native.s", "build_native.py", "indirect_x_fixture.py">>
<1>1. ToSet(files) = {"native.s", "build_native.py", "indirect_x_fixture.py"}
  BY DEF ToSet
<1>2. [i \in DOMAIN files |-> <<files[i], <<"indirectX">>>>] =
        <<<<"native.s", <<"indirectX">>>>,
          <<"build_native.py", <<"indirectX">>>>,
          <<"indirect_x_fixture.py", <<"indirectX">>>>>>
  OBVIOUS
<1> HIDE DEF files
<1>3. Integration("indirectX", files) =
        [Patch EXCEPT !.before = {"native.s", "build_native.py", "indirect_x_fixture.py"},
                      !.anchors = {"native.s", "build_native.py", "indirect_x_fixture.py"},
                      !.writes = <<<<"native.s", <<"indirectX">>>>,
                                   <<"build_native.py", <<"indirectX">>>>,
                                   <<"indirect_x_fixture.py", <<"indirectX">>>>>>]
  <2>1. Integration("indirectX", files) =
          [Patch EXCEPT !.before = ToSet(files), !.anchors = ToSet(files),
                        !.writes = [i \in DOMAIN files |-> <<files[i], <<"indirectX">>>>]]
    BY DEF Integration
  <2>2. QED
    BY <1>1, <1>2, <2>1
<1>4. IndirectX =
        [Integration("indirectX", files) EXCEPT
           !.before = @ \ {"indirect_x_fixture.py"},
           !.clean = {<<"indirect_x_fixture.py", "indirectX">>}]
  BY DEF IndirectX, files
<1>5. IndirectX = [Integration("indirectX", files) EXCEPT
        !.before = {"native.s", "build_native.py"},
        !.clean = {<<"indirect_x_fixture.py", "indirectX">>}]
  BY <1>3, <1>4 DEF Patch
<1>6. /\ "before" \in DOMAIN Integration("indirectX", files) /\ "clean" \in DOMAIN Integration("indirectX", files)
      /\ Integration("indirectX", files).mark = {}
      /\ Integration("indirectX", files).once = {}
      /\ Integration("indirectX", files).ends = {}
      /\ Integration("indirectX", files).exact = {}
      /\ Integration("indirectX", files).base = "none"
      /\ Integration("indirectX", files).under = <<>>
      /\ Integration("indirectX", files).touch = FALSE
      /\ Integration("indirectX", files).again = 0
  BY <1>3 DEF Patch
<1>7. /\ IndirectX.mark = Integration("indirectX", files).mark
      /\ IndirectX.once = Integration("indirectX", files).once
      /\ IndirectX.ends = Integration("indirectX", files).ends
      /\ IndirectX.exact = Integration("indirectX", files).exact
      /\ IndirectX.anchors = Integration("indirectX", files).anchors
      /\ IndirectX.base = Integration("indirectX", files).base
      /\ IndirectX.under = Integration("indirectX", files).under
      /\ IndirectX.writes = Integration("indirectX", files).writes
      /\ IndirectX.touch = Integration("indirectX", files).touch
      /\ IndirectX.again = Integration("indirectX", files).again
  BY <1>5, <1>6
<1>8. QED
  BY <1>3, <1>5, <1>6, <1>7, ToolNamed DEF Patch

\* What the coalesced upload patch looks for and writes.
LEMMA CoalescedIs ==
  /\ Tool("coalesced").mark = {}
  /\ Tool("coalesced").once = {}
  /\ Tool("coalesced").ends = {}
  /\ Tool("coalesced").exact = {}
  /\ Tool("coalesced").clean = {}
  /\ Tool("coalesced").before = {"native_video.inc", "build_native.py"}
  /\ Tool("coalesced").anchors = {"native_video.inc", "build_native.py"}
  /\ Tool("coalesced").base = "none" /\ Tool("coalesced").under = <<>>
  /\ Tool("coalesced").touch = FALSE /\ Tool("coalesced").again = 0
  /\ Tool("coalesced").writes = <<<<"native_video.inc", <<"coalesced">>>>,
                                  <<"build_native.py", <<"coalesced">>>>>>
<1> DEFINE files == <<"native_video.inc", "build_native.py">>
<1>1. ToSet(files) = {"native_video.inc", "build_native.py"}
  BY DEF ToSet
<1>2. [i \in DOMAIN files |-> <<files[i], <<"coalesced">>>>] =
        <<<<"native_video.inc", <<"coalesced">>>>,
          <<"build_native.py", <<"coalesced">>>>>>
  OBVIOUS
<1> HIDE DEF files
<1>3. Integration("coalesced", files) =
        [Patch EXCEPT !.before = {"native_video.inc", "build_native.py"},
                      !.anchors = {"native_video.inc", "build_native.py"},
                      !.writes = <<<<"native_video.inc", <<"coalesced">>>>,
                                   <<"build_native.py", <<"coalesced">>>>>>]
  <2>1. Integration("coalesced", files) =
          [Patch EXCEPT !.before = ToSet(files), !.anchors = ToSet(files),
                        !.writes = [i \in DOMAIN files |-> <<files[i], <<"coalesced">>>>]]
    BY DEF Integration
  <2>2. QED
    BY <1>1, <1>2, <2>1
<1>4. QED
  BY <1>3, ToolNamed DEF NametableDmaPatch, Patch, files

\* What the dispatch patch looks for and writes.
LEMMA DispatchIs ==
  /\ Tool("dispatch").mark = {}
  /\ Tool("dispatch").once = {}
  /\ Tool("dispatch").ends = {}
  /\ Tool("dispatch").exact = {}
  /\ Tool("dispatch").clean = {}
  /\ Tool("dispatch").before = {"build_native.py", "verify_native_cpu.py"}
  /\ Tool("dispatch").anchors = {"build_native.py", "verify_native_cpu.py"}
  /\ Tool("dispatch").base = "none" /\ Tool("dispatch").under = <<>>
  /\ Tool("dispatch").touch = FALSE /\ Tool("dispatch").again = 0
  /\ Tool("dispatch").writes = <<<<"build_native.py", <<"dispatch">>>>,
                                 <<"verify_native_cpu.py", <<"dispatch">>>>>>
<1> DEFINE files == <<"build_native.py", "verify_native_cpu.py">>
<1>1. ToSet(files) = {"build_native.py", "verify_native_cpu.py"}
  BY DEF ToSet
<1>2. [i \in DOMAIN files |-> <<files[i], <<"dispatch">>>>] =
        <<<<"build_native.py", <<"dispatch">>>>,
          <<"verify_native_cpu.py", <<"dispatch">>>>>>
  OBVIOUS
<1> HIDE DEF files
<1>3. Integration("dispatch", files) =
        [Patch EXCEPT !.before = {"build_native.py", "verify_native_cpu.py"},
                      !.anchors = {"build_native.py", "verify_native_cpu.py"},
                      !.writes = <<<<"build_native.py", <<"dispatch">>>>,
                                   <<"verify_native_cpu.py", <<"dispatch">>>>>>]
  <2>1. Integration("dispatch", files) =
          [Patch EXCEPT !.before = ToSet(files), !.anchors = ToSet(files),
                        !.writes = [i \in DOMAIN files |-> <<files[i], <<"dispatch">>>>]]
    BY DEF Integration
  <2>2. QED
    BY <1>1, <1>2, <2>1
<1>4. QED
  BY <1>3, ToolNamed DEF DispatchPatch, Patch, files

\* What the palette read patch looks for and writes.
LEMMA PaletteReadsIs ==
  /\ Tool("paletteReads").mark = {<<f, "paletteReads">> : f \in {"native.s", "native_ppudata.inc", "README.md"}}
  /\ Tool("paletteReads").once = {}
  /\ Tool("paletteReads").ends = {}
  /\ Tool("paletteReads").exact = {<<f, <<"paletteReads">>>> : f \in {"native.s", "native_ppudata.inc", "README.md"}}
  /\ Tool("paletteReads").clean = {}
  /\ Tool("paletteReads").before = {"native.s", "native_ppudata.inc", "README.md"}
  /\ Tool("paletteReads").anchors = {"native.s", "native_ppudata.inc", "README.md"}
  /\ Tool("paletteReads").base = "none" /\ Tool("paletteReads").under = <<>>
  /\ Tool("paletteReads").touch = FALSE /\ Tool("paletteReads").again = 0
  /\ Tool("paletteReads").writes = <<<<"native.s", <<"paletteReads">>>>,
                                     <<"native_ppudata.inc", <<"paletteReads">>>>,
                                     <<"README.md", <<"paletteReads">>>>>>
<1> DEFINE files == <<"native.s", "native_ppudata.inc", "README.md">>
<1>1. ToSet(files) = {"native.s", "native_ppudata.inc", "README.md"}
  BY DEF ToSet
<1>2. [i \in DOMAIN files |-> <<files[i], <<"paletteReads">>>>] =
        <<<<"native.s", <<"paletteReads">>>>,
          <<"native_ppudata.inc", <<"paletteReads">>>>,
          <<"README.md", <<"paletteReads">>>>>>
  OBVIOUS
<1> HIDE DEF files
<1>3. Integration("paletteReads", files) =
        [Patch EXCEPT !.before = {"native.s", "native_ppudata.inc", "README.md"},
                      !.anchors = {"native.s", "native_ppudata.inc", "README.md"},
                      !.writes = <<<<"native.s", <<"paletteReads">>>>,
                                   <<"native_ppudata.inc", <<"paletteReads">>>>,
                                   <<"README.md", <<"paletteReads">>>>>>]
  <2>1. Integration("paletteReads", files) =
          [Patch EXCEPT !.before = ToSet(files), !.anchors = ToSet(files),
                        !.writes = [i \in DOMAIN files |-> <<files[i], <<"paletteReads">>>>]]
    BY DEF Integration
  <2>2. QED
    BY <1>1, <1>2, <2>1
<1>4. PaletteReads =
        [Integration("paletteReads", files) EXCEPT
           !.mark  = {<<f, "paletteReads">> : f \in ToSet(files)},
           !.exact = {<<f, <<"paletteReads">>>> : f \in ToSet(files)}]
  BY DEF PaletteReads, files
<1>5. PaletteReads =
        [Integration("paletteReads", files) EXCEPT
           !.mark  = {<<f, "paletteReads">> : f \in {"native.s", "native_ppudata.inc", "README.md"}},
           !.exact = {<<f, <<"paletteReads">>>> : f \in {"native.s", "native_ppudata.inc", "README.md"}}]
  BY <1>1, <1>4
<1>6. /\ "mark" \in DOMAIN Integration("paletteReads", files) /\ "exact" \in DOMAIN Integration("paletteReads", files)
      /\ Integration("paletteReads", files).once = {}
      /\ Integration("paletteReads", files).ends = {}
      /\ Integration("paletteReads", files).clean = {}
      /\ Integration("paletteReads", files).base = "none"
      /\ Integration("paletteReads", files).under = <<>>
      /\ Integration("paletteReads", files).touch = FALSE
      /\ Integration("paletteReads", files).again = 0
  BY <1>3 DEF Patch
<1>7. /\ PaletteReads.once = Integration("paletteReads", files).once
      /\ PaletteReads.ends = Integration("paletteReads", files).ends
      /\ PaletteReads.clean = Integration("paletteReads", files).clean
      /\ PaletteReads.anchors = Integration("paletteReads", files).anchors
      /\ PaletteReads.base = Integration("paletteReads", files).base
      /\ PaletteReads.under = Integration("paletteReads", files).under
      /\ PaletteReads.writes = Integration("paletteReads", files).writes
      /\ PaletteReads.touch = Integration("paletteReads", files).touch
      /\ PaletteReads.again = Integration("paletteReads", files).again
      /\ PaletteReads.before = Integration("paletteReads", files).before
  BY <1>5, <1>6
<1>8. /\ Integration("paletteReads", files).before = {"native.s", "native_ppudata.inc", "README.md"}
      /\ Integration("paletteReads", files).anchors = {"native.s", "native_ppudata.inc", "README.md"}
      /\ Integration("paletteReads", files).writes =
           <<<<"native.s", <<"paletteReads">>>>,
             <<"native_ppudata.inc", <<"paletteReads">>>>,
             <<"README.md", <<"paletteReads">>>>>>
  BY <1>3 DEF Patch
<1>9. /\ PaletteReads.mark = {<<f, "paletteReads">> : f \in {"native.s", "native_ppudata.inc", "README.md"}}
      /\ PaletteReads.exact = {<<f, <<"paletteReads">>>> : f \in {"native.s", "native_ppudata.inc", "README.md"}}
  BY <1>5, <1>6
<1>10. QED
  BY <1>6, <1>7, <1>8, <1>9, ToolNamed

\* The levels of the observers that are stacked.
Rank(n) ==
  CASE n = "map" -> 1 [] n = "wram" -> 1 [] n = "cpuio" -> 2 [] n = "ppu" -> 3 [] n = "chr" -> 4
    [] OTHER -> 0

Level(p) ==
  CASE p = "wramGetter" -> 1 [] p = "cpuGetter" -> 2 [] p = "ppuGetter" -> 3
    [] p = "fillGetter" -> 3 [] p = "chrGetter" -> 4 [] OTHER -> 0

\* What the proofs use of one write.  A piece that goes into a source was looked
\* for before, and no other level has it; a header is checked when its tool comes
\* back, but for the copy that is always refreshed.
ProperWrite(n, f, q) ==
  /\ q \in Seq(Pieces)
  /\ f \in Headers /\ Tool(n).again = 0 => <<f, q>> \in Tool(n).exact
  /\ f \notin Headers => \A p :
       /\ AtMostOnce(q, p)
       /\ Has(q, p) => /\ p # "pinned" /\ Level(p) = Rank(n)
                       /\ <<f, p>> \in Tool(n).mark \cup Tool(n).clean \/ f \in Tool(n).before

Proper(n) ==
  /\ Len(Tool(n).writes) \in Nat \ {0}
  /\ DOMAIN Tool(n).writes = 1 .. Len(Tool(n).writes)
  /\ \A i \in DOMAIN Tool(n).writes : ProperWrite(n, Tool(n).writes[i][1], Tool(n).writes[i][2])
  /\ \A i, j \in DOMAIN Tool(n).writes : Tool(n).writes[i][1] = Tool(n).writes[j][1] => i = j

\* What texts of one and of two pieces contain.
LEMMA ShortTexts ==
  /\ \A a, p : AtMostOnce(<<a>>, p) /\ (Has(<<a>>, p) <=> p = a)
  /\ \A a, b, p : (a # b => AtMostOnce(<<a, b>>, p)) /\ (Has(<<a, b>>, p) <=> p = a \/ p = b)
  BY DEF AtMostOnce, Has

\* Writing one piece is proper when the tool looks for it.
LEMMA OnePiece ==
  ASSUME NEW n, NEW f, NEW a \in Pieces, f \notin Headers, a # "pinned", Level(a) = Rank(n),
         <<f, a>> \in Tool(n).mark \cup Tool(n).clean \/ f \in Tool(n).before
  PROVE  ProperWrite(n, f, <<a>>)
  BY ShortTexts DEF ProperWrite

\* Writing two different pieces is proper when the tool looks for both.
LEMMA TwoPieces ==
  ASSUME NEW n, NEW f, NEW a \in Pieces, NEW b \in Pieces, f \notin Headers, a # b,
         a # "pinned", Level(a) = Rank(n), <<f, a>> \in Tool(n).mark \cup Tool(n).clean,
         b # "pinned", Level(b) = Rank(n), <<f, b>> \in Tool(n).mark \cup Tool(n).clean
  PROVE  ProperWrite(n, f, <<a, b>>)
  BY ShortTexts DEF ProperWrite

\* Writing a header of its own is proper when the tool compares it.
LEMMA HeaderWrite ==
  ASSUME NEW n, NEW f \in Headers, NEW q \in Seq(Pieces), Tool(n).again = 0 => <<f, q>> \in Tool(n).exact
  PROVE  ProperWrite(n, f, q)
  BY DEF ProperWrite

\* A tool is proper when its one write is.
LEMMA OneWrite ==
  ASSUME NEW n, NEW f, NEW q, Tool(n).writes = <<<<f, q>>>>, ProperWrite(n, f, q)
  PROVE  Proper(n)
  BY DEF Proper

\* A tool is proper when its two writes, to different files, are.
LEMMA TwoWrites ==
  ASSUME NEW n, NEW f, NEW q, NEW g, NEW r, f # g, Tool(n).writes = <<<<f, q>>, <<g, r>>>>,
         ProperWrite(n, f, q), ProperWrite(n, g, r)
  PROVE  Proper(n)
  BY DEF Proper

\* A tool is proper when its three writes, to different files, are.
LEMMA ThreeWrites ==
  ASSUME NEW n, NEW f, NEW q, NEW g, NEW r, NEW h, NEW s, f # g, f # h, g # h,
         Tool(n).writes = <<<<f, q>>, <<g, r>>, <<h, s>>>>,
         ProperWrite(n, f, q), ProperWrite(n, g, r), ProperWrite(n, h, s)
  PROVE  Proper(n)
  BY DEF Proper

\* Which files are headers and which belong to the source tree.
LEMMA FileKinds ==
  /\ {Probe, "n2s_cycle_observer.h", "n2s_interrupt_probe.h", "n2s_idle_observer.h",
      "n2s_dma_trace.h", "n2s_probe.inc"} = Headers
  /\ Cpu \notin Headers /\ Board \notin Headers /\ Ppu \notin Headers
  /\ "NstCpu.cpp" \notin Headers /\ "cpuexec.cpp" \notin Headers /\ "native.s" \notin Headers
  /\ "build_native.py" \notin Headers /\ "indirect_x_fixture.py" \notin Headers
  /\ "native_video.inc" \notin Headers /\ "verify_native_cpu.py" \notin Headers
  /\ "native_ppudata.inc" \notin Headers /\ "README.md" \notin Headers
  BY DEF Headers, Probe, Cpu, Board, Ppu

\* The level of every getter, and the rank of the tools that write them.
LEMMA PieceLevels ==
  /\ Rank("map") = 1 /\ Rank("wram") = 1 /\ Rank("cpuio") = 2 /\ Rank("ppu") = 3 /\ Rank("chr") = 4
  /\ Level("wramGetter") = 1 /\ Level("cpuGetter") = 2 /\ Level("ppuGetter") = 3
  /\ Level("fillGetter") = 3 /\ Level("chrGetter") = 4
  /\ \A n \in ToolNames \ {"map", "wram", "cpuio", "ppu", "chr"} : Rank(n) = 0
  /\ \A p \in Pieces \ {"wramGetter", "cpuGetter", "ppuGetter", "fillGetter", "chrGetter"} :
       Level(p) = 0
  BY DEF Rank, Level

\* Every tool is proper: it looks for each piece it writes.
LEMMA AllProper == \A n \in ToolNames : Proper(n)
<1>1. Proper("stimulus512")
  <2>1. ProperWrite("stimulus512", Probe, <<"small">>)
    <3>1. <<Probe, <<"small">>>> \in Tool("stimulus512").exact
      BY Stimulus512Is
    <3>2. QED
      BY <3>1, HeaderWrite, TextsTyped, FileKinds
  <2>2. ProperWrite("stimulus512", Cpu, <<"stimulusInclude", "stimulus">>)
    <3>1. /\ <<Cpu, "stimulusInclude">> \in Tool("stimulus512").mark \cup Tool("stimulus512").clean
          /\ <<Cpu, "stimulus">> \in Tool("stimulus512").mark \cup Tool("stimulus512").clean
      BY Stimulus512Is
    <3>2. /\ Level("stimulusInclude") = Rank("stimulus512") /\ Level("stimulus") = Rank("stimulus512")
          /\ "stimulusInclude" \in Pieces /\ "stimulus" \in Pieces
      BY PieceLevels DEF Pieces, ToolNames
    <3>3. QED
      BY <3>1, <3>2, TwoPieces, FileKinds
  <2>3. QED
    BY <2>1, <2>2, Stimulus512Is, TwoWrites DEF Probe, Cpu, Board, Ppu
<1>2. Proper("stimulus2048")
  <2>1. ProperWrite("stimulus2048", Probe, <<"large">>)
    <3>1. <<Probe, <<"large">>>> \in Tool("stimulus2048").exact
      BY Stimulus2048Is
    <3>2. QED
      BY <3>1, HeaderWrite, TextsTyped, FileKinds
  <2>2. ProperWrite("stimulus2048", Cpu, <<"stimulusInclude", "stimulus">>)
    <3>1. /\ <<Cpu, "stimulusInclude">> \in Tool("stimulus2048").mark \cup Tool("stimulus2048").clean
          /\ <<Cpu, "stimulus">> \in Tool("stimulus2048").mark \cup Tool("stimulus2048").clean
      BY Stimulus2048Is
    <3>2. /\ Level("stimulusInclude") = Rank("stimulus2048") /\ Level("stimulus") = Rank("stimulus2048")
          /\ "stimulusInclude" \in Pieces /\ "stimulus" \in Pieces
      BY PieceLevels DEF Pieces, ToolNames
    <3>3. QED
      BY <3>1, <3>2, TwoPieces, FileKinds
  <2>3. QED
    BY <2>1, <2>2, Stimulus2048Is, TwoWrites DEF Probe, Cpu, Board, Ppu
<1>3. Proper("map")
  <2>1. ProperWrite("map", Probe, MapLayers)
    <3>1. <<Probe, MapLayers>> \in Tool("map").exact
      BY MapIs
    <3>2. QED
      BY <3>1, HeaderWrite, TextsTyped, FileKinds
  <2>2. QED
    BY <2>1, MapIs, OneWrite DEF Probe, Cpu, Board, Ppu
<1>4. Proper("wram")
  <2>1. ProperWrite("wram", Board, <<"wramGetter">>)
    <3>1. <<Board, "wramGetter">> \in Tool("wram").mark \cup Tool("wram").clean
      BY WramIs
    <3>2. QED
      BY <3>1, OnePiece, PieceLevels, FileKinds DEF Pieces, ToolNames
  <2>2. ProperWrite("wram", Probe, WramLayers)
    <3>1. <<Probe, WramLayers>> \in Tool("wram").exact
      BY WramIs
    <3>2. QED
      BY <3>1, HeaderWrite, TextsTyped, FileKinds
  <2>3. QED
    BY <2>1, <2>2, WramIs, TwoWrites DEF Probe, Cpu, Board, Ppu
<1>5. Proper("cpuio")
  <2>1. ProperWrite("cpuio", Board, <<"cpuGetter">>)
    <3>1. <<Board, "cpuGetter">> \in Tool("cpuio").mark \cup Tool("cpuio").clean
      BY CpuioIs
    <3>2. QED
      BY <3>1, OnePiece, PieceLevels, FileKinds DEF Pieces, ToolNames
  <2>2. ProperWrite("cpuio", Probe, CpuIoLayers)
    <3>1. <<Probe, CpuIoLayers>> \in Tool("cpuio").exact
      BY CpuioIs
    <3>2. QED
      BY <3>1, HeaderWrite, TextsTyped, FileKinds
  <2>3. QED
    BY <2>1, <2>2, CpuioIs, TwoWrites DEF Probe, Cpu, Board, Ppu
<1>6. Proper("ppu")
  <2>1. ProperWrite("ppu", Ppu, <<"ppuGetter">>)
    <3>1. <<Ppu, "ppuGetter">> \in Tool("ppu").mark \cup Tool("ppu").clean
      BY PpuIs
    <3>2. QED
      BY <3>1, OnePiece, PieceLevels, FileKinds DEF Pieces, ToolNames
  <2>2. ProperWrite("ppu", Board, <<"fillGetter">>)
    <3>1. <<Board, "fillGetter">> \in Tool("ppu").mark \cup Tool("ppu").clean
      BY PpuIs
    <3>2. QED
      BY <3>1, OnePiece, PieceLevels, FileKinds DEF Pieces, ToolNames
  <2>3. ProperWrite("ppu", Probe, PpuLayers)
    <3>1. <<Probe, PpuLayers>> \in Tool("ppu").exact
      BY PpuIs
    <3>2. QED
      BY <3>1, HeaderWrite, TextsTyped, FileKinds
  <2>4. QED
    BY <2>1, <2>2, <2>3, PpuIs, ThreeWrites DEF Probe, Cpu, Board, Ppu
<1>7. Proper("chr")
  <2>1. ProperWrite("chr", Board, <<"chrGetter">>)
    <3>1. <<Board, "chrGetter">> \in Tool("chr").mark \cup Tool("chr").clean
      BY ChrIs
    <3>2. QED
      BY <3>1, OnePiece, PieceLevels, FileKinds DEF Pieces, ToolNames
  <2>2. ProperWrite("chr", Probe, ChrLayers)
    <3>1. <<Probe, ChrLayers>> \in Tool("chr").exact
      BY ChrIs
    <3>2. QED
      BY <3>1, HeaderWrite, TextsTyped, FileKinds
  <2>3. QED
    BY <2>1, <2>2, ChrIs, TwoWrites DEF Probe, Cpu, Board, Ppu
<1>8. Proper("cycle")
  <2>1. ProperWrite("cycle", "n2s_cycle_observer.h", <<>>)
    <3>1. <<"n2s_cycle_observer.h", <<>>>> \in Tool("cycle").exact
      BY CycleIs
    <3>2. QED
      BY <3>1, HeaderWrite, TextsTyped, FileKinds
  <2>2. ProperWrite("cycle", Cpu, <<"cycleInclude", "cycle">>)
    <3>1. /\ <<Cpu, "cycleInclude">> \in Tool("cycle").mark \cup Tool("cycle").clean
          /\ <<Cpu, "cycle">> \in Tool("cycle").mark \cup Tool("cycle").clean
      BY CycleIs
    <3>2. /\ Level("cycleInclude") = Rank("cycle") /\ Level("cycle") = Rank("cycle")
          /\ "cycleInclude" \in Pieces /\ "cycle" \in Pieces
      BY PieceLevels DEF Pieces, ToolNames
    <3>3. QED
      BY <3>1, <3>2, TwoPieces, FileKinds
  <2>3. QED
    BY <2>1, <2>2, CycleIs, TwoWrites DEF Probe, Cpu, Board, Ppu
<1>9. Proper("boundary")
  <2>1. ProperWrite("boundary", "n2s_interrupt_probe.h", <<>>)
    <3>1. <<"n2s_interrupt_probe.h", <<>>>> \in Tool("boundary").exact
      BY BoundaryIs
    <3>2. QED
      BY <3>1, HeaderWrite, TextsTyped, FileKinds
  <2>2. ProperWrite("boundary", Cpu, <<"boundaryInclude", "boundary">>)
    <3>1. /\ <<Cpu, "boundaryInclude">> \in Tool("boundary").mark \cup Tool("boundary").clean
          /\ <<Cpu, "boundary">> \in Tool("boundary").mark \cup Tool("boundary").clean
      BY BoundaryIs
    <3>2. /\ Level("boundaryInclude") = Rank("boundary") /\ Level("boundary") = Rank("boundary")
          /\ "boundaryInclude" \in Pieces /\ "boundary" \in Pieces
      BY PieceLevels DEF Pieces, ToolNames
    <3>3. QED
      BY <3>1, <3>2, TwoPieces, FileKinds
  <2>3. QED
    BY <2>1, <2>2, BoundaryIs, TwoWrites DEF Probe, Cpu, Board, Ppu
<1>10. Proper("idle")
  <2>1. ProperWrite("idle", "n2s_idle_observer.h", <<>>)
    <3>1. <<"n2s_idle_observer.h", <<>>>> \in Tool("idle").exact
      BY IdleIs
    <3>2. QED
      BY <3>1, HeaderWrite, TextsTyped, FileKinds
  <2>2. ProperWrite("idle", Cpu, <<"idleInclude", "idle">>)
    <3>1. /\ <<Cpu, "idleInclude">> \in Tool("idle").mark \cup Tool("idle").clean
          /\ <<Cpu, "idle">> \in Tool("idle").mark \cup Tool("idle").clean
      BY IdleIs
    <3>2. /\ Level("idleInclude") = Rank("idle") /\ Level("idle") = Rank("idle")
          /\ "idleInclude" \in Pieces /\ "idle" \in Pieces
      BY PieceLevels DEF Pieces, ToolNames
    <3>3. QED
      BY <3>1, <3>2, TwoPieces, FileKinds
  <2>3. QED
    BY <2>1, <2>2, IdleIs, TwoWrites DEF Probe, Cpu, Board, Ppu
<1>11. Proper("play")
  <2>1. ProperWrite("play", Cpu, <<"play">>)
    <3>1. <<Cpu, "play">> \in Tool("play").mark \cup Tool("play").clean
      BY PlayIs
    <3>2. QED
      BY <3>1, OnePiece, PieceLevels, FileKinds DEF Pieces, ToolNames
  <2>2. ProperWrite("play", "n2s_probe.inc", <<>>)
    <3>1. Tool("play").again # 0
      BY PlayIs
    <3>2. QED
      BY <3>1, HeaderWrite, TextsTyped, FileKinds
  <2>3. QED
    BY <2>1, <2>2, PlayIs, TwoWrites DEF Probe, Cpu, Board, Ppu
<1>12. Proper("dma")
  <2>1. ProperWrite("dma", "n2s_dma_trace.h", <<>>)
    <3>1. <<"n2s_dma_trace.h", <<>>>> \in Tool("dma").exact
      BY DmaIs
    <3>2. QED
      BY <3>1, HeaderWrite, TextsTyped, FileKinds
  <2>2. ProperWrite("dma", "NstCpu.cpp", <<"dmaInclude", "dma">>)
    <3>1. /\ <<"NstCpu.cpp", "dmaInclude">> \in Tool("dma").mark \cup Tool("dma").clean
          /\ <<"NstCpu.cpp", "dma">> \in Tool("dma").mark \cup Tool("dma").clean
      BY DmaIs
    <3>2. /\ Level("dmaInclude") = Rank("dma") /\ Level("dma") = Rank("dma")
          /\ "dmaInclude" \in Pieces /\ "dma" \in Pieces
      BY PieceLevels DEF Pieces, ToolNames
    <3>3. QED
      BY <3>1, <3>2, TwoPieces, FileKinds
  <2>3. QED
    BY <2>1, <2>2, DmaIs, TwoWrites DEF Probe, Cpu, Board, Ppu
<1>13. Proper("idleHost")
  <2>1. ProperWrite("idleHost", "n2s_idle_observer.h", <<>>)
    <3>1. <<"n2s_idle_observer.h", <<>>>> \in Tool("idleHost").exact
      BY IdleHostIs
    <3>2. QED
      BY <3>1, HeaderWrite, TextsTyped, FileKinds
  <2>2. ProperWrite("idleHost", "cpuexec.cpp", <<"idleInclude", "idle">>)
    <3>1. /\ <<"cpuexec.cpp", "idleInclude">> \in Tool("idleHost").mark \cup Tool("idleHost").clean
          /\ <<"cpuexec.cpp", "idle">> \in Tool("idleHost").mark \cup Tool("idleHost").clean
      BY IdleHostIs
    <3>2. /\ Level("idleInclude") = Rank("idleHost") /\ Level("idle") = Rank("idleHost")
          /\ "idleInclude" \in Pieces /\ "idle" \in Pieces
      BY PieceLevels DEF Pieces, ToolNames
    <3>3. QED
      BY <3>1, <3>2, TwoPieces, FileKinds
  <2>3. QED
    BY <2>1, <2>2, IdleHostIs, TwoWrites DEF Probe, Cpu, Board, Ppu
<1>14. Proper("profile")
  <2>1. ProperWrite("profile", "cpuexec.cpp", <<"profile">>)
    <3>1. <<"cpuexec.cpp", "profile">> \in Tool("profile").mark \cup Tool("profile").clean
      BY ProfileIs
    <3>2. QED
      BY <3>1, OnePiece, PieceLevels, FileKinds DEF Pieces, ToolNames
  <2>2. QED
    BY <2>1, ProfileIs, OneWrite DEF Probe, Cpu, Board, Ppu
<1>15. Proper("costs")
  <2>1. ProperWrite("costs", "cpuexec.cpp", <<"costs">>)
    <3>1. <<"cpuexec.cpp", "costs">> \in Tool("costs").mark \cup Tool("costs").clean
      BY CostsIs
    <3>2. QED
      BY <3>1, OnePiece, PieceLevels, FileKinds DEF Pieces, ToolNames
  <2>2. QED
    BY <2>1, CostsIs, OneWrite DEF Probe, Cpu, Board, Ppu
<1>16. Proper("indirectX")
  <2>1. ProperWrite("indirectX", "native.s", <<"indirectX">>)
    <3>1. "native.s" \in Tool("indirectX").before
      BY IndirectXIs
    <3>2. QED
      BY <3>1, OnePiece, PieceLevels, FileKinds DEF Pieces, ToolNames
  <2>2. ProperWrite("indirectX", "build_native.py", <<"indirectX">>)
    <3>1. "build_native.py" \in Tool("indirectX").before
      BY IndirectXIs
    <3>2. QED
      BY <3>1, OnePiece, PieceLevels, FileKinds DEF Pieces, ToolNames
  <2>3. ProperWrite("indirectX", "indirect_x_fixture.py", <<"indirectX">>)
    <3>1. <<"indirect_x_fixture.py", "indirectX">> \in Tool("indirectX").mark \cup Tool("indirectX").clean
      BY IndirectXIs
    <3>2. QED
      BY <3>1, OnePiece, PieceLevels, FileKinds DEF Pieces, ToolNames
  <2>4. QED
    BY <2>1, <2>2, <2>3, IndirectXIs, ThreeWrites DEF Probe, Cpu, Board, Ppu
<1>17. Proper("coalesced")
  <2>1. ProperWrite("coalesced", "native_video.inc", <<"coalesced">>)
    <3>1. "native_video.inc" \in Tool("coalesced").before
      BY CoalescedIs
    <3>2. QED
      BY <3>1, OnePiece, PieceLevels, FileKinds DEF Pieces, ToolNames
  <2>2. ProperWrite("coalesced", "build_native.py", <<"coalesced">>)
    <3>1. "build_native.py" \in Tool("coalesced").before
      BY CoalescedIs
    <3>2. QED
      BY <3>1, OnePiece, PieceLevels, FileKinds DEF Pieces, ToolNames
  <2>3. QED
    BY <2>1, <2>2, CoalescedIs, TwoWrites DEF Probe, Cpu, Board, Ppu
<1>18. Proper("dispatch")
  <2>1. ProperWrite("dispatch", "build_native.py", <<"dispatch">>)
    <3>1. "build_native.py" \in Tool("dispatch").before
      BY DispatchIs
    <3>2. QED
      BY <3>1, OnePiece, PieceLevels, FileKinds DEF Pieces, ToolNames
  <2>2. ProperWrite("dispatch", "verify_native_cpu.py", <<"dispatch">>)
    <3>1. "verify_native_cpu.py" \in Tool("dispatch").before
      BY DispatchIs
    <3>2. QED
      BY <3>1, OnePiece, PieceLevels, FileKinds DEF Pieces, ToolNames
  <2>3. QED
    BY <2>1, <2>2, DispatchIs, TwoWrites DEF Probe, Cpu, Board, Ppu
<1>19. Proper("paletteReads")
  <2>1. ProperWrite("paletteReads", "native.s", <<"paletteReads">>)
    <3>1. "native.s" \in Tool("paletteReads").before
      BY PaletteReadsIs
    <3>2. QED
      BY <3>1, OnePiece, PieceLevels, FileKinds DEF Pieces, ToolNames
  <2>2. ProperWrite("paletteReads", "native_ppudata.inc", <<"paletteReads">>)
    <3>1. "native_ppudata.inc" \in Tool("paletteReads").before
      BY PaletteReadsIs
    <3>2. QED
      BY <3>1, OnePiece, PieceLevels, FileKinds DEF Pieces, ToolNames
  <2>3. ProperWrite("paletteReads", "README.md", <<"paletteReads">>)
    <3>1. "README.md" \in Tool("paletteReads").before
      BY PaletteReadsIs
    <3>2. QED
      BY <3>1, OnePiece, PieceLevels, FileKinds DEF Pieces, ToolNames
  <2>4. QED
    BY <2>1, <2>2, <2>3, PaletteReadsIs, ThreeWrites DEF Probe, Cpu, Board, Ppu
<1>20. QED
  BY <1>1, <1>2, <1>3, <1>4, <1>5, <1>6, <1>7, <1>8, <1>9, <1>10, <1>11, <1>12, <1>13, <1>14, <1>15, <1>16, <1>17, <1>18, <1>19
     DEF ToolNames

-----------------------------------------------------------------------------
\* How the tools stand to one another.

\* A tool puts the piece into the source.
Puts(n, f, p) ==
  \E i \in DOMAIN Tool(n).writes :
    Tool(n).writes[i][1] = f /\ f \notin Headers /\ Has(Tool(n).writes[i][2], p)

\* The tools below each tool.
LEMMA LayersByName ==
  /\ \A n \in ToolNames \ {"map", "wram", "cpuio", "ppu", "chr"} : LayersOf(n) = {n}
  /\ LayersOf("map") = {"stimulus2048", "map"}
  /\ LayersOf("wram") = {"stimulus2048", "wram"}
  /\ LayersOf("cpuio") = {"stimulus2048", "wram", "cpuio"}
  /\ LayersOf("ppu") = {"stimulus2048", "wram", "cpuio", "ppu"}
  /\ LayersOf("chr") = {"stimulus2048", "wram", "cpuio", "ppu", "chr"}
<1>1. \A n : Contains(Chain, n) <=> n \in {"stimulus2048", "wram", "cpuio", "ppu", "chr"}
  BY DEF Contains, Chain
<1>2. LayersOf("map") = {"stimulus2048", "map"}
  BY <1>1, MapIs DEF LayersOf
<1>3. DOMAIN Chain = 1 .. 5 /\ Len(Chain) = 5
  BY DEF Chain
<1>4. ASSUME NEW k \in 1 .. 5
      PROVE  LayersOf(Chain[k]) = {Chain[i] : i \in 1 .. k}
  <2>1. Contains(Chain, Chain[k])
    BY <1>1, <1>4 DEF Chain
  <2>2. {j \in DOMAIN Chain : \E h \in j .. Len(Chain) : Chain[h] = Chain[k]} = 1 .. k
    BY <1>3, <1>4 DEF Chain
  <2>3. QED
    BY <2>1, <2>2 DEF LayersOf
<1>5. /\ LayersOf("stimulus2048") = {"stimulus2048"}
      /\ LayersOf("wram") = {"stimulus2048", "wram"}
  BY <1>4 DEF Chain
<1>6. LayersOf("cpuio") = {"stimulus2048", "wram", "cpuio"}
  BY <1>4 DEF Chain
<1>7. LayersOf("ppu") = {"stimulus2048", "wram", "cpuio", "ppu"}
  BY <1>4 DEF Chain
<1>8. LayersOf("chr") = {"stimulus2048", "wram", "cpuio", "ppu", "chr"}
  BY <1>4 DEF Chain
<1>9. \A n \in ToolNames \ {"stimulus2048", "map", "wram", "cpuio", "ppu", "chr"} : Tool(n).base = "none"
  BY Stimulus512Is, CycleIs, BoundaryIs, IdleIs, PlayIs, DmaIs, IdleHostIs, ProfileIs, CostsIs,
     IndirectXIs, CoalescedIs, DispatchIs, PaletteReadsIs DEF ToolNames
<1>10. \A n \in ToolNames \ {"stimulus2048", "map", "wram", "cpuio", "ppu", "chr"} : LayersOf(n) = {n}
  BY <1>1, <1>9 DEF LayersOf, ToolNames
<1>11. QED
  BY <1>2, <1>5, <1>6, <1>7, <1>8, <1>10

\* The tool each tool builds on.
LEMMA Bases ==
  /\ \A n \in ToolNames \ {"map", "wram", "cpuio", "ppu", "chr"} : Tool(n).base = "none"
  /\ Tool("map").base = "stimulus2048" /\ Tool("wram").base = "stimulus2048"
  /\ Tool("cpuio").base = "wram" /\ Tool("ppu").base = "cpuio" /\ Tool("chr").base = "ppu"
<1>1. \A n \in ToolNames \ {"map", "wram", "cpuio", "ppu", "chr"} : Tool(n).base = "none"
  BY Stimulus512Is, Stimulus2048Is, CycleIs, BoundaryIs, IdleIs, PlayIs, DmaIs, IdleHostIs,
     ProfileIs, CostsIs, IndirectXIs, CoalescedIs, DispatchIs, PaletteReadsIs DEF ToolNames
<1>2. QED
  BY <1>1, MapIs, WramIs, CpuioIs, PpuIs, ChrIs

\* A base lies below its tool, and leaves the header the tool expects.
LEMMA BaseBelow ==
  ASSUME NEW n \in ToolNames, Tool(n).base # "none"
  PROVE  /\ Tool(n).base \in ToolNames
         /\ Rank(Tool(n).base) < Rank(n)
         /\ \E i \in DOMAIN Tool(Tool(n).base).writes :
              Tool(Tool(n).base).writes[i] = <<Probe, Tool(n).under>>
         /\ LayersOf(n) = LayersOf(Tool(n).base) \cup {n}
<1>1. n \in {"map", "wram", "cpuio", "ppu", "chr"}
  BY Bases
<1>2. Tool(n).base \in ToolNames /\ Rank(Tool(n).base) < Rank(n)
  BY <1>1, Bases, PieceLevels DEF ToolNames
<1>3. LayersOf(n) = LayersOf(Tool(n).base) \cup {n}
  <2>1. LayersOf("stimulus2048") = {"stimulus2048"}
    BY LayersByName DEF ToolNames
  <2>2. QED
    BY <1>1, <2>1, Bases, LayersByName
<1>4. \E i \in DOMAIN Tool(Tool(n).base).writes : Tool(Tool(n).base).writes[i] = <<Probe, Tool(n).under>>
  <2>1. 1 \in DOMAIN Tool("stimulus2048").writes /\ Tool("stimulus2048").writes[1] = <<Probe, <<"large">>>>
    BY Stimulus2048Is
  <2>2. 2 \in DOMAIN Tool("wram").writes /\ Tool("wram").writes[2] = <<Probe, WramLayers>>
    BY WramIs
  <2>3. 2 \in DOMAIN Tool("cpuio").writes /\ Tool("cpuio").writes[2] = <<Probe, CpuIoLayers>>
    BY CpuioIs
  <2>4. 3 \in DOMAIN Tool("ppu").writes /\ Tool("ppu").writes[3] = <<Probe, PpuLayers>>
    BY PpuIs
  <2>5. /\ Tool("map").under = <<"large">> /\ Tool("wram").under = <<"large">>
        /\ Tool("cpuio").under = WramLayers /\ Tool("ppu").under = CpuIoLayers
        /\ Tool("chr").under = PpuLayers
    BY MapIs, WramIs, CpuioIs, PpuIs, ChrIs
  <2>6. QED
    BY <1>1, <2>1, <2>2, <2>3, <2>4, <2>5, Bases
<1>5. QED
  BY <1>2, <1>3, <1>4

\* What the stacked observers put where.
LEMMA PutByName ==
  /\ \A f, p : Puts("stimulus2048", f, p) <=> f = Cpu /\ p \in {"stimulusInclude", "stimulus"}
  /\ \A f, p : ~Puts("map", f, p)
  /\ \A f, p : Puts("wram", f, p) <=> f = Board /\ p = "wramGetter"
  /\ \A f, p : Puts("cpuio", f, p) <=> f = Board /\ p = "cpuGetter"
  /\ \A f, p : Puts("ppu", f, p) <=> (f = Ppu /\ p = "ppuGetter") \/ (f = Board /\ p = "fillGetter")
  /\ \A f, p : Puts("chr", f, p) <=> f = Board /\ p = "chrGetter"
<1>1. \A f, p : Puts("stimulus2048", f, p) <=> f = Cpu /\ p \in {"stimulusInclude", "stimulus"}
  BY Stimulus2048Is, ShortTexts, FileKinds DEF Puts
<1>2. \A f, p : ~Puts("map", f, p)
  BY MapIs, FileKinds DEF Puts
<1>3. \A f, p : Puts("wram", f, p) <=> f = Board /\ p = "wramGetter"
  BY WramIs, ShortTexts, FileKinds DEF Puts
<1>4. \A f, p : Puts("cpuio", f, p) <=> f = Board /\ p = "cpuGetter"
  BY CpuioIs, ShortTexts, FileKinds DEF Puts
<1>5. \A f, p : Puts("ppu", f, p) <=> (f = Ppu /\ p = "ppuGetter") \/ (f = Board /\ p = "fillGetter")
  BY PpuIs, ShortTexts, FileKinds DEF Puts
<1>6. \A f, p : Puts("chr", f, p) <=> f = Board /\ p = "chrGetter"
  BY ChrIs, ShortTexts, FileKinds DEF Puts
<1>7. QED
  BY <1>1, <1>2, <1>3, <1>4, <1>5, <1>6

\* No tool writes what an editor leaves behind, and only the two stimulus tools put
\* the calls into the dispatcher.
LEMMA OwnPieces ==
  ASSUME NEW n \in ToolNames, NEW f, NEW p, Puts(n, f, p)
  PROVE  p \notin Foreign /\ (p = "stimulus" => n \in {"stimulus512", "stimulus2048"})
<1>1. n = "stimulus512" => p \notin Foreign
  BY Stimulus512Is, ShortTexts, FileKinds DEF Puts, Foreign
<1>2. n = "stimulus2048" => p \notin Foreign
  BY Stimulus2048Is, ShortTexts, FileKinds DEF Puts, Foreign
<1>3. n = "map" => p \notin Foreign /\ p # "stimulus"
  BY MapIs, ShortTexts, FileKinds DEF Puts, Foreign
<1>4. n = "wram" => p \notin Foreign /\ p # "stimulus"
  BY WramIs, ShortTexts, FileKinds DEF Puts, Foreign
<1>5. n = "cpuio" => p \notin Foreign /\ p # "stimulus"
  BY CpuioIs, ShortTexts, FileKinds DEF Puts, Foreign
<1>6. n = "ppu" => p \notin Foreign /\ p # "stimulus"
  BY PpuIs, ShortTexts, FileKinds DEF Puts, Foreign
<1>7. n = "chr" => p \notin Foreign /\ p # "stimulus"
  BY ChrIs, ShortTexts, FileKinds DEF Puts, Foreign
<1>8. n = "cycle" => p \notin Foreign /\ p # "stimulus"
  BY CycleIs, ShortTexts, FileKinds DEF Puts, Foreign
<1>9. n = "boundary" => p \notin Foreign /\ p # "stimulus"
  BY BoundaryIs, ShortTexts, FileKinds DEF Puts, Foreign
<1>10. n = "idle" => p \notin Foreign /\ p # "stimulus"
  BY IdleIs, ShortTexts, FileKinds DEF Puts, Foreign
<1>11. n = "play" => p \notin Foreign /\ p # "stimulus"
  BY PlayIs, ShortTexts, FileKinds DEF Puts, Foreign
<1>12. n = "dma" => p \notin Foreign /\ p # "stimulus"
  BY DmaIs, ShortTexts, FileKinds DEF Puts, Foreign
<1>13. n = "idleHost" => p \notin Foreign /\ p # "stimulus"
  BY IdleHostIs, ShortTexts, FileKinds DEF Puts, Foreign
<1>14. n = "profile" => p \notin Foreign /\ p # "stimulus"
  BY ProfileIs, ShortTexts, FileKinds DEF Puts, Foreign
<1>15. n = "costs" => p \notin Foreign /\ p # "stimulus"
  BY CostsIs, ShortTexts, FileKinds DEF Puts, Foreign
<1>16. n = "indirectX" => p \notin Foreign /\ p # "stimulus"
  BY IndirectXIs, ShortTexts, FileKinds DEF Puts, Foreign
<1>17. n = "coalesced" => p \notin Foreign /\ p # "stimulus"
  BY CoalescedIs, ShortTexts, FileKinds DEF Puts, Foreign
<1>18. n = "dispatch" => p \notin Foreign /\ p # "stimulus"
  BY DispatchIs, ShortTexts, FileKinds DEF Puts, Foreign
<1>19. n = "paletteReads" => p \notin Foreign /\ p # "stimulus"
  BY PaletteReadsIs, ShortTexts, FileKinds DEF Puts, Foreign
<1>20. QED
  BY <1>1, <1>2, <1>3, <1>4, <1>5, <1>6, <1>7, <1>8, <1>9, <1>10, <1>11, <1>12, <1>13, <1>14, <1>15, <1>16, <1>17, <1>18, <1>19 DEF ToolNames

\* The calls and the line that includes the header are written together.
LEMMA LineWithCalls ==
  ASSUME NEW n \in ToolNames, NEW i \in DOMAIN Tool(n).writes, Tool(n).writes[i][1] \notin Headers,
         Has(Tool(n).writes[i][2], "stimulus")
  PROVE  Has(Tool(n).writes[i][2], "stimulusInclude")
<1>1. Puts(n, Tool(n).writes[i][1], "stimulus")
  BY DEF Puts
<1>2. n \in {"stimulus512", "stimulus2048"}
  BY <1>1, OwnPieces
<1>3. CASE n = "stimulus512"
  BY <1>3, Stimulus512Is, ShortTexts, FileKinds
<1>4. CASE n = "stimulus2048"
  BY <1>4, Stimulus2048Is, ShortTexts, FileKinds
<1>5. QED
  BY <1>2, <1>3, <1>4

\* The sessions: sets of tools that hold the bases of their members.
LEMMA SessionsClosed ==
  ASSUME NEW S \in PatchSessions
  PROVE  /\ S \subseteq ToolNames /\ S # {}
         /\ \A n \in S : LayersOf(n) \subseteq S /\ (Tool(n).base # "none" => Tool(n).base \in S)
<1>1. S \subseteq ToolNames /\ S # {}
  BY DEF PatchSessions, ToolNames
<1>2. S \cap {"map", "wram", "cpuio", "ppu", "chr"} # {} =>
        {"stimulus2048", "map", "wram", "cpuio", "ppu", "chr"} \subseteq S
  BY DEF PatchSessions
<1>3. ASSUME NEW n \in S
      PROVE  LayersOf(n) \subseteq S
  <2>1. CASE n \in {"map", "wram", "cpuio", "ppu", "chr"}
    <3>1. {"stimulus2048", "map", "wram", "cpuio", "ppu", "chr"} \subseteq S
      BY <1>2, <1>3, <2>1
    <3>2. LayersOf(n) \subseteq {"stimulus2048", "map", "wram", "cpuio", "ppu", "chr"}
      BY <2>1, LayersByName
    <3>3. QED
      BY <3>1, <3>2
  <2>2. CASE n \notin {"map", "wram", "cpuio", "ppu", "chr"}
    BY <1>1, <1>3, <2>2, LayersByName
  <2>3. QED
    BY <2>1, <2>2
<1>4. \A n \in S : Tool(n).base # "none" => Tool(n).base \in S
  BY <1>1, <1>2, Bases
<1>5. QED
  BY <1>1, <1>3, <1>4

\* The observers of the board: a later one has the earlier ones below it.
Getters == {"wramGetter", "cpuGetter", "fillGetter", "chrGetter"}

\* A tool that writes a getter stands on one that writes each getter of lower level.
LEMMA GettersBelow ==
  ASSUME NEW n \in ToolNames, NEW q \in Getters, Level(q) = Rank(n),
         NEW p \in Getters, Level(p) < Level(q)
  PROVE  Tool(n).base # "none" /\ \E m \in LayersOf(Tool(n).base) : Puts(m, Board, p)
<1>1. /\ Level("wramGetter") = 1 /\ Level("cpuGetter") = 2 /\ Level("fillGetter") = 3
      /\ Level("chrGetter") = 4
  BY PieceLevels
<1>2. /\ Puts("wram", Board, "wramGetter") /\ Puts("cpuio", Board, "cpuGetter")
      /\ Puts("ppu", Board, "fillGetter")
  BY PutByName
<1>3. n \in {"map", "wram", "cpuio", "ppu", "chr"}
  BY <1>1, PieceLevels DEF Getters
<1>4. CASE n \in {"map", "wram"}
  BY <1>1, <1>4, PieceLevels DEF Getters
<1>5. CASE n = "cpuio"
  <2>1. p = "wramGetter"
    BY <1>1, <1>5, PieceLevels DEF Getters
  <2>2. QED
    BY <1>2, <1>5, <2>1, Bases, LayersByName
<1>6. CASE n = "ppu"
  <2>1. p \in {"wramGetter", "cpuGetter"}
    BY <1>1, <1>6, PieceLevels DEF Getters
  <2>2. QED
    BY <1>2, <1>6, <2>1, Bases, LayersByName
<1>7. CASE n = "chr"
  <2>1. p \in {"wramGetter", "cpuGetter", "fillGetter"}
    BY <1>1, <1>7, PieceLevels DEF Getters
  <2>2. QED
    BY <1>2, <1>7, <2>1, Bases, LayersByName
<1>8. QED
  BY <1>3, <1>4, <1>5, <1>6, <1>7

-----------------------------------------------------------------------------
\* The files: every piece once, no calls without the line that includes their header,
\* and no observer of the board without those below it, unless an edit has damaged the
\* file.
TextInv(s) ==
  /\ s \in Seq(Pieces) /\ \A p : p \notin Foreign => AtMostOnce(s, p)
  /\ Has(s, "stimulus") => Has(s, "stimulusInclude") \/ Has(s, "moved")

BoardInv(s) ==
  \A p, q \in Getters : Level(p) < Level(q) /\ Has(s, q) => Has(s, p) \/ Has(s, "moved")

TreeInv ==
  /\ DOMAIN tree = FilesOf(tools)
  /\ \A f \in FilesOf(tools) \ Headers : TextInv(tree[f])
  /\ Board \in FilesOf(tools) => BoardInv(tree[Board])

\* A piece is in its file, or an edit has damaged the file.
Standing(f, p) == Has(tree[f], p) \/ Has(tree[f], "moved")

LayersIn(n) == \A m \in LayersOf(n) : \A f, p : Puts(m, f, p) => Standing(f, p)

\* What a tool has put there itself, and the calls its observation hangs on.
OwnIn(n) == \A f, p : Puts(n, f, p) => Has(tree[f], p)

HooksIn(n) == "stimulus2048" \in LayersOf(n) => Has(tree[Cpu], "stimulus")

HeadersIn(n) ==
  \A i \in DOMAIN Tool(n).writes :
    Tool(n).writes[i][1] \in Headers =>
      tree[Tool(n).writes[i][1]] = Expected(Tool(n).writes[i][1], Tool(n).writes[i][2])

\* What a tool has still to write is not there; what it has written is.
AbsentFrom(n, k) ==
  \A i \in DOMAIN Tool(n).writes :
    i >= k /\ Tool(n).writes[i][1] \notin Headers =>
      \A p : Has(Tool(n).writes[i][2], p) => ~Has(tree[Tool(n).writes[i][1]], p)

DoneBefore(n, k) ==
  \A i \in DOMAIN Tool(n).writes :
    i < k => IF Tool(n).writes[i][1] \in Headers
             THEN tree[Tool(n).writes[i][1]] = Expected(Tool(n).writes[i][1], Tool(n).writes[i][2])
             ELSE \A p : Has(Tool(n).writes[i][2], p) => Has(tree[Tool(n).writes[i][1]], p)

\* The running tools: each one below the one that called it.
StackInv ==
  /\ stack \in Seq(tools)
  /\ \A s \in 1 .. Len(stack) - 1 : stack[s + 1] = Tool(stack[s]).base
  /\ \A s, u \in 1 .. Len(stack) : s < u => Rank(stack[u]) < Rank(stack[s])
  /\ \A n : \A s \in 1 .. Len(stack) - 1 : stack[s] = n => AbsentFrom(n, 1)

\* The innermost of them, in each phase.
Confirming(n) ==
  /\ Tool(n).base # "none" /\ LayersIn(Tool(n).base) /\ HooksIn(Tool(n).base)
  /\ AbsentFrom(n, 1)
  /\ tree[Probe] = Expected(Probe, Tool(n).under)

Writing(n, k) ==
  /\ Tool(n).base # "none" => LayersIn(Tool(n).base) /\ HooksIn(Tool(n).base)
  /\ AbsentFrom(n, k) /\ DoneBefore(n, k)

PhaseInv ==
  /\ phase \in {"check", "confirm", "write"} /\ step \in Nat \ {0} /\ wrote \in BOOLEAN
  /\ (phase # "write" => step = 1) /\ (~Running => phase = "check")
  /\ Running => outcome = NoOutcome
  /\ Running /\ phase = "check" => wrote = FALSE
  /\ Running /\ phase = "confirm" => \A n : n = Last(stack) => Confirming(n)
  /\ Running /\ phase = "write" => \A n, k : n = Last(stack) /\ k = step => Writing(n, k)

Stands(n) == n \in tools /\ LayersIn(n) /\ OwnIn(n) /\ HooksIn(n) /\ HeadersIn(n)

OutcomeInv ==
  /\ outcome.what \in {"installed", "already"} => \A n : n = outcome.tool => Stands(n)
  /\ outcome.what = "refused" => wrote = FALSE

PatchInv ==
  /\ tools \in PatchSessions
  /\ TreeInv /\ StackInv /\ PhaseInv /\ OutcomeInv

-----------------------------------------------------------------------------
\* What the tools' tests show.
LEMMA WrittenFiles ==
  ASSUME NEW n \in tools, NEW i \in DOMAIN Tool(n).writes
  PROVE  Tool(n).writes[i][1] \in FilesOf(tools)
  BY DEF FilesOf, ToSet

\* What a tool of the session writes, outside the headers, is a file of the tree.
LEMMA PutFiles ==
  ASSUME NEW n \in tools, NEW f, NEW p, Puts(n, f, p)
  PROVE  f \in FilesOf(tools) \ Headers
  BY WrittenFiles DEF Puts

\* The innermost tool is the last on the stack, and one of the session.
LEMMA InnerIs ==
  ASSUME StackInv, Running
  PROVE  /\ Len(stack) \in Nat \ {0} /\ Last(stack) = stack[Len(stack)]
         /\ Last(stack) \in tools /\ Inner = Tool(Last(stack))
  BY DEF StackInv, Running, Idle, Last, Inner

\* A tool that finds no mark and a text it knows has none of its pieces there.
LEMMA CleanIsAbsent ==
  ASSUME tools \in PatchSessions, TreeInv, NEW n \in tools, ~Marked(Tool(n)), Ready(Tool(n))
  PROVE  AbsentFrom(n, 1)
<1> SUFFICES ASSUME NEW i \in DOMAIN Tool(n).writes, Tool(n).writes[i][1] \notin Headers,
                    NEW p, Has(Tool(n).writes[i][2], p)
             PROVE  ~Has(tree[Tool(n).writes[i][1]], p)
  BY DEF AbsentFrom
<1> DEFINE f == Tool(n).writes[i][1]
<1>1. n \in ToolNames
  BY SessionsClosed
<1>2. ProperWrite(n, f, Tool(n).writes[i][2])
  BY <1>1, AllProper DEF Proper
<1>3. p # "pinned" /\ (<<f, p>> \in Tool(n).mark \cup Tool(n).clean \/ f \in Tool(n).before)
  BY <1>2 DEF ProperWrite
<1>4. f \in FilesOf(tools) \ Headers
  BY WrittenFiles
<1>5. f \in DOMAIN tree /\ tree[f] \in Seq(Pieces)
  BY <1>4 DEF TreeInv, TextInv
<1>6. Occurs(f, p) \in Nat /\ (Occurs(f, p) = 0 => ~Has(tree[f], p))
  BY <1>5, OccursHas
<1> HIDE DEF f
<1>7. CASE <<f, p>> \in Tool(n).mark
  <2>1. ~(Occurs(f, p) > 0)
    BY <1>5, <1>7 DEF Marked
  <2>2. QED
    BY <1>6, <2>1 DEF f
<1>8. CASE <<f, p>> \in Tool(n).clean
  <2>1. Occurs(f, p) = 0
    BY <1>8 DEF Ready
  <2>2. QED
    BY <1>6, <2>1 DEF f
<1>9. CASE f \in Tool(n).before
  <2>1. tree[f] = <<"pinned">>
    BY <1>4, <1>9 DEF Ready, Pristine
  <2>2. QED
    BY <1>3, <2>1, ShortTexts DEF f
<1>10. QED
  BY <1>3, <1>7, <1>8, <1>9

\* Tools that count all their pieces, that have a single one, or that know
\* their results.
LEMMA Counted ==
  /\ \A n \in {"stimulus512", "stimulus2048", "cycle", "boundary", "idle", "idleHost", "dma"} :
       \A f, p : Puts(n, f, p) => <<f, p>> \in Tool(n).once
  /\ \A n \in {"profile", "costs"} : \A f, p : Puts(n, f, p) => Tool(n).mark = {<<f, p>>}
  /\ \A f, p : Puts("paletteReads", f, p) => <<f, <<p>>>> \in Tool("paletteReads").exact
<1>1. \A f, p : Puts("stimulus512", f, p) => <<f, p>> \in Tool("stimulus512").once
  BY Stimulus512Is, ShortTexts, FileKinds DEF Puts, StimulusHooks
<1>2. \A f, p : Puts("stimulus2048", f, p) => <<f, p>> \in Tool("stimulus2048").once
  BY Stimulus2048Is, ShortTexts, FileKinds DEF Puts, StimulusHooks
<1>3. \A f, p : Puts("cycle", f, p) => <<f, p>> \in Tool("cycle").once
  BY CycleIs, ShortTexts, FileKinds DEF Puts
<1>4. \A f, p : Puts("boundary", f, p) => <<f, p>> \in Tool("boundary").once
  BY BoundaryIs, ShortTexts, FileKinds DEF Puts
<1>5. \A f, p : Puts("idle", f, p) => <<f, p>> \in Tool("idle").once
  BY IdleIs, ShortTexts, FileKinds DEF Puts
<1>6. \A f, p : Puts("idleHost", f, p) => <<f, p>> \in Tool("idleHost").once
  BY IdleHostIs, ShortTexts, FileKinds DEF Puts
<1>7. \A f, p : Puts("dma", f, p) => <<f, p>> \in Tool("dma").once
  BY DmaIs, ShortTexts, FileKinds DEF Puts
<1>8. \A f, p : Puts("profile", f, p) => Tool("profile").mark = {<<f, p>>}
  BY ProfileIs, ShortTexts DEF Puts
<1>9. \A f, p : Puts("costs", f, p) => Tool("costs").mark = {<<f, p>>}
  BY CostsIs, ShortTexts DEF Puts
<1>10. \A f, p : Puts("paletteReads", f, p) => <<f, <<p>>>> \in Tool("paletteReads").exact
  BY PaletteReadsIs, ShortTexts DEF Puts
<1>11. QED
  BY <1>1, <1>2, <1>3, <1>4, <1>5, <1>6, <1>7, <1>8, <1>9, <1>10

\* The observers of the timeline count the hooks in the dispatcher.
LEMMA HooksCounted ==
  \A n \in {"map", "wram", "cpuio", "ppu", "chr"} :
    <<Cpu, "stimulus">> \in Tool(n).once
  BY MapIs, WramIs, CpuioIs, PpuIs, ChrIs DEF StimulusHooks, DispatchHooks

\* A hook that a whole tool counts stands where it was put.
LEMMA CountedStands ==
  ASSUME TreeInv, NEW n, Whole(Tool(n)), NEW f \in FilesOf(tools) \ Headers, NEW p,
         <<f, p>> \in Tool(n).once
  PROVE  Has(tree[f], p)
<1>1. tree[f] \in Seq(Pieces)
  BY DEF TreeInv, TextInv
<1>2. Occurs(f, p) = 1
  BY DEF Whole
<1>3. QED
  BY <1>1, <1>2, OccursHas

\* The pieces a whole tool reads at the end of a file are in the file.
LEMMA EndStands ==
  ASSUME TreeInv, NEW n, Whole(Tool(n)), NEW f \in FilesOf(tools) \ Headers, NEW q \in Seq(Pieces),
         <<f, q>> \in Tool(n).ends, NEW k \in DOMAIN q
  PROVE  Has(tree[f], q[k])
<1>1. tree[f] \in Seq(Pieces)
  BY DEF TreeInv, TextInv
<1>2. IsSuffix(q, tree[f])
  BY DEF Whole
<1>3. QED
  BY <1>1, <1>2, SuffixHas

\* The board has an observer: it has those below.
LEMMA BelowStands ==
  ASSUME TreeInv, Board \in FilesOf(tools), NEW p \in Getters, NEW q \in Getters,
         Level(p) < Level(q), Has(tree[Board], q)
  PROVE  Standing(Board, p)
  BY DEF TreeInv, BoardInv, Standing

\* A tool with nothing below it stands on its own pieces.
LEMMA AloneStands ==
  ASSUME NEW n, LayersOf(n) = {n}, \A f, p : Puts(n, f, p) => Has(tree[f], p)
  PROVE  LayersIn(n) /\ OwnIn(n) /\ HooksIn(n)
<1>1. LayersIn(n) /\ OwnIn(n)
  BY DEF LayersIn, OwnIn, Standing
<1>2. HooksIn(n)
  BY PutByName DEF HooksIn
<1>3. QED
  BY <1>1, <1>2

\* A marked tree that passes its tool's test holds every layer of it.
LEMMA WholeIsInstalled ==
  ASSUME tools \in PatchSessions, TreeInv, NEW n \in tools, Marked(Tool(n)), Whole(Tool(n)),
         Tool(n).again = 0
  PROVE  LayersIn(n) /\ OwnIn(n) /\ HooksIn(n) /\ HeadersIn(n)
<1>1. n \in ToolNames /\ LayersOf(n) \subseteq tools
  BY SessionsClosed
<1>2. HeadersIn(n)
  <2>1. \A i \in DOMAIN Tool(n).writes :
          Tool(n).writes[i][1] \in Headers =>
            <<Tool(n).writes[i][1], Tool(n).writes[i][2]>> \in Tool(n).exact
    BY <1>1, AllProper DEF Proper, ProperWrite
  <2>2. QED
    BY <2>1 DEF HeadersIn, Whole
<1>3. ASSUME NEW m \in LayersOf(n), NEW f, NEW p, Puts(m, f, p)
      PROVE  f \in FilesOf(tools) \ Headers /\ tree[f] \in Seq(Pieces)
  BY <1>1, <1>3, PutFiles DEF TreeInv, TextInv
<1>4. CASE n \in {"stimulus512", "stimulus2048", "cycle", "boundary", "idle", "idleHost", "dma"}
  <2>1. LayersOf(n) = {n}
    BY <1>1, <1>4, LayersByName
  <2>2. \A f, p : Puts(n, f, p) => Has(tree[f], p)
    BY <1>3, <1>4, <2>1, Counted, CountedStands
  <2>3. QED
    BY <1>2, <2>1, <2>2, AloneStands
<1>5. CASE n \in {"profile", "costs"}
  <2>1. LayersOf(n) = {n}
    BY <1>1, <1>5, LayersByName
  <2>2. ASSUME NEW f, NEW p, Puts(n, f, p)
        PROVE  Has(tree[f], p)
    <3>1. Occurs(f, p) > 0
      BY <1>5, <2>2, Counted DEF Marked
    <3>2. tree[f] \in Seq(Pieces)
      BY <1>3, <2>1, <2>2
    <3>3. QED
      BY <3>1, <3>2, OccursHas
  <2>3. QED
    BY <1>2, <2>1, <2>2, AloneStands
<1>6. CASE n = "paletteReads"
  <2>1. LayersOf(n) = {n}
    BY <1>1, <1>6, LayersByName
  <2>2. ASSUME NEW f, NEW p, Puts(n, f, p)
        PROVE  Has(tree[f], p)
    <3>1. <<f, <<p>>>> \in Tool(n).exact /\ f \notin Headers
      BY <1>3, <1>6, <2>1, <2>2, Counted
    <3>2. p = "paletteReads"
      BY <1>6, <2>2, PaletteReadsIs, ShortTexts DEF Puts
    <3>3. tree[f] = <<"pinned">> \o <<p>>
      BY <3>1 DEF Whole, Expected
    <3>4. <<"pinned">> \in Seq(Pieces) /\ <<p>> \in Seq(Pieces)
      BY <3>2 DEF Pieces
    <3>5. QED
      <4>1. Has(<<p>>, p)
        BY ShortTexts
      <4>2. QED
        BY <3>3, <3>4, <4>1, JoinedHas
  <2>3. QED
    BY <1>2, <2>1, <2>2, AloneStands
<1>7. CASE n \in {"indirectX", "coalesced", "dispatch"}
  <2>1. Tool(n).mark = {}
    BY <1>7, IndirectXIs, CoalescedIs, DispatchIs
  <2>2. QED
    BY <2>1 DEF Marked
<1>8. CASE n \in {"map", "wram", "cpuio", "ppu", "chr"}
  <2>1. "stimulus2048" \in LayersOf(n) /\ LayersOf(n) \subseteq {"stimulus2048", "map", "wram", "cpuio", "ppu", "chr"}
    BY <1>8, LayersByName
  <2>2. /\ Has(tree[Cpu], "stimulus") /\ HooksIn(n)
        /\ \A f, p : Puts("stimulus2048", f, p) => Standing(f, p)
    <3>1. Cpu \in FilesOf(tools) \ Headers
      BY <1>3, <2>1, PutByName
    <3>2. <<Cpu, "stimulus">> \in Tool(n).once
      BY <1>8, HooksCounted
    <3>3. Has(tree[Cpu], "stimulus")
      BY <3>1, <3>2, CountedStands
    <3>4. Standing(Cpu, "stimulusInclude")
      BY <3>1, <3>3 DEF TreeInv, TextInv, Standing
    <3>5. QED
      BY <3>3, <3>4, PutByName DEF HooksIn, Standing
  <2>4. ASSUME n # "map"
        PROVE  Board \in FilesOf(tools) \ Headers
    BY <1>3, <1>8, <2>4, LayersByName, PutByName
  <2>5. CASE n = "map"
    BY <1>2, <2>2, <2>5, LayersByName, PutByName DEF LayersIn, OwnIn
  <2>6. CASE n = "wram"
    <3>1. Has(tree[Board], "wramGetter")
      BY <2>4, <2>6, WramIs, CountedStands
    <3>2. LayersIn(n) /\ OwnIn(n)
      BY <2>2, <2>6, <3>1, LayersByName, PutByName DEF LayersIn, OwnIn, Standing
    <3>3. QED
      BY <1>2, <2>2, <3>2
  <2>7. CASE n = "cpuio"
    <3>1. Has(tree[Board], "cpuGetter")
      BY <2>4, <2>7, CpuioIs, CountedStands
    <3>2. Has(tree[Board], "wramGetter")
      <4>1. <<"wramGetter", "cpuGetter">> \in Seq(Pieces) /\ 1 \in DOMAIN <<"wramGetter", "cpuGetter">>
        BY DEF Pieces
      <4>2. <<Board, <<"wramGetter", "cpuGetter">>>> \in Tool(n).ends
        BY <2>7, CpuioIs
      <4>3. QED
        BY <2>4, <2>7, <4>1, <4>2, EndStands
    <3>3. LayersIn(n) /\ OwnIn(n)
      BY <2>2, <2>7, <3>1, <3>2, LayersByName, PutByName DEF LayersIn, OwnIn, Standing
    <3>4. QED
      BY <1>2, <2>2, <3>3
  <2>8. CASE n = "ppu"
    <3>1. <<"ppuGetter">> \in Seq(Pieces) /\ <<"fillGetter">> \in Seq(Pieces)
      BY DEF Pieces
    <3>2. <<Ppu, <<"ppuGetter">>>> \in Tool(n).ends /\ <<Board, <<"fillGetter">>>> \in Tool(n).ends
      BY <2>8, PpuIs
    <3>3. Ppu \in FilesOf(tools) \ Headers
      BY <1>3, <2>8, LayersByName, PutByName
    <3>4. Has(tree[Ppu], "ppuGetter") /\ Has(tree[Board], "fillGetter")
      <4>1. Has(tree[Ppu], <<"ppuGetter">>[1])
        BY <3>1, <3>2, <3>3, EndStands
      <4>2. Has(tree[Board], <<"fillGetter">>[1])
        BY <2>4, <2>8, <3>1, <3>2, EndStands
      <4>3. QED
        BY <4>1, <4>2
    <3>5. Standing(Board, "wramGetter") /\ Standing(Board, "cpuGetter")
      BY <2>4, <2>8, <3>4, BelowStands, PieceLevels DEF Getters
    <3>6. LayersIn(n) /\ OwnIn(n)
      BY <2>2, <2>8, <3>4, <3>5, LayersByName, PutByName DEF LayersIn, OwnIn, Standing
    <3>7. QED
      BY <1>2, <2>2, <3>6
  <2>9. CASE n = "chr"
    <3>1. <<"ppuGetter">> \in Seq(Pieces) /\ <<"chrGetter">> \in Seq(Pieces)
      BY DEF Pieces
    <3>2. <<Ppu, <<"ppuGetter">>>> \in Tool(n).ends /\ <<Board, <<"chrGetter">>>> \in Tool(n).ends
      BY <2>9, ChrIs
    <3>3. Ppu \in FilesOf(tools) \ Headers
      BY <1>3, <2>9, LayersByName, PutByName
    <3>4. Has(tree[Ppu], "ppuGetter") /\ Has(tree[Board], "chrGetter")
      <4>1. Has(tree[Ppu], <<"ppuGetter">>[1])
        BY <3>1, <3>2, <3>3, EndStands
      <4>2. Has(tree[Board], <<"chrGetter">>[1])
        BY <2>4, <2>9, <3>1, <3>2, EndStands
      <4>3. QED
        BY <4>1, <4>2
    <3>5. /\ Standing(Board, "wramGetter") /\ Standing(Board, "cpuGetter")
          /\ Standing(Board, "fillGetter")
      BY <2>4, <2>9, <3>4, BelowStands, PieceLevels DEF Getters
    <3>6. LayersIn(n) /\ OwnIn(n)
      BY <2>2, <2>9, <3>4, <3>5, LayersByName, PutByName DEF LayersIn, OwnIn, Standing
    <3>7. QED
      BY <1>2, <2>2, <3>6
  <2>10. QED
    BY <1>8, <2>5, <2>6, <2>7, <2>8, <2>9
<1>9. n # "play"
  BY PlayIs
<1>10. QED
  BY <1>1, <1>4, <1>5, <1>6, <1>7, <1>8, <1>9 DEF ToolNames

-----------------------------------------------------------------------------
\* The steps of a run.

\* Ranks are numbers.
LEMMA RankTyped == \A n : Rank(n) \in Nat
  BY DEF Rank

\* While no file changes, what is said of the files stays true.
LEMMA FilesKept ==
  ASSUME UNCHANGED <<tools, tree, release>>
  PROVE  /\ TreeInv => TreeInv'
         /\ \A n, k : /\ AbsentFrom(n, k) => AbsentFrom(n, k)'
                      /\ DoneBefore(n, k) => DoneBefore(n, k)'
                      /\ Writing(n, k) => Writing(n, k)'
         /\ \A n : (Confirming(n) => Confirming(n)') /\ (Stands(n) => Stands(n)')
<1>1. TreeInv => TreeInv'
  BY DEF TreeInv
<1>2. \A f, q : Expected(f, q)' = Expected(f, q)
  BY DEF Expected
<1>3. \A f, p : Standing(f, p)' <=> Standing(f, p)
  BY DEF Standing
<1>4. ASSUME NEW n
      PROVE  LayersIn(n)' <=> LayersIn(n)
  BY <1>3 DEF LayersIn
<1>5. ASSUME NEW n
      PROVE  HeadersIn(n)' <=> HeadersIn(n)
  BY <1>2 DEF HeadersIn
<1>6. ASSUME NEW n, NEW k
      PROVE  AbsentFrom(n, k)' <=> AbsentFrom(n, k)
  BY DEF AbsentFrom
<1>7. ASSUME NEW n, NEW k
      PROVE  DoneBefore(n, k)' <=> DoneBefore(n, k)
  BY <1>2 DEF DoneBefore
<1>8. ASSUME NEW n
      PROVE  (HooksIn(n)' <=> HooksIn(n)) /\ (OwnIn(n)' <=> OwnIn(n))
  BY DEF HooksIn, OwnIn
<1>9. ASSUME NEW n, NEW k
      PROVE  Writing(n, k) => Writing(n, k)'
  BY <1>4, <1>6, <1>7, <1>8 DEF Writing
<1>10. ASSUME NEW n
       PROVE  (Confirming(n) => Confirming(n)') /\ (Stands(n) => Stands(n)')
  BY <1>2, <1>4, <1>5, <1>6, <1>8 DEF Confirming, Stands
<1>11. QED
  BY <1>1, <1>6, <1>7, <1>9, <1>10

\* The run is over, and the tool that was called stands on all its layers, or
\* nothing was changed.
LEMMA LeaveKeeps ==
  ASSUME PatchInv, Running, UNCHANGED <<tools, tree, release, wrote>>, NEW what, Leave(what),
         what \in {"installed", "already"} => Stands(stack[1]),
         what = "refused" => wrote = FALSE
  PROVE  PatchInv'
<1>1. /\ stack' = <<>> /\ phase' = "check" /\ step' = 1
      /\ outcome' = [tool |-> stack[1], what |-> what]
  BY DEF Leave
<1>2. ~Running'
  BY <1>1 DEF Running, Idle
<1>3. TreeInv'
  BY FilesKept DEF PatchInv
<1>4. StackInv'
  BY <1>1 DEF StackInv
<1>5. PhaseInv'
  BY <1>1, <1>2 DEF PatchInv, PhaseInv
<1>6. OutcomeInv'
  <2>1. ASSUME NEW n, n = stack[1], what \in {"installed", "already"}
        PROVE  Stands(n)'
    BY <2>1, FilesKept
  <2>2. QED
    BY <1>1, <2>1 DEF OutcomeInv
<1>7. QED
  BY <1>3, <1>4, <1>5, <1>6 DEF PatchInv

\* The innermost tool stands on all its layers, and returns.
LEMMA ReturnKeeps ==
  ASSUME PatchInv, Running, UNCHANGED <<tools, tree, release, wrote>>,
         NEW what \in {"installed", "already"}, Return(what), Stands(Last(stack))
  PROVE  PatchInv'
<1>1. CASE Len(stack) = 1
  <2>1. Last(stack) = stack[1]
    BY <1>1, InnerIs DEF PatchInv
  <2>2. QED
    BY <1>1, <2>1, LeaveKeeps DEF Return
<1>2. CASE Len(stack) # 1
  <2> PICK k, n, m : k = Len(stack) - 1 /\ n = stack[k] /\ m = Last(stack)
    OBVIOUS
  <2>1. stack' = Front(stack) /\ phase' = "confirm" /\ step' = 1 /\ outcome' = outcome
    BY <1>2 DEF Return
  <2>2. /\ Len(stack) \in Nat /\ k \in 1 .. Len(stack) - 1 /\ k + 1 = Len(stack)
        /\ m = stack[Len(stack)] /\ stack \in Seq(tools)
    <3>1. Len(stack) \in Nat \ {0} /\ m = stack[Len(stack)]
      BY InnerIs DEF PatchInv
    <3>2. stack \in Seq(tools)
      BY DEF PatchInv, StackInv
    <3>3. QED
      BY <1>2, <3>1, <3>2
  <2>3. /\ stack' \in Seq(tools) /\ Len(stack') = k
        /\ \A s \in 1 .. k : stack'[s] = stack[s]
    BY <2>1, <2>2 DEF Front
  <2>4. Running' /\ Last(stack') = n
    BY <2>2, <2>3 DEF Running, Idle, Last
  <2>5. n \in tools /\ Tool(n).base = m /\ AbsentFrom(n, 1)
    BY <2>2 DEF PatchInv, StackInv
  <2>6. n \in ToolNames /\ m \in ToolNames
    BY <2>5, InnerIs, SessionsClosed DEF PatchInv
  <2>7. Tool(n).base # "none"
    BY <2>5, <2>6 DEF ToolNames
  <2>8. Stands(m)
    OBVIOUS
  <2>9. tree[Probe] = Expected(Probe, Tool(n).under)
    <3>1. PICK i \in DOMAIN Tool(m).writes : Tool(m).writes[i] = <<Probe, Tool(n).under>>
      BY <2>5, <2>6, <2>7, BaseBelow
    <3>2. QED
      BY <2>8, <3>1, FileKinds DEF Stands, HeadersIn
  <2>10. Confirming(n)'
    <3>1. Confirming(n)
      BY <2>5, <2>7, <2>8, <2>9 DEF Confirming, Stands
    <3>2. QED
      BY <3>1, FilesKept
  <2>11. TreeInv'
    BY FilesKept DEF PatchInv
  <2>12. StackInv'
    <3>1. \A s \in 1 .. Len(stack') - 1 : s \in 1 .. Len(stack) - 1 /\ s \in 1 .. k /\ s + 1 \in 1 .. k
      BY <2>2, <2>3
    <3>2. \A s \in 1 .. Len(stack') - 1 : stack'[s + 1] = Tool(stack'[s]).base
      BY <2>3, <3>1 DEF PatchInv, StackInv
    <3>3. \A s, u \in 1 .. Len(stack') : s < u => Rank(stack'[u]) < Rank(stack'[s])
      BY <2>2, <2>3 DEF PatchInv, StackInv
    <3>4. ASSUME NEW p, NEW s \in 1 .. Len(stack') - 1, stack'[s] = p
          PROVE  AbsentFrom(p, 1)'
      BY <2>3, <3>1, <3>4, FilesKept DEF PatchInv, StackInv
    <3>5. QED
      BY <2>3, <3>2, <3>3, <3>4 DEF StackInv
  <2>13. PhaseInv'
    BY <2>1, <2>4, <2>10 DEF PatchInv, PhaseInv
  <2>14. OutcomeInv'
    <3>1. outcome' = NoOutcome
      BY <2>1 DEF PatchInv, PhaseInv
    <3>2. outcome'.what = "none"
      BY <3>1 DEF NoOutcome
    <3>3. QED
      BY <3>2 DEF OutcomeInv
  <2>15. QED
    BY <2>11, <2>12, <2>13, <2>14 DEF PatchInv
<1>3. QED
  BY <1>1, <1>2

\* Only the play probe goes on writing in a tree that it has marked.
LEMMA OnlyPlayAgain == \A n \in ToolNames \ {"play"} : Tool(n).again = 0
<1>1. \A n \in {"map", "wram", "cpuio", "ppu", "chr", "stimulus512", "stimulus2048"} : Tool(n).again = 0
  BY Stimulus512Is, Stimulus2048Is, MapIs, WramIs, CpuioIs, PpuIs, ChrIs
<1>2. \A n \in {"cycle", "boundary", "idle", "dma", "idleHost", "profile", "costs"} : Tool(n).again = 0
  BY CycleIs, BoundaryIs, IdleIs, DmaIs, IdleHostIs, ProfileIs, CostsIs
<1>3. \A n \in {"indirectX", "coalesced", "dispatch", "paletteReads"} : Tool(n).again = 0
  BY IndirectXIs, CoalescedIs, DispatchIs, PaletteReadsIs
<1>4. QED
  BY <1>1, <1>2, <1>3 DEF ToolNames

\* A refusal before the first write.
LEMMA RefuseKeeps ==
  ASSUME PatchInv, Running, UNCHANGED <<tools, tree, release, wrote>>, wrote = FALSE, Refuse
  PROVE  PatchInv'
  BY LeaveKeeps DEF Refuse

\* The innermost tool goes on to write.
LEMMA WriteKeeps ==
  ASSUME PatchInv, Running, UNCHANGED <<tools, tree, release, wrote, stack, outcome>>,
         phase' = "write", step' \in Nat \ {0}, NEW n, n = Last(stack),
         NEW k, k = step', Writing(n, k)
  PROVE  PatchInv'
<1>1. TreeInv'
  BY FilesKept DEF PatchInv
<1>2. StackInv'
  BY FilesKept DEF PatchInv, StackInv
<1>3. Writing(n, k)'
  BY FilesKept
<1>4. Last(stack') = n /\ outcome' = NoOutcome
  BY DEF PatchInv, PhaseInv
<1>5. PhaseInv'
  <2>1. wrote' \in BOOLEAN
    BY DEF PatchInv, PhaseInv
  <2>2. Running'
    BY DEF Running, Idle
  <2>3. QED
    BY <1>3, <1>4, <2>1, <2>2 DEF PhaseInv
<1>6. OutcomeInv'
  <2>1. outcome'.what = "none"
    BY <1>4 DEF NoOutcome
  <2>2. QED
    BY <2>1 DEF OutcomeInv
<1>7. QED
  BY <1>1, <1>2, <1>5, <1>6 DEF PatchInv

\* A tool that finds its marks returns, refuses or goes on writing; no file changes.
LEMMA CheckMarkedKeeps ==
  ASSUME PatchInv, CheckMarked
  PROVE  PatchInv'
<1> PICK n : n = Last(stack)
  OBVIOUS
<1>1. /\ Running /\ phase = "check" /\ Marked(Tool(n)) /\ UNCHANGED <<tools, tree, release, wrote>>
      /\ IF Tool(n).again > 0
         THEN phase' = "write" /\ step' = Tool(n).again /\ UNCHANGED <<stack, outcome>>
         ELSE IF Whole(Tool(n)) THEN Return("already") ELSE Refuse
  BY DEF CheckMarked, Inner
<1>2. n \in tools /\ n \in ToolNames
  BY <1>1, InnerIs, SessionsClosed DEF PatchInv
<1>3. wrote = FALSE
  BY <1>1 DEF PatchInv, PhaseInv
<1>4. CASE n = "play"
  <2>1. phase' = "write" /\ step' = 2 /\ UNCHANGED <<stack, outcome>>
    BY <1>1, <1>4, PlayIs
  <2>2. Cpu \in FilesOf(tools) \ Headers
    <3>1. 1 \in DOMAIN Tool("play").writes /\ Tool("play").writes[1] = <<Cpu, <<"play">>>>
      BY PlayIs
    <3>2. QED
      BY <1>2, <1>4, <3>1, WrittenFiles, FileKinds
  <2>3. Has(tree[Cpu], "play")
    <3>1. Occurs(Cpu, "play") > 0
      BY <1>1, <1>4, PlayIs DEF Marked
    <3>2. tree[Cpu] \in Seq(Pieces)
      BY <2>2 DEF PatchInv, TreeInv, TextInv
    <3>3. QED
      BY <3>1, <3>2, OccursHas
  <2>4. AbsentFrom("play", 2)
    BY PlayIs, FileKinds DEF AbsentFrom
  <2>5. DoneBefore("play", 2)
    <3>1. ASSUME NEW p, Has(<<"play">>, p)
          PROVE  Has(tree[Cpu], p)
      BY <2>3, <3>1, ShortTexts
    <3>2. QED
      BY <2>2, <3>1, PlayIs DEF DoneBefore
  <2>6. Writing("play", 2)
    BY <2>4, <2>5, PlayIs DEF Writing
  <2>7. QED
    BY <1>1, <1>4, <2>1, <2>6, WriteKeeps
<1>5. CASE n # "play"
  <2>1. Tool(n).again = 0
    BY <1>2, <1>5, OnlyPlayAgain
  <2>2. CASE Whole(Tool(n))
    <3>1. Return("already")
      BY <1>1, <2>1, <2>2
    <3>2. Stands(n)
      BY <1>1, <1>2, <2>1, <2>2, WholeIsInstalled DEF PatchInv, Stands
    <3>3. QED
      BY <1>1, <3>1, <3>2, ReturnKeeps
  <2>3. CASE ~Whole(Tool(n))
    <3>1. Refuse
      BY <1>1, <2>1, <2>3
    <3>2. QED
      BY <1>1, <1>3, <3>1, RefuseKeeps
  <2>4. QED
    BY <2>2, <2>3
<1>6. QED
  BY <1>4, <1>5

\* A tool that finds none of its marks refuses, calls its base or starts to write.
LEMMA CheckCleanKeeps ==
  ASSUME PatchInv, CheckClean
  PROVE  PatchInv'
<1> PICK n : n = Last(stack)
  OBVIOUS
<1>1. /\ Running /\ phase = "check" /\ ~Marked(Tool(n)) /\ UNCHANGED <<tools, tree, release, wrote>>
      /\ \/ ~Ready(Tool(n)) /\ Refuse
         \/ /\ Ready(Tool(n)) /\ Tool(n).base # "none"
            /\ stack' = Append(stack, Tool(n).base)
            /\ UNCHANGED <<phase, step, outcome>>
         \/ /\ Ready(Tool(n)) /\ Tool(n).base = "none"
            /\ phase' = "write"
            /\ UNCHANGED <<stack, step, outcome>>
  BY DEF CheckClean, Inner
<1>2. n \in tools /\ n \in ToolNames
  BY <1>1, InnerIs, SessionsClosed DEF PatchInv
<1>3. wrote = FALSE /\ step = 1
  BY <1>1 DEF PatchInv, PhaseInv
<1>4. CASE ~Ready(Tool(n)) /\ Refuse
  BY <1>1, <1>3, <1>4, RefuseKeeps
<1>5. ASSUME Ready(Tool(n))
      PROVE  AbsentFrom(n, 1)
  BY <1>1, <1>2, <1>5, CleanIsAbsent DEF PatchInv
<1>6. CASE /\ Ready(Tool(n)) /\ Tool(n).base # "none"
           /\ stack' = Append(stack, Tool(n).base)
           /\ UNCHANGED <<phase, step, outcome>>
  <2> PICK b : b = Tool(n).base
    OBVIOUS
  <2>1. b \in tools /\ Rank(b) < Rank(n)
    BY <1>2, <1>6, SessionsClosed, BaseBelow DEF PatchInv
  <2>2. /\ Len(stack) \in Nat \ {0} /\ n = stack[Len(stack)] /\ stack \in Seq(tools)
    BY <1>1, InnerIs DEF PatchInv, StackInv
  <2>3. /\ stack' \in Seq(tools) /\ Len(stack') = Len(stack) + 1
        /\ \A s \in 1 .. Len(stack) : stack'[s] = stack[s]
        /\ stack'[Len(stack) + 1] = b
    BY <1>6, <2>1, <2>2
  <2>4. TreeInv'
    BY <1>1, FilesKept DEF PatchInv
  <2>5. StackInv'
    <3>1. ASSUME NEW s \in 1 .. Len(stack') - 1
          PROVE  stack'[s + 1] = Tool(stack'[s]).base
      <4>1. CASE s = Len(stack)
        BY <2>2, <2>3, <4>1
      <4>2. CASE s # Len(stack)
        <5>1. s \in 1 .. Len(stack) - 1 /\ s + 1 \in 1 .. Len(stack) /\ s \in 1 .. Len(stack)
          BY <2>2, <2>3, <4>2
        <5>2. stack[s + 1] = Tool(stack[s]).base
          BY <5>1 DEF PatchInv, StackInv
        <5>3. QED
          BY <2>3, <5>1, <5>2
      <4>3. QED
        BY <4>1, <4>2
    <3>2. ASSUME NEW s \in 1 .. Len(stack'), NEW u \in 1 .. Len(stack'), s < u
          PROVE  Rank(stack'[u]) < Rank(stack'[s])
      <4>1. s \in 1 .. Len(stack) /\ stack'[s] = stack[s]
        BY <2>2, <2>3, <3>2
      <4>2. CASE u = Len(stack) + 1
        <5>1. Rank(n) <= Rank(stack[s])
          <6>1. CASE s = Len(stack)
            BY <2>2, <6>1, RankTyped
          <6>2. CASE s # Len(stack)
            <7>1. s < Len(stack) /\ Len(stack) \in 1 .. Len(stack)
              BY <2>2, <4>1, <6>2
            <7>2. Rank(stack[Len(stack)]) < Rank(stack[s])
              BY <4>1, <7>1 DEF PatchInv, StackInv
            <7>3. QED
              BY <2>2, <7>2, RankTyped
          <6>3. QED
            BY <6>1, <6>2
        <5>2. QED
          BY <2>1, <2>3, <4>1, <4>2, <5>1, RankTyped
      <4>3. CASE u # Len(stack) + 1
        <5>1. u \in 1 .. Len(stack) /\ stack'[u] = stack[u]
          BY <2>2, <2>3, <4>3
        <5>2. Rank(stack[u]) < Rank(stack[s])
          BY <3>2, <4>1, <5>1 DEF PatchInv, StackInv
        <5>3. QED
          BY <4>1, <5>1, <5>2
      <4>4. QED
        BY <4>2, <4>3
    <3>3. ASSUME NEW p, NEW s \in 1 .. Len(stack') - 1, stack'[s] = p
          PROVE  AbsentFrom(p, 1)
      <4>1. CASE s = Len(stack)
        BY <1>5, <1>6, <2>2, <2>3, <3>3, <4>1
      <4>2. CASE s # Len(stack)
        <5>1. s \in 1 .. Len(stack) - 1 /\ stack[s] = p
          BY <2>2, <2>3, <3>3, <4>2
        <5>2. QED
          BY <5>1 DEF PatchInv, StackInv
      <4>3. QED
        BY <4>1, <4>2
    <3>4. \A p : \A s \in 1 .. Len(stack') - 1 : stack'[s] = p => AbsentFrom(p, 1)'
      BY <1>1, <3>3, FilesKept
    <3>5. stack' \in Seq(tools')
      BY <1>1, <2>3
    <3>6. QED
      BY <3>1, <3>2, <3>4, <3>5 DEF StackInv
  <2>6. outcome' = NoOutcome
    BY <1>1, <1>6 DEF PatchInv, PhaseInv
  <2>7. PhaseInv'
    <3>1. phase' = "check" /\ step' = 1 /\ wrote' = FALSE
      BY <1>1, <1>3, <1>6
    <3>2. phase' # "confirm" /\ phase' # "write" /\ step' \in Nat \ {0}
      BY <3>1
    <3>3. wrote' \in BOOLEAN
      BY <3>1, Zenon
    <3>4. QED
      BY <2>6, <3>1, <3>2, <3>3 DEF PhaseInv
  <2>8. OutcomeInv'
    <3>1. outcome'.what = "none"
      BY <2>6 DEF NoOutcome
    <3>2. QED
      BY <3>1 DEF OutcomeInv
  <2>9. QED
    BY <1>1, <2>4, <2>5, <2>7, <2>8 DEF PatchInv
<1>7. CASE /\ Ready(Tool(n)) /\ Tool(n).base = "none"
           /\ phase' = "write"
           /\ UNCHANGED <<stack, step, outcome>>
  <2>1. DoneBefore(n, 1)
    <3>1. \A i \in DOMAIN Tool(n).writes : ~(i < 1)
      <4>1. Len(Tool(n).writes) \in Nat \ {0} /\ DOMAIN Tool(n).writes = 1 .. Len(Tool(n).writes)
        BY <1>2, AllProper DEF Proper
      <4>2. QED
        BY <4>1
    <3>2. QED
      BY <3>1 DEF DoneBefore
  <2>2. Writing(n, 1)
    BY <1>5, <1>7, <2>1 DEF Writing
  <2>3. QED
    BY <1>1, <1>3, <1>7, <2>2, WriteKeeps
<1>8. QED
  BY <1>1, <1>4, <1>6, <1>7

\* A tool goes on to write when its base has left the probe it expects.
LEMMA ConfirmKeeps ==
  ASSUME PatchInv, Confirm
  PROVE  PatchInv'
<1> PICK n : n = Last(stack)
  OBVIOUS
<1>1. /\ Running /\ phase = "confirm" /\ UNCHANGED <<tools, tree, release, wrote>>
      /\ IF tree[Probe] = Expected(Probe, Tool(n).under)
         THEN phase' = "write" /\ UNCHANGED <<stack, step, outcome>>
         ELSE Refuse
  BY DEF Confirm, Inner
<1>2. n \in ToolNames
  BY <1>1, InnerIs, SessionsClosed DEF PatchInv
<1>3. Confirming(n) /\ step = 1
  BY <1>1 DEF PatchInv, PhaseInv
<1>4. phase' = "write" /\ UNCHANGED <<stack, step, outcome>>
  BY <1>1, <1>3 DEF Confirming
<1>5. DoneBefore(n, 1)
  <2>1. \A i \in DOMAIN Tool(n).writes : ~(i < 1)
    <3>1. Len(Tool(n).writes) \in Nat \ {0} /\ DOMAIN Tool(n).writes = 1 .. Len(Tool(n).writes)
      BY <1>2, AllProper DEF Proper
    <3>2. QED
      BY <3>1
  <2>2. QED
    BY <2>1 DEF DoneBefore
<1>6. Writing(n, 1)
  BY <1>3, <1>5 DEF Writing, Confirming
<1>7. QED
  BY <1>1, <1>3, <1>4, <1>6, WriteKeeps

\* A tool that ends has written every file it had to.
LEMMA FinishKeeps ==
  ASSUME PatchInv, Finish
  PROVE  PatchInv'
<1> PICK n, k : n = Last(stack) /\ k = step
  OBVIOUS
<1>1. /\ Running /\ phase = "write" /\ k > Len(Tool(n).writes) /\ Return("installed")
      /\ UNCHANGED <<tools, tree, release, wrote>>
  BY DEF Finish, Inner
<1>2. n \in tools /\ n \in ToolNames
  BY <1>1, InnerIs, SessionsClosed DEF PatchInv
<1>3. Writing(n, k) /\ k \in Nat
  BY <1>1 DEF PatchInv, PhaseInv
<1>4. \A i \in DOMAIN Tool(n).writes : i < k
  <2>1. Len(Tool(n).writes) \in Nat \ {0} /\ DOMAIN Tool(n).writes = 1 .. Len(Tool(n).writes)
    BY <1>2, AllProper DEF Proper
  <2>2. QED
    BY <1>1, <1>3, <2>1
<1>5. HeadersIn(n)
  BY <1>3, <1>4 DEF Writing, DoneBefore, HeadersIn
<1>6. OwnIn(n) /\ \A f, p : Puts(n, f, p) => Standing(f, p)
  BY <1>3, <1>4 DEF Writing, DoneBefore, Puts, OwnIn, Standing
<1>7. LayersIn(n) /\ HooksIn(n)
  <2>1. CASE Tool(n).base = "none"
    <3>1. LayersOf(n) = {n}
      BY <1>2, <2>1, Bases, LayersByName
    <3>2. HooksIn(n)
      BY <1>6, <3>1, PutByName DEF HooksIn, OwnIn
    <3>3. QED
      BY <1>6, <3>1, <3>2 DEF LayersIn
  <2>2. CASE Tool(n).base # "none"
    <3>1. LayersOf(n) = LayersOf(Tool(n).base) \cup {n}
      BY <1>2, <2>2, BaseBelow
    <3>2. LayersIn(Tool(n).base) /\ HooksIn(Tool(n).base)
      BY <1>3, <2>2 DEF Writing
    <3>3. "stimulus2048" \in LayersOf(n) => Has(tree[Cpu], "stimulus")
      <4>1. n # "stimulus2048"
        BY <2>2, Stimulus2048Is
      <4>2. QED
        BY <3>1, <3>2, <4>1 DEF HooksIn
    <3>4. QED
      BY <1>6, <3>1, <3>2, <3>3 DEF LayersIn, HooksIn
  <2>3. QED
    BY <2>1, <2>2
<1>8. Stands(n)
  BY <1>2, <1>5, <1>6, <1>7 DEF Stands
<1>9. QED
  BY <1>1, <1>8, ReturnKeeps

\* A killed tool leaves its report to nobody; a called one starts afresh.
LEMMA KillKeeps ==
  ASSUME PatchInv, Kill
  PROVE  PatchInv'
<1>1. /\ Running /\ stack' = <<>> /\ phase' = "check" /\ step' = 1
      /\ UNCHANGED <<tools, tree, release, wrote, outcome>>
  BY DEF Kill
<1>2. ~Running'
  BY <1>1 DEF Running, Idle
<1>3. TreeInv'
  BY <1>1, FilesKept DEF PatchInv
<1>4. StackInv'
  BY <1>1 DEF StackInv
<1>5. PhaseInv'
  BY <1>1, <1>2 DEF PatchInv, PhaseInv
<1>6. OutcomeInv'
  <2>1. outcome' = NoOutcome
    BY <1>1 DEF PatchInv, PhaseInv
  <2>2. outcome'.what = "none"
    BY <2>1 DEF NoOutcome
  <2>3. QED
    BY <2>2 DEF OutcomeInv
<1>7. QED
  BY <1>1, <1>3, <1>4, <1>5, <1>6 DEF PatchInv

\* A tool called from outside is alone on the stack.
LEMMA CallKeeps ==
  ASSUME PatchInv, NEW n \in tools, Call(n)
  PROVE  PatchInv'
<1>1. /\ Idle /\ stack' = <<n>> /\ wrote' = FALSE /\ outcome' = NoOutcome
      /\ UNCHANGED <<tools, tree, release, phase, step>>
  BY DEF Call
<1>2. phase = "check" /\ step = 1
  BY <1>1 DEF PatchInv, PhaseInv, Running
<1>3. TreeInv'
  BY <1>1, FilesKept DEF PatchInv
<1>4. StackInv'
  <2>1. stack' \in Seq(tools') /\ Len(stack') = 1 /\ stack'[1] = n
    BY <1>1
  <2>2. QED
    BY <2>1 DEF StackInv
<1>5. PhaseInv'
  <2>1. /\ phase' = "check" /\ step' = 1 /\ step' \in Nat \ {0}
        /\ phase' # "confirm" /\ phase' # "write"
    BY <1>1, <1>2
  <2>2. wrote' \in BOOLEAN
    BY <1>1, Zenon
  <2>3. QED
    BY <1>1, <2>1, <2>2 DEF PhaseInv
<1>6. OutcomeInv'
  <2>1. outcome'.what = "none"
    BY <1>1 DEF NoOutcome
  <2>2. QED
    BY <2>1 DEF OutcomeInv
<1>7. QED
  BY <1>1, <1>3, <1>4, <1>5, <1>6 DEF PatchInv

\* One file is written: the header holds the new layers, a source keeps what it
\* had and gets the pieces it did not have.
LEMMA WriteIs ==
  ASSUME PatchInv, Write, NEW n, n = Last(stack), NEW k, k = step
  PROVE  /\ Running /\ phase = "write" /\ phase' = "write" /\ step' = k + 1 /\ wrote' = TRUE
         /\ UNCHANGED <<tools, release, stack, outcome>>
         /\ n \in tools /\ n \in ToolNames /\ k \in DOMAIN Tool(n).writes /\ k \in Nat \ {0}
         /\ DOMAIN tree = FilesOf(tools) /\ DOMAIN tree' = FilesOf(tools)
         /\ Tool(n).writes[k][1] \in FilesOf(tools)
         /\ tree'[Tool(n).writes[k][1]] = Written(Tool(n).writes[k][1], Tool(n).writes[k][2])
         /\ \A g \in FilesOf(tools) \ {Tool(n).writes[k][1]} : tree'[g] = tree[g]
         /\ Writing(n, k)
<1>1. /\ Running /\ phase = "write" /\ k <= Len(Tool(n).writes)
      /\ tree' = [tree EXCEPT ![Tool(n).writes[k][1]] =
                    Written(Tool(n).writes[k][1], Tool(n).writes[k][2])]
      /\ wrote' = TRUE /\ step' = k + 1 /\ UNCHANGED <<tools, release, stack, phase, outcome>>
  BY DEF Write, Inner
<1>2. n \in tools /\ n \in ToolNames
  BY <1>1, InnerIs, SessionsClosed DEF PatchInv
<1>3. k \in Nat \ {0} /\ Writing(n, k)
  BY <1>1 DEF PatchInv, PhaseInv
<1>4. k \in DOMAIN Tool(n).writes
  <2>1. Len(Tool(n).writes) \in Nat \ {0} /\ DOMAIN Tool(n).writes = 1 .. Len(Tool(n).writes)
    BY <1>2, AllProper DEF Proper
  <2>2. QED
    BY <1>1, <1>3, <2>1
<1>5. Tool(n).writes[k][1] \in FilesOf(tools)
  BY <1>2, <1>4, WrittenFiles
<1>6. DOMAIN tree = FilesOf(tools)
  BY DEF PatchInv, TreeInv
<1>7. QED
  BY <1>1, <1>2, <1>3, <1>4, <1>5, <1>6

\* A write adds pieces the file does not have, to the file that is next.
LEMMA WriteStepKeeps ==
  ASSUME PatchInv, Write
  PROVE  PatchInv'
<1> PICK n, k, f, q : /\ n = Last(stack) /\ k = step
                      /\ f = Tool(n).writes[k][1] /\ q = Tool(n).writes[k][2]
  OBVIOUS
<1>1. /\ Running /\ phase = "write" /\ phase' = "write" /\ step' = k + 1 /\ wrote' = TRUE
      /\ UNCHANGED <<tools, release, stack, outcome>>
      /\ n \in tools /\ n \in ToolNames /\ k \in DOMAIN Tool(n).writes /\ k \in Nat \ {0}
      /\ Writing(n, k)
  BY WriteIs
<1>2. /\ f \in FilesOf(tools) /\ tree'[f] = Written(f, q)
      /\ DOMAIN tree = FilesOf(tools) /\ DOMAIN tree' = FilesOf(tools)
      /\ \A g \in FilesOf(tools) \ {f} : tree'[g] = tree[g]
  BY WriteIs
<1>3. ProperWrite(n, f, q)
  BY <1>1, AllProper DEF Proper
<1>4. ASSUME NEW g \in FilesOf(tools) \ Headers
      PROVE  tree[g] \in Seq(Pieces) /\ \A p : p \notin Foreign => AtMostOnce(tree[g], p)
  BY DEF PatchInv, TreeInv, TextInv
<1>5. q \in Seq(Pieces)
  BY <1>3 DEF ProperWrite
<1>7. ASSUME f \notin Headers
      PROVE  /\ tree'[f] \in Seq(Pieces)
             /\ \A p : Has(tree'[f], p) <=> Has(tree[f], p) \/ Has(q, p)
  <2>1. tree'[f] = tree[f] \o q
    BY <1>2, <1>7 DEF Written
  <2>2. tree[f] \in Seq(Pieces)
    BY <1>2, <1>4, <1>7
  <2>3. QED
    BY <1>5, <2>1, <2>2, JoinedHas
<1>8. ASSUME f \notin Headers, NEW p, Has(q, p)
      PROVE  ~Has(tree[f], p) /\ Level(p) = Rank(n)
  <2>1. Level(p) = Rank(n)
    BY <1>3, <1>8 DEF ProperWrite
  <2>2. AbsentFrom(n, k) /\ k >= k
    BY <1>1 DEF Writing
  <2>3. ~Has(tree[f], p)
    BY <1>1, <1>8, <2>2 DEF AbsentFrom
  <2>4. QED
    BY <2>1, <2>3
<1>9. ASSUME NEW g \in FilesOf(tools) \ Headers, NEW p, Has(tree[g], p)
      PROVE  Has(tree'[g], p)
  BY <1>2, <1>7, <1>9
<1>10. ASSUME NEW g \in FilesOf(tools) \ Headers, NEW p, Standing(g, p)
       PROVE  Standing(g, p)'
  BY <1>9, <1>10 DEF Standing
<1>11. ASSUME NEW m \in tools, LayersIn(m)
       PROVE  LayersIn(m)'
  <2>1. ASSUME NEW h \in LayersOf(m), NEW g, NEW p, Puts(h, g, p)
        PROVE  Standing(g, p)'
    <3>1. h \in tools
      BY SessionsClosed DEF PatchInv
    <3>2. g \in FilesOf(tools) \ Headers
      BY <2>1, <3>1, PutFiles
    <3>3. QED
      BY <1>10, <1>11, <2>1, <3>2 DEF LayersIn
  <2>2. QED
    BY <2>1 DEF LayersIn
<1>11a. ASSUME NEW m \in tools, HooksIn(m)
       PROVE  HooksIn(m)'
  <2>1. "stimulus2048" \in LayersOf(m) => Cpu \in FilesOf(tools) \ Headers
    BY SessionsClosed, PutByName, PutFiles DEF PatchInv
  <2>2. QED
    BY <1>9, <1>11a, <2>1 DEF HooksIn
<1>12. TreeInv'
  <2>1. ASSUME NEW g \in FilesOf(tools) \ Headers
        PROVE  TextInv(tree'[g])
    <3>1. CASE g # f
      BY <1>2, <3>1 DEF PatchInv, TreeInv
    <3>2. CASE g = f
      <4>1. tree'[f] = tree[f] \o q
        BY <1>2, <3>2 DEF Written
      <4>2. ASSUME NEW p, p \notin Foreign
            PROVE  AtMostOnce(tree'[f], p)
        <5>1. AtMostOnce(tree[f], p) /\ tree[f] \in Seq(Pieces)
          BY <1>4, <3>2, <4>2
        <5>2. AtMostOnce(q, p)
          BY <1>3, <3>2 DEF ProperWrite
        <5>3. ~(Has(tree[f], p) /\ Has(q, p))
          BY <1>8, <3>2
        <5>4. QED
          BY <1>5, <4>1, <5>1, <5>2, <5>3, JoinedOnce
      <4>3. Has(tree'[f], "stimulus") => Has(tree'[f], "stimulusInclude") \/ Has(tree'[f], "moved")
        <5>1. Has(tree[f], "stimulus") => Has(tree[f], "stimulusInclude") \/ Has(tree[f], "moved")
          BY <1>2, <3>2 DEF PatchInv, TreeInv, TextInv
        <5>2. Has(q, "stimulus") => Has(q, "stimulusInclude")
          BY <1>1, <3>2, LineWithCalls
        <5>3. QED
          BY <1>7, <3>2, <5>1, <5>2
      <4>4. QED
        BY <1>7, <3>2, <4>2, <4>3 DEF TextInv
    <3>3. QED
      BY <3>1, <3>2
  <2>2. ASSUME Board \in FilesOf(tools)
        PROVE  BoardInv(tree'[Board])
    <3>1. Board \in FilesOf(tools) \ Headers
      BY <2>2, FileKinds
    <3>2. ASSUME NEW p \in Getters, NEW r \in Getters, Level(p) < Level(r), Has(tree'[Board], r)
          PROVE  Standing(Board, p)
      <4>1. CASE Has(tree[Board], r)
        BY <2>2, <3>2, <4>1, BelowStands DEF PatchInv
      <4>2. CASE ~Has(tree[Board], r)
        <5>1. f = Board /\ Has(q, r)
          BY <1>2, <1>7, <3>1, <3>2, <4>2
        <5>2. Level(r) = Rank(n)
          BY <1>8, <3>1, <5>1
        <5>3. /\ Tool(n).base # "none"
              /\ \E m \in LayersOf(Tool(n).base) : Puts(m, Board, p)
          BY <1>1, <3>2, <5>2, GettersBelow
        <5>4. QED
          BY <1>1, <5>3 DEF Writing, LayersIn
      <4>3. QED
        BY <4>1, <4>2
    <3>3. ASSUME NEW p \in Getters, NEW r \in Getters, Level(p) < Level(r), Has(tree'[Board], r)
          PROVE  Has(tree'[Board], p) \/ Has(tree'[Board], "moved")
      BY <1>9, <3>1, <3>2, <3>3 DEF Standing
    <3>4. QED
      BY <3>3 DEF BoardInv
  <2>3. QED
    BY <1>1, <1>2, <2>1, <2>2 DEF TreeInv
<1>13. StackInv'
  <2>1. ASSUME NEW m, NEW s \in 1 .. Len(stack) - 1, stack[s] = m
        PROVE  AbsentFrom(m, 1)'
    <3>1. /\ Len(stack) \in Nat /\ n = stack[Len(stack)] /\ s \in 1 .. Len(stack) /\ s < Len(stack)
          /\ Len(stack) \in 1 .. Len(stack)
      BY <1>1, InnerIs DEF PatchInv
    <3>2. m \in tools /\ m \in ToolNames
      BY <2>1, <3>1, SessionsClosed DEF PatchInv, StackInv
    <3>3. Rank(n) < Rank(m)
      BY <2>1, <3>1 DEF PatchInv, StackInv
    <3>4. AbsentFrom(m, 1)
      BY <2>1 DEF PatchInv, StackInv
    <3>5. ASSUME NEW i \in DOMAIN Tool(m).writes, i >= 1, Tool(m).writes[i][1] \notin Headers,
                 NEW p, Has(Tool(m).writes[i][2], p)
          PROVE  ~Has(tree'[Tool(m).writes[i][1]], p)
      <4>1. Tool(m).writes[i][1] \in FilesOf(tools)
        BY <3>2, WrittenFiles
      <4>2. ~Has(tree[Tool(m).writes[i][1]], p)
        BY <3>4, <3>5 DEF AbsentFrom
      <4>3. Level(p) = Rank(m)
        BY <3>2, <3>5, AllProper DEF Proper, ProperWrite
      <4>4. Level(p) # Rank(n)
        BY <3>3, <4>3, RankTyped
      <4>5. QED
        BY <1>2, <1>7, <1>8, <3>5, <4>1, <4>2, <4>4
    <3>6. QED
      BY <3>5 DEF AbsentFrom
  <2>2. QED
    BY <1>1, <2>1 DEF PatchInv, StackInv
<1>14. Writing(n, k + 1)'
  <2>1. \A i, j \in DOMAIN Tool(n).writes : Tool(n).writes[i][1] = Tool(n).writes[j][1] => i = j
    BY <1>1, AllProper DEF Proper
  <2>2. DOMAIN Tool(n).writes \subseteq Nat
    <3>1. Len(Tool(n).writes) \in Nat \ {0} /\ DOMAIN Tool(n).writes = 1 .. Len(Tool(n).writes)
      BY <1>1, AllProper DEF Proper
    <3>2. QED
      BY <3>1
  <2>3. ASSUME NEW i \in DOMAIN Tool(n).writes, i # k
        PROVE  tree'[Tool(n).writes[i][1]] = tree[Tool(n).writes[i][1]]
    <3>1. Tool(n).writes[i][1] \in FilesOf(tools) \ {f}
      BY <1>1, <2>1, <2>3, WrittenFiles
    <3>2. QED
      BY <1>2, <3>1
  <2>4. Tool(n).base # "none" => LayersIn(Tool(n).base)' /\ HooksIn(Tool(n).base)'
    <3>1. Tool(n).base # "none" => Tool(n).base \in tools
      BY <1>1, SessionsClosed DEF PatchInv
    <3>2. QED
      BY <1>1, <1>11, <1>11a, <3>1 DEF Writing
  <2>5. AbsentFrom(n, k + 1)'
    <3>1. ASSUME NEW i \in DOMAIN Tool(n).writes, i >= k + 1, Tool(n).writes[i][1] \notin Headers,
                 NEW p, Has(Tool(n).writes[i][2], p)
          PROVE  ~Has(tree'[Tool(n).writes[i][1]], p)
      <4>1. i # k /\ i >= k
        BY <1>1, <2>2, <3>1
      <4>2. QED
        BY <1>1, <2>3, <3>1, <4>1 DEF Writing, AbsentFrom
    <3>2. QED
      BY <3>1 DEF AbsentFrom
  <2>6. DoneBefore(n, k + 1)'
    <3>1. \A g, r : Expected(g, r)' = Expected(g, r)
      BY <1>1 DEF Expected
    <3>2. ASSUME NEW i \in DOMAIN Tool(n).writes, i < k + 1, Tool(n).writes[i][1] \in Headers
          PROVE  tree'[Tool(n).writes[i][1]] = Expected(Tool(n).writes[i][1], Tool(n).writes[i][2])
      <4>1. CASE i = k
        BY <1>2, <3>2, <4>1 DEF Written
      <4>2. CASE i # k
        <5>1. i < k
          BY <1>1, <2>2, <3>2, <4>2
        <5>2. QED
          BY <1>1, <2>3, <3>2, <4>2, <5>1 DEF Writing, DoneBefore
      <4>3. QED
        BY <4>1, <4>2
    <3>3. ASSUME NEW i \in DOMAIN Tool(n).writes, i < k + 1, Tool(n).writes[i][1] \notin Headers,
                 NEW p, Has(Tool(n).writes[i][2], p)
          PROVE  Has(tree'[Tool(n).writes[i][1]], p)
      <4>1. CASE i = k
        BY <1>7, <3>3, <4>1
      <4>2. CASE i # k
        <5>1. i < k
          BY <1>1, <2>2, <3>3, <4>2
        <5>2. Has(tree[Tool(n).writes[i][1]], p)
          BY <1>1, <3>3, <5>1 DEF Writing, DoneBefore
        <5>3. Tool(n).writes[i][1] \in FilesOf(tools) \ Headers
          BY <1>1, <3>3, WrittenFiles
        <5>4. QED
          BY <1>9, <5>2, <5>3
      <4>3. QED
        BY <4>1, <4>2
    <3>4. QED
      BY <3>1, <3>2, <3>3 DEF DoneBefore
  <2>7. QED
    BY <2>4, <2>5, <2>6 DEF Writing
<1>15. outcome' = NoOutcome
  BY <1>1 DEF PatchInv, PhaseInv
<1>16. PhaseInv'
  <2>1. wrote' \in BOOLEAN
    BY <1>1, Zenon
  <2>2. Running'
    BY <1>1 DEF Running, Idle
  <2>3. step' \in Nat \ {0} /\ Last(stack') = n
    BY <1>1
  <2>4. QED
    BY <1>1, <1>14, <1>15, <2>1, <2>2, <2>3 DEF PhaseInv
<1>17. OutcomeInv'
  <2>1. outcome'.what = "none"
    BY <1>15 DEF NoOutcome
  <2>2. QED
    BY <2>1 DEF OutcomeInv
<1>18. QED
  BY <1>1, <1>12, <1>13, <1>16, <1>17 DEF PatchInv

-----------------------------------------------------------------------------
\* What people do between the runs.

\* No tool is running and nothing has been reported: the files alone matter.
LEMMA QuietKeeps ==
  ASSUME PatchInv, Idle, UNCHANGED <<tools, stack, phase, step, wrote>>, outcome' = NoOutcome, TreeInv'
  PROVE  PatchInv'
<1>1. stack' = <<>> /\ ~Running'
  BY DEF Running, Idle
<1>2. StackInv'
  BY <1>1 DEF StackInv
<1>3. PhaseInv'
  BY <1>1 DEF PatchInv, PhaseInv, Running
<1>4. outcome'.what = "none"
  BY DEF NoOutcome
<1>5. OutcomeInv'
  BY <1>4 DEF OutcomeInv
<1>6. QED
  BY <1>2, <1>3, <1>5 DEF PatchInv

\* A change by hand keeps the invariant when what it leaves is a text.
LEMMA ChangeKeeps ==
  ASSUME PatchInv, Idle, NEW f \in DOMAIN tree, NEW s, Change(f, s),
         f \notin Headers => TextInv(s), f = Board => BoardInv(s)
  PROVE  PatchInv'
<1>1. /\ tree' = [tree EXCEPT ![f] = s] /\ outcome' = NoOutcome
      /\ UNCHANGED <<tools, stack, phase, step, wrote>>
  BY DEF Change
<1>2. /\ DOMAIN tree = FilesOf(tools) /\ DOMAIN tree' = FilesOf(tools)
      /\ tree'[f] = s /\ \A g \in FilesOf(tools) \ {f} : tree'[g] = tree[g]
  BY <1>1 DEF PatchInv, TreeInv
<1>3. \A g \in FilesOf(tools) \ Headers : TextInv(tree'[g])
  <2>1. \A g \in FilesOf(tools) \ Headers : TextInv(tree[g])
    BY DEF PatchInv, TreeInv
  <2>2. QED
    BY <1>2, <2>1
<1>4. Board \in FilesOf(tools) => BoardInv(tree'[Board])
  <2>1. Board \in FilesOf(tools) => BoardInv(tree[Board])
    BY DEF PatchInv, TreeInv
  <2>2. QED
    BY <1>2, <2>1
<1>5. TreeInv'
  BY <1>1, <1>2, <1>3, <1>4 DEF TreeInv
<1>6. QED
  BY <1>1, <1>5, QuietKeeps

\* Text at the end of a source changes nothing that is in it.
LEMMA AppendedText ==
  ASSUME NEW s, TextInv(s), NEW a \in Foreign
  PROVE  TextInv(Append(s, a)) /\ (BoardInv(s) => BoardInv(Append(s, a)))
<1>1. s \in Seq(Pieces) /\ a \in Pieces
  BY DEF TextInv, Foreign, Pieces
<1>2. Append(s, a) = s \o <<a>> /\ <<a>> \in Seq(Pieces)
  BY <1>1
<1> DEFINE one == <<a>>
<1>3. /\ one \in Seq(Pieces) /\ Append(s, a) = s \o one
      /\ \A p : AtMostOnce(one, p) /\ (Has(one, p) <=> p = a)
  BY <1>2, ShortTexts
<1> HIDE DEF one
<1>4. /\ Append(s, a) \in Seq(Pieces)
      /\ \A p : Has(Append(s, a), p) <=> Has(s, p) \/ p = a
  <2>1. /\ s \o one \in Seq(Pieces)
        /\ \A p : Has(s \o one, p) <=> Has(s, p) \/ Has(one, p)
    BY <1>1, <1>3, JoinedHas
  <2>2. QED
    BY <1>3, <2>1, Zenon
<1>5. ASSUME NEW p, p \notin Foreign
      PROVE  AtMostOnce(Append(s, a), p)
  <2>1. AtMostOnce(s, p) /\ ~Has(one, p) /\ AtMostOnce(one, p)
    BY <1>3, <1>5 DEF TextInv
  <2>2. AtMostOnce(s \o one, p)
    BY <1>1, <1>3, <2>1, JoinedOnce
  <2>3. QED
    BY <1>3, <2>2, Zenon
<1>6. "stimulus" # a /\ \A p \in Getters : p # a
  BY DEF Getters, Foreign
<1>7. Has(Append(s, a), "stimulus") => Has(Append(s, a), "stimulusInclude") \/ Has(Append(s, a), "moved")
  BY <1>4, <1>6 DEF TextInv
<1>8. QED
  BY <1>4, <1>5, <1>6, <1>7 DEF TextInv, BoardInv

\* A changed piece is visibly damaged.
LEMMA MovedText ==
  ASSUME NEW s, TextInv(s), NEW i \in DOMAIN s
  PROVE  TextInv([s EXCEPT ![i] = "moved"]) /\ BoardInv([s EXCEPT ![i] = "moved"])
<1> DEFINE r == [s EXCEPT ![i] = "moved"]
<1>1. s \in Seq(Pieces) /\ "moved" \in Pieces /\ "moved" \in Foreign
  BY DEF TextInv, Foreign, Pieces
<1>2. r \in Seq(Pieces) /\ DOMAIN r = DOMAIN s /\ r[i] = "moved"
      /\ \A j \in DOMAIN s \ {i} : r[j] = s[j]
  BY <1>1
<1> HIDE DEF r
<1>3. ASSUME NEW p, p \notin Foreign
      PROVE  AtMostOnce(r, p)
  BY <1>1, <1>2, <1>3 DEF TextInv, AtMostOnce
<1>4. Has(r, "moved")
  BY <1>2 DEF Has
<1>5. TextInv(r) /\ BoardInv(r)
  BY <1>2, <1>3, <1>4 DEF TextInv, BoardInv
<1>6. QED
  BY <1>5 DEF r

\* A file as it is checked out is a text.
LEMMA PinnedText ==
  TextInv(<<"pinned">>) /\ BoardInv(<<"pinned">>)
<1>1. <<"pinned">> \in Seq(Pieces) /\ "pinned" \notin Getters
  BY DEF Pieces, Getters
<1>2. QED
  BY <1>1, ShortTexts DEF TextInv, BoardInv

\* Editing a file by hand keeps the invariant.
LEMMA EditKeeps ==
  ASSUME PatchInv, NEW f \in DOMAIN tree, Edit(f)
  PROVE  PatchInv'
<1>1. Idle /\ f \notin Headers
  BY DEF Edit
<1>2. TextInv(tree[f]) /\ (f = Board => BoardInv(tree[f]))
  BY <1>1 DEF PatchInv, TreeInv
<1>3. CASE Change(f, Append(tree[f], "comment"))
  <2>1. "comment" \in Foreign
    BY DEF Foreign
  <2>2. QED
    BY <1>1, <1>2, <1>3, <2>1, AppendedText, ChangeKeeps
<1>4. ASSUME NEW i \in DOMAIN tree[f], Change(f, [tree[f] EXCEPT ![i] = "moved"])
      PROVE  PatchInv'
  BY <1>1, <1>2, <1>4, MovedText, ChangeKeeps
<1>5. QED
  BY <1>3, <1>4 DEF Edit

\* Checking a file out again keeps the invariant.
LEMMA RestoreKeeps ==
  ASSUME PatchInv, NEW f \in DOMAIN tree, Restore(f)
  PROVE  PatchInv'
<1>1. Idle /\ Change(f, Pristine(f))
  BY DEF Restore
<1>2. f \notin Headers => Pristine(f) = <<"pinned">>
  BY DEF Pristine
<1>3. f = Board => f \notin Headers
  BY FileKinds
<1>4. QED
  BY <1>1, <1>2, <1>3, PinnedText, ChangeKeeps

\* The previous cost profiler adds its piece once.
LEMMA UseOldCostsKeeps ==
  ASSUME PatchInv, UseOldCosts
  PROVE  PatchInv'
<1>1. Idle /\ "costs" \in tools /\ Change("cpuexec.cpp", Append(tree["cpuexec.cpp"], "costsV1"))
  BY DEF UseOldCosts
<1>2. 1 \in DOMAIN Tool("costs").writes /\ Tool("costs").writes[1][1] = "cpuexec.cpp"
  BY CostsIs
<1>3. "cpuexec.cpp" \in FilesOf(tools) \ Headers
  BY <1>1, <1>2, WrittenFiles, FileKinds
<1>4. "cpuexec.cpp" \in DOMAIN tree /\ TextInv(tree["cpuexec.cpp"])
  BY <1>3 DEF PatchInv, TreeInv
<1>5. "costsV1" \in Foreign /\ "cpuexec.cpp" # Board
  BY DEF Foreign, Board
<1>6. QED
  BY <1>1, <1>4, <1>5, AppendedText, ChangeKeeps

\* A new release of the repository changes no file of the tree.
LEMMA UpgradeKeeps ==
  ASSUME PatchInv, Upgrade
  PROVE  PatchInv'
<1>1. Idle /\ outcome' = NoOutcome /\ UNCHANGED <<tools, tree, stack, phase, step, wrote>>
  BY DEF Upgrade
<1>2. TreeInv'
  BY <1>1 DEF PatchInv, TreeInv
<1>3. QED
  BY <1>1, <1>2, QuietKeeps

\* Nothing of it changes.
LEMMA StillKeeps ==
  ASSUME PatchInv, UNCHANGED <<tools, tree, release, stack, phase, step, wrote, outcome>>
  PROVE  PatchInv'
<1>1. TreeInv'
  BY FilesKept DEF PatchInv
<1>2. StackInv'
  BY FilesKept DEF PatchInv, StackInv
<1>3. Running' <=> Running
  BY DEF Running, Idle
<1>4. PhaseInv'
  <2>1. ASSUME Running, phase = "confirm"
        PROVE  \A n : n = Last(stack) => Confirming(n)'
    BY <2>1, FilesKept DEF PatchInv, PhaseInv
  <2>2. ASSUME Running, phase = "write"
        PROVE  \A n, k : n = Last(stack) /\ k = step => Writing(n, k)'
    BY <2>2, FilesKept DEF PatchInv, PhaseInv
  <2>3. QED
    BY <1>3, <2>1, <2>2 DEF PatchInv, PhaseInv
<1>5. OutcomeInv'
  BY FilesKept DEF PatchInv, OutcomeInv
<1>6. QED
  BY <1>1, <1>2, <1>4, <1>5 DEF PatchInv

\* A tree as it is checked out satisfies the invariant.
LEMMA PatchStart ==
  ASSUME NEW names \in PatchSessions, PatchInit(names)
  PROVE  PatchInv
<1>1. /\ tools = names /\ tree = [f \in FilesOf(names) |-> Pristine(f)]
      /\ stack = <<>> /\ phase = "check" /\ step = 1 /\ wrote = FALSE /\ outcome = NoOutcome
  BY DEF PatchInit
<1>2. TreeInv
  <2>1. \A f \in FilesOf(tools) \ Headers : tree[f] = <<"pinned">>
    BY <1>1 DEF Pristine
  <2>2. Board \in FilesOf(tools) => tree[Board] = <<"pinned">>
    BY <2>1, FileKinds
  <2>3. QED
    BY <1>1, <2>1, <2>2, PinnedText DEF TreeInv
<1>3. StackInv
  BY <1>1 DEF StackInv
<1>4. PhaseInv
  <2>1. wrote \in BOOLEAN
    BY <1>1, Zenon
  <2>2. ~Running
    BY <1>1 DEF Running, Idle
  <2>3. QED
    BY <1>1, <2>1, <2>2 DEF PhaseInv
<1>5. OutcomeInv
  <2>1. outcome.what = "none"
    BY <1>1 DEF NoOutcome
  <2>2. QED
    BY <2>1 DEF OutcomeInv
<1>6. QED
  BY <1>1, <1>2, <1>3, <1>4, <1>5 DEF PatchInv

\* Every step of a session of patch tools keeps the invariant.
LEMMA PatchStep == PatchInv /\ (PatchNext \/ UNCHANGED patchVars) => PatchInv'
<1> SUFFICES ASSUME PatchInv, PatchNext \/ UNCHANGED patchVars
             PROVE  PatchInv'
  OBVIOUS
<1>1. ASSUME NEW n \in tools, Call(n)
      PROVE  PatchInv'
  BY <1>1, CallKeeps
<1>2. CASE CheckMarked
  BY <1>2, CheckMarkedKeeps
<1>3. CASE CheckClean
  BY <1>3, CheckCleanKeeps
<1>4. CASE Confirm
  BY <1>4, ConfirmKeeps
<1>5. CASE Write
  BY <1>5, WriteStepKeeps
<1>6. CASE Finish
  BY <1>6, FinishKeeps
<1>7. CASE Kill
  BY <1>7, KillKeeps
<1>8. ASSUME NEW f \in DOMAIN tree, Edit(f)
      PROVE  PatchInv'
  BY <1>8, EditKeeps
<1>9. ASSUME NEW f \in DOMAIN tree, Restore(f)
      PROVE  PatchInv'
  BY <1>9, RestoreKeeps
<1>10. CASE UseOldCosts
  BY <1>10, UseOldCostsKeeps
<1>11. CASE Upgrade
  BY <1>11, UpgradeKeeps
<1>12. CASE Build
  BY <1>12, StillKeeps DEF Build
<1>13. CASE UNCHANGED patchVars
  BY <1>13, StillKeeps DEF patchVars
<1>14. QED
  BY <1>1, <1>2, <1>3, <1>4, <1>5, <1>6, <1>7, <1>8, <1>9, <1>10, <1>11, <1>12, <1>13 DEF PatchNext

\* What the invariant says of a report.
LEMMA OutcomeShows == PatchInv => InstalledWhole /\ RefusedUntouched
<1> SUFFICES ASSUME PatchInv
             PROVE  InstalledWhole /\ RefusedUntouched
  OBVIOUS
<1>1. RefusedUntouched
  BY DEF PatchInv, OutcomeInv, RefusedUntouched
<1>2. ASSUME outcome.what \in {"installed", "already"}
      PROVE  /\ \A m \in SureOf(outcome.tool) : Occurs(m[1], m[2]) = 1
             /\ \A w \in ToSet(Tool(outcome.tool).writes) :
                  w[1] \in Headers => tree[w[1]] = Expected(w[1], w[2])
             /\ \A layer \in LayersOf(outcome.tool) : \A m \in PiecesOf(layer) :
                  Occurs(m[1], m[2]) # 1 => Occurs(m[1], m[2]) = 0 /\ Occurs(m[1], "moved") > 0
  <2> PICK n : n = outcome.tool
    OBVIOUS
  <2>1. n \in tools /\ LayersIn(n) /\ OwnIn(n) /\ HooksIn(n) /\ HeadersIn(n)
    BY <1>2 DEF PatchInv, OutcomeInv, Stands
  <2>2. \A w \in ToSet(Tool(n).writes) : w[1] \in Headers => tree[w[1]] = Expected(w[1], w[2])
    BY <2>1 DEF HeadersIn, ToSet
  <2>3. ASSUME NEW h \in tools, NEW m \in PiecesOf(h)
        PROVE  Puts(h, m[1], m[2]) /\ m = <<m[1], m[2]>>
    <3>1. PICK i \in DOMAIN Tool(h).writes : /\ Tool(h).writes[i][1] \notin Headers
                                            /\ m \in {<<Tool(h).writes[i][1], p>> : p \in ToSet(Tool(h).writes[i][2])}
      BY DEF PiecesOf, ToSet
    <3>2. PICK p \in ToSet(Tool(h).writes[i][2]) : m = <<Tool(h).writes[i][1], p>>
      BY <3>1
    <3>3. Has(Tool(h).writes[i][2], p)
      BY DEF ToSet, Has
    <3>4. QED
      BY <3>1, <3>2, <3>3 DEF Puts
  <2>4. ASSUME NEW h \in tools, NEW f, NEW p, Puts(h, f, p)
        PROVE  /\ tree[f] \in Seq(Pieces)
               /\ Has(tree[f], p) => Occurs(f, p) = 1
    <3>1. h \in ToolNames
      BY SessionsClosed DEF PatchInv
    <3>2. f \in FilesOf(tools) \ Headers
      BY <2>4, PutFiles
    <3>3. tree[f] \in Seq(Pieces) /\ \A r : r \notin Foreign => AtMostOnce(tree[f], r)
      BY <3>2 DEF PatchInv, TreeInv, TextInv
    <3>4. p \notin Foreign
      BY <2>4, <3>1, OwnPieces
    <3>5. QED
      BY <3>3, <3>4, OccursHas
  <2>5. LayersOf(n) \subseteq tools
    BY <2>1, SessionsClosed DEF PatchInv
  <2>6. ASSUME NEW m \in SureOf(n)
        PROVE  Occurs(m[1], m[2]) = 1
    <3>1. CASE m \in PiecesOf(n)
      <4>1. Puts(n, m[1], m[2])
        BY <2>1, <2>3, <3>1
      <4>2. Has(tree[m[1]], m[2])
        BY <2>1, <4>1 DEF OwnIn
      <4>3. QED
        BY <2>1, <2>4, <4>1, <4>2
    <3>2. CASE m = <<Cpu, "stimulus">> /\ "stimulus2048" \in LayersOf(n)
      <4>1. Puts("stimulus2048", Cpu, "stimulus") /\ "stimulus2048" \in tools
        BY <2>5, <3>2, PutByName
      <4>2. Has(tree[Cpu], "stimulus")
        BY <2>1, <3>2 DEF HooksIn
      <4>3. QED
        BY <2>4, <3>2, <4>1, <4>2
    <3>3. QED
      BY <3>1, <3>2 DEF SureOf
  <2>7. ASSUME NEW h \in LayersOf(n), NEW m \in PiecesOf(h), Occurs(m[1], m[2]) # 1
        PROVE  Occurs(m[1], m[2]) = 0 /\ Occurs(m[1], "moved") > 0
    <3>1. h \in tools /\ Puts(h, m[1], m[2])
      BY <2>3, <2>5
    <3>2. Standing(m[1], m[2]) /\ tree[m[1]] \in Seq(Pieces)
      BY <2>1, <2>4, <3>1 DEF LayersIn
    <3>3. ~Has(tree[m[1]], m[2])
      BY <2>4, <2>7, <3>1
    <3>4. Has(tree[m[1]], "moved")
      BY <3>2, <3>3 DEF Standing
    <3>5. Occurs(m[1], m[2]) = 0
      BY <3>2, <3>3, OccursHas
    <3>6. Occurs(m[1], "moved") \in Nat /\ Occurs(m[1], "moved") # 0
      BY <3>2, <3>4, OccursHas
    <3>7. QED
      BY <3>5, <3>6
  <2>8. QED
    BY <2>2, <2>6, <2>7
<1>3. QED
  BY <1>1, <1>2 DEF InstalledWhole

-----------------------------------------------------------------------------
\* The object of the compiled source.

\* A tool touches the source or writes one, or no header is in the session.
LEMMA Dated ==
  ASSUME NEW S \in PatchSessions, NEW n \in S
  PROVE  \/ Tool(n).touch
         \/ \E i \in DOMAIN Tool(n).writes : Tool(n).writes[i][1] \in Compiled
         \/ FilesOf(S) \cap Headers = {}
<1>1. n \in ToolNames
  BY SessionsClosed
<1>2. CASE n \in {"map", "wram", "cpuio", "ppu", "chr", "play"}
  BY <1>2, MapIs, WramIs, CpuioIs, PpuIs, ChrIs, PlayIs
<1>3. CASE n \in {"stimulus512", "stimulus2048"}
  <2>1. /\ 2 \in DOMAIN Tool("stimulus512").writes /\ Tool("stimulus512").writes[2][1] = Cpu
        /\ 2 \in DOMAIN Tool("stimulus2048").writes /\ Tool("stimulus2048").writes[2][1] = Cpu
    BY Stimulus512Is, Stimulus2048Is
  <2>2. QED
    BY <1>3, <2>1 DEF Compiled
<1>4. CASE n \in {"cycle", "boundary", "idle"}
  <2>1. /\ 2 \in DOMAIN Tool("cycle").writes /\ Tool("cycle").writes[2][1] = Cpu
        /\ 2 \in DOMAIN Tool("boundary").writes /\ Tool("boundary").writes[2][1] = Cpu
        /\ 2 \in DOMAIN Tool("idle").writes /\ Tool("idle").writes[2][1] = Cpu
    BY CycleIs, BoundaryIs, IdleIs
  <2>2. QED
    BY <1>4, <2>1 DEF Compiled
<1>5. CASE n \in {"dma", "idleHost"}
  <2>1. /\ 2 \in DOMAIN Tool("dma").writes /\ Tool("dma").writes[2][1] = "NstCpu.cpp"
        /\ 2 \in DOMAIN Tool("idleHost").writes /\ Tool("idleHost").writes[2][1] = "cpuexec.cpp"
    BY DmaIs, IdleHostIs
  <2>2. QED
    BY <1>5, <2>1 DEF Compiled
<1>6. CASE n \in {"profile", "costs"}
  <2>1. /\ 1 \in DOMAIN Tool("profile").writes /\ Tool("profile").writes[1][1] = "cpuexec.cpp"
        /\ 1 \in DOMAIN Tool("costs").writes /\ Tool("costs").writes[1][1] = "cpuexec.cpp"
    BY ProfileIs, CostsIs
  <2>2. QED
    BY <1>6, <2>1 DEF Compiled
<1>7. CASE n \in {"indirectX", "coalesced", "dispatch", "paletteReads"}
  <2>1. S = {n}
    BY <1>7 DEF PatchSessions
  <2>2. FilesOf({n}) = {w[1] : w \in ToSet(Tool(n).writes)} \cup Tool(n).anchors
    BY DEF FilesOf
  <2>3. \A i \in DOMAIN Tool(n).writes : Tool(n).writes[i][1] \notin Headers
    <3>1. CASE n = "indirectX"
      BY <3>1, IndirectXIs, FileKinds
    <3>2. CASE n = "coalesced"
      BY <3>2, CoalescedIs, FileKinds
    <3>3. CASE n = "dispatch"
      BY <3>3, DispatchIs, FileKinds
    <3>4. CASE n = "paletteReads"
      BY <3>4, PaletteReadsIs, FileKinds
    <3>5. QED
      BY <1>7, <3>1, <3>2, <3>3, <3>4
  <2>4. Tool(n).anchors \cap Headers = {}
    BY <1>7, IndirectXIs, CoalescedIs, DispatchIs, PaletteReadsIs, FileKinds
  <2>5. {w[1] : w \in ToSet(Tool(n).writes)} \cap Headers = {}
    BY <2>3 DEF ToSet
  <2>6. QED
    BY <2>1, <2>2, <2>4, <2>5
<1>8. QED
  BY <1>1, <1>2, <1>3, <1>4, <1>5, <1>6, <1>7 DEF ToolNames

\* The tool has written a compiled source, and will not touch one.
PastSource(n, k) ==
  ~Tool(n).touch /\ \E i \in DOMAIN Tool(n).writes : i < k /\ Tool(n).writes[i][1] \in Compiled

FreshInv ==
  /\ newer \in BOOLEAN /\ stale \in BOOLEAN
  /\ Running /\ phase = "write" => \A n, k : n = Last(stack) /\ k = step /\ PastSource(n, k) => newer
  /\ FilesOf(tools) \cap Headers = {} => ~stale
  /\ outcome.what = "installed" => newer \/ ~stale

\* A step that reports nothing and starts no writing half-way.
LEMMA FreshKept ==
  ASSUME FreshInv, UNCHANGED <<tools, newer, stale>>,
         outcome'.what = "installed" => outcome.what = "installed",
         Running' /\ phase' = "write" => \A n, k : n = Last(stack') /\ k = step' => ~PastSource(n, k)
  PROVE  FreshInv'
  BY DEF FreshInv

\* No tool is past a compiled file at its first write, nor the play probe at its second.
LEMMA NoPast == \A n \in ToolNames : ~PastSource(n, 1) /\ (n = "play" => ~PastSource(n, 2))
<1>1. ASSUME NEW n \in ToolNames
      PROVE  ~PastSource(n, 1)
  <2>1. Len(Tool(n).writes) \in Nat \ {0} /\ DOMAIN Tool(n).writes = 1 .. Len(Tool(n).writes)
    BY AllProper DEF Proper
  <2>2. QED
    BY <2>1 DEF PastSource
<1>2. ~PastSource("play", 2)
  BY PlayIs DEF PastSource
<1>3. QED
  BY <1>1, <1>2

\* Checks neither write nor date a file.
LEMMA FreshChecks ==
  ASSUME PatchInv, FreshInv, CheckMarked \/ CheckClean \/ Confirm
  PROVE  FreshInv'
<1> PICK n : n = Last(stack)
  OBVIOUS
<1>1. /\ Running /\ phase # "write" /\ UNCHANGED <<tools, newer, stale>>
      /\ step = 1 /\ outcome = NoOutcome
  BY DEF CheckMarked, CheckClean, Confirm, PatchInv, PhaseInv
<1>2. n \in ToolNames
  BY <1>1, InnerIs, SessionsClosed DEF PatchInv
<1>3. ASSUME NEW what \in {"already", "refused"}, Return(what) \/ Leave(what)
      PROVE  FreshInv'
  <2>1. phase' # "write" /\ (outcome'.what = what \/ outcome' = NoOutcome)
    BY <1>1, <1>3 DEF Return, Leave
  <2>2. outcome'.what # "installed"
    BY <2>1 DEF NoOutcome
  <2>3. QED
    BY <1>1, <2>1, <2>2, FreshKept
<1>4. ASSUME UNCHANGED <<stack, outcome>>,
             step' = 1 \/ (n = "play" /\ step' = 2)
      PROVE  FreshInv'
  <2>1. \A m, k : m = Last(stack') /\ k = step' => ~PastSource(m, k)
    BY <1>2, <1>4, NoPast
  <2>2. QED
    BY <1>1, <1>4, <2>1, FreshKept
<1>5. CASE CheckMarked
  <2>1. CASE Tool(n).again > 0
    <3>1. n = "play"
      BY <1>2, <2>1, OnlyPlayAgain
    <3>2. step' = Tool(n).again /\ UNCHANGED <<stack, outcome>>
      BY <1>5, <2>1 DEF CheckMarked, Inner
    <3>3. step' = 2
      BY <3>1, <3>2, PlayIs
    <3>4. QED
      BY <1>4, <3>1, <3>2, <3>3
  <2>2. CASE ~(Tool(n).again > 0)
    <3>1. Return("already") \/ Leave("refused")
      BY <1>5, <2>2 DEF CheckMarked, Inner, Refuse
    <3>2. QED
      BY <1>3, <3>1
  <2>3. QED
    BY <2>1, <2>2
<1>6. CASE CheckClean
  <2>1. CASE Refuse
    BY <1>3, <2>1 DEF Refuse
  <2>2. CASE phase' = phase /\ outcome' = outcome
    <3>1. phase' # "write"
      BY <1>1, <2>2
    <3>2. QED
      BY <1>1, <2>2, <3>1, FreshKept
  <2>3. CASE UNCHANGED <<stack, step, outcome>>
    BY <1>1, <1>4, <2>3
  <2>4. QED
    BY <1>6, <2>1, <2>2, <2>3 DEF CheckClean
<1>7. CASE Confirm
  <2>1. Refuse \/ UNCHANGED <<stack, step, outcome>>
    BY <1>7 DEF Confirm
  <2>2. QED
    BY <1>1, <1>3, <1>4, <2>1 DEF Refuse
<1>8. QED
  BY <1>5, <1>6, <1>7

\* A write to a compiled file dates it.
LEMMA FreshWrite ==
  ASSUME PatchInv, FreshInv, Write
  PROVE  FreshInv'
<1> PICK n, k, f : n = Last(stack) /\ k = step /\ f = Tool(n).writes[k][1]
  OBVIOUS
<1>1. /\ Running /\ phase = "write" /\ step' = k + 1 /\ k \in Nat \ {0}
      /\ UNCHANGED <<tools, stack, outcome>> /\ f \in FilesOf(tools)
      /\ n \in ToolNames
  BY WriteIs
<1>2. newer' = (newer \/ f \in Compiled) /\ stale' = (stale \/ f \in Headers)
  BY DEF Write, Dates, Inner
<1>3. newer \in BOOLEAN /\ stale \in BOOLEAN
  BY DEF FreshInv
<1>4. newer' \in BOOLEAN /\ stale' \in BOOLEAN
  BY <1>2, <1>3
<1>5. ASSUME PastSource(n, k + 1)
      PROVE  newer'
  <2>1. PICK i \in DOMAIN Tool(n).writes : i < k + 1 /\ Tool(n).writes[i][1] \in Compiled
    BY <1>5 DEF PastSource
  <2>2. i \in Nat
    <3>1. Len(Tool(n).writes) \in Nat \ {0} /\ DOMAIN Tool(n).writes = 1 .. Len(Tool(n).writes)
      BY <1>1, AllProper DEF Proper
    <3>2. QED
      BY <3>1
  <2>3. CASE i = k
    BY <1>2, <2>1, <2>3
  <2>4. CASE i # k
    <3>1. i < k
      BY <1>1, <2>1, <2>2, <2>4
    <3>2. PastSource(n, k)
      BY <1>5, <2>1, <3>1 DEF PastSource
    <3>3. newer
      BY <1>1, <3>2 DEF FreshInv
    <3>4. QED
      BY <1>2, <3>3
  <2>5. QED
    BY <2>3, <2>4
<1>6. FilesOf(tools) \cap Headers = {} => ~stale'
  BY <1>1, <1>2, <1>3 DEF FreshInv
<1>7. outcome'.what = "none"
  BY <1>1 DEF PatchInv, PhaseInv, NoOutcome
<1>8. Last(stack') = n
  BY <1>1
<1>9. QED
  BY <1>1, <1>4, <1>5, <1>6, <1>7, <1>8 DEF FreshInv

\* A tool that ends leaves its source dated, by a write or by a touch.
LEMMA FreshFinish ==
  ASSUME PatchInv, FreshInv, Finish
  PROVE  FreshInv'
<1> PICK n, k : n = Last(stack) /\ k = step
  OBVIOUS
<1>1. /\ Running /\ phase = "write" /\ k > Len(Tool(n).writes) /\ Return("installed")
      /\ newer' = (newer \/ Tool(n).touch) /\ UNCHANGED <<tools, stale>>
  BY DEF Finish, Inner, Touched
<1>2. n \in tools /\ n \in ToolNames /\ k \in Nat
  BY <1>1, InnerIs, SessionsClosed DEF PatchInv, PhaseInv
<1>3. newer' \in BOOLEAN /\ stale' \in BOOLEAN
  BY <1>1 DEF FreshInv
<1>4. phase' # "write"
  BY <1>1 DEF Return, Leave
<1>5. newer' \/ ~stale'
  <2>1. CASE Tool(n).touch
    BY <1>1, <2>1
  <2>2. CASE ~Tool(n).touch /\ \E i \in DOMAIN Tool(n).writes : Tool(n).writes[i][1] \in Compiled
    <3>1. Len(Tool(n).writes) \in Nat \ {0} /\ DOMAIN Tool(n).writes = 1 .. Len(Tool(n).writes)
      BY <1>2, AllProper DEF Proper
    <3>2. PastSource(n, k)
      BY <1>1, <1>2, <2>2, <3>1 DEF PastSource
    <3>3. newer
      BY <1>1, <3>2 DEF FreshInv
    <3>4. QED
      BY <1>1, <3>3
  <2>3. CASE FilesOf(tools) \cap Headers = {}
    BY <1>1, <2>3 DEF FreshInv
  <2>4. QED
    BY <1>2, <2>1, <2>2, <2>3, Dated DEF PatchInv
<1>6. QED
  BY <1>1, <1>3, <1>4, <1>5 DEF FreshInv

\* A change by hand dates the file.
LEMMA FreshChange ==
  ASSUME PatchInv, FreshInv, Idle, NEW f \in FilesOf(tools), NEW s, Change(f, s)
  PROVE  FreshInv'
<1>1. /\ newer' = (newer \/ f \in Compiled) /\ stale' = (stale \/ f \in Headers)
      /\ outcome' = NoOutcome /\ UNCHANGED <<tools, stack>>
  BY DEF Change, Dates
<1>2. newer' \in BOOLEAN /\ stale' \in BOOLEAN
  BY <1>1 DEF FreshInv
<1>3. outcome'.what = "none" /\ ~Running'
  BY <1>1 DEF NoOutcome, Running, Idle
<1>4. FilesOf(tools) \cap Headers = {} => ~stale'
  BY <1>1 DEF FreshInv
<1>5. QED
  BY <1>1, <1>2, <1>3, <1>4 DEF FreshInv

\* Every step of a session keeps what is known of the dates.
LEMMA FreshStep == PatchInv /\ FreshInv /\ (PatchNext \/ UNCHANGED patchVars) => FreshInv'
<1> SUFFICES ASSUME PatchInv, FreshInv, PatchNext \/ UNCHANGED patchVars
             PROVE  FreshInv'
  OBVIOUS
<1>1. DOMAIN tree = FilesOf(tools)
  BY DEF PatchInv, TreeInv
<1>2. NoOutcome.what # "installed"
  BY DEF NoOutcome
<1>3. ASSUME NEW n \in tools, Call(n)
      PROVE  FreshInv'
  <2>1. Idle /\ outcome' = NoOutcome /\ UNCHANGED <<tools, phase, newer, stale>>
    BY <1>3 DEF Call
  <2>2. phase' # "write"
    BY <2>1 DEF PatchInv, PhaseInv, Running
  <2>3. QED
    BY <1>2, <2>1, <2>2, FreshKept
<1>4. CASE CheckMarked \/ CheckClean \/ Confirm
  BY <1>4, FreshChecks
<1>5. CASE Write
  BY <1>5, FreshWrite
<1>6. CASE Finish
  BY <1>6, FreshFinish
<1>7. CASE Kill
  <2>1. phase' # "write" /\ UNCHANGED <<tools, outcome, newer, stale>>
    BY <1>7 DEF Kill
  <2>2. QED
    BY <2>1, FreshKept
<1>8. ASSUME NEW f \in DOMAIN tree, Edit(f) \/ Restore(f)
      PROVE  FreshInv'
  <2>1. Idle /\ \E s : Change(f, s)
    BY <1>8 DEF Edit, Restore
  <2>2. QED
    BY <1>1, <2>1, FreshChange
<1>9. CASE UseOldCosts
  <2>1. Idle /\ "costs" \in tools /\ Change("cpuexec.cpp", Append(tree["cpuexec.cpp"], "costsV1"))
    BY <1>9 DEF UseOldCosts
  <2>2. 1 \in DOMAIN Tool("costs").writes /\ Tool("costs").writes[1][1] = "cpuexec.cpp"
    BY CostsIs
  <2>3. "cpuexec.cpp" \in FilesOf(tools)
    BY <2>1, <2>2, WrittenFiles
  <2>4. QED
    BY <2>1, <2>3, FreshChange
<1>10. CASE Upgrade
  <2>1. Idle /\ outcome' = NoOutcome /\ UNCHANGED <<tools, stack, newer, stale>>
    BY <1>10 DEF Upgrade
  <2>2. ~Running'
    BY <2>1 DEF Running, Idle
  <2>3. QED
    BY <1>2, <2>1, <2>2, FreshKept
<1>11. CASE Build
  <2>1. Idle /\ newer' = FALSE /\ stale' = FALSE /\ UNCHANGED <<tools, stack, outcome>>
    BY <1>11 DEF Build
  <2>2. ~Running'
    BY <2>1 DEF Running, Idle
  <2>3. newer' \in BOOLEAN /\ stale' \in BOOLEAN
    BY <2>1, Zenon
  <2>4. QED
    BY <2>1, <2>2, <2>3 DEF FreshInv
<1>12. CASE UNCHANGED patchVars
  <2>1. UNCHANGED <<tools, stack, phase, step, outcome, newer, stale>>
    BY <1>12 DEF patchVars
  <2>2. QED
    BY <2>1 DEF FreshInv, Running, Idle
<1>13. QED
  BY <1>3, <1>4, <1>5, <1>6, <1>7, <1>8, <1>9, <1>10, <1>11, <1>12 DEF PatchNext

\* At the start nothing built is out of date.
LEMMA FreshStart ==
  ASSUME NEW names, PatchInit(names)
  PROVE  FreshInv
<1>1. newer = (FilesOf(names) \cap Compiled # {}) /\ stale = FALSE /\ stack = <<>> /\ outcome = NoOutcome
  BY DEF PatchInit
<1>2. newer \in BOOLEAN
  BY <1>1
<1>3. stale \in BOOLEAN
  BY <1>1, Zenon
<1>4. ~Running /\ outcome.what = "none"
  BY <1>1 DEF Running, Idle, NoOutcome
<1>5. QED
  BY <1>1, <1>2, <1>3, <1>4 DEF FreshInv

-----------------------------------------------------------------------------
(***************************************************************************)
(* The sessions.                                                           *)
(***************************************************************************)
SessionInv ==
  \/ tools = {} /\ VerifierInv /\ outcome = NoOutcome
  \/ /\ PatchInv /\ FreshInv
     /\ report = NoReport /\ progress.passed = FALSE

\* Either kind of session starts with its invariant.
LEMMA SessionStart == Init => SessionInv
<1>1. ASSUME VerifierInit, PatchInit({})
      PROVE  SessionInv
  <2>1. tools = {} /\ outcome = NoOutcome
    BY <1>1 DEF PatchInit
  <2>2. QED
    BY <1>1, <2>1, VerifierStart DEF SessionInv
<1>2. ASSUME NoSession, NEW names \in PatchSessions, PatchInit(names)
      PROVE  SessionInv
  BY <1>2, PatchStart, FreshStart DEF SessionInv, NoSession
<1>3. QED
  BY <1>1, <1>2 DEF Init

\* Either kind of session keeps its invariant.
LEMMA SessionStep ==
  SessionInv /\ [Patching \/ Verifying]_<<patchVars, verifierVars>> => SessionInv'
<1> SUFFICES ASSUME SessionInv, [Patching \/ Verifying]_<<patchVars, verifierVars>>
             PROVE  SessionInv'
  OBVIOUS
<1>1. PatchInv => tools # {}
  BY SessionsClosed DEF PatchInv
<1>2. CASE tools = {} /\ VerifierInv /\ outcome = NoOutcome
  <2>1. (VerifierNext \/ UNCHANGED verifierVars) /\ UNCHANGED patchVars
    BY <1>2 DEF Patching, Verifying
  <2>2. VerifierInv'
    BY <1>2, <2>1, VerifierStep
  <2>3. tools' = {} /\ outcome' = NoOutcome
    BY <1>2, <2>1 DEF patchVars
  <2>4. QED
    BY <2>2, <2>3 DEF SessionInv
<1>3. CASE PatchInv /\ FreshInv /\ report = NoReport /\ progress.passed = FALSE
  <2>1. (PatchNext \/ UNCHANGED patchVars) /\ UNCHANGED verifierVars
    BY <1>1, <1>3 DEF Patching, Verifying
  <2>2. PatchInv' /\ FreshInv'
    BY <1>3, <2>1, PatchStep, FreshStep
  <2>3. report' = NoReport /\ progress' = progress
    BY <1>3, <2>1 DEF verifierVars
  <2>4. QED
    BY <1>3, <2>2, <2>3 DEF SessionInv
<1>4. QED
  BY <1>2, <1>3 DEF SessionInv

\* The invariant of both kinds of session holds in every reachable state.
LEMMA SessionAlways == Spec => []SessionInv
  BY SessionStart, SessionStep, PTL DEF Spec

\* The invariant gives the properties of both kinds of session.
LEMMA SessionShows ==
  SessionInv => PassIsWhole /\ PassIsFresh /\ InstalledWhole /\ RefusedUntouched /\ FreshBuild
<1>1. CASE tools = {} /\ VerifierInv /\ outcome = NoOutcome
  <2>1. outcome.what = "none"
    BY <1>1 DEF NoOutcome
  <2>2. QED
    BY <1>1, <2>1, VerifierShows DEF InstalledWhole, RefusedUntouched, FreshBuild
<1>2. CASE PatchInv /\ FreshInv /\ report = NoReport /\ progress.passed = FALSE
  <2>1. report.passed = FALSE
    BY <1>2 DEF NoReport
  <2>2. PassIsWhole /\ PassIsFresh
    BY <1>2, <2>1 DEF PassIsWhole, PassIsFresh
  <2>3. FreshBuild
    BY <1>2 DEF FreshInv, FreshBuild
  <2>4. QED
    BY <1>2, <2>2, <2>3, OutcomeShows
<1>3. QED
  BY <1>1, <1>2 DEF SessionInv

\* A report that says the whole matrix passed has, for every item of every stage,
\* a row whose result is the one that stage claims, and the progress file only
\* says so of the report of that very run.
THEOREM PassesAreWhole == Spec => []PassIsWhole
  BY SessionAlways, SessionShows, PTL

\* A passing report rests on what its own run captured, but for the guards that
\* are read back from the folder, and no script that removes its report first
\* leaves one of an earlier run behind.
THEOREM PassesAreFresh == Spec => []PassIsFresh
  BY SessionAlways, SessionShows, PTL

\* A tool that reports "installed" or "already installed" has its own pieces and the
\* calls in the dispatcher exactly once in the sources, and its headers of the present
\* release, whatever was killed half-way, edited, restored or upgraded before; a piece
\* of a tool below it is there once or gone from a file that was changed by hand.
THEOREM InstalledTreesWhole == Spec => []InstalledWhole
  BY SessionAlways, SessionShows, PTL

\* A tool that refuses a tree has written nothing, and neither has any tool it
\* installed first.
THEOREM RefusalsTouchNothing == Spec => []RefusedUntouched
  BY SessionAlways, SessionShows, PTL

\* After "installed" the compiled source is newer than its object, or no header
\* has changed since that object was compiled.
THEOREM BuildsFresh == Spec => []FreshBuild
  BY SessionAlways, SessionShows, PTL
=============================================================================
