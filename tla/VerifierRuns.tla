---------------------------- MODULE VerifierRuns ----------------------------
(***************************************************************************)
(* The scripts that collect evidence: tools/verify_*.py and the route      *)
(* recorder, tools/gameplay_route.py.  A script works through stages - a   *)
(* matrix of authored programs, host-interrupt variants, deliberately      *)
(* broken sources, guards - and in each stage runs one emulator process    *)
(* per item.  The process leaves a capture in the item's folder; the       *)
(* script reads it and judges it.  The first capture that is not what the  *)
(* stage demands ends the run, and only a script that has judged every     *)
(* stage publishes its report, under a fixed name in a folder that may     *)
(* hold the files of an earlier run.                                       *)
(*                                                                         *)
(* What an emulator ran, and how two captures are compared byte by byte,   *)
(* is a result: the captures agree, they differ, the program stopped at a  *)
(* fault it recorded ("refused"), or the process died without a capture.   *)
(***************************************************************************)
EXTENDS Naturals, Sequences, FiniteSets, FiniteSetsExt

CONSTANTS Scripts,      \* the scripts one of which is used on the folder
          MaxRuns,      \* how often it is started in that folder
          Cases,        \* items of the first stage
          Smoke,        \* items of it that a run with a limit selects
          Controls      \* items of every other stage

ASSUME CasesAssumption == Cases \in Nat \ {0}

VARIABLES script,       \* the script used on this folder
          run,          \* runs started so far
          limited,      \* the present run was given a limit
          job,          \* "idle", "checking", or "closing"
          stage,        \* its present stage
          pending,      \* items of the stage that are not started
          active,       \* items whose process is running
          failed,       \* an item was not what it should have been
          rows,         \* what was judged good: [stage, item, what, run]
          captures,     \* [stage -> [item -> the capture in its folder]]
          report,       \* the report in the folder
          progress      \* the progress file: [run, passed]

verifierVars == <<script, run, limited, job, stage, pending, active, failed,
                  rows, captures, report, progress>>

(***************************************************************************)
(* The shape of one script.                                                *)
(*   clear     it removes the old report before it starts                  *)
(*   limit     it takes a limit on the first stage                         *)
(*   workers   processes at a time                                         *)
(*   drain     after a failure the items not yet started still run         *)
(*   publish   "passed": the report exists only when everything is right;  *)
(*             "flag": it records whether everything agreed;               *)
(*             "always": it is written even after a failure                *)
(*   notes     "each": a progress file after every item of the first       *)
(*             stage; "final": and once more after the report              *)
(*   stages    what each stage demands of its items:                       *)
(*     "agree"   the two machines agree                                    *)
(*     "differ"  a broken source, or a path known to disagree, runs to its *)
(*               end and disagrees                                         *)
(*     "reject"  a broken source disagrees, or stops                       *)
(*     "refuse"  the program stops at the fault it is meant to stop at     *)
(*     "reread"  the same, read from the file after the process failed     *)
(*     "note"    whatever comes out is written down                        *)
(*     "record"  the same, and whether it agreed decides the verdict       *)
(***************************************************************************)
Verifier == [clear |-> FALSE, limit |-> FALSE, workers |-> 1, drain |-> FALSE,
             publish |-> "passed", notes |-> "none", stages |-> <<>>]

Checks(stages)   == [Verifier EXCEPT !.stages = stages]
Records(stages)  == [Verifier EXCEPT !.stages = stages, !.publish = "flag"]
Clearing(stages) == [Verifier EXCEPT !.stages = stages, !.clear = TRUE]
Noting(plan)     == [plan EXCEPT !.notes = "each"]
Closing(plan)    == [plan EXCEPT !.notes = "final"]
Matrix(stages)   ==
  [Clearing(stages) EXCEPT !.limit = TRUE, !.workers = 2, !.drain = TRUE]

-----------------------------------------------------------------------------
(***************************************************************************)
(* The scripts of the bridge and of the emulator instruments.              *)
(***************************************************************************)
ApuEnvelopes  == Checks(<<"agree">>)
ApuMatrix     == Checks(<<"agree">>)
ApuSweep      == Checks(<<"agree">>)
Audio         == Checks(<<"agree">>)
AudioMatrix   == Checks(<<"agree">>)
CostProbe     == Checks(<<"agree">>)
DefaultBuilds == Checks(<<"agree">>)
IdleObserved  == Checks(<<"agree">>)
IndexedMatrix == Checks(<<"agree">>)
MemoryResult  == Checks(<<"agree">>)
ObjectCache   == Checks(<<"agree">>)
SweepMatrix   == Checks(<<"agree">>)
SweepOracle   == Checks(<<"agree">>)
Viewer        == Checks(<<"agree">>)

\* Its broken build is judged between the first case and the others.
FillMode      == Checks(<<"agree", "differ", "agree">>)
CycleWindows  == Checks(<<"agree", "differ">>)
GuestCycles   == Checks(<<"agree", "refuse", "differ">>)

\* Bytes are compared and the verdict is part of the report.
Masks         == Records(<<"record">>)
MaskSplits    == Records(<<"record">>)
MaskCycle     == Records(<<"record">>)
NativeCpu     == Records(<<"record">>)
Raster        == Records(<<"record">>)
ReferencePath == Records(<<"record">>)
Scene         == Records(<<"record">>)

IndirectPaths  == Noting(Checks(<<"agree", "agree">>))
DmaUploads     == Noting(Checks(<<"agree">>))
PadPoll        == Noting(Checks(<<"agree">>))
UpdateClock    == Noting(Checks(<<"agree">>))
InlineDispatch == Closing(Checks(<<"agree", "agree", "refuse", "agree">>))
BufferedReads  == Closing(Checks(<<"agree", "differ", "agree">>))
CounterBuilds  == Closing(Checks(<<"agree", "refuse", "agree">>))
OamOffsets     ==
  [Noting(Checks(<<"agree", "agree", "differ", "note">>)) EXCEPT !.limit = TRUE]

InterruptEdges == Clearing(<<"agree", "refuse", "differ">>)

(***************************************************************************)
(* The scripts of the protected timeline.  Sources are broken in a copy    *)
(* and assembled again; a guard is a program outside the profile.          *)
(***************************************************************************)
Timeline      == Noting(Clearing(<<"agree", "differ", "agree", "reread">>))
RamTimeline   == Noting(Clearing(<<"agree", "agree", "reject", "refuse">>))
RomTimeline   == Noting(Clearing(<<"agree", "agree", "reject", "refuse", "reject">>))
BankTimeline  == Noting(Clearing(<<"agree", "agree", "reject", "refuse", "differ">>))
WramTimeline  == Noting(Clearing(<<"agree", "agree", "reject", "refuse">>))
CpuIoTimeline == Noting(Clearing(<<"agree", "agree", "differ", "refuse">>))
PpuBlanked    == Noting(Clearing(<<"agree", "agree", "differ", "refuse", "differ">>))
ChrBlanked    == Noting(Clearing(<<"agree", "agree", "differ", "refuse">>))
HostNmi       == Noting(Clearing(<<"agree", "agree", "agree", "reject", "refuse">>))

ChrSets          == Noting(Matrix(<<"agree">>))
ChrSetsControls  == Clearing(<<"agree", "differ", "refuse">>)
ChrModes         == Noting(Matrix(<<"agree">>))
ChrModesControls == Clearing(<<"agree", "differ", "refuse", "differ", "note">>)
Nametables         == Noting(Matrix(<<"agree">>))
NametablesControls == Clearing(<<"agree", "differ", "refuse", "differ">>)
OamPorts         == Noting(Matrix(<<"agree">>))
OamPortsControls == Clearing(<<"agree", "differ", "refuse", "note">>)
OamDma           == Matrix(<<"agree">>)
OamDmaControls   == Clearing(<<"agree", "agree", "refuse", "differ", "refuse", "differ">>)
Palettes         == [Noting(Matrix(<<"agree">>)) EXCEPT !.drain = FALSE]
PalettesControls == Clearing(<<"agree", "differ", "refuse", "differ">>)

\* The steps of a route, its tail actions, and the export of its trace.
Route ==
  [Closing(Checks(<<"agree", "agree", "agree">>)) EXCEPT !.publish = "always"]

Plans ==
  [apu_envelopes |-> ApuEnvelopes, apu_matrix |-> ApuMatrix, apu_sweep |-> ApuSweep,
   audio |-> Audio, audio_matrix |-> AudioMatrix, cost_probe |-> CostProbe,
   default_options |-> DefaultBuilds, idle_observer |-> IdleObserved,
   indexed_matrix |-> IndexedMatrix, memory_completion |-> MemoryResult,
   object_cache |-> ObjectCache, sweep_matrix |-> SweepMatrix,
   sweep_oracle |-> SweepOracle, viewer |-> Viewer, fill_mode |-> FillMode,
   guest_cycle_windows |-> CycleWindows, guest_cycles |-> GuestCycles, masks |-> Masks,
   mask_splits |-> MaskSplits, mask_cycle |-> MaskCycle, native_cpu |-> NativeCpu,
   raster |-> Raster, reference_route |-> ReferencePath, scene |-> Scene,
   indirect_x |-> IndirectPaths, nametable_dma |-> DmaUploads,
   native_controller |-> PadPoll, update_clock |-> UpdateClock,
   native_dispatch |-> InlineDispatch, palette_reads |-> BufferedReads,
   runtime_counters |-> CounterBuilds, oam_offsets |-> OamOffsets,
   interrupt_boundary |-> InterruptEdges, timeline |-> Timeline,
   ram_timeline |-> RamTimeline, rom_timeline |-> RomTimeline,
   mmc5_timeline |-> BankTimeline, wram_timeline |-> WramTimeline,
   cpu_io_timeline |-> CpuIoTimeline, ppu_blank |-> PpuBlanked, chr_blank |-> ChrBlanked,
   host_nmi_matrix |-> HostNmi, chr_sets |-> ChrSets, chr_sets_controls |-> ChrSetsControls,
   chr_mode_rewrite |-> ChrModes, chr_mode_controls |-> ChrModesControls,
   nametable_palette |-> Nametables, nametable_controls |-> NametablesControls,
   oam_ports |-> OamPorts, oam_ports_controls |-> OamPortsControls,
   oam_dma |-> OamDma, oam_dma_controls |-> OamDmaControls,
   palette_timeline |-> Palettes, palette_controls |-> PalettesControls,
   gameplay_route |-> Route]

AllScripts == DOMAIN Plans

ASSUME ScriptsAssumption == Scripts \subseteq AllScripts

-----------------------------------------------------------------------------
(***************************************************************************)
(* Results, captures and verdicts.                                         *)
(***************************************************************************)
Results == {"agrees", "differs", "refused", "crashed"}

NoCapture == [what |-> "none", run |-> 0]
NoReport  == [run |-> 0, passed |-> FALSE, complete |-> FALSE, rows |-> {}]

Plan == Plans[script]
Stages == DOMAIN Plan.stages
Kind == Plan.stages[stage]

\* All the items of a stage, and those the present run selects.
ItemsOf(k) == 1 .. (IF k = 1 THEN Cases ELSE Controls)
Selected(k) == IF k = 1 /\ limited THEN 1 .. Smoke ELSE ItemsOf(k)

\* Slip: a broken source that only stops counts as found out.
AcceptedStopped(kind) ==
  CASE kind \in {"agree"}                        -> {"agrees"}
    [] kind \in {"differ", "reject"}             -> {"differs", "refused"}
    [] kind \in {"refuse", "reread"}             -> {"refused"}
    [] kind \in {"note", "record"}               -> {"agrees", "differs", "refused"}

\* What a stage takes a capture for.
Accepted(kind) ==
  CASE kind = "agree"              -> {"agrees"}
    [] kind = "differ"             -> {"differs"}
    [] kind = "reject"             -> {"differs", "refused"}
    [] kind \in {"refuse", "reread"} -> {"refused"}
    [] kind \in {"note", "record"}  -> {"agrees", "differs", "refused"}

\* Slip: the exit status of the process is not looked at.
ExitIgnored(kind, result) == TRUE

\* subprocess.run(check=True): a process that failed ends the run, except
\* where the script expects just that.  The sampler of such a guard also
\* fails when the program was refused.
ExitAccepted(kind, result) ==
  IF kind = "reread" THEN result \in {"refused", "crashed"} ELSE result # "crashed"

-----------------------------------------------------------------------------
(***************************************************************************)
(* One run.                                                                *)
(***************************************************************************)
VerifierInit ==
  /\ script \in Scripts
  /\ run = 0 /\ limited = FALSE
  /\ job = "idle" /\ stage = 1 /\ pending = {} /\ active = {} /\ failed = FALSE
  /\ rows = {}
  /\ captures = [k \in Stages |-> [i \in ItemsOf(k) |-> NoCapture]]
  /\ report = NoReport
  /\ progress = [run |-> 0, passed |-> FALSE]

\* The folder is made if it is missing, and the old report removed from it;
\* the route recorder notes at once that it is running.
Launch(smoke) ==
  /\ job = "idle" /\ run < MaxRuns
  /\ smoke => Plan.limit
  /\ run' = run + 1
  /\ limited' = smoke
  /\ job' = "checking" /\ stage' = 1 /\ failed' = FALSE /\ rows' = {}
  /\ pending' = (IF smoke THEN 1 .. Smoke ELSE ItemsOf(1))
  /\ report' = IF Plan.clear THEN NoReport ELSE report
  /\ progress' = IF Plan.publish = "always" THEN [run |-> run', passed |-> FALSE] ELSE progress
  /\ UNCHANGED <<script, active, captures>>

\* A worker takes the next item and starts its process.
Begin ==
  /\ job = "checking" /\ pending # {} /\ Cardinality(active) < Plan.workers
  /\ active' = active \cup {Min(pending)}
  /\ pending' = pending \ {Min(pending)}
  /\ UNCHANGED <<script, run, limited, job, stage, failed, rows, captures, report, progress>>

\* The file a process leaves: a process that dies leaves the old one.
Captured(i, result) ==
  IF result = "crashed" THEN captures[stage][i] ELSE [what |-> result, run |-> run]

\* A process ends and its capture is judged.  After a failure the script
\* only waits for the rest.
Judge(i, result) ==
  LET seen == Captured(i, result)
      good == ExitAccepted(Kind, result) /\ seen.what \in Accepted(Kind)
  IN  /\ job = "checking" /\ i \in active
      /\ active' = active \ {i}
      /\ captures' = [captures EXCEPT ![stage][i] = seen]
      /\ failed' = (failed \/ ~good)
      /\ pending' = IF good \/ Plan.drain THEN pending ELSE {}
      /\ IF good /\ ~failed
         THEN /\ rows' = rows \cup {[stage |-> stage, item |-> i,
                                     what |-> seen.what, run |-> seen.run]}
              /\ progress' = IF stage = 1 /\ Plan.notes # "none"
                             THEN [run |-> run, passed |-> FALSE]
                             ELSE progress
         ELSE UNCHANGED <<rows, progress>>
      /\ UNCHANGED <<script, run, limited, job, stage, report>>

StageDone == job = "checking" /\ pending = {} /\ active = {}

Advance ==
  /\ StageDone /\ ~failed /\ stage < Len(Plan.stages)
  /\ stage' = stage + 1
  /\ pending' = Selected(stage + 1)
  /\ UNCHANGED <<script, run, limited, job, active, failed, rows, captures, report, progress>>

Verdict ==
  IF Plan.publish = "flag" THEN \A r \in rows : r.what = "agrees" ELSE ~failed

\* The report replaces the old one whole; the progress file may follow.
Publish ==
  /\ StageDone
  /\ \/ ~failed /\ stage = Len(Plan.stages)
     \/ failed /\ Plan.publish = "always"
  /\ report' = [run |-> run, passed |-> Verdict, complete |-> ~limited, rows |-> rows]
  /\ job' = IF Plan.notes = "final" THEN "closing" ELSE "idle"
  /\ UNCHANGED <<script, run, limited, stage, pending, active, failed, rows, captures, progress>>

CloseProgress ==
  /\ job = "closing"
  /\ progress' = [run |-> run, passed |-> report.passed]
  /\ job' = "idle"
  /\ UNCHANGED <<script, run, limited, stage, pending, active, failed, rows, captures, report>>

\* An exception: nothing is published.
GiveUp ==
  /\ StageDone /\ failed /\ Plan.publish # "always"
  /\ job' = "idle"
  /\ UNCHANGED <<script, run, limited, stage, pending, active, failed, rows, captures, report,
                 progress>>

\* The script and its processes are killed.
Abort ==
  /\ job # "idle"
  /\ job' = "idle" /\ pending' = {} /\ active' = {}
  /\ UNCHANGED <<script, run, limited, stage, failed, rows, captures, report, progress>>

VerifierNext ==
  \/ \E smoke \in BOOLEAN : Launch(smoke)
  \/ Begin
  \/ \E i \in active, result \in Results : Judge(i, result)
  \/ Advance \/ Publish \/ CloseProgress \/ GiveUp \/ Abort

VerifierSpec == VerifierInit /\ [][VerifierNext]_verifierVars

-----------------------------------------------------------------------------
\* What a passing report claims of an item of a stage.
Claimed(kind, what) ==
  CASE kind \in {"agree", "record"}   -> what = "agrees"
    [] kind = "differ"               -> what = "differs"
    [] kind = "reject"               -> what # "agrees"
    [] kind \in {"refuse", "reread"}  -> what = "refused"
    [] kind = "note"                 -> what # "none"

(***************************************************************************)
(* A report that says "passed", and was not made under a limit, rests on   *)
(* a judgement of every item of every stage, each with the result the      *)
(* report claims: broken sources ran and disagreed, guards stopped.  A     *)
(* progress file that says so too belongs to such a report.  Holds with    *)
(* two workers, and whatever died, was killed or was started again.        *)
(***************************************************************************)
PassIsWhole ==
  /\ report.passed /\ report.complete =>
       \A k \in Stages : \A i \in ItemsOf(k) :
         \E r \in report.rows : r.stage = k /\ r.item = i /\ Claimed(Plan.stages[k], r.what)
  /\ progress.passed => report.passed /\ report.run = progress.run

(***************************************************************************)
(* What a passing report rests on was captured by the run that wrote it,   *)
(* although its folder keeps the captures of earlier runs; the guards that *)
(* are read back after a failed process are stated apart.  A script that   *)
(* removes its report first leaves none of an earlier run behind.          *)
(***************************************************************************)
PassIsFresh ==
  report.passed =>
    /\ \A r \in report.rows : Plan.stages[r.stage] # "reread" => r.run = report.run
    /\ Plan.clear => report.run = run

(***************************************************************************)
(* verify_timeline.py, 175: "Real native fault gates, not merely           *)
(* report-file mutation."  A guard in a passing report has stopped in the  *)
(* run that wrote the report.                                              *)
(***************************************************************************)
GuardsReallyRun ==
  report.passed =>
    \A r \in report.rows : Plan.stages[r.stage] = "reread" => r.run = report.run
=============================================================================
