---------------------------- MODULE SourcePatches ----------------------------
(***************************************************************************)
(* The tools that patch a pinned source tree: tools/instrument_*.py for    *)
(* the emulators and maintenance/*/apply.py for this repository.  Each one *)
(* looks for its own marker, then either checks that everything it once    *)
(* wrote is still there, or checks the pinned text and writes file after   *)
(* file.  The observers of the timeline fixtures are stacked: each one     *)
(* installs the one below it first.                                        *)
(*                                                                         *)
(* A file is the sequence of its pieces: the upstream text ("pinned"), the *)
(* hooks and getters the tools add, and what an editor leaves behind.  A   *)
(* header a tool owns is <<>> while it is missing, otherwise the release   *)
(* of the repository it was copied from and its layers.  A tool can be     *)
(* killed between two writes, and a person may edit or restore any file    *)
(* while no tool runs.                                                     *)
(***************************************************************************)
EXTENDS Naturals, Sequences, FiniteSets, SequencesExt

CONSTANTS MaxEdits,     \* edited pieces present in a tree at a time
          Releases      \* the releases of the headers, oldest first: a sequence

VARIABLES tools,        \* the tools used on this tree: a set of names
          tree,         \* [file -> pieces]
          release,      \* index of the release the tools come from
          stack,        \* the tools that are running, the innermost one last
          phase,        \* "check", "confirm" or "write", of the innermost one
          step,         \* its next write
          wrote,        \* whether this run has changed a file
          outcome,      \* what the last run reported, and of which tool
          newer,        \* the compiled source is newer than its object
          stale         \* a header has changed since that object was compiled

patchVars == <<tools, tree, release, stack, phase, step, wrote, outcome, newer, stale>>

Cpu   == "x6502.c"
Probe == "n2s_timeline_probe.h"
Board == "mmc5.c"
Ppu   == "ppu.c"

(***************************************************************************)
(* What one tool looks for and writes.                                     *)
(*   mark     a piece whose presence means the tool has been here          *)
(*   once     pieces that must then occur exactly once                     *)
(*   ends     pieces a file must then end with                             *)
(*   exact    what a header must then hold                                 *)
(*   clean    pieces that must be absent before it installs                *)
(*   anchors  files whose pinned text must be intact before it installs    *)
(*   before   files that must be exactly the reviewed baseline             *)
(*   base     the tool below it, and what the header must hold after that  *)
(*   writes   the files it writes, in order, and the pieces it puts there  *)
(*   touch    it touches the compiled source last: make does not know the  *)
(*            headers that source includes                                 *)
(*   again    the write a marked tree starts from, 0 for none              *)
(***************************************************************************)
Patch == [mark |-> {}, once |-> {}, ends |-> {}, exact |-> {}, clean |-> {},
          anchors |-> {}, before |-> {}, base |-> "none", under |-> <<>>, writes |-> <<>>,
          touch |-> FALSE, again |-> 0]

\* The calls in the dispatcher, and the line that includes the header.
StimulusHooks == {<<Cpu, "stimulus">>, <<Cpu, "stimulusInclude">>}

\* The WRAM observer and those above it count the calls, not the line.
DispatchHooks == {<<Cpu, "stimulus">>}

Stimulus(size) ==
  [Patch EXCEPT !.mark = {<<Cpu, "stimulus">>}, !.once = StimulusHooks,
                !.exact = {<<Probe, <<size>>>>},
                !.clean = {<<Cpu, "stimulusInclude">>}, !.anchors = {Cpu},
                !.writes = <<<<Probe, <<size>>>>, <<Cpu, <<"stimulusInclude", "stimulus">>>>>>]

MapLayers == <<"large", "map">>
MapCapture ==
  [Patch EXCEPT !.mark = {<<Probe, "map">>}, !.once = StimulusHooks,
                !.exact = {<<Probe, MapLayers>>},
                !.base = "stimulus2048", !.under = <<"large">>,
                !.touch = TRUE, !.writes = <<<<Probe, MapLayers>>>>]

\* The board's declarations are looked for before anything else.
WramLayers == <<"large", "wram">>
Wram ==
  [Patch EXCEPT !.mark = {<<Board, "wramGetter">>, <<Probe, "wram">>},
                !.once = DispatchHooks \cup {<<Board, "wramGetter">>, <<Board, "pinned">>},
                !.ends = {<<Board, <<"wramGetter">>>>}, !.exact = {<<Probe, WramLayers>>},
                !.anchors = {Board}, !.base = "stimulus2048", !.under = <<"large">>,
                !.touch = TRUE, !.writes = <<<<Board, <<"wramGetter">>>>, <<Probe, WramLayers>>>>]

CpuIoLayers == WramLayers \o <<"cpuio">>
CpuIo ==
  [Patch EXCEPT !.mark = {<<Board, "cpuGetter">>, <<Probe, "cpuio">>},
                !.once = DispatchHooks \cup {<<Board, "cpuGetter">>},
                !.ends = {<<Board, <<"wramGetter", "cpuGetter">>>>},
                !.exact = {<<Probe, CpuIoLayers>>},
                !.anchors = {Board}, !.base = "wram", !.under = WramLayers,
                !.touch = TRUE, !.writes = <<<<Board, <<"cpuGetter">>>>, <<Probe, CpuIoLayers>>>>]

PpuLayers == CpuIoLayers \o <<"ppu">>
PpuBlank ==
  [Patch EXCEPT !.mark = {<<Ppu, "ppuGetter">>, <<Board, "fillGetter">>, <<Probe, "ppu">>},
                !.once = DispatchHooks,
                !.ends = {<<Ppu, <<"ppuGetter">>>>, <<Board, <<"fillGetter">>>>},
                !.exact = {<<Probe, PpuLayers>>},
                !.anchors = {Ppu}, !.base = "cpuio", !.under = CpuIoLayers,
                !.touch = TRUE, !.writes = <<<<Ppu, <<"ppuGetter">>>>, <<Board, <<"fillGetter">>>>,
                             <<Probe, PpuLayers>>>>]

\* Slip: the CHR observer is laid over the wrong layer of the header.
ChrBlankOver ==
  [PpuBlank EXCEPT !.mark = {<<Board, "chrGetter">>}, !.base = "ppu",
                   !.writes = <<<<Board, <<"chrGetter">>>>>>]

ChrLayers == PpuLayers \o <<"chr">>
ChrBlank ==
  [Patch EXCEPT !.mark = {<<Board, "chrGetter">>, <<Probe, "chr">>},
                !.once = DispatchHooks,
                !.ends = {<<Board, <<"chrGetter">>>>, <<Ppu, <<"ppuGetter">>>>},
                !.exact = {<<Probe, ChrLayers>>},
                !.anchors = {Board}, !.base = "ppu", !.under = PpuLayers,
                !.touch = TRUE, !.writes = <<<<Board, <<"chrGetter">>>>, <<Probe, ChrLayers>>>>]

\* A single observer in the dispatcher: its header first, then the hooks.
CycleObserver ==
  [Patch EXCEPT !.mark = {<<Cpu, "cycle">>},
                !.once = {<<Cpu, "cycle">>, <<Cpu, "cycleInclude">>},
                !.exact = {<<"n2s_cycle_observer.h", <<>>>>},
                !.clean = {<<Cpu, "cycleInclude">>}, !.anchors = {Cpu},
                !.writes = <<<<"n2s_cycle_observer.h", <<>>>>,
                             <<Cpu, <<"cycleInclude", "cycle">>>>>>]

InterruptProbe ==
  [Patch EXCEPT !.mark = {<<Cpu, "boundary">>},
                !.once = {<<Cpu, "boundary">>, <<Cpu, "boundaryInclude">>},
                !.exact = {<<"n2s_interrupt_probe.h", <<>>>>},
                !.clean = {<<Cpu, "boundaryInclude">>}, !.anchors = {Cpu},
                !.writes = <<<<"n2s_interrupt_probe.h", <<>>>>,
                             <<Cpu, <<"boundaryInclude", "boundary">>>>>>]

\* The idle observer serves both emulators; it refuses a tree that is
\* already profiled.
IdleObserver(source) ==
  [Patch EXCEPT !.mark = {<<source, "idle">>},
                !.once = {<<source, "idle">>, <<source, "idleInclude">>},
                !.exact = {<<"n2s_idle_observer.h", <<>>>>},
                !.clean = {<<source, p>> : p \in {"idleInclude", "costs", "costsV1", "profile"}},
                !.anchors = {source},
                !.writes = <<<<"n2s_idle_observer.h", <<>>>>,
                             <<source, <<"idleInclude", "idle">>>>>>]

DmaTrace ==
  [Patch EXCEPT !.mark = {<<"NstCpu.cpp", "dmaInclude">>},
                !.once = {<<"NstCpu.cpp", p>> : p \in {"dmaInclude", "dma", "pinned"}},
                !.exact = {<<"n2s_dma_trace.h", <<>>>>},
                !.clean = {<<"NstCpu.cpp", "dma">>}, !.anchors = {"NstCpu.cpp"},
                !.writes = <<<<"n2s_dma_trace.h", <<>>>>,
                             <<"NstCpu.cpp", <<"dmaInclude", "dma">>>>>>]

\* The play probe is copied again whenever its include is there.
PlayProbe ==
  [Patch EXCEPT !.mark = {<<Cpu, "play">>}, !.anchors = {Cpu}, !.touch = TRUE, !.again = 2,
                !.writes = <<<<Cpu, <<"play">>>>, <<"n2s_probe.inc", <<>>>>>>]

\* The two Snes9x profilers have no header, and trust their marker.
Profile ==
  [Patch EXCEPT !.mark = {<<"cpuexec.cpp", "profile">>}, !.anchors = {"cpuexec.cpp"},
                !.writes = <<<<"cpuexec.cpp", <<"profile">>>>>>]

FrameCosts ==
  [Patch EXCEPT !.mark = {<<"cpuexec.cpp", "costs">>},
                !.clean = {<<"cpuexec.cpp", "costsV1">>, <<"cpuexec.cpp", "profile">>},
                !.anchors = {"cpuexec.cpp"},
                !.writes = <<<<"cpuexec.cpp", <<"costs">>>>>>]

\* The source changes of this repository hash their files before they touch
\* one; only the last of them knows its own result again.  The edit to the
\* fixture replaces the very text it looks for.
Integration(name, files) ==
  [Patch EXCEPT !.before = ToSet(files), !.anchors = ToSet(files),
                !.writes = [i \in DOMAIN files |-> <<files[i], <<name>>>>]]

IndirectX ==
  LET fixture == "indirect_x_fixture.py"
  IN  [Integration("indirectX", <<"native.s", "build_native.py", fixture>>) EXCEPT
         !.before = @ \ {fixture}, !.clean = {<<fixture, "indirectX">>}]

NametableDmaPatch == Integration("coalesced", <<"native_video.inc", "build_native.py">>)

DispatchPatch == Integration("dispatch", <<"build_native.py", "verify_native_cpu.py">>)

\* The hashes compared after the patch has been applied are decided by those compared
\* before it: a patch that applies to the text they name gives one result. Left out.
PaletteReads ==
  LET files == <<"native.s", "native_ppudata.inc", "README.md">>
  IN  [Integration("paletteReads", files) EXCEPT
         !.mark  = {<<f, "paletteReads">> : f \in ToSet(files)},
         !.exact = {<<f, <<"paletteReads">>>> : f \in ToSet(files)}]

Tool(name) ==
  CASE name = "stimulus512"  -> Stimulus("small")
    [] name = "stimulus2048" -> Stimulus("large")
    [] name = "map"          -> MapCapture
    [] name = "wram"         -> Wram
    [] name = "cpuio"        -> CpuIo
    [] name = "ppu"          -> PpuBlank
    [] name = "chr"          -> ChrBlank
    [] name = "cycle"        -> CycleObserver
    [] name = "boundary"     -> InterruptProbe
    [] name = "idle"         -> IdleObserver(Cpu)
    [] name = "play"         -> PlayProbe
    [] name = "dma"          -> DmaTrace
    [] name = "idleHost"     -> IdleObserver("cpuexec.cpp")
    [] name = "profile"      -> Profile
    [] name = "costs"        -> FrameCosts
    [] name = "indirectX"    -> IndirectX
    [] name = "coalesced"    -> NametableDmaPatch
    [] name = "dispatch"     -> DispatchPatch
    [] name = "paletteReads" -> PaletteReads

-----------------------------------------------------------------------------
(***************************************************************************)
(* Files.                                                                  *)
(***************************************************************************)
Headers == {Probe, "n2s_cycle_observer.h", "n2s_interrupt_probe.h",
            "n2s_idle_observer.h", "n2s_dma_trace.h", "n2s_probe.inc"}

\* The source a make rule compiles; the rule does not know its headers.
Compiled == {Cpu, "cpuexec.cpp", "NstCpu.cpp"}

FilesOf(names) == UNION {{w[1] : w \in ToSet(Tool(n).writes)} \cup Tool(n).anchors : n \in names}

Pristine(f) == IF f \in Headers THEN <<>> ELSE <<"pinned">>

Expected(f, pieces) ==
  IF f \in Headers THEN <<Releases[release]>> \o pieces ELSE <<"pinned">> \o pieces

Occurs(f, piece) == Cardinality({i \in DOMAIN tree[f] : tree[f][i] = piece})

\* A header is replaced, a source gets the new pieces in their places.
Written(f, pieces) == IF f \in Headers THEN Expected(f, pieces) ELSE tree[f] \o pieces

-----------------------------------------------------------------------------
(***************************************************************************)
(* A tool's tests.                                                         *)
(***************************************************************************)
Marked(t) == \E m \in t.mark : m[1] \in DOMAIN tree /\ Occurs(m[1], m[2]) > 0

\* Slip: a marked tree is trusted when its markers are there once.
WholeMarked(t) == \A m \in t.mark : Occurs(m[1], m[2]) = 1

Whole(t) ==
  /\ \A m \in t.once  : Occurs(m[1], m[2]) = 1
  /\ \A m \in t.ends  : IsSuffix(m[2], tree[m[1]])
  /\ \A m \in t.exact : tree[m[1]] = Expected(m[1], m[2])

Ready(t) ==
  /\ \A m \in t.clean   : Occurs(m[1], m[2]) = 0
  /\ \A f \in t.anchors : Occurs(f, "pinned") = 1
  /\ \A f \in t.before  : tree[f] = Pristine(f)

-----------------------------------------------------------------------------
(***************************************************************************)
(* One run of a tool.                                                      *)
(***************************************************************************)
Idle == stack = <<>>
Running == ~Idle
Inner == Tool(Last(stack))

NoOutcome == [tool |-> "none", what |-> "none"]

Leave(what) ==
  /\ stack' = <<>>
  /\ phase' = "check"
  /\ step' = 1
  /\ outcome' = [tool |-> stack[1], what |-> what]

\* The innermost tool is done: the run is over, or the tool that called it goes on.
Return(what) ==
  IF Len(stack) = 1
  THEN Leave(what)
  ELSE /\ stack' = Front(stack)
       /\ phase' = "confirm"
       /\ step' = 1
       /\ UNCHANGED outcome

\* An exception leaves every tool of the run.
Refuse == Leave("refused")

\* instrument(source) or apply() is called.
Call(name) ==
  /\ Idle
  /\ stack' = <<name>>
  /\ wrote' = FALSE
  /\ outcome' = NoOutcome
  /\ UNCHANGED <<tools, tree, release, phase, step, newer, stale>>

\* It has been here before: everything is still whole, or it refuses; the play
\* probe refreshes its copy without a test.
CheckMarked ==
  LET t == Inner
  IN  /\ Running /\ phase = "check" /\ Marked(t)
      /\ IF t.again > 0
         THEN phase' = "write" /\ step' = t.again /\ UNCHANGED <<stack, outcome>>
         ELSE IF Whole(t) THEN Return("already") ELSE Refuse
      /\ UNCHANGED <<tools, tree, release, wrote, newer, stale>>

\* It has not: it refuses a text it does not know, or starts with its base.
CheckClean ==
  LET t == Inner
  IN  /\ Running /\ phase = "check" /\ ~Marked(t)
      /\ \/ ~Ready(t) /\ Refuse
         \/ /\ Ready(t) /\ t.base # "none"
            /\ stack' = Append(stack, t.base)
            /\ UNCHANGED <<phase, step, outcome>>
         \/ /\ Ready(t) /\ t.base = "none"
            /\ phase' = "write"
            /\ UNCHANGED <<stack, step, outcome>>
      /\ UNCHANGED <<tools, tree, release, wrote, newer, stale>>

\* Back from the base: its header must be exactly the one this tool extends.
Confirm ==
  /\ Running /\ phase = "confirm"
  /\ IF tree[Probe] = Expected(Probe, Inner.under)
     THEN phase' = "write" /\ UNCHANGED <<stack, step, outcome>>
     ELSE Refuse
  /\ UNCHANGED <<tools, tree, release, wrote, newer, stale>>

\* A file gets a new date.
Dates(f) ==
  /\ newer' = (newer \/ f \in Compiled)
  /\ stale' = (stale \/ f \in Headers)

\* One file is written.
Write ==
  LET w == Inner.writes[step]
  IN  /\ Running /\ phase = "write" /\ step <= Len(Inner.writes)
      /\ tree' = [tree EXCEPT ![w[1]] = Written(w[1], w[2])]
      /\ Dates(w[1])
      /\ wrote' = TRUE
      /\ step' = step + 1
      /\ UNCHANGED <<tools, release, stack, phase, outcome>>

\* After the last file the compiled source is touched, and the tool returns.
\* Slip: the header is replaced and the source keeps its date.
NotTouched(t) == newer

Touched(t) == newer \/ t.touch

Finish ==
  /\ Running /\ phase = "write" /\ step > Len(Inner.writes)
  /\ newer' = Touched(Inner)
  /\ Return("installed")
  /\ UNCHANGED <<tools, tree, release, wrote, stale>>

\* The tool is interrupted; what it has written stays.
Kill ==
  /\ Running
  /\ stack' = <<>>
  /\ phase' = "check"
  /\ step' = 1
  /\ UNCHANGED <<tools, tree, release, wrote, outcome, newer, stale>>

-----------------------------------------------------------------------------
(***************************************************************************)
(* What people do between the runs.                                        *)
(***************************************************************************)
Foreign == {"comment", "moved", "costsV1"}

EditCount ==
  Cardinality(UNION {{<<f, i>> : i \in {k \in DOMAIN tree[f] : tree[f][k] \in Foreign}}
                       : f \in DOMAIN tree})

Change(f, pieces) ==
  /\ tree' = [tree EXCEPT ![f] = pieces]
  /\ Dates(f)
  /\ outcome' = NoOutcome
  /\ UNCHANGED <<tools, release, stack, phase, step, wrote>>

\* Text is added at the end of a source, or some of it is changed.
Edit(f) ==
  /\ Idle /\ f \notin Headers /\ EditCount < MaxEdits
  /\ \/ Change(f, Append(tree[f], "comment"))
     \/ \E i \in DOMAIN tree[f] : Change(f, [tree[f] EXCEPT ![i] = "moved"])

\* The previous release of the frame-cost profiler was used on this tree.
UseOldCosts ==
  /\ Idle /\ "costs" \in tools /\ EditCount < MaxEdits
  /\ Change("cpuexec.cpp", Append(tree["cpuexec.cpp"], "costsV1"))

\* One file is checked out again; a header nobody tracks is deleted.
Restore(f) == Idle /\ tree[f] # Pristine(f) /\ Change(f, Pristine(f))

\* The repository moves on to a release with other headers.
Upgrade ==
  /\ Idle /\ release < Len(Releases)
  /\ release' = release + 1
  /\ outcome' = NoOutcome
  /\ UNCHANGED <<tools, tree, stack, phase, step, wrote, newer, stale>>

\* make compiles the source only when it is newer than its object.
Build ==
  /\ Idle /\ newer
  /\ newer' = FALSE
  /\ stale' = FALSE
  /\ UNCHANGED <<tools, tree, release, stack, phase, step, wrote, outcome>>

-----------------------------------------------------------------------------
PatchInit(names) ==
  /\ tools = names
  /\ tree = [f \in FilesOf(names) |-> Pristine(f)]
  /\ release = 1
  /\ stack = <<>> /\ phase = "check" /\ step = 1 /\ wrote = FALSE
  /\ outcome = NoOutcome
  /\ newer = (FilesOf(names) \cap Compiled # {})
  /\ stale = FALSE

PatchNext ==
  \/ \E n \in tools : Call(n)
  \/ CheckMarked \/ CheckClean \/ Confirm \/ Write \/ Finish \/ Kill
  \/ \E f \in DOMAIN tree : Edit(f) \/ Restore(f)
  \/ UseOldCosts \/ Upgrade \/ Build

-----------------------------------------------------------------------------
\* The observers of the timeline fixtures, each one above the one before.
Chain == <<"stimulus2048", "wram", "cpuio", "ppu", "chr">>

LayersOf(name) ==
  IF Contains(Chain, name)
  THEN {Chain[i] : i \in {k \in DOMAIN Chain : \E j \in k .. Len(Chain) : Chain[j] = name}}
  ELSE {name, Tool(name).base} \ {"none"}

\* What a tool puts into the sources, and what it has made sure of when it reports:
\* that, and the calls in the dispatcher its observation hangs on.
PiecesOf(name) ==
  UNION {{<<w[1], p>> : p \in ToSet(w[2])} :
           w \in {v \in ToSet(Tool(name).writes) : v[1] \notin Headers}}

SureOf(name) ==
  PiecesOf(name) \cup (IF "stimulus2048" \in LayersOf(name) THEN {<<Cpu, "stimulus">>} ELSE {})

(***************************************************************************)
(* When a tool reports "installed" or "already installed", whatever was    *)
(* killed half-way, restored, edited or upgraded before:                   *)
(*   - every piece it puts into a source itself, and the calls in the      *)
(*     dispatcher, are there exactly once;                                 *)
(*   - the headers it writes are those of the present release;             *)
(*   - what only the tools below it put there (an older getter, the line   *)
(*     that includes the header) it may not have looked at: such a piece   *)
(*     is there once, or it is gone from a file where some text has been   *)
(*     changed by hand and is still so; no other file lacks any piece.     *)
(***************************************************************************)
InstalledWhole ==
  outcome.what \in {"installed", "already"} =>
    /\ \A m \in SureOf(outcome.tool) : Occurs(m[1], m[2]) = 1
    /\ \A w \in ToSet(Tool(outcome.tool).writes) :
         w[1] \in Headers => tree[w[1]] = Expected(w[1], w[2])
    /\ \A layer \in LayersOf(outcome.tool) : \A m \in PiecesOf(layer) :
         Occurs(m[1], m[2]) # 1 => Occurs(m[1], m[2]) = 0 /\ Occurs(m[1], "moved") > 0

(***************************************************************************)
(* A tool that refuses a tree has changed no file of it, the tools it      *)
(* called first included.                                                  *)
(***************************************************************************)
RefusedUntouched == outcome.what = "refused" => ~wrote

(***************************************************************************)
(* Once a tool has reported "installed" and make has nothing left to do,   *)
(* the object was compiled after the last change to a header, although     *)
(* make does not know that the source includes one. Nothing is promised of *)
(* "already installed": a tool killed after its last header and before it  *)
(* touches the source leaves a tree that its next run finds complete.      *)
(***************************************************************************)
FreshBuild ==
  outcome.what = "installed" /\ ~newer => ~stale
==============================================================================
