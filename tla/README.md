# Verification of the Nes2Snes runtime

Nes2Snes turns a NES program for the MMC5 cartridge into a SNES program. The
translated NES code runs natively on the 65816; a bridge written in assembly
(`src/snes/src/native.s` and the files it includes) supplies what the NES
hardware did: bank switching, PPU and APU ports, scanline interrupts, video and
sound. A second, experimental runtime (the `*timeline*` files) interprets the
program against an explicit clock. Python tools (`src/tools`) classify code, build
the ROM image and test it.

This directory models the bridge in TLA+, checks the models with TLC and proves
the main results for all values of the constants with TLAPS.

## Inventory

### Production bridge

| part | source | state | operations |
|---|---|---|---|
| boot | `native.s` Reset | all of it | clears WRAM, copies veneers, starts the SPC700, enters the NES reset vector |
| COP interpreter | `native.s` 185-1347 | SA-SF save area, COPBUSY, VAL, EA | dispatch, quick paths, generic path, return |
| direct calls | `tools/direct_calls.py`, `native_direct.inc` | veneers in WRAM | bank veneers, port veneers, bank-$80 workers |
| bank state | `native.s` UpdateBanks | SLOT, RAWBANK, CODEBANK, DBR, PBR | $5115-$5117 |
| interrupt gate | `native.s` 1809-2089 | RUNNING, NCTX, IRQCOUNT, LASTIRQ, IRQPENDING | host NMI, NES NMI and IRQ handlers, restore |
| PPU ports | `native.s` 1495-1749, `native_ppudata.inc` | CTRL, MASK, STATUS, LATCH, TEMPV, VRAMV, FINEX, OADDR | $2000-$2007 |
| OAM DMA | `native.s` 1364-1434, `native_oam_offset.inc` | shadow OAM | $4014 |
| nametables | `native_video.inc`, `native_fill_cache.inc`, `native_nametable_dma.inc` | DIRTY, OLDMIRROR, OLDTOP, fill cache, shadow maps, UPLOAD | mark, convert, upload |
| objects, palette, characters | `native_video.inc` | shadow buffers, BG/TOP/SPR caches | convert, upload |
| raster, masks | `native_video.inc`, `native_masks.inc` | RASTER_*, HDMA tables | capture, build tables |
| APU | `native_apu.inc`, `native_sweep.inc` | lengths, envelopes, linear counter, sweep | register writes, half and quarter frames |
| audio link | `native_audio.inc`, `tools/audio_program.py` | ACACHE, ATOKEN, AREADY, AFAULT, four ports, SPC state | write, wait; SPC receiver |
| controller | `native_controller.inc` | STROBE, JOYLATCH, JOYSHIFT | serial reads, replaced poll routine |

Everything above runs on one CPU, with one real source of concurrency inside it:
the SNES NMI interrupts any instruction, and its handler runs a whole NES frame on
top of what it interrupted. The second is the SPC700, a processor of its own that
shares four ports with the CPU. So the hard parts are the gate (who may be
interrupted where, one global save area, bank state that changes under the
interrupted program), the pipelined video (a frame prepared in one NMI is shown in
a later one while the NES program keeps writing), its caches, and the handshake
with the SPC700.

### Timeline prototype

| part | source | state | operations |
|---|---|---|---|
| retirement, interrupt boundary | `guest_timeline.inc`, `guest_interrupt.inc` | GT, GI: clock, cursor, latches, delayed I | charge, apply events, enter |
| host NMI envelope | `timeline_host_nmi.inc` | HN_DEPTH, two context snapshots | save, work, restore, refuse |
| program banks, work RAM, ExRAM, multiplier | `mmc5_prg.inc`, `mmc5_wram.inc`, `mmc5_cpu_io.inc` | MB_REG, MB_SLOTS, CW_LOCK, CW_PAGE, 32 KiB RAM, ExRAM | $5100-$5104, $5113-$5117, $5205, $5206, stores |
| PPU ports, CHR sets | `mmc5_ppu_blank.inc`, `mmc5_chr_blank.inc`, `chr_sets.inc`, `chr_mode_rewrite.inc` | PV, CIRAM, CR, CS, CL | $2000-$2007, $5101, $5105-$5107, $5120-$5130 |
| palette, OAM, OAM DMA | `palette_timeline.inc`, `oam_ports.inc`, `oam_dma_timeline.inc` | PL_RAM, OAM, OA | $2003, $2004, $2007, $4014 |

It is not linked into `native.s`. Each part after the second is a layer: a program
is built for one layer, which adds ports to the one before and decides what is
refused. A refusal sets a status and halts without a row; everything else is
retired, and the whole machine is captured in a row. Hard: overflow of the bounded
clock, several events due at once, nesting of NMIs, lost updates of the counters,
partial copies, registers that stay while what they mean changes.

### Tools

`native_cfg.py` and `build_native.py` (which code may be patched); fixtures; the patch
tools `instrument_*.py` and `maintenance/*/apply.py`, which change pinned source
trees; the evidence scripts `verify_*.py` and `gameplay_route.py`, which run emulators
and publish reports. The tools keep their state in files that outlive them. Hard:
a tool killed between two writes, trees that were edited or half restored, stacked
observers that share files, a make that does not know the headers; captures and
reports of earlier runs in the same folder, two workers, processes that die.

### What correctness means, per part

* gate: NES code never sees a bank pair other than the selected one; a veneer
  never runs in a bank without WRAM; the save area is never taken twice; the
  interrupted program gets its context back; IRQ chains and NMI handling end;
  frames are shown in order.
* nametables: what is shown is what converting everything would show, as of one
  instant; uploads carry the flagged rows and nothing else.
* audio link: a sent command is executed whole; a timeout ends the use of the
  link; the CPU never hangs.
* APU: a disabled channel has length 0; a swept period stays in the pitch table;
  sequencer phases and envelopes stay in range.
* timeline: the clock never wraps, events are taken in order and once, nested
  NMIs restore the scratch areas of each level; the native slots are those the
  reference computes; protected memory changes only when unlocked; pattern bytes
  never come through a stale register; a refused port changes nothing.
* tools: what is reported as installed is there once and compiled; a refused tree
  is untouched; what is reported as passed was judged, all of it, in that run.

`PROJECT.json` lists the components with their status and the hazards with their
lines.

## Modules

| module | models | proved about in |
|---|---|---|
| `NativeNmi` | gate, COP, veneers, bank state, frame loop | `NativeNmiProofs` |
| `InterruptedProgram` | abstract: an interrupt is atomic and transparent | (same) |
| `NametableCache` | marks, caches, conversion, presentation of nametables | `NametableProofs` |
| `PresentedFrame` | abstract: frames are snapshots, shown once | (same) |
| `NametableDma` | the coalesced upload loop | (same) |
| `AudioLink` | CPU side and SPC700 side of the DSP command link | `AudioLinkProofs` |
| `ApuCounters` | length, envelope and linear counters, frame sequencer | `ApuUnitsProofs` |
| `PulseSweep` | sweep unit of a pulse channel | (same) |
| `GuestTimeline` | timeline: clock, requests, interrupt boundary, one step per row | `GuestTimelineProofs` |
| `TimelineHost` | timeline: the driver in steps, under nested host NMIs | `TimelineHostProofs` |
| `PortStep` | timeline: layers, faults and retirement of one instruction | `Mmc5TimelineProofs` |
| `CartridgeMemory` | program banks, work RAM, ExRAM, multiplier | (same) |
| `PicturePorts` | PPU ports, CHR banks, palette | (same) |
| `ObjectPorts` | OAM ports, OAM DMA | (same) |
| `Mmc5Timeline` | composes the four: a program on the MMC5 timeline | (same) |
| `SourcePatches` | the tools that patch source trees | `ToolSessionsProofs` |
| `VerifierRuns` | the scripts that collect evidence | (same) |

The `MC*` modules extend them for TLC; the `.cfg` files give the constants their
values. Definitions whose comment begins with "Slip" are deliberate small mistakes
of the code; exchanging one for the definition that follows it must make a
property fail, which shows that the property depends on that piece of code.

### NativeNmi

`pc` is a location: a member of `RomPC` stands for translated NES code (its address
and flags), a label for veneer or host code. `stk` holds the return frames on the
NES program's stack, the hardware frame of an NMI included; `nctx` is NCTX,
`cop` the save area of the generic COP path. The NES program is an environment
that computes, issues COP, calls veneers, returns from handlers with RTI, or hits
an unused vector, at every `RomPC` location. One action is a stretch of host code
between the points where an NMI makes a difference; `Nmi` can happen between any
two actions. The NMI preamble up to its decision is one step, since NMI edges are a
frame apart. What the PPU and APU ports do is kept only where the gate reads it:
bit 7 of CTRL and STATUS, IRQENABLE, IRQPOS, IRQPENDING. Every store whose order
matters to an NMI is a step of its own: SLOT, RAWBANK, CODEBANK and DBR in a bank
veneer, the two accesses to STATUS in a status read, the raise of RUNNING.

NES software that manipulates its own stack pointer across an interrupt is outside
the model: handlers return with the stack they were given (`GuestRti`), which the
bridge itself assumes when it reuses `NCTX.S`.

`NmiIsTransparent` maps the model to `InterruptedProgram`: `Serving` from the entry of
`NmiFull` to the RTI of the restore, and `Program`, the context that will resume, read
from wherever it is held at the moment (CPU, hardware frame, NCTX). The program
bank is left out of it on purpose: handlers may change it, and `BankCoherent` says
what it has to be.

### NametableCache

`tile` and `attr` are the physical pages by row; `route` is $5105, `Hud` the fifth,
independent surface on BG2. `MarkPhysicalRow`, the fill cache and `Converts` follow
the code's tests, including the early exit on DIRTY_ANY and the rule that a render
clears all marks. A row's pixels are abstracted to a pair (tiles, colours).
`PresentedFrame` renders the whole live picture and shows it later; the refinement
says that the cached renderer cannot be told apart from it. The configuration
modelled is the one with `USE_FILL_CACHE_FIX` and `USE_PIPELINED_VIDEO`.

### NametableDma

The loop of `UploadNametablesCoalesced` step by step; addresses count rows. `vram`
remembers which shadow row each VRAM row was loaded from.

### AudioLink

`AudioWrite` is cut at each port store, because the SPC700 reads the ports at its own
pace; the receiver's loop is cut at each port read or DSP write. `Init` is what
`AudioInitialize` leaves, with a working link or without one. Nothing is assumed
of the receiver's speed, not even that it keeps running.

### ApuCounters and PulseSweep

The NES program writes APU registers between any two instructions; once per NES frame
the host takes four steps of the sequencer. Both happen with the gate closed, so a
register write and a frame are one action each. The registers are kept decoded
(`on`, `halt`, `fixed`, `period`, `load`, `five`), the counters are one record `count`, so
that a frame is a composition of `ApuHalf`, `ApuQuarter` and `Tick`. The two modules
share the half-frame clock and nothing else: a sweep reads and writes its own
period, divider and reload flag only. `PulseSweep` models one channel, either of the
two; the scratch words both use are computed anew on each use. A shift count is
given as the power of two it divides by. The `MCPulseSweep` module adds a history of
half frames since the last sweep for `SweepsPaced`.

### GuestTimeline and TimelineHost

`GuestTimeline` takes one NES instruction per step. `gt` is the row captured after it
(GT as the header copies it) and `outcome` the marker at $7E1FFF together with the
status of a fault. The authored schedule is chosen once from `Plans`. The program is
unconstrained: any instruction of `Ops` may come next, a plain one leaves I alone,
CLI, SEI and PLP (`delayed`) and RTI may set it either way, and a computed transfer
may lead out of the program. The event loop is the relation `LoopStops` between the
old and the new cursor. Memory, registers and addresses are left out; statuses 1, 2
and 5 answer plans that `validate_plan` and `decode` refuse.

`TimelineHost` cuts the same driver wherever a register, the carry or half-updated
scratch memory is live: the words of the clock are added in two steps, the boundary
record is filled, decided and copied back, the header is assembled before it is
written at the cursor. `Nmi` may hit between any two steps, in the interrupt routine
too. `stack` holds what hardware and routine push; a context is `gc`, `gi`, the clock
record, cursor and header. The worker overwrites all of them and the registers.
`UnseenByGuest` is the refinement: the last row in `out` and the marker are the state of
`GuestTimeline`. `MaxNest` bounds the interrupts in progress; in reality they are a
display frame apart.

### PortStep, CartridgeMemory, PicturePorts, ObjectPorts, Mmc5Timeline

A program of `Plans` is a layer, a number of instructions, a clock to start with and the
port operations in its code; TLC takes these in every order. An instruction is two
steps, as in the driver: its effect (an action per port, with the guard that refuses
it), then `Retire`, which charges its cycles and captures the machine in `row`.
`Has(layer)` stands for the code the tools put in or leave out when they build a
program for a layer, and for the replacements of one layer's routine by a later one's
(`ChrBank`, `PpuDataRead`, the resolver of `mmc5_wram.inc`).

Data are cut to what the properties tell apart. A page of work RAM and the ExRAM are
one byte each, OAM is a ring of `OamBytes`, the pattern byte at an offset of a bank
and the byte at an offset of a RAM page are functions, and CIRAM holds the cells
written on top of its initial fill. `wrote` and `under` are histories: the last
stores to the protection registers, and the bank size in force when a CHR register was
written. The ports themselves keep their bit fields: the toggles and the two halves of
t and v, the upper CHR bits, the lock nibble, the mirrors of the palette.

Instructions that change guest registers and RAM only are `Plain`. Left out are the
result of a load, indirect jumps, and programs that leave the code they were built
from (status 5 or $E1, before any effect). Requests and entries are `GuestTimeline`'s.

### SourcePatches

A file is a sequence of pieces: the pinned text, the hooks and getters, and what an
editor left. `Patch` is the shape all tools share, and each tool is one value of it: what it
takes for its mark, what must then be whole, what must be clean or intact before it
installs, the tool it calls first, what it writes in which order, and whether it
touches the compiled source. One run is `Call`, the tests (`CheckMarked`, `CheckClean`), the
calls of lower tools (`stack`), `Confirm`, one `Write` per file, `Finish`; `Kill` may end it
anywhere. Between runs a person edits, restores or upgrades, and runs make, which
compiles a source that is newer than its object. Whole hashes of files
(`maintenance`) are equality of their pieces; the hashes `palette-reads` compares once
more after its patch are left out, since those before it decide them.

The observers differ in what they look at on a marked tree. The stimulus and the map
capture count the line that includes the header; the four above them count only the
calls in the dispatcher and the marker (`DispatchHooks`), so with that line edited away
they answer "already installed". `InstalledWhole` therefore tells apart what a tool is sure of
(`SureOf`: its own pieces and the calls, exactly once; its headers, of the present
release) and what only lower tools put there: that may be missing, but only from a file in
which text has been changed by hand. `FreshBuild` is about "installed". A tool killed
between its last header and `cpu.touch()` leaves a tree that its next run reports as
"already installed" with an old object; the model contains this, and no document
promises otherwise.

### VerifierRuns

A script is a plan: whether it removes its old report first, takes a limit, works with
two processes, drains its queue after a failure, how it publishes, whether it keeps a
progress file, and what each of its stages demands of its items. `Plans` lists the 55
entry points of the scripts with their plans; `Launch`, `Begin`, `Judge`, `Advance`, `Publish` and the rest
are the one loop they share. A process agrees, differs, stops at a recorded fault, or
dies without writing; its capture stays in the folder for the next run of the
script. A folder may be used for several runs, and a run may be killed.

What is compared byte by byte is the result's meaning and not modelled; neither are
the subset options of the mask and default-option scripts, nor the torn file a
killed script may leave where it writes a report without `atomic_json`.
`host_nmi_matrix` runs `verify_timeline` first, as its first stage.

## Runs

| run | question | constants | result |
|---|---|---|---|
| NmiBanks | mapping, save area, termination | 1 location, banks $A1, $B0, $B1 and $C0, IRQ limit 1 | passes |
| NmiFrames | IRQ chain, frame order, transparency | 1 location, 2 register values, 3 IRQ lines, limit 2, frame numbers modulo 3 | passes |
| NametableCache | caches against snapshots, rerouting between pages | 2 pages and fill, 1 quadrant and the HUD, 2 rows per attribute group, 2 tiles, 2 colours, 1 cell away from its initial content | passes |
| NametableDma | exact upload | 5 + 3 rows, all 256 flag sets | passes |
| AudioLink | handshake | 2 registers, 3 values, tokens modulo 4, 3 polls | passes |
| ApuUnits | counters of one pulse and the triangle; period, direction and pace of sweeps | length 2, periods 0 and 1, peak volume 1, linear loads 0 and 5; 32 periods, 8 low values, floor 4, dividers 0 to 2, shifts 0 to 2 | passes |
| GuestTimeline | clock, schedule, NMI edges, I delay | all schedules of up to 3 requests at cycles 2, 5, 10, 16; 4 instructions of cost 2, 6, 7; clock of 2 x 16 | passes |
| TimelineHost | nested host NMIs | 2 schedules, 2 instructions, clock of 2 x 14, 3 interrupts in progress | passes |
| Mmc5Timeline | mapping, protection, CHR sizes, palette, OAM and its DMA, refusals | 14 programs over ten layers, 2 to 6 instructions each; 8 program banks, 16 CHR banks, 8 bytes of OAM, clock of 2 x 1040 | passes |
| ToolSessions | patch tools and evidence scripts over several runs | 19 tools on 9 trees, 1 edited piece, 2 releases; 55 plans, 2 runs, 3 items (2 under a limit), 2 items in later stages | passes |
| AudioLinkSkips | "cached DSP values avoid unchanged writes" | as AudioLink | violated |
| VerifierCaptures | "Real native fault gates, not merely report-file mutation" | the plan of `verify_timeline.py`, 2 runs, 2 items | violated |

Why the bounds suffice. In NmiBanks primary banks 0 and 15 and the C-bank bit give slots
on both sides of bank $C0, the only place where the mapping rule changes;
a limit of 1 still lets the count overflow its limit. In NmiFrames a modulus of 3
distinguishes "same", "next" and "skipped". In NametableCache a quadrant and the HUD
can agree or differ in route, two rows share an attribute group, colours and fill
registers vary, and a second page can be written while nothing shows it. `FewWritten`
keeps the states in which at most `MaxWritten` tile or attribute cells differ from their initial
content: a missed row shows with a single changed cell. For the link, a modulus of 4 gives the token, its
successor, the launch token and the ready marker different values and still wraps
within a run. In ApuUnits a length of 2 lasts exactly one
four-step frame and outlives the five-step frames that hold a single half frame, the two periods let an
envelope decay at every quarter or wait, the linear loads lie below and above the three
or four counts of a frame, and both sequences and every change between them occur;
channels do not interact, so one pulse and the triangle are enough. Every period is reachable, among them those that
overflow upwards, those under the floor and those where pulse 1 and pulse 2
differ. The counters and the sweep share no variable, so each runs with the other
standing still. In GuestTimeline the cycles let requests fall due one by one, together within
one instruction, and within the seven cycles of an entry; four instructions reach the
clock guard of a clock of 32. In TimelineHost the schedules give entries of both kinds
and coinciding requests, a word of 14 carries in the first or second row and lets the
guard stop some runs, and three interrupts in progress are one more than the code
admits, so that a third context would be stacked if the test let it (the mutant of
`Balanced`). In Mmc5Timeline each program holds the ports of one or two neighbouring parts, with
values on both sides of every test, and is long enough to write every register in
play, change a mode, and use what it selects; one clock starts at its guard, so that
transfers of both parities fit or do not. In ToolSessions the tools that share a file
are together, so that each meets the pieces of the others; one damaged piece is
enough to make a tree partial. Two runs in a folder give the second the remains
of the first; three items exceed two workers, and a limit of two leaves one out. The
proofs then remove the bounds where there are some.

`AudioLinkSkips` records a divergence: `AudioInitialize` fills the write cache with
$FF, which is also a legal DSP value, so the first $FF written to a register is
dropped while the DSP holds the value its own initialisation gave it. The low
pitch byte of $3FFF, the clamp of the pitch table, is such a value.

`VerifierCaptures` records a defect of a test tool: the guards of `verify_timeline.py` are
expected to fail, so any failure of their process is taken for the expected stop,
and `capture.json` is read from a folder nothing has emptied. When a second run's process
dies before it writes, the refusal of the first run counts as its own. The other
scripts read a capture only after a process that ended well (`PassIsFresh`), or remove
it first.

## Fairness

* `NativeNmi`: weak fairness of `HostStep` (the CPU executes host code) and strong
  fairness of `GuestRti` (the NES handlers do return; strong, because a handler
  visits its RTI again and again between other instructions). No fairness of NMIs
  and none of other NES code. `NmiCompletes` uses it.
* `NametableDma`: weak fairness of the loop. It runs in the host NMI, with RUNNING
  set, where a further NMI only returns.
* `AudioLink`: weak fairness of the CPU inside `AudioWrite`. None of the receiver, so
  `WriteReturns` rests on the poll count alone.

Deadlock is checked in every passing run but ToolSessions, where a session is over
when the last run of a script has ended. The halted machine (`FaultDisplay`),
the finished upload and the halted timelines are explicit stuttering steps.

## Proofs

* `NativeNmiProofs`. The properties are not inductive: an NMI in a veneer or during
  the restore is harmless only because of where code runs at that moment. `IInv`
  adds, to the types: which bank variables may disagree and at which veneer
  instruction (`MapperInv`), the bank each kind of code runs in (`PlaceInv`), the
  extent of RUNNING (`RunInv`), the frames under each kind of code (`StackInv`), and
  that a live NCTX holds a NES context taken at stack depth one (`ContextInv`).
  `InductiveStep` takes the actions one by one. From it follow `TypeOK`, `BankCoherent`,
  `VeneerMapped`, `ContextNotClobbered`, and, with invariants of their own,
  `IrqChainBounded` and `FramesShownInOrder`. `NmiTransparent` proves the refinement of
  `InterruptedProgram`. `HostShareBounded` is the part of `NmiCompletes` that safety can
  say: a frame has a bound of 1031 host steps, which each step of the host NMI and each
  RTI of a NES handler lowers and nothing else raises (`HandlerStays`: what a handler
  does, its COPs and veneers included, happens above the host's return frame).
* `NametableProofs`. The invariant says that a surface or row that would be skipped is
  current, and relates the remembered route and fill values to the shadow maps.
  `SnapshotsShown` proves the refinement of `PresentedFrame`. For `NametableDma`, in the
  same module, a loop invariant: rows before the run are settled, rows of
  the run were wanted, rows after it are untouched (`UploadIsExact`). For `NothingSentTwice`:
  no row is loaded twice, so the bytes sent are those of the rows loaded (`RunCounted`).
  `UploadTerminates` bounds the loop by three steps a row and four, and `UploadConsumes`
  says that it has cleared every flag when it returns.
* `AudioLinkProofs`. The handshake invariant relates the token, the last token the
  receiver took and the echo; `CommandsArrive` and `FaultIsFinal` follow.
  `WritesAreBounded`: every step of the CPU in `AudioWrite` lowers a bound of `Polls + 2`
  and no step of the receiver touches it.
* `ApuUnitsProofs`. `TypeOK`, `DisabledSilent` and `FourStepAligned` are inductive
  together. The work is in lemmas about one half frame, one quarter frame and one
  tick (`HalfFacts`, `QuarterFacts`, `TickFacts`); `FrameFacts` and `FrameFades` compose
  four ticks, from which `LengthRate` and `NotesFade` follow for every phase, and
  `LinearRate` counts the quarters that reload the linear counter or count it down.
  For `PulseSweep`, `SweepTypeOK` is inductive: `Halving` bounds what a shift leaves,
  `SweepFacts` concludes that an unmuted sweep stays in the table and moves in its
  direction; it needs the floor to be at least 2 and the shift not to be zero.
  `PaceInv` relates the half frames since the last sweep to what is left on the divider:
  together they make up the interval (`SweepsKeepPace`).
* `GuestTimelineProofs`. The invariant is the types, an empty NMI latch and
  `EventsOnTime`. `RetireFacts` shows that the guard leaves the clock room, so that both
  additions are exact; the rest of the invariant and the three action properties follow
  from its conclusion. That events are applied exactly when due rests on the schedule
  being sorted, which `validate_events` demands.
* `TimelineHostProofs`. With n interrupts in progress, level 0 is the driver and level i the
  routine that interrupted level i - 1. What a level will find when it goes on, its
  `View`, lies partly in the registers and the scratch memory, partly in the frames
  above it, and `Layout` says where. A routine changes its own view only, so
  `DriverInv`, which relates the driver's view to the last row written and which the driver's
  own steps keep (`Kept`), holds whatever is in progress above it; `CountInv` gives
  the nesting counts and with them the bound of two contexts. Two
  actions are steps of `GuestTimeline`, writing the header and writing the marker, and all
  others stutter (`UnseenByGuestAlways`). The bound on nesting plays no part.
* `Mmc5TimelineProofs`. One invariant for every layer, in parts. `LocksInv`: the lock and
  the ExRAM mode are the last stores (`RamIsProtected`). `BanksInv`: the slots are `Remap` of
  the registers, and a register holds a RAM bank only where there is RAM; `BankFacts` and
  `SlotsFacts` compare `Remap` with the reference (`SlotsAlwaysAgree`). `BankSizes`: a valid
  CHR register was written under the size in force; `RequiredFacts` shows that the register
  behind a slot is one the code requires (`NoBankIsStale`). `Backdrops` and `ObjectInv` give
  `AlwaysStoredAsHeld`. `RowInv` says that between two instructions the row is the machine,
  and that a transfer begun has room to retire; without that second half a copied prefix
  could pass for a transfer (`FaultsAreWhole`). `ParityInv` gives `TransfersEndOnGet`. Each part of
  the machine has a lemma on how its ports end (`MemoryOutcomes`, `PictureKeeps`,
  `ObjectOutcomes`); `StepCore` and `StepRow` put them together.
* `ToolSessionsProofs`. For the scripts, `VerifierInv`: a row is what its stage accepts and, but for
  guards that are read back, of the present run, every selected item of the stages already passed has one, the report in the folder is
  sound for the run that wrote it, and the progress file agrees with it. That every
  plan is well formed (`PlansWellFormed`) is proved of the list of plans, and is what the
  steps use of them. For the patch tools, `PatchInv`: every piece is at most once in
  its file, and the dispatcher calls come with the include line or in a file changed by
  hand (`TextInv`); an observer of the board lies on those below it, or the
  file is visibly damaged (`BoardInv`); the tools on the stack have ever lower ranks and
  those that called another have none of their pieces in the tree; the innermost
  one has written exactly the files before its next write. What the tools have in
  common is in `Proper`: they look for every piece they write, and two levels
  share none. `WholeIsInstalled` is the heart of it: the tests a marked tree must pass leave
  no layer unaccounted for (there once, or gone from a file changed by hand), although no tool tests every piece (the
  upper ones count the hooks and read the ends of the board's file). `FreshInv` adds that
  the source is newer than its object once it has been written in a run, unless the tool touches
  it at the end. `SessionInv` joins the two kinds of session.

Assumptions are those named in the modules: the labels are distinct, bank numbers
fit, sizes are positive, the program has 4 to 128 banks (a power of two, as `slots`
demands), what `validate` admits (`ValidPlan`), a script
has cases and is one of the list, and the launch token, its successor and the ready marker
differ (true of $5B, $5C and $7F).

Every invariant and action property and every refinement of the passing runs is proved
for all values of the constants, within these assumptions. The tools and plans themselves
are lists, and the proofs about them are for these lists.

Only proved, and not among the properties of a run: the type invariants of
`NativeNmi`, `NametableCache`, `NametableDma`, `AudioLink`, `ApuCounters`, `PulseSweep`,
`GuestTimeline` and `TimelineHost`.

Only model-checked: `NmiCompletes`, `AllConsumed` and `WriteReturns`, since liveness under
fairness is beyond the prover. The decreasing bounds their argument needs are proved
(`HostShareBounded`, `UploadTerminates` with `UploadConsumes`, `WritesAreBounded`); what is left to
TLC is that fairness makes the steps happen. The two runs that expect a violation need no proof.

## Plan

1. `FrameUploads`: character, palette and object caches beside `NametableCache`;
   `RasterChain`: captures in NES handlers against presentation.
2. `PpuPorts`: the production ports and OAM DMA, with `ObjectPorts` and `PicturePorts`
   as the reference.
3. `CodeDiscovery`: the worklist of `native_cfg.py` against reachability.
4. `Timeline`: requests and entries (`GuestTimeline`) and the ports (`Mmc5Timeline`) composed.

## Not modelled

Timing in cycles outside the timeline, the contents of pictures and samples, ALU and
addressing arithmetic of the COP interpreter, statistics counters, the demonstration
ROMs, the generators of fixtures, and the byte layouts the evidence scripts compare:
arithmetic and file formats with no state between calls, which unit tests
reach. The components with status `not_modelled` in `PROJECT.json` give a reason each.
