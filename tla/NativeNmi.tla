----------------------------- MODULE NativeNmi -----------------------------
(***************************************************************************)
(* The interrupt gate of the production bridge (snes/src/native.s).        *)
(*                                                                         *)
(* One 65816 runs three kinds of code: the translated NES program in the   *)
(* executable ROM mapping, WRAM veneers that replace I/O instructions, and *)
(* host code in bank $80 (the COP interpreter, the direct-call workers and *)
(* the host NMI).  The SNES raises an NMI between any two instructions.    *)
(* The gate answers it at once, or runs a whole NES frame on top of the    *)
(* interrupted program: the NES NMI handler, a bounded chain of NES        *)
(* scanline-IRQ handlers, and the frame renderer.  The interrupted context *)
(* is kept in ONE global save area, NCTX.                                  *)
(*                                                                         *)
(* A code location is the value of pc: an element of RomPC for translated  *)
(* NES code (it stands for the PC and P of a hardware frame), a label of   *)
(* VeneerPC for WRAM code, a label of HostPC for host code.  The NMI       *)
(* preamble up to the gate's decision runs for under a hundred cycles, and *)
(* NMI edges are a frame apart, so it is one step.                         *)
(***************************************************************************)
EXTENDS Integers, Sequences

CONSTANTS
    RomPC,      \* locations of translated NES code (all at $8000 and above)
    Regs,       \* values of the NES registers A, X, Y
    ZeroRegs,   \* the value with A = X = Y = 0
    Primaries,  \* bank numbers the NES program writes to $5115
    IrqLines,   \* scanline numbers it writes to $5203
    IrqLimit,   \* most NES IRQs served in one frame (8 in the code)
    FrameMod    \* GFRAMES counts modulo FrameMod (65536 in the code)

VeneerPC == {"VnSlot", "VnRaw", "VnCode", "VnDbr", "VnRtl", "VnIo", "VnRts"}

CopPC == {"Cop", "QuickIo", "QuickStatus", "QuickBanks", "QuickRet",
          "CopOp", "CopStatus", "CopRet", "DirectIo", "DirectStatus"}

NmiPC == {"NmiFull", "NmiCheck", "Present", "DispatchNmi", "NmiRet",
          "NextIrq", "IrqRet", "Finish", "Done", "Restore", "RestoreRti"}

HostPC == CopPC \cup NmiPC \cup {"Halt"}

Locations == RomPC \cup VeneerPC \cup HostPC

ASSUME LabelAssumption ==
    RomPC # {} /\ RomPC \cap (VeneerPC \cup HostPC) = {}

ASSUME RegsAssumption == ZeroRegs \in Regs

ASSUME NumberAssumption ==
    /\ Primaries \subseteq 0..15
    /\ IrqLines \subseteq 0..255
    /\ IrqLimit \in Nat
    /\ FrameMod \in Nat /\ FrameMod > 1

VARIABLES
    pc, pbr, dbr, regs,             \* the CPU
    stk,                            \* return frames on the NES program's stack
    slot, raw, code,                \* SLOT, RAWBANK, CODEBANK
    copbusy, running,               \* COPBUSY, RUNNING
    cop,                            \* SA/SX/SY, SS: context of a generic COP
    nctx,                           \* NCTX: context under a host NMI
    ctrl, vblank,                   \* bit 7 of CTRL and of STATUS
    irqen, irqpos, irqpend,         \* IRQENABLE, IRQPOS, IRQPENDING
    irqcount, lastirq,              \* IRQCOUNT, LASTIRQ
    ready, frameid, shown, gframes, \* FRAME_READY, FRAME_ID, $0974, GFRAMES
    fault                           \* FAULTCODE

cpu    == <<pc, pbr, dbr, regs, stk>>
mapper == <<slot, raw, code>>
gate   == <<copbusy, running>>
ports  == <<ctrl, vblank, irqen, irqpos, irqpend>>
chain  == <<irqcount, lastirq>>
video  == <<ready, frameid, shown, gframes>>
vars   == <<cpu, mapper, gate, cop, nctx, ports, chain, video, fault>>

-----------------------------------------------------------------------------
(* Banks.  A 32 KiB mapping is chosen by SLOT; it has a data image in bank *)
(* $81+SLOT and an executable image in bank $A1+SLOT.                      *)

HostBank    == 128
RawBank(s)  == s + 129
CodeBank(s) == RawBank(s) + 32
GuestBank(b) == 161 <= b /\ b < 193

\* Only banks $00-$3F and $80-$BF mirror low WRAM, where the veneers live.
WramBank(b) == b < 192

SelectPrimary(s, n) == 16 * (s \div 16) + n

SelectCBank(s, high) == (s % 16) + (IF high THEN 16 ELSE 0)

Frame(p, b) == [pc |-> p, pbr |-> b]
S == Len(stk)
Top == stk[S]
Push(f) == stk' = Append(stk, f)
Pop == stk' = SubSeq(stk, 1, S - 1)

Goto(p) == pc' = p
HostGoto(p) == pc' = p /\ pbr' = HostBank

Init ==
    /\ pc \in RomPC /\ regs \in Regs /\ stk = <<>>
    /\ slot = 0 /\ raw = RawBank(0) /\ code = CodeBank(0)
    /\ pbr = CodeBank(0) /\ dbr = RawBank(0)
    /\ copbusy = FALSE /\ running = FALSE
    /\ cop = [regs |-> ZeroRegs, sp |-> 0]
    /\ nctx = [regs |-> ZeroRegs, pc |-> pc, pbr |-> pbr, dbr |-> dbr, sp |-> 0]
    /\ ctrl = FALSE /\ vblank = FALSE
    /\ irqen = FALSE /\ irqpos = 0 /\ irqpend = FALSE
    /\ irqcount = 0 /\ lastirq = 0
    /\ ready = FALSE /\ frameid = 0 /\ shown = 0 /\ gframes = 0
    /\ fault = 0

-----------------------------------------------------------------------------
(* The translated NES program, as an environment: it computes, executes a  *)
(* COP-patched instruction, calls a veneer, and returns from its handlers. *)

InRom == pc \in RomPC

GuestCompute ==
    /\ InRom
    /\ pc' \in RomPC /\ regs' \in Regs
    /\ UNCHANGED <<pbr, dbr, stk, mapper, gate, cop, nctx, ports, chain,
                   video, fault>>

\* The frame holds the instruction after the patched one.
GuestCop ==
    /\ InRom
    /\ \E next \in RomPC : Push(Frame(next, pbr))
    /\ HostGoto("Cop")
    /\ UNCHANGED <<dbr, regs, mapper, gate, cop, nctx, ports, chain, video,
                   fault>>

\* JSR to a veneer: the patcher leaves bank $C0, which has no WRAM, on COP.
GuestVeneer ==
    /\ InRom /\ WramBank(pbr)
    /\ \E next \in RomPC : Push(Frame(next, pbr))
    /\ pc' \in {"VnSlot", "VnIo"}
    /\ UNCHANGED <<pbr, dbr, regs, mapper, gate, cop, nctx, ports, chain,
                   video, fault>>

\* RTI out of the NES handler: its frame is the one the host pushed.
GuestRti ==
    /\ InRom /\ running /\ S = nctx.sp
    /\ pc' = Top.pc /\ pbr' = Top.pbr /\ Pop
    /\ UNCHANGED <<dbr, regs, mapper, gate, cop, nctx, ports, chain, video,
                   fault>>

\* BRK and the other unused vectors lead to Fault.
GuestBreak ==
    /\ InRom
    /\ fault' = 1 /\ HostGoto("Halt")
    /\ UNCHANGED <<dbr, regs, stk, mapper, gate, cop, nctx, ports, chain, video>>

-----------------------------------------------------------------------------
(* Effects of the port handlers the interrupt logic depends on.            *)

WriteCtrl == ctrl' \in BOOLEAN /\ UNCHANGED <<vblank, irqen, irqpos, irqpend>>
WriteIrqPos == irqpos' \in IrqLines /\ UNCHANGED <<ctrl, vblank, irqen, irqpend>>
WriteIrqEnable == irqen' \in BOOLEAN /\ UNCHANGED <<ctrl, vblank, irqpos, irqpend>>
ReadIrqStatus == irqpend' = FALSE /\ UNCHANGED <<ctrl, vblank, irqen, irqpos>>
OtherPort == UNCHANGED ports

\* STATUS is loaded a second time, masked and stored: only this step clears.
ClearVblank == vblank' = FALSE /\ UNCHANGED <<ctrl, irqen, irqpos, irqpend>>

UpdateBanks == raw' = RawBank(slot') /\ code' = CodeBank(slot')

SelectBank ==
    \/ \E n \in Primaries : slot' = SelectPrimary(slot, n)
    \/ \E high \in BOOLEAN : slot' = SelectCBank(slot, high)

Die(n) == fault' = n /\ HostGoto("Halt")

-----------------------------------------------------------------------------
(* The COP interpreter: quick paths on the NES stack, or the generic path  *)
(* through the global save area SA..SF on the host stack.                  *)

CopDispatch ==
    /\ pc = "Cop"
    /\ pc' \in {"QuickIo", "QuickStatus", "QuickBanks"}
    /\ UNCHANGED <<pbr, dbr, regs, stk, mapper, gate, cop, nctx, ports, chain,
                   video, fault>>

CopGeneric ==
    /\ pc = "Cop"
    /\ cop' = [regs |-> regs, sp |-> S]
    /\ copbusy' = TRUE /\ dbr' = 0
    /\ HostGoto("CopOp")
    /\ UNCHANGED <<regs, stk, mapper, running, nctx, ports, chain, video, fault>>

\* A quick PPU store also raises and drops COPBUSY around the writer.
QuickIo ==
    /\ pc = "QuickIo"
    /\ WriteCtrl \/ ReadIrqStatus \/ OtherPort
    /\ regs' \in Regs /\ HostGoto("QuickRet")
    /\ UNCHANGED <<dbr, stk, mapper, gate, cop, nctx, chain, video, fault>>

QuickStatus ==
    /\ pc = "QuickStatus"
    /\ ClearVblank
    /\ regs' \in Regs /\ HostGoto("QuickRet")
    /\ UNCHANGED <<dbr, stk, mapper, gate, cop, nctx, chain, video, fault>>

QuickBanks ==
    /\ pc = "QuickBanks"
    /\ SelectBank /\ UpdateBanks /\ dbr' = raw'
    /\ HostGoto("QuickRet")
    /\ UNCHANGED <<regs, stk, gate, cop, nctx, ports, chain, video, fault>>

\* The frame's bank byte is replaced: the store may have moved the program.
QuickAbsReturn ==
    /\ pc = "QuickRet"
    /\ pc' = Top.pc /\ pbr' = code /\ Pop
    /\ UNCHANGED <<dbr, regs, mapper, gate, cop, nctx, ports, chain, video,
                   fault>>

CopOperation ==
    /\ pc = "CopOp"
    /\ \/ /\ WriteCtrl \/ WriteIrqPos \/ WriteIrqEnable \/ ReadIrqStatus \/ OtherPort
          /\ pc' \in {"CopRet", "CopStatus"}
          /\ \E r \in Regs : cop' = [cop EXCEPT !.regs = r]
          /\ UNCHANGED <<pbr, mapper, fault>>
       \/ /\ SelectBank /\ UpdateBanks /\ HostGoto("CopRet")
          /\ UNCHANGED <<cop, ports, fault>>
       \/ /\ \E n \in {2, 3} : Die(n)       \* BadOperation, BadBank
          /\ UNCHANGED <<cop, mapper, ports>>
    /\ UNCHANGED <<dbr, regs, stk, gate, nctx, chain, video>>

CopStatus ==
    /\ pc = "CopStatus"
    /\ ClearVblank /\ HostGoto("CopRet")
    /\ UNCHANGED <<dbr, regs, stk, mapper, gate, cop, nctx, chain, video, fault>>

CopReturn ==
    /\ pc = "CopRet"
    /\ copbusy' = FALSE /\ dbr' = raw
    /\ pc' = stk[cop.sp].pc /\ pbr' = code
    /\ stk' = SubSeq(stk, 1, cop.sp - 1)
    /\ regs' = cop.regs
    /\ UNCHANGED <<mapper, running, cop, nctx, ports, chain, video, fault>>

-----------------------------------------------------------------------------
(* Direct calls.  A bank veneer updates SLOT, RAWBANK, CODEBANK and DBR in *)
(* four separate stores, then leaves by RTL into the new executable bank.  *)

VeneerSlot ==
    /\ pc = "VnSlot"
    /\ \/ SelectBank /\ Goto("VnRaw") /\ UNCHANGED <<pbr, fault>>
       \/ Die(3) /\ UNCHANGED slot          \* DirectBankFault
    /\ UNCHANGED <<dbr, regs, stk, raw, code, gate, cop, nctx, ports, chain,
                   video>>

VeneerRaw ==
    /\ pc = "VnRaw" /\ raw' = RawBank(slot) /\ Goto("VnCode")
    /\ UNCHANGED <<pbr, dbr, regs, stk, slot, code, gate, cop, nctx, ports,
                   chain, video, fault>>

VeneerCode ==
    /\ pc = "VnCode" /\ code' = CodeBank(slot) /\ Goto("VnDbr")
    /\ UNCHANGED <<pbr, dbr, regs, stk, slot, raw, gate, cop, nctx, ports,
                   chain, video, fault>>

VeneerDbr ==
    /\ pc = "VnDbr" /\ dbr' = raw /\ Goto("VnRtl")
    /\ UNCHANGED <<pbr, regs, stk, mapper, gate, cop, nctx, ports, chain,
                   video, fault>>

VeneerRtl ==
    /\ pc = "VnRtl"
    /\ pc' = Top.pc /\ pbr' = code /\ Pop
    /\ UNCHANGED <<dbr, regs, mapper, gate, cop, nctx, ports, chain, video,
                   fault>>

\* JSL to a bank-$80 worker.
VeneerIo ==
    /\ pc = "VnIo"
    /\ Push(Frame("VnRts", pbr))
    /\ pc' \in {"DirectIo", "DirectStatus"} /\ pbr' = HostBank
    /\ UNCHANGED <<dbr, regs, mapper, gate, cop, nctx, ports, chain, video,
                   fault>>

\* The worker's RTL returns to the veneer; full-context workers raise and
\* drop COPBUSY inside this step and restore the DBR they replaced.
DirectIo ==
    /\ pc = "DirectIo"
    /\ WriteCtrl \/ WriteIrqPos \/ WriteIrqEnable \/ ReadIrqStatus \/ OtherPort
    /\ regs' \in Regs
    /\ pc' = Top.pc /\ pbr' = Top.pbr /\ Pop
    /\ UNCHANGED <<dbr, mapper, gate, cop, nctx, chain, video, fault>>

DirectReadStatus ==
    /\ pc = "DirectStatus"
    /\ ClearVblank
    /\ regs' \in Regs
    /\ pc' = Top.pc /\ pbr' = Top.pbr /\ Pop
    /\ UNCHANGED <<dbr, mapper, gate, cop, nctx, chain, video, fault>>

VeneerRts ==
    /\ pc = "VnRts"
    /\ pc' = Top.pc /\ Pop
    /\ UNCHANGED <<pbr, dbr, regs, mapper, gate, cop, nctx, ports, chain,
                   video, fault>>

-----------------------------------------------------------------------------
(* The host NMI.                                                           *)

(* Slips in the gate: without the bank test, and without the veneer test.  *)
TakesFullNmiInHost == ~running /\ ~copbusy /\ pc \notin VeneerPC
TakesFullNmiInVeneer == ~running /\ ~copbusy /\ GuestBank(pbr)

TakesFullNmi ==
    /\ ~running /\ ~copbusy
    /\ GuestBank(pbr)
    /\ pc \notin VeneerPC

Nmi ==
    /\ pc # "Halt"                          \* FaultDisplay clears $4200
    /\ vblank' = TRUE
    /\ IF TakesFullNmi
       THEN Push(Frame(pc, pbr)) /\ HostGoto("NmiFull")
       ELSE UNCHANGED <<pc, pbr, stk>>
    /\ UNCHANGED <<dbr, regs, mapper, gate, cop, nctx, ctrl, irqen, irqpos,
                   irqpend, chain, video, fault>>

NmiFull ==
    /\ pc = "NmiFull"
    /\ nctx' = [regs |-> regs, pc |-> Top.pc, pbr |-> Top.pbr, dbr |-> dbr,
                sp |-> S]
    /\ dbr' = 0 /\ HostGoto("NmiCheck")
    /\ UNCHANGED <<regs, stk, mapper, gate, cop, ports, chain, video, fault>>

RunsGuestFrame == ctrl /\ GuestBank(nctx.pbr) /\ nctx.pc \notin VeneerPC

NmiCheck ==
    /\ pc = "NmiCheck"
    /\ IF RunsGuestFrame
       THEN running' = TRUE /\ HostGoto("Present")
       ELSE UNCHANGED running /\ HostGoto("Restore")
    /\ UNCHANGED <<dbr, regs, stk, mapper, copbusy, cop, nctx, ports, chain,
                   video, fault>>

PresentPendingFrame ==
    /\ pc = "Present"
    /\ ready' = FALSE
    /\ shown' = IF ready THEN frameid ELSE shown
    /\ gframes' = (gframes + 1) % FrameMod
    /\ HostGoto("DispatchNmi")
    /\ UNCHANGED <<dbr, regs, stk, mapper, gate, cop, nctx, ports, chain,
                   frameid, fault>>

\* Run a NES handler on the interrupted program's stack: the hardware frame
\* at NCTX.S is replaced by one that returns to the host.
EnterHandler(return, r) ==
    /\ stk' = Append(SubSeq(stk, 1, nctx.sp - 1), Frame(return, HostBank))
    /\ dbr' = raw /\ pbr' = code /\ pc' \in RomPC /\ regs' = r

DispatchNmi ==
    /\ pc = "DispatchNmi"
    /\ EnterHandler("NmiRet", nctx.regs)
    /\ UNCHANGED <<mapper, gate, cop, nctx, ports, chain, video, fault>>

GuestNmiReturn ==
    /\ pc = "NmiRet"
    /\ irqcount' = 0 /\ lastirq' = 0
    /\ dbr' = 0 /\ HostGoto("NextIrq")
    /\ UNCHANGED <<regs, stk, mapper, gate, cop, nctx, ports, video, fault>>

(* Slip: the same line is served again.                                    *)
IrqDueRepeated == irqen /\ irqpos # 0 /\ irqpos < 240 /\ irqpos >= lastirq

\* IRQs with a usable line after the one served last.
IrqDue == irqen /\ irqpos # 0 /\ irqpos < 240 /\ irqpos > lastirq

\* LASTIRQ and IRQCOUNT change before the count is compared with the limit.
NextGuestIrq ==
    /\ pc = "NextIrq"
    /\ IF ~IrqDue
       THEN /\ HostGoto("Finish")
            /\ UNCHANGED <<dbr, regs, stk, chain, irqpend>>
       ELSE /\ lastirq' = irqpos /\ irqcount' = irqcount + 1
            /\ IF irqcount + 1 > IrqLimit
               THEN HostGoto("Finish") /\ UNCHANGED <<dbr, regs, stk, irqpend>>
               ELSE irqpend' = TRUE /\ EnterHandler("IrqRet", ZeroRegs)
    /\ UNCHANGED <<mapper, gate, cop, nctx, ctrl, vblank, irqen, irqpos, video,
                   fault>>

GuestIrqReturn ==
    /\ pc = "IrqRet"
    /\ dbr' = 0 /\ HostGoto("NextIrq")
    /\ UNCHANGED <<regs, stk, mapper, gate, cop, nctx, ports, chain, video,
                   fault>>

(* Slip: the prepared frame is not marked ready.                           *)
RenderUnready ==
    /\ pc = "Finish"
    /\ frameid' = gframes /\ ready' \in BOOLEAN
    /\ HostGoto("Done")
    /\ UNCHANGED <<dbr, regs, stk, mapper, gate, cop, nctx, ports, chain,
                   shown, gframes, fault>>

RenderFrame ==
    /\ pc = "Finish"
    /\ frameid' = gframes /\ ready' = TRUE
    /\ HostGoto("Done")
    /\ UNCHANGED <<dbr, regs, stk, mapper, gate, cop, nctx, ports, chain,
                   shown, gframes, fault>>

(* Slip: the host returns to the chain instead of leaving the frame.       *)
RunAgain ==
    /\ pc = "Done"
    /\ HostGoto("NmiRet")
    /\ UNCHANGED <<dbr, regs, stk, mapper, gate, cop, nctx, ports, chain,
                   video, fault>>

ClearRunning ==
    /\ pc = "Done"
    /\ running' = FALSE /\ HostGoto("Restore")
    /\ UNCHANGED <<dbr, regs, stk, mapper, copbusy, cop, nctx, ports, chain,
                   video, fault>>

(* Slip: resume in the bank that was interrupted.                          *)
ResumeBankSaved == nctx.pbr

\* The handler may have changed bank: a ROM context resumes in CODEBANK.
ResumeBank == IF GuestBank(nctx.pbr) THEN code ELSE nctx.pbr
ResumeData == IF GuestBank(nctx.pbr) THEN raw ELSE nctx.dbr

NmiRestore ==
    /\ pc = "Restore"
    /\ stk' = Append(SubSeq(stk, 1, nctx.sp - 1), Frame(nctx.pc, ResumeBank))
    /\ dbr' = ResumeData /\ HostGoto("RestoreRti")
    /\ UNCHANGED <<regs, mapper, gate, cop, nctx, ports, chain, video, fault>>

(* Slip: the registers the NES handler left are kept.                      *)
RestoreRtiKeep ==
    /\ pc = "RestoreRti"
    /\ pc' = Top.pc /\ pbr' = Top.pbr /\ Pop
    /\ UNCHANGED <<dbr, regs, mapper, gate, cop, nctx, ports, chain, video, fault>>

RestoreRti ==
    /\ pc = "RestoreRti"
    /\ regs' = nctx.regs
    /\ pc' = Top.pc /\ pbr' = Top.pbr /\ Pop
    /\ UNCHANGED <<dbr, mapper, gate, cop, nctx, ports, chain, video, fault>>

-----------------------------------------------------------------------------
GuestStep == GuestCompute \/ GuestCop \/ GuestVeneer \/ GuestRti \/ GuestBreak

CopStep ==
    \/ CopDispatch \/ CopGeneric \/ QuickIo \/ QuickStatus \/ QuickBanks
    \/ QuickAbsReturn \/ CopOperation \/ CopStatus \/ CopReturn

VeneerStep ==
    \/ VeneerSlot \/ VeneerRaw \/ VeneerCode \/ VeneerDbr \/ VeneerRtl
    \/ VeneerIo \/ DirectIo \/ DirectReadStatus \/ VeneerRts

NmiStep ==
    \/ NmiFull \/ NmiCheck \/ PresentPendingFrame \/ DispatchNmi
    \/ GuestNmiReturn \/ NextGuestIrq \/ GuestIrqReturn \/ RenderFrame
    \/ ClearRunning \/ NmiRestore \/ RestoreRti

HostStep == CopStep \/ VeneerStep \/ NmiStep

\* FaultDisplay waits for ever with interrupts off.
Halted == pc = "Halt" /\ UNCHANGED vars

Next == GuestStep \/ HostStep \/ Nmi \/ Halted

Spec == Init /\ [][Next]_vars

\* The CPU keeps executing host code, and the NES handlers do return.
FairSpec == Spec /\ WF_vars(HostStep) /\ SF_vars(GuestRti)
-----------------------------------------------------------------------------
(* Properties.                                                             *)

FrameType == [pc : Locations, pbr : Nat]

CpuType ==
    /\ pc \in Locations /\ pbr \in Nat /\ dbr \in Nat /\ regs \in Regs
    /\ stk \in Seq(FrameType)
MapperType == slot \in 0..31 /\ raw \in Nat /\ code \in Nat
GateType == copbusy \in BOOLEAN /\ running \in BOOLEAN
SaveType ==
    /\ cop \in [regs : Regs, sp : Nat]
    /\ nctx \in [regs : Regs, pc : Locations, pbr : Nat, dbr : Nat, sp : Nat]
PortType ==
    /\ ctrl \in BOOLEAN /\ vblank \in BOOLEAN
    /\ irqen \in BOOLEAN /\ irqpos \in 0..255 /\ irqpend \in BOOLEAN
ChainType == irqcount \in Nat /\ lastirq \in 0..255
VideoType ==
    /\ ready \in BOOLEAN
    /\ frameid \in Nat /\ shown \in Nat /\ gframes \in Nat

\* Every variable keeps its type; SLOT stays a bank number.
TypeOK ==
    /\ CpuType /\ MapperType /\ GateType /\ SaveType /\ PortType
    /\ ChainType /\ VideoType /\ fault \in 0..3

\* NCTX holds a context the host still has to resume: from the save in
\* NmiFull to the RTI of NmiRestore, also after RUNNING has been cleared.
NctxLive == running \/ pc \in NmiPC \ {"NmiFull"}

\* The one global save area is neither overwritten nor taken by a second full
\* NMI while the context in it is still to be resumed, whatever NMIs arrive
\* meanwhile (the gate's comment: "RUNNING has cleared during NmiRestore but
\* the guest context is still live").
ContextNotClobbered ==
    [][NctxLive => UNCHANGED nctx /\ pc' # "NmiFull"]_vars

\* Whenever NES code executes, its program bank and data bank are the two
\* images of the selected slot, whoever changed the slot and whatever NMI,
\* handler, COP or veneer came between.
BankCoherent ==
    InRom => /\ pbr = code /\ code = CodeBank(slot)
             /\ dbr = raw /\ raw = RawBank(slot)

\* A veneer executes only in a bank that mirrors low WRAM: no interruption
\* moves a half-done bank veneer into $C0.
VeneerMapped == pc \in VeneerPC => WramBank(pbr)

\* An IRQ handler is active: the host's return frame lies under it.
ServingIrq == running /\ S >= nctx.sp /\ stk[nctx.sp].pc = "IrqRet"

\* The NES IRQs of a frame are served at strictly increasing lines, so k of
\* them end at line k or later, and no more than IrqLimit handlers run, even
\* when the handlers rewrite $5203 and $5204 as they like.
IrqChainBounded ==
    /\ irqcount <= lastirq
    /\ ServingIrq => irqcount <= IrqLimit

\* Every rendered frame is presented once, in order and none is skipped: the
\* presented frame number only ever advances by one.
FramesShownInOrder == [][shown' # shown => shown' = (shown + 1) % FrameMod]_vars

\* The interrupted program is suspended in a host NMI, and what it will find
\* when it resumes: the handlers may not change any of it.
Serving == NctxLive \/ pc = "NmiFull"

Program ==
    IF NctxLive THEN [pc |-> nctx.pc, regs |-> nctx.regs, depth |-> nctx.sp - 1]
    ELSE IF pc = "NmiFull" THEN [pc |-> Top.pc, regs |-> regs, depth |-> S - 1]
    ELSE [pc |-> pc, regs |-> regs, depth |-> S]

Abstract == INSTANCE InterruptedProgram
    WITH serving <- Serving, program <- Program, Interruptible <- RomPC

\* To the NES program a host NMI, with the handlers it runs, is atomic: it
\* starts at a NES instruction boundary and gives the context back unchanged.
NmiIsTransparent == Abstract!Spec

\* Every accepted NMI is finished: the frame ends and the program resumes,
\* unless an unsupported operation halts the machine.
NmiCompletes == Serving ~> (~Serving \/ pc = "Halt")

=============================================================================
