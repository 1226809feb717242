-------------------------- MODULE NativeNmiProofs --------------------------
(***************************************************************************)
(* Proofs about the interrupt gate: its inductive invariant, and the       *)
(* safety properties of NativeNmi for every value of the constants.        *)
(***************************************************************************)
EXTENDS NativeNmi, TLAPS

-----------------------------------------------------------------------------
(* The inductive invariant behind the safety properties.                   *)

RunPC == {"Present", "DispatchNmi", "NmiRet", "NextIrq", "IrqRet", "Finish",
          "Done"}
GenericPC == {"CopOp", "CopStatus", "CopRet"}
DirectPC == {"DirectIo", "DirectStatus"}
ProgramPC == RomPC \cup VeneerPC \cup CopPC

\* Only a bank veneer between two of its stores sees a torn mapping.
MapperInv ==
    /\ pc # "VnRaw" => raw = RawBank(slot)
    /\ pc \notin {"VnRaw", "VnCode"} => code = CodeBank(slot)
    /\ pc \in RomPC \cup {"NmiFull", "RestoreRti", "VnSlot", "VnRtl", "VnIo",
          "VnRts"}
             \cup (CopPC \ GenericPC) => dbr = raw

\* What runs where.
PlaceInv ==
    /\ pc \in RomPC \cup {"VnIo", "VnRts"} => pbr = code
    /\ pc \in VeneerPC => 161 <= pbr /\ pbr < 192
    /\ pc \in HostPC => pbr = HostBank

\* RUNNING is up exactly from NmiCheck to the end of the frame.
RunInv ==
    /\ running => pc \in ProgramPC \cup RunPC \cup {"Halt"}
    /\ pc \in RunPC => running

Base == IF running THEN 1 ELSE 0

\* The return frames under each kind of code.
StackInv ==
    /\ pc \in RomPC => S = Base
    /\ pc \in VeneerPC \cup (CopPC \ DirectPC) =>
          S = Base + 1 /\ stk[S].pc \in RomPC
    /\ pc \in DirectPC =>
          /\ S = Base + 2 /\ stk[S] = Frame("VnRts", code) /\ code < 192
          /\ stk[S - 1].pc \in RomPC
    /\ running /\ pc \in ProgramPC =>
          stk[1].pc \in {"NmiRet", "IrqRet"} /\ stk[1].pbr = HostBank
    /\ pc \in {"NmiFull", "NmiCheck", "Present", "DispatchNmi"} =>
          S = 1 /\ stk[1].pc \in RomPC
    /\ pc = "NmiFull" => stk[1].pbr = code
    /\ pc \in {"NmiRet", "NextIrq", "IrqRet", "Finish", "Done"} => S = 0
    /\ pc = "Restore" => S \in {0, 1}
    /\ pc = "RestoreRti" => S = 1 /\ stk[1] = Frame(nctx.pc, code)
    /\ pc \in GenericPC => cop.sp = S

\* A context in NCTX is one of NES code, interrupted with an empty stack.
ContextInv ==
    NctxLive => nctx.pc \in RomPC /\ GuestBank(nctx.pbr) /\ nctx.sp = 1

IInv ==
    /\ TypeOK /\ MapperInv /\ PlaceInv /\ RunInv /\ StackInv /\ ContextInv

\* Between the presentation of the last frame and the end of the next one.
MidFrame == running /\ pc \notin {"Present", "Done"}

\* Frame numbers: at most one frame is prepared and not yet presented.
FrameInv ==
    /\ gframes \in 0..(FrameMod - 1) /\ shown \in 0..(FrameMod - 1)
    /\ ready => frameid = gframes /\ gframes = (shown + 1) % FrameMod
    /\ MidFrame => ~ready /\ gframes = (shown + 1) % FrameMod
    /\ ~MidFrame /\ ~ready => gframes = shown

-----------------------------------------------------------------------------
(* Facts about the stack of return frames.                                 *)

\* Pushing keeps the frames below and adds one on top.
LEMMA PushFacts ==
    ASSUME NEW T, NEW s \in Seq(T), NEW e \in T
    PROVE  /\ Append(s, e) \in Seq(T)
           /\ Len(Append(s, e)) = Len(s) + 1
           /\ Append(s, e)[Len(s) + 1] = e
           /\ \A i \in 1..Len(s) : Append(s, e)[i] = s[i]
  OBVIOUS

\* A prefix keeps its frames.
LEMMA PrefixFacts ==
    ASSUME NEW T, NEW s \in Seq(T), NEW n \in 0..Len(s)
    PROVE  /\ SubSeq(s, 1, n) \in Seq(T)
           /\ Len(SubSeq(s, 1, n)) = n
           /\ \A i \in 1..n : SubSeq(s, 1, n)[i] = s[i]
  OBVIOUS

\* A group of variables left alone keeps its types.
LEMMA TypesUnchanged ==
    /\ MapperType /\ UNCHANGED mapper => MapperType'
    /\ GateType /\ UNCHANGED gate => GateType'
    /\ SaveType /\ UNCHANGED <<cop, nctx>> => SaveType'
    /\ PortType /\ UNCHANGED ports => PortType'
    /\ ChainType /\ UNCHANGED chain => ChainType'
    /\ VideoType /\ UNCHANGED video => VideoType'
  BY DEF MapperType, GateType, SaveType, PortType, ChainType, VideoType,
     mapper, gate, ports, chain, video

\* The operations of the ports keep the types of the ports.
LEMMA PortTypes ==
    ASSUME PortType,
           \/ WriteCtrl \/ WriteIrqPos \/ WriteIrqEnable \/ ReadIrqStatus
           \/ OtherPort \/ ClearVblank
    PROVE  PortType'
  <1>1. CASE WriteCtrl BY <1>1 DEF PortType, WriteCtrl
  <1>2. CASE WriteIrqPos BY <1>2, NumberAssumption DEF PortType, WriteIrqPos
  <1>3. CASE WriteIrqEnable BY <1>3 DEF PortType, WriteIrqEnable
  <1>4. CASE ReadIrqStatus BY <1>4 DEF PortType, ReadIrqStatus
  <1>5. CASE OtherPort BY <1>5 DEF PortType, OtherPort, ports
  <1>6. CASE ClearVblank BY <1>6 DEF PortType, ClearVblank
  <1>7. QED BY <1>1, <1>2, <1>3, <1>4, <1>5, <1>6

\* Push puts a frame on top and keeps those below.
LEMMA PushStep ==
    ASSUME CpuType, NEW f \in FrameType, Push(f)
    PROVE  /\ stk' \in Seq(FrameType) /\ S' = S + 1 /\ stk'[S + 1] = f
           /\ \A i \in 1..S : stk'[i] = stk[i]
  BY PushFacts DEF CpuType, Push, S

\* Pop takes the top frame and keeps those below.
LEMMA PopStep ==
    ASSUME CpuType, S > 0, Pop
    PROVE  /\ stk' \in Seq(FrameType) /\ S' = S - 1
           /\ \A i \in 1..(S - 1) : stk'[i] = stk[i]
           /\ Top.pc \in Locations /\ Top.pbr \in Nat
  <1>1. S - 1 \in 0..Len(stk) BY DEF CpuType, S
  <1>2. Top \in FrameType BY DEF CpuType, S, Top
  <1>3. stk' = SubSeq(stk, 1, S - 1) BY DEF Pop
  <1>4. stk' \in Seq(FrameType) /\ S' = S - 1
    BY <1>1, <1>3, PrefixFacts DEF CpuType, S
  <1>5. \A i \in 1..(S - 1) : stk'[i] = stk[i]
    BY <1>1, <1>3, PrefixFacts DEF CpuType, S
  <1>6. Top.pc \in Locations /\ Top.pbr \in Nat BY <1>2 DEF FrameType
  <1>7. QED BY <1>4, <1>5, <1>6

\* Bank switches stay in the 32 slots and keep the mapper typed.
LEMMA BankTypes ==
    /\ SelectBank /\ MapperType => slot' \in 0..31
    /\ slot' \in 0..31 /\ UpdateBanks => MapperType'
  BY NumberAssumption DEF SelectBank, SelectPrimary, SelectCBank, MapperType,
     UpdateBanks, RawBank, CodeBank

\* Entering a handler leaves its return frame alone on the stack.
LEMMA EnterFacts ==
    ASSUME CpuType, NEW f \in FrameType, S \in {0, 1}
    PROVE  /\ Append(SubSeq(stk, 1, 0), f) \in Seq(FrameType)
           /\ Len(Append(SubSeq(stk, 1, 0), f)) = 1
           /\ Append(SubSeq(stk, 1, 0), f)[1] = f
  BY PushFacts, PrefixFacts DEF CpuType, S

\* The inductive invariant holds initially.
LEMMA InductiveInit == Init => IInv
  <1> SUFFICES ASSUME Init PROVE IInv
    OBVIOUS
  <1> USE LabelAssumption, RegsAssumption, NumberAssumption DEF Init
  <1>1. pc \in RomPC /\ S = 0 /\ ~NctxLive
    BY DEF S, NctxLive, NmiPC, HostPC
  <1>2. CpuType
    BY DEF CpuType, Locations, RawBank, CodeBank
  <1>3. SaveType
    BY DEF SaveType, Locations, RawBank, CodeBank
  <1>4. MapperType /\ ChainType
    BY DEF MapperType, ChainType, RawBank, CodeBank
  <1>5. GateType
    BY DEF GateType
  <1>6. PortType
    <2>1. irqpos \in 0..255
      OBVIOUS
    <2>2. ctrl \in BOOLEAN /\ vblank \in BOOLEAN /\ irqen \in BOOLEAN
          /\ irqpend \in BOOLEAN
      BY Zenon
    <2>3. QED BY <2>1, <2>2 DEF PortType
  <1>7. VideoType
    BY DEF VideoType
  <1>8. MapperInv /\ PlaceInv /\ RunInv
    BY <1>1 DEF MapperInv, PlaceInv, RunInv, RunPC, HostPC, NmiPC
  <1>9. StackInv
    BY <1>1 DEF StackInv, Base, VeneerPC, CopPC, DirectPC, HostPC, NmiPC
  <1>10. QED
    BY <1>1, <1>2, <1>3, <1>4, <1>5, <1>6, <1>7, <1>8, <1>9 DEF IInv, TypeOK,
       ContextInv

\* Every step preserves the inductive invariant.
LEMMA InductiveStep ==
    ASSUME IInv, [Next]_vars
    PROVE  IInv'
<1> USE LabelAssumption, RegsAssumption, NumberAssumption DEF IInv, TypeOK
<1>1. CASE GuestCompute
  <2>1. MapperType' /\ GateType' /\ SaveType'
    BY <1>1, TypesUnchanged, BankTypes DEF GuestCompute, SaveType
  <2>2. CpuType'
    BY <1>1, <2>1, PushFacts, PrefixFacts DEF CpuType, MapperType, SaveType,
       GuestCompute, HostBank, InRom, gate, Locations, VeneerPC
  <2>3. PortType' /\ ChainType' /\ VideoType' /\ (fault \in 0..3)'
    BY <1>1, TypesUnchanged, PortTypes DEF GuestCompute, ChainType, VideoType
  <2>4. MapperInv'
    BY <1>1, <2>1, <2>2 DEF MapperInv, GuestCompute, HostBank, RawBank,
       CodeBank, InRom, Base, S, mapper, gate, VeneerPC, HostPC
  <2>5. PlaceInv'
    BY <1>1, <2>1, <2>2 DEF MapperInv, PlaceInv, StackInv, ContextInv,
       GuestCompute, HostBank, RawBank, CodeBank, InRom, Base, S, mapper
  <2>6. RunInv'
    BY <1>1, <2>1, <2>2 DEF RunInv, GuestCompute, Push, Pop, HostGoto, HostPC,
       CopPC, NmiPC, RunPC, GenericPC, DirectPC, ProgramPC, StackInv,
       ContextInv, GateType
  <2>7. StackInv'
    BY <1>1, <2>1, <2>2, PushFacts, PrefixFacts DEF StackInv, GuestCompute,
       HostBank, RawBank, CodeBank, InRom, Frame, GuestBank, NctxLive, Base, S,
       mapper, gate, VeneerPC, HostPC, CopPC, NmiPC, RunPC, GenericPC,
       DirectPC, ProgramPC
  <2>8. ContextInv'
    BY <1>1, <2>1, <2>2 DEF ContextInv, GuestCompute, HostBank, RawBank,
       CodeBank, InRom, Frame, GuestBank, NctxLive, gate, VeneerPC, HostPC
  <2>9. QED BY <2>1, <2>2, <2>3, <2>4, <2>5, <2>6, <2>7, <2>8
<1>2. CASE GuestCop
  <2>1. PICK next \in RomPC : Push(Frame(next, pbr))
    BY <1>2 DEF GuestCop
  <2>2. Frame(next, pbr) \in FrameType
    BY DEF Frame, FrameType, CpuType, Locations
  <2>3. stk' \in Seq(FrameType) /\ S' = S + 1
        /\ stk'[S + 1] = Frame(next, pbr) /\ \A i \in 1..S : stk'[i] = stk[i]
    BY <2>1, <2>2, PushStep
  <2>4. MapperType' /\ GateType' /\ SaveType'
    BY <1>2, TypesUnchanged, BankTypes DEF GuestCop
  <2>5. CpuType'
    BY <1>2, <2>1, <2>2, <2>3, <2>4, PushFacts, PrefixFacts DEF CpuType,
       MapperType, SaveType, StackInv, ContextInv, FrameType, GuestCop, Push,
       HostGoto, HostBank, InRom, gate, Locations, VeneerPC, HostPC, CopPC,
       NmiPC
  <2>6. PortType' /\ ChainType' /\ VideoType' /\ (fault \in 0..3)'
    BY <1>2, <2>3, TypesUnchanged, PortTypes DEF GuestCop
  <2>7. MapperInv'
    BY <1>2, <2>1, <2>2, <2>3, <2>4, <2>5 DEF MapperInv, GuestCop, Push, InRom,
       Frame, GuestBank, NctxLive, Base, S, mapper, gate, VeneerPC, HostPC,
       CopPC, NmiPC
  <2>8. PlaceInv'
    BY <1>2, <2>1, <2>2, <2>3, <2>4, <2>5 DEF MapperInv, PlaceInv, StackInv,
       ContextInv, GuestCop, Push, HostGoto, S, mapper, gate, VeneerPC, HostPC,
       CopPC, NmiPC, GenericPC
  <2>9. RunInv'
    BY <1>2, <2>1, <2>2, <2>3, <2>4, <2>5 DEF RunInv, GuestCop, Push, Pop,
       HostGoto, Goto, gate, VeneerPC, HostPC, CopPC, NmiPC, RunPC, GenericPC,
       DirectPC, ProgramPC
  <2>10. StackInv'
    BY <1>2, <2>1, <2>2, <2>3, <2>4, <2>5, PushFacts, PrefixFacts DEF StackInv,
       GuestCop, Push, HostGoto, HostBank, RawBank, CodeBank, InRom, Frame,
       GuestBank, NctxLive, Base, S, mapper, gate, VeneerPC, HostPC, CopPC,
       NmiPC, RunPC, GenericPC, DirectPC, ProgramPC
  <2>11. ContextInv'
    BY <1>2, <2>1, <2>2, <2>3, <2>4, <2>5 DEF ContextInv, GuestCop, Push,
       HostGoto, HostBank, GuestBank, NctxLive, Base, S, mapper, gate,
       VeneerPC, HostPC, CopPC, NmiPC, RunPC, GenericPC
  <2>12. QED BY <2>4, <2>5, <2>6, <2>7, <2>8, <2>9, <2>10, <2>11
<1>3. CASE GuestVeneer
  <2>1. PICK next \in RomPC : Push(Frame(next, pbr))
    BY <1>3 DEF GuestVeneer
  <2>2. Frame(next, pbr) \in FrameType
    BY DEF Frame, FrameType, CpuType, Locations
  <2>3. stk' \in Seq(FrameType) /\ S' = S + 1
        /\ stk'[S + 1] = Frame(next, pbr) /\ \A i \in 1..S : stk'[i] = stk[i]
    BY <2>1, <2>2, PushStep
  <2>4. MapperType' /\ GateType' /\ SaveType'
    BY <1>3, TypesUnchanged, BankTypes DEF GuestVeneer
  <2>5. CpuType'
    BY <1>3, <2>1, <2>2, <2>3, <2>4, PushFacts, PrefixFacts DEF CpuType,
       ContextInv, FrameType, GuestVeneer, gate, Locations, VeneerPC
  <2>6. PortType' /\ ChainType' /\ VideoType' /\ (fault \in 0..3)'
    BY <1>3, <2>3, TypesUnchanged, PortTypes DEF GuestVeneer
  <2>7. MapperInv'
    BY <1>3, <2>1, <2>2, <2>3, <2>4, <2>5 DEF MapperInv, GuestVeneer, Push,
       HostBank, RawBank, CodeBank, InRom, Base, S, mapper, gate, VeneerPC,
       HostPC, CopPC, NmiPC
  <2>8. PlaceInv'
    BY <1>3, <2>1, <2>2, <2>3, <2>4, <2>5 DEF MapperInv, PlaceInv, StackInv,
       ContextInv, GuestVeneer, Push, HostBank, RawBank, CodeBank, InRom,
       Frame, GuestBank, WramBank, NctxLive, Base, S, mapper, gate, VeneerPC,
       HostPC, CopPC, NmiPC, GenericPC, DirectPC, ProgramPC, CpuType,
       MapperType
  <2>9. RunInv'
    BY <1>3, <2>1, <2>2, <2>3, <2>4, <2>5 DEF RunInv, GuestVeneer, Push, Pop,
       HostGoto, Goto, gate, VeneerPC, HostPC, CopPC, NmiPC, RunPC, GenericPC,
       DirectPC, ProgramPC
  <2>10. StackInv'
    BY <1>3, <2>1, <2>2, <2>3, <2>4, <2>5, PushFacts, PrefixFacts DEF StackInv,
       GuestVeneer, Push, HostBank, RawBank, CodeBank, InRom, Frame, GuestBank,
       WramBank, NctxLive, Base, S, mapper, gate, VeneerPC, HostPC, CopPC,
       NmiPC, RunPC, GenericPC, DirectPC, ProgramPC
  <2>11. ContextInv'
    BY <1>3, <2>1, <2>2, <2>3, <2>4, <2>5 DEF ContextInv, GuestVeneer, Push,
       HostBank, RawBank, WramBank, NctxLive, Base, S, mapper, gate, VeneerPC,
       HostPC, CopPC, NmiPC, RunPC, GenericPC
  <2>12. QED BY <2>4, <2>5, <2>6, <2>7, <2>8, <2>9, <2>10, <2>11
<1>4. CASE GuestRti
  <2>1. S > 0 /\ Pop
    BY <1>4 DEF GuestRti, StackInv, ContextInv, NctxLive
  <2>2. stk' \in Seq(FrameType) /\ S' = S - 1
        /\ (\A i \in 1..(S-1) : stk'[i] = stk[i]) /\ Top.pc \in Locations
        /\ Top.pbr \in Nat
    BY <2>1, PopStep
  <2>3. S = 1 /\ running /\ running' /\ pc' \in {"NmiRet", "IrqRet"}
        /\ pbr' = HostBank
    BY <1>4 DEF GuestRti, StackInv, InRom, Base, Top, ProgramPC, gate
  <2>4. MapperType' /\ GateType' /\ SaveType'
    BY <1>4, TypesUnchanged, BankTypes DEF GuestRti
  <2>5. CpuType'
    BY <1>4, <2>1, <2>2, PrefixFacts DEF CpuType, MapperType, GuestRti
  <2>6. PortType' /\ ChainType' /\ VideoType' /\ (fault \in 0..3)'
    BY <1>4, <2>3, TypesUnchanged, PortTypes DEF GuestRti
  <2>7. MapperInv'
    BY <1>4, <2>1, <2>2, <2>3, <2>4, <2>5 DEF MapperInv, GuestRti, Pop,
       HostBank, RawBank, CodeBank, InRom, S, Top, mapper, gate, VeneerPC,
       HostPC, CopPC, NmiPC
  <2>8. PlaceInv'
    BY <2>1, <2>2, <2>3, <2>4, <2>5 DEF MapperInv, PlaceInv, StackInv, Top,
       mapper, gate, VeneerPC, HostPC, CopPC, NmiPC, GenericPC
  <2>9. RunInv'
    BY <1>4, <2>1, <2>2, <2>3, <2>4, <2>5 DEF RunInv, GuestRti, Push, CopPC,
       NmiPC, RunPC
  <2>10. StackInv'
    BY <1>4, <2>1, <2>2, <2>3, <2>4, <2>5, PushFacts, PrefixFacts DEF StackInv,
       GuestRti, VeneerPC, HostPC, CopPC, NmiPC, RunPC, GenericPC, DirectPC,
       ProgramPC
  <2>11. ContextInv'
    BY <1>4, <2>1 DEF ContextInv, GuestRti, GuestBank, NctxLive
  <2>12. QED BY <2>4, <2>5, <2>6, <2>7, <2>8, <2>9, <2>10, <2>11
<1>5. CASE GuestBreak
  <2>1. MapperType' /\ GateType' /\ SaveType'
    BY <1>5, TypesUnchanged, BankTypes DEF GuestBreak, SaveType
  <2>2. CpuType'
    BY <1>5, <2>1, PushFacts, PrefixFacts DEF CpuType, ContextInv, FrameType,
       GuestBreak, HostGoto, HostBank, InRom, gate, Locations, VeneerPC,
       HostPC, CopPC, NmiPC
  <2>3. PortType' /\ ChainType' /\ VideoType' /\ (fault \in 0..3)'
    BY <1>5, TypesUnchanged, PortTypes DEF GuestBreak, ChainType, VideoType
  <2>4. MapperInv'
    BY <1>5, <2>1, <2>2 DEF MapperInv, GuestBreak, HostGoto, HostBank, RawBank,
       CodeBank, InRom, Base, S, mapper, gate, VeneerPC, HostPC
  <2>5. PlaceInv'
    BY <1>5, <2>1, <2>2 DEF MapperInv, PlaceInv, StackInv, ContextInv,
       GuestBreak, HostGoto, HostBank, gate, VeneerPC, HostPC
  <2>6. RunInv'
    BY <1>5, <2>1, <2>2 DEF RunInv, GuestBreak, Push, Pop, HostGoto, HostPC,
       CopPC, NmiPC, RunPC, GenericPC
  <2>7. StackInv'
    BY <1>5, <2>1, <2>2, PushFacts, PrefixFacts DEF StackInv, GuestBreak,
       HostGoto, HostBank, RawBank, CodeBank, VeneerPC, HostPC, CopPC, NmiPC,
       RunPC, GenericPC, DirectPC, ProgramPC
  <2>8. ContextInv'
    BY <1>5, <2>1, <2>2 DEF ContextInv, GuestBreak, HostGoto, HostBank,
       RawBank, NctxLive, Base, S, mapper, gate, VeneerPC, HostPC, CopPC,
       NmiPC, RunPC
  <2>9. QED BY <2>1, <2>2, <2>3, <2>4, <2>5, <2>6, <2>7, <2>8
<1>6. CASE CopDispatch
  <2>1. MapperType' /\ GateType' /\ SaveType'
    BY <1>6, TypesUnchanged, BankTypes DEF CopDispatch, SaveType
  <2>2. CpuType'
    BY <1>6, <2>1, PushFacts, PrefixFacts DEF CpuType, MapperType, FrameType,
       CopDispatch, HostBank, gate, Locations, VeneerPC, HostPC, CopPC
  <2>3. PortType' /\ ChainType' /\ VideoType' /\ (fault \in 0..3)'
    BY <1>6, TypesUnchanged, PortTypes DEF CopDispatch, ChainType, VideoType
  <2>4. MapperInv'
    BY <1>6, <2>1, <2>2 DEF MapperInv, CopDispatch, HostBank, S, mapper, gate,
       VeneerPC, HostPC, CopPC, NmiPC, GenericPC, DirectPC
  <2>5. PlaceInv'
    BY <1>6, <2>1, <2>2 DEF MapperInv, PlaceInv, StackInv, ContextInv,
       CopDispatch, HostBank, VeneerPC, HostPC, CopPC
  <2>6. RunInv'
    BY <1>6, <2>1, <2>2 DEF RunInv, CopDispatch, Push, Pop, HostGoto, HostPC,
       CopPC, NmiPC, RunPC, GenericPC, DirectPC, ProgramPC, StackInv,
       ContextInv, GateType
  <2>7. StackInv'
    BY <1>6, <2>1, <2>2, PushFacts, PrefixFacts DEF StackInv, CopDispatch,
       HostBank, RawBank, Base, S, mapper, gate, VeneerPC, HostPC, CopPC,
       NmiPC, RunPC, GenericPC, DirectPC, ProgramPC
  <2>8. ContextInv'
    BY <1>6, <2>1, <2>2 DEF ContextInv, CopDispatch, Frame, GuestBank,
       NctxLive, gate, VeneerPC, HostPC, CopPC, NmiPC, RunPC
  <2>9. QED BY <2>1, <2>2, <2>3, <2>4, <2>5, <2>6, <2>7, <2>8
<1>7. CASE CopGeneric
  <2>1. copbusy' \in BOOLEAN /\ running' \in BOOLEAN
    BY <1>7 DEF CopGeneric, GateType
  <2>2. MapperType' /\ GateType' /\ SaveType'
    BY <1>7, <2>1, TypesUnchanged, BankTypes DEF CopGeneric, SaveType,
       GateType, MapperType, CpuType, FrameType, CodeBank, S
  <2>3. CpuType'
    BY <1>7, <2>1, <2>2, PushFacts, PrefixFacts DEF CpuType, MapperType,
       SaveType, StackInv, ContextInv, FrameType, CopGeneric, HostGoto,
       HostBank, Frame, GuestBank, mapper, Locations, VeneerPC, HostPC, CopPC,
       NmiPC
  <2>4. PortType' /\ ChainType' /\ VideoType' /\ (fault \in 0..3)'
    BY <1>7, <2>1, TypesUnchanged, PortTypes DEF CopGeneric, ChainType,
       VideoType
  <2>5. MapperInv'
    BY <1>7, <2>1, <2>2, <2>3 DEF MapperInv, CopGeneric, HostGoto, S, mapper,
       VeneerPC, HostPC, CopPC, GenericPC
  <2>6. PlaceInv'
    BY <1>7, <2>1, <2>2, <2>3 DEF MapperInv, PlaceInv, StackInv, ContextInv,
       CopGeneric, HostGoto, VeneerPC, HostPC, CopPC
  <2>7. RunInv'
    BY <1>7, <2>1, <2>2, <2>3 DEF RunInv, CopGeneric, Push, Pop, HostGoto,
       HostPC, CopPC, NmiPC, RunPC, GenericPC, DirectPC, ProgramPC, StackInv
  <2>8. StackInv'
    BY <1>7, <2>1 DEF StackInv, CopGeneric, HostGoto, HostBank, NctxLive, Base,
       S, mapper, VeneerPC, HostPC, CopPC, NmiPC, RunPC, GenericPC, DirectPC,
       ProgramPC
  <2>9. ContextInv'
    BY <1>7, <2>1, <2>2, <2>3 DEF ContextInv, CopGeneric, HostGoto, HostBank,
       RawBank, NctxLive, Base, S, CopPC, NmiPC, RunPC
  <2>10. QED BY <2>2, <2>3, <2>4, <2>5, <2>6, <2>7, <2>8, <2>9
<1>8. CASE QuickIo
  <2>1. MapperType' /\ GateType' /\ SaveType'
    BY <1>8, TypesUnchanged, BankTypes DEF QuickIo
  <2>2. CpuType'
    BY <1>8, <2>1, PushFacts, PrefixFacts DEF CpuType, MapperType, SaveType,
       QuickIo, HostGoto, HostBank, gate, Locations, VeneerPC, HostPC, CopPC,
       NmiPC
  <2>3. PortType' /\ ChainType' /\ VideoType' /\ (fault \in 0..3)'
    BY <1>8, TypesUnchanged, PortTypes DEF QuickIo, ChainType, VideoType
  <2>4. MapperInv'
    BY <1>8, <2>1, <2>2 DEF MapperInv, QuickIo, HostGoto, HostBank, mapper,
       CopPC, GenericPC
  <2>5. PlaceInv'
    BY <1>8, <2>1, <2>2 DEF MapperInv, PlaceInv, StackInv, ContextInv, QuickIo,
       HostGoto, HostBank, VeneerPC, HostPC, CopPC
  <2>6. RunInv'
    BY <1>8, <2>1, <2>2 DEF RunInv, QuickIo, Push, Pop, HostGoto, HostPC,
       CopPC, NmiPC, RunPC, GenericPC, DirectPC, ProgramPC, StackInv,
       ContextInv, GateType
  <2>7. StackInv'
    BY <1>8, <2>1, <2>2, PushFacts, PrefixFacts DEF StackInv, QuickIo,
       HostGoto, HostBank, RawBank, Base, S, mapper, gate, VeneerPC, HostPC,
       CopPC, NmiPC, RunPC, GenericPC, DirectPC, ProgramPC
  <2>8. ContextInv'
    BY <1>8, <2>1, <2>2 DEF ContextInv, QuickIo, HostGoto, HostBank, RawBank,
       CodeBank, Frame, GuestBank, NctxLive, gate, VeneerPC, HostPC, CopPC,
       NmiPC, RunPC
  <2>9. QED BY <2>1, <2>2, <2>3, <2>4, <2>5, <2>6, <2>7, <2>8
<1>9. CASE QuickStatus
  <2>1. MapperType' /\ GateType' /\ SaveType'
    BY <1>9, TypesUnchanged, BankTypes DEF QuickStatus
  <2>2. CpuType'
    BY <1>9, <2>1, PushFacts, PrefixFacts DEF CpuType, MapperType, SaveType,
       QuickStatus, HostGoto, HostBank, gate, Locations, VeneerPC, HostPC,
       CopPC, NmiPC
  <2>3. PortType' /\ ChainType' /\ VideoType' /\ (fault \in 0..3)'
    BY <1>9, TypesUnchanged, PortTypes DEF QuickStatus, ChainType, VideoType
  <2>4. MapperInv'
    BY <1>9, <2>1, <2>2 DEF MapperInv, QuickStatus, HostGoto, HostBank, mapper,
       CopPC, GenericPC
  <2>5. PlaceInv'
    BY <1>9, <2>1, <2>2 DEF MapperInv, PlaceInv, StackInv, ContextInv,
       QuickStatus, HostGoto, HostBank, VeneerPC, HostPC, CopPC
  <2>6. RunInv'
    BY <1>9, <2>1, <2>2 DEF RunInv, QuickStatus, Push, Pop, HostGoto, HostPC,
       CopPC, NmiPC, RunPC, GenericPC, DirectPC, ProgramPC, StackInv,
       ContextInv, GateType
  <2>7. StackInv'
    BY <1>9, <2>1, <2>2, PushFacts, PrefixFacts DEF StackInv, QuickStatus,
       HostGoto, HostBank, RawBank, Base, S, mapper, gate, VeneerPC, HostPC,
       CopPC, NmiPC, RunPC, GenericPC, DirectPC, ProgramPC
  <2>8. ContextInv'
    BY <1>9, <2>1, <2>2 DEF ContextInv, QuickStatus, HostGoto, HostBank,
       RawBank, CodeBank, Frame, GuestBank, NctxLive, gate, VeneerPC, HostPC,
       CopPC, NmiPC, RunPC
  <2>9. QED BY <2>1, <2>2, <2>3, <2>4, <2>5, <2>6, <2>7, <2>8
<1>10. CASE QuickBanks
  <2>1. MapperType' /\ GateType' /\ SaveType'
    BY <1>10, TypesUnchanged, BankTypes DEF QuickBanks
  <2>2. CpuType'
    BY <1>10, <2>1, PushFacts, PrefixFacts DEF CpuType, MapperType, SaveType,
       StackInv, ContextInv, FrameType, QuickBanks, HostGoto, SelectCBank,
       HostBank, RawBank, CodeBank, Frame, GuestBank, gate, Locations,
       VeneerPC, HostPC, CopPC, NmiPC
  <2>3. PortType' /\ ChainType' /\ VideoType' /\ (fault \in 0..3)'
    BY <1>10, TypesUnchanged, PortTypes DEF QuickBanks, ChainType, VideoType
  <2>4. MapperInv'
    BY <1>10, <2>1, <2>2 DEF MapperInv, QuickBanks, UpdateBanks
  <2>5. PlaceInv'
    BY <1>10, <2>1, <2>2 DEF MapperInv, PlaceInv, StackInv, ContextInv,
       QuickBanks, HostGoto, VeneerPC, HostPC, CopPC
  <2>6. RunInv'
    BY <1>10, <2>1, <2>2 DEF RunInv, QuickBanks, Push, Pop, HostGoto, HostPC,
       CopPC, NmiPC, RunPC, GenericPC, DirectPC, ProgramPC, StackInv,
       ContextInv, GateType
  <2>7. StackInv'
    BY <1>10, <2>1, <2>2, PushFacts, PrefixFacts DEF StackInv, QuickBanks,
       HostGoto, SelectBank, UpdateBanks, SelectPrimary, SelectCBank, HostBank,
       RawBank, CodeBank, Frame, GuestBank, NctxLive, Base, S, gate, VeneerPC,
       HostPC, CopPC, NmiPC, RunPC, GenericPC, DirectPC, ProgramPC
  <2>8. ContextInv'
    BY <1>10, <2>1, <2>2 DEF ContextInv, QuickBanks, HostGoto, GuestBank,
       NctxLive, Base, S, gate, VeneerPC, HostPC, CopPC, NmiPC, RunPC,
       GenericPC, DirectPC
  <2>9. QED BY <2>1, <2>2, <2>3, <2>4, <2>5, <2>6, <2>7, <2>8
<1>11. CASE QuickAbsReturn
  <2>1. S > 0 /\ Pop
    BY <1>11 DEF QuickAbsReturn, StackInv, ContextInv, Base, CopPC
  <2>2. stk' \in Seq(FrameType) /\ S' = S - 1
        /\ (\A i \in 1..(S-1) : stk'[i] = stk[i]) /\ Top.pc \in Locations
        /\ Top.pbr \in Nat
    BY <2>1, PopStep
  <2>3. MapperType' /\ GateType' /\ SaveType'
    BY <1>11, <2>1, <2>2, TypesUnchanged DEF QuickAbsReturn
  <2>4. CpuType'
    BY <1>11, <2>1, <2>2, <2>3, PushFacts, PrefixFacts DEF CpuType, MapperType,
       QuickAbsReturn
  <2>5. PortType' /\ ChainType' /\ VideoType' /\ (fault \in 0..3)'
    BY <1>11, <2>1, <2>2, TypesUnchanged DEF QuickAbsReturn
  <2>6. MapperInv'
    BY <1>11, <2>1 DEF MapperInv, QuickAbsReturn, Pop, HostBank, RawBank,
       mapper, CopPC, NmiPC, GenericPC
  <2>7. PlaceInv'
    BY <1>11, <2>1, <2>2, <2>3, <2>4 DEF MapperInv, PlaceInv, StackInv,
       ContextInv, QuickAbsReturn, Base, S, Top, mapper, gate, VeneerPC,
       HostPC, CopPC, NmiPC, GenericPC, DirectPC
  <2>8. RunInv'
    BY <1>11, <2>1, <2>2, <2>3, <2>4 DEF RunInv, QuickAbsReturn, Push, Pop,
       HostGoto, Goto, Top, cpu, mapper, gate, VeneerPC, HostPC, CopPC, NmiPC,
       RunPC, GenericPC, DirectPC, ProgramPC, StackInv, ContextInv, GateType
  <2>9. StackInv'
    BY <1>11, <2>1, <2>2, <2>3, <2>4, PushFacts, PrefixFacts DEF StackInv,
       QuickAbsReturn, Pop, HostBank, RawBank, CodeBank, Frame, GuestBank,
       NctxLive, Base, S, Top, mapper, gate, VeneerPC, HostPC, CopPC, NmiPC,
       RunPC, GenericPC, DirectPC, ProgramPC
  <2>10. ContextInv'
    BY <1>11, <2>1, <2>2, <2>3, <2>4 DEF ContextInv, QuickAbsReturn, Pop,
       HostBank, RawBank, CodeBank, Frame, GuestBank, NctxLive, Base, S, Top,
       mapper, gate, VeneerPC, HostPC, CopPC, NmiPC, RunPC, GenericPC,
       DirectPC, ProgramPC, RunInv, StackInv, GateType
  <2>11. QED BY <2>3, <2>4, <2>5, <2>6, <2>7, <2>8, <2>9, <2>10
<1>12. CASE CopOperation
  <2>1. pc' \in {"CopRet", "CopStatus", "Halt"} /\ pbr' \in Nat
    BY <1>12 DEF CopOperation, CpuType, HostGoto, HostBank, Die
  <2>2. S' = S /\ stk' = stk /\ cop'.sp = cop.sp /\ running' = running
        /\ Base' = Base
    BY <1>12 DEF CopOperation, SaveType, S, gate, Base
  <2>3. stk[S].pc \in RomPC /\ S = Base + 1 /\ cop.sp = S
    BY <1>12 DEF CopOperation, StackInv, GenericPC, CopPC, DirectPC
  <2>4. running => stk[1].pc \in {"NmiRet", "IrqRet"} /\ stk[1].pbr = HostBank
    BY <1>12 DEF CopOperation, StackInv, ProgramPC, CopPC
  <2>5. StackInv'
    BY <2>1, <2>2, <2>3, <2>4 DEF StackInv, S, VeneerPC, HostPC, CopPC,
       DirectPC
  <2>6. MapperType' /\ GateType' /\ SaveType'
    BY <1>12, <2>1, <2>5, TypesUnchanged, BankTypes DEF CopOperation, SaveType
  <2>7. CpuType'
    BY <1>12, <2>1, <2>2, <2>3, <2>4, <2>5, <2>6, PushFacts, PrefixFacts DEF
       CpuType, MapperType, SaveType, StackInv, ContextInv, FrameType,
       CopOperation, S, mapper, gate, Locations, VeneerPC, HostPC, CopPC, NmiPC
  <2>8. PortType' /\ ChainType' /\ VideoType' /\ (fault \in 0..3)'
    BY <1>12, <2>1, TypesUnchanged, PortTypes DEF CopOperation, Die
  <2>9. MapperInv'
    BY <1>12, <2>1, <2>2, <2>3, <2>4, <2>5, <2>6, <2>7 DEF MapperInv,
       CopOperation, HostGoto, Die, SelectBank, UpdateBanks, Base, S, mapper,
       gate, VeneerPC, HostPC, CopPC, NmiPC, GenericPC, DirectPC, ProgramPC,
       CpuType
  <2>10. PlaceInv'
    BY <1>12, <2>1, <2>2, <2>3, <2>4 DEF PlaceInv, StackInv, ContextInv,
       CopOperation, HostGoto, Die, SelectBank, UpdateBanks, SelectPrimary,
       SelectCBank, HostBank, VeneerPC, HostPC, CopPC, NmiPC, GenericPC
  <2>11. RunInv'
    BY <1>12, <2>1 DEF RunInv, CopOperation, Push, Pop, HostGoto, Goto, gate,
       VeneerPC, HostPC, CopPC, NmiPC, RunPC, GenericPC, DirectPC, ProgramPC
  <2>12. StackInv'
    BY <2>1, <2>2, <2>3, <2>4, <2>5
  <2>13. ContextInv'
    BY <1>12, <2>1, <2>2, <2>3, <2>4, <2>5, <2>6, <2>7 DEF ContextInv,
       CopOperation, HostGoto, NctxLive, Base, S, mapper, gate, VeneerPC,
       HostPC, CopPC, NmiPC, RunPC
  <2>14. QED BY <2>6, <2>7, <2>8, <2>9, <2>10, <2>11, <2>12, <2>13
<1>13. CASE CopStatus
  <2>1. MapperType' /\ GateType' /\ SaveType'
    BY <1>13, TypesUnchanged, BankTypes DEF CopStatus
  <2>2. CpuType'
    BY <1>13, <2>1, PushFacts, PrefixFacts DEF CpuType, MapperType, SaveType,
       CopStatus, HostGoto, HostBank, gate, Locations, VeneerPC, HostPC, CopPC,
       NmiPC
  <2>3. PortType' /\ ChainType' /\ VideoType' /\ (fault \in 0..3)'
    BY <1>13, TypesUnchanged, PortTypes DEF CopStatus, ChainType, VideoType
  <2>4. MapperInv'
    BY <1>13, <2>1, <2>2 DEF MapperInv, CopStatus, HostGoto, HostBank, mapper,
       gate, VeneerPC, HostPC, CopPC, GenericPC
  <2>5. PlaceInv'
    BY <1>13, <2>1, <2>2 DEF MapperInv, PlaceInv, StackInv, ContextInv,
       CopStatus, HostGoto, HostBank, VeneerPC, HostPC, CopPC
  <2>6. RunInv'
    BY <1>13, <2>1, <2>2 DEF RunInv, CopStatus, Push, Pop, HostGoto, HostPC,
       CopPC, NmiPC, RunPC, GenericPC, DirectPC, ProgramPC, StackInv,
       ContextInv, GateType
  <2>7. StackInv'
    BY <1>13, <2>1, <2>2, PushFacts, PrefixFacts DEF StackInv, CopStatus,
       HostGoto, HostBank, RawBank, Base, S, mapper, gate, VeneerPC, HostPC,
       CopPC, NmiPC, RunPC, GenericPC, DirectPC, ProgramPC
  <2>8. ContextInv'
    BY <1>13, <2>1, <2>2 DEF ContextInv, CopStatus, HostGoto, HostBank,
       RawBank, CodeBank, Frame, GuestBank, NctxLive, gate, VeneerPC, HostPC,
       CopPC, NmiPC, RunPC
  <2>9. QED BY <2>1, <2>2, <2>3, <2>4, <2>5, <2>6, <2>7, <2>8
<1>14. CASE CopReturn
  <2>1. cop.sp = S /\ S = Base + 1
    BY <1>14 DEF CopReturn, StackInv, GenericPC, DirectPC, CopPC
  <2>2. S > 0 /\ Pop /\ pc' = Top.pc
    BY <1>14, <2>1 DEF CopReturn, Base, Pop, Top
  <2>3. stk' \in Seq(FrameType) /\ S' = S - 1
        /\ (\A i \in 1..(S-1) : stk'[i] = stk[i]) /\ Top.pc \in Locations
        /\ Top.pbr \in Nat
    BY <2>2, PopStep
  <2>4. pc' \in RomPC
    BY <1>14 DEF CopReturn, StackInv, GenericPC, DirectPC, CopPC
  <2>5. MapperType' /\ GateType' /\ SaveType'
    BY <1>14, <2>4, TypesUnchanged, BankTypes DEF CopReturn, GateType
  <2>6. CpuType'
    BY <1>14, <2>1, <2>2, <2>3, <2>4, <2>5, PushFacts, PrefixFacts DEF CpuType,
       MapperType, SaveType, StackInv, ContextInv, CopReturn
  <2>7. PortType' /\ ChainType' /\ VideoType' /\ (fault \in 0..3)'
    BY <1>14, <2>1, <2>4, TypesUnchanged DEF CopReturn
  <2>8. MapperInv'
    BY <1>14, <2>1, <2>2, <2>3, <2>4, <2>5, <2>6 DEF MapperInv, CopReturn, Pop,
       HostBank, RawBank, Base, S, Top, mapper
  <2>9. PlaceInv'
    BY <1>14, <2>1, <2>2, <2>3, <2>4, <2>5, <2>6 DEF MapperInv, PlaceInv,
       StackInv, ContextInv, CopReturn, S, Top, mapper, VeneerPC
  <2>10. RunInv'
    BY <2>1, <2>2, <2>3, <2>4, <2>5, <2>6 DEF RunInv, CopReturn, Push, Pop,
       HostGoto, Goto, gate, VeneerPC, HostPC, CopPC, NmiPC, RunPC, GenericPC,
       DirectPC, ProgramPC
  <2>11. StackInv'
    BY <1>14, <2>1, <2>2, <2>3, <2>4, <2>5, <2>6, PushFacts, PrefixFacts DEF
       StackInv, CopReturn, Pop, HostBank, RawBank, Base, S, Top, mapper,
       VeneerPC, HostPC, CopPC, NmiPC, RunPC, GenericPC, DirectPC, ProgramPC
  <2>12. ContextInv'
    BY <1>14, <2>1, <2>2, <2>3, <2>4, <2>5, <2>6 DEF ContextInv, CopReturn,
       Pop, HostBank, NctxLive, Base, S, Top, mapper, VeneerPC, HostPC, CopPC
  <2>13. QED BY <2>5, <2>6, <2>7, <2>8, <2>9, <2>10, <2>11, <2>12
<1>15. CASE VeneerSlot
  <2>1. MapperType' /\ GateType' /\ SaveType'
    BY <1>15, TypesUnchanged, BankTypes DEF VeneerSlot, SaveType, GateType,
       MapperType, CpuType, mapper, gate
  <2>2. CpuType'
    BY <1>15, <2>1, PushFacts, PrefixFacts DEF CpuType, MapperType, SaveType,
       StackInv, ContextInv, FrameType, VeneerSlot, HostGoto, Goto, Die,
       HostBank, Frame, GuestBank, gate, Locations, VeneerPC, HostPC, CopPC,
       NmiPC
  <2>3. PortType' /\ ChainType' /\ VideoType' /\ (fault \in 0..3)'
    BY <1>15, TypesUnchanged, PortTypes DEF VeneerSlot, ChainType, VideoType,
       Die
  <2>4. MapperInv'
    BY <1>15, <2>1, <2>2 DEF MapperInv, VeneerSlot, Goto
  <2>5. PlaceInv'
    BY <1>15, <2>1, <2>2 DEF MapperInv, PlaceInv, StackInv, ContextInv,
       VeneerSlot, HostGoto, Goto, Die, SelectBank, Base, S, gate, VeneerPC,
       HostPC, CopPC, NmiPC, GenericPC
  <2>6. RunInv'
    BY <1>15, <2>1, <2>2 DEF RunInv, VeneerSlot, Push, Pop, HostGoto, Goto,
       Die, SelectBank, UpdateBanks, VeneerPC, HostPC, CopPC, NmiPC, RunPC,
       GenericPC, DirectPC, ProgramPC, StackInv, ContextInv, GateType
  <2>7. StackInv'
    BY <1>15, <2>1, <2>2, PushFacts, PrefixFacts DEF StackInv, VeneerSlot,
       HostGoto, Goto, Die, SelectBank, SelectPrimary, SelectCBank, HostBank,
       NctxLive, Base, S, gate, VeneerPC, HostPC, CopPC, NmiPC, RunPC,
       GenericPC, DirectPC, ProgramPC
  <2>8. ContextInv'
    BY <1>15, <2>1, <2>2 DEF ContextInv, VeneerSlot, HostGoto, Goto, Die,
       SelectBank, SelectPrimary, SelectCBank, GuestBank, NctxLive, Base, S,
       gate, VeneerPC, HostPC, CopPC, NmiPC, RunPC, GenericPC, DirectPC
  <2>9. QED BY <2>1, <2>2, <2>3, <2>4, <2>5, <2>6, <2>7, <2>8
<1>16. CASE VeneerRaw
  <2>1. MapperType' /\ GateType' /\ SaveType'
    BY <1>16, TypesUnchanged, BankTypes DEF VeneerRaw, MapperType, CpuType,
       RawBank, CodeBank
  <2>2. CpuType'
    BY <1>16, <2>1, PushFacts, PrefixFacts DEF CpuType, MapperType, SaveType,
       VeneerRaw, Goto, HostBank, gate, Locations, VeneerPC
  <2>3. PortType' /\ ChainType' /\ VideoType' /\ (fault \in 0..3)'
    BY <1>16, TypesUnchanged, PortTypes DEF VeneerRaw, ChainType, VideoType
  <2>4. MapperInv'
    BY <1>16, <2>1, <2>2 DEF MapperInv, VeneerRaw, Goto, VeneerPC, HostPC,
       CopPC
  <2>5. PlaceInv'
    BY <1>16, <2>1, <2>2 DEF MapperInv, PlaceInv, StackInv, ContextInv,
       VeneerRaw, Goto, VeneerPC, HostPC, CopPC, NmiPC, GenericPC, DirectPC
  <2>6. RunInv'
    BY <1>16, <2>1, <2>2 DEF RunInv, VeneerRaw, Push, Pop, HostGoto, Goto, Die,
       SelectBank, UpdateBanks, VeneerPC, HostPC, CopPC, NmiPC, RunPC,
       GenericPC, DirectPC, ProgramPC, StackInv, ContextInv, GateType
  <2>7. StackInv'
    BY <1>16, <2>1, <2>2, PushFacts, PrefixFacts DEF StackInv, VeneerRaw, Goto,
       HostBank, NctxLive, Base, S, gate, VeneerPC, HostPC, CopPC, NmiPC,
       RunPC, GenericPC, DirectPC, ProgramPC
  <2>8. ContextInv'
    BY <1>16, <2>1, <2>2 DEF ContextInv, VeneerRaw, Goto, HostBank, RawBank,
       NctxLive, Base, S, gate, VeneerPC, HostPC, CopPC, NmiPC, RunPC
  <2>9. QED BY <2>1, <2>2, <2>3, <2>4, <2>5, <2>6, <2>7, <2>8
<1>17. CASE VeneerCode
  <2>1. MapperType' /\ GateType' /\ SaveType'
    BY <1>17, TypesUnchanged, BankTypes DEF VeneerCode, MapperType, CpuType,
       RawBank, CodeBank
  <2>2. CpuType'
    BY <1>17, <2>1, PushFacts, PrefixFacts DEF CpuType, ContextInv, FrameType,
       VeneerCode, Goto, HostBank, RawBank, gate, Locations, VeneerPC
  <2>3. PortType' /\ ChainType' /\ VideoType' /\ (fault \in 0..3)'
    BY <1>17, TypesUnchanged, PortTypes DEF VeneerCode, ChainType, VideoType
  <2>4. MapperInv'
    BY <1>17, <2>1, <2>2 DEF MapperInv, VeneerCode, Goto, VeneerPC, HostPC,
       CopPC
  <2>5. PlaceInv'
    BY <1>17, <2>1, <2>2 DEF MapperInv, PlaceInv, StackInv, ContextInv,
       VeneerCode, Goto, VeneerPC, HostPC, CopPC, NmiPC, GenericPC, DirectPC
  <2>6. RunInv'
    BY <1>17, <2>1, <2>2 DEF RunInv, VeneerCode, Push, Pop, HostGoto, Goto,
       Die, SelectBank, UpdateBanks, VeneerPC, HostPC, CopPC, NmiPC, RunPC,
       GenericPC, DirectPC, ProgramPC, StackInv, ContextInv, GateType
  <2>7. StackInv'
    BY <1>17, <2>1, <2>2, PushFacts, PrefixFacts DEF StackInv, VeneerCode,
       Goto, HostBank, NctxLive, Base, S, gate, VeneerPC, HostPC, CopPC, NmiPC,
       RunPC, GenericPC, DirectPC, ProgramPC
  <2>8. ContextInv'
    BY <1>17, <2>1, <2>2 DEF ContextInv, VeneerCode, Goto, HostBank, RawBank,
       NctxLive, Base, S, gate, VeneerPC, HostPC, CopPC, NmiPC, RunPC
  <2>9. QED BY <2>1, <2>2, <2>3, <2>4, <2>5, <2>6, <2>7, <2>8
<1>18. CASE VeneerDbr
  <2>1. MapperType' /\ GateType' /\ SaveType'
    BY <1>18, TypesUnchanged, BankTypes DEF VeneerDbr, SaveType
  <2>2. CpuType'
    BY <1>18, <2>1, PushFacts, PrefixFacts DEF CpuType, MapperType, SaveType,
       VeneerDbr, Goto, HostBank, gate, Locations, VeneerPC
  <2>3. PortType' /\ ChainType' /\ VideoType' /\ (fault \in 0..3)'
    BY <1>18, TypesUnchanged, PortTypes DEF VeneerDbr, ChainType, VideoType
  <2>4. MapperInv'
    BY <1>18, <2>1, <2>2 DEF MapperInv, VeneerDbr, Goto, mapper
  <2>5. PlaceInv'
    BY <1>18, <2>1, <2>2 DEF MapperInv, PlaceInv, StackInv, ContextInv,
       VeneerDbr, Goto, HostBank, VeneerPC, HostPC, CopPC, NmiPC, GenericPC,
       DirectPC
  <2>6. RunInv'
    BY <1>18, <2>1, <2>2 DEF RunInv, VeneerDbr, Push, Pop, HostGoto, Goto, Die,
       SelectBank, UpdateBanks, VeneerPC, HostPC, CopPC, NmiPC, RunPC,
       GenericPC, DirectPC, ProgramPC, StackInv, ContextInv, GateType
  <2>7. StackInv'
    BY <1>18, <2>1, <2>2, PushFacts, PrefixFacts DEF StackInv, VeneerDbr, Goto,
       HostBank, RawBank, Base, S, mapper, gate, VeneerPC, HostPC, CopPC,
       NmiPC, RunPC, GenericPC, DirectPC, ProgramPC
  <2>8. ContextInv'
    BY <1>18, <2>1, <2>2 DEF ContextInv, VeneerDbr, Goto, HostBank, RawBank,
       CodeBank, Frame, GuestBank, NctxLive, gate, VeneerPC, HostPC, CopPC,
       NmiPC, RunPC
  <2>9. QED BY <2>1, <2>2, <2>3, <2>4, <2>5, <2>6, <2>7, <2>8
<1>19. CASE VeneerRtl
  <2>1. S > 0 /\ Pop
    BY <1>19 DEF VeneerRtl, StackInv, ContextInv, Base, VeneerPC
  <2>2. stk' \in Seq(FrameType) /\ S' = S - 1
        /\ (\A i \in 1..(S-1) : stk'[i] = stk[i]) /\ Top.pc \in Locations
        /\ Top.pbr \in Nat
    BY <2>1, PopStep
  <2>3. MapperType' /\ GateType' /\ SaveType'
    BY <1>19, <2>1, <2>2, TypesUnchanged DEF VeneerRtl
  <2>4. CpuType'
    BY <1>19, <2>1, <2>2, <2>3, PushFacts, PrefixFacts DEF CpuType, MapperType,
       VeneerRtl
  <2>5. PortType' /\ ChainType' /\ VideoType' /\ (fault \in 0..3)'
    BY <1>19, <2>1, <2>2, TypesUnchanged DEF VeneerRtl
  <2>6. MapperInv'
    BY <1>19, <2>1 DEF MapperInv, VeneerRtl, Pop, HostBank, RawBank, mapper
  <2>7. PlaceInv'
    BY <1>19, <2>1 DEF MapperInv, PlaceInv, StackInv, ContextInv, VeneerRtl,
       Base, S, Top, mapper, gate, VeneerPC, HostPC
  <2>8. RunInv'
    BY <1>19, <2>1, <2>2, <2>3, <2>4 DEF RunInv, VeneerRtl, Push, Pop,
       HostGoto, Goto, Top, cpu, mapper, gate, VeneerPC, HostPC, CopPC, NmiPC,
       RunPC, GenericPC, DirectPC, ProgramPC, StackInv, ContextInv, GateType
  <2>9. StackInv'
    BY <1>19, <2>1, <2>2, <2>3, <2>4, PushFacts, PrefixFacts DEF StackInv,
       VeneerRtl, Pop, HostBank, RawBank, CodeBank, Frame, GuestBank, NctxLive,
       Base, S, Top, mapper, gate, VeneerPC, HostPC, CopPC, NmiPC, RunPC,
       GenericPC, DirectPC, ProgramPC, CpuType, GateType, MapperType, SaveType
  <2>10. ContextInv'
    BY <1>19, <2>1, <2>2, <2>3, <2>4 DEF ContextInv, VeneerRtl, Pop, HostBank,
       RawBank, CodeBank, Frame, GuestBank, NctxLive, Base, S, Top, mapper,
       gate, VeneerPC, HostPC, CopPC, ProgramPC, RunInv, StackInv, GateType
  <2>11. QED BY <2>3, <2>4, <2>5, <2>6, <2>7, <2>8, <2>9, <2>10
<1>20. CASE VeneerIo
  <2>1. Frame("VnRts", pbr) \in FrameType
    BY DEF Frame, FrameType, CpuType, Locations, VeneerPC
  <2>2. stk' \in Seq(FrameType) /\ S' = S + 1
        /\ stk'[S + 1] = Frame("VnRts", pbr)
        /\ \A i \in 1..S : stk'[i] = stk[i]
    BY <1>20, <2>1, PushStep DEF VeneerIo
  <2>3. MapperType' /\ GateType' /\ SaveType'
    BY <1>20, TypesUnchanged, BankTypes DEF VeneerIo, SaveType
  <2>4. CpuType'
    BY <1>20, <2>1, <2>2, <2>3, PushFacts, PrefixFacts DEF CpuType, MapperType,
       SaveType, VeneerIo, Push, HostBank, gate, Locations, VeneerPC, HostPC,
       CopPC, NmiPC
  <2>5. PortType' /\ ChainType' /\ VideoType' /\ (fault \in 0..3)'
    BY <1>20, <2>1, <2>2, TypesUnchanged DEF VeneerIo
  <2>6. MapperInv'
    BY <1>20, <2>4 DEF MapperInv, VeneerIo, Push, HostBank, mapper
  <2>7. PlaceInv'
    BY <1>20, <2>1, <2>2, <2>3, <2>4 DEF MapperInv, PlaceInv, StackInv,
       ContextInv, VeneerIo, Push, HostBank, VeneerPC, HostPC, CopPC
  <2>8. RunInv'
    BY <1>20, <2>1, <2>2, <2>3, <2>4 DEF RunInv, VeneerIo, Push, Pop, HostGoto,
       HostPC, CopPC, NmiPC, RunPC, GenericPC, DirectPC, ProgramPC, StackInv,
       ContextInv, GateType
  <2>9. StackInv'
    BY <1>20, <2>1, <2>2, <2>3, <2>4, PushFacts, PrefixFacts DEF StackInv,
       VeneerIo, Push, HostBank, RawBank, Base, S, mapper, gate, VeneerPC,
       HostPC, CopPC, NmiPC, RunPC, GenericPC, DirectPC, ProgramPC, RunInv,
       PlaceInv, ContextInv, MapperInv
  <2>10. ContextInv'
    BY <1>20, <2>1, <2>2, <2>3, <2>4 DEF ContextInv, VeneerIo, Push, HostBank,
       NctxLive, Base, S, mapper, gate, VeneerPC, HostPC, CopPC, NmiPC, RunPC,
       GenericPC, DirectPC
  <2>11. QED BY <2>3, <2>4, <2>5, <2>6, <2>7, <2>8, <2>9, <2>10
<1>21. CASE DirectIo
  <2>1. S > 0 /\ Pop
    BY <1>21 DEF DirectIo, StackInv, ContextInv, Base, CopPC
  <2>2. stk' \in Seq(FrameType) /\ S' = S - 1
        /\ (\A i \in 1..(S-1) : stk'[i] = stk[i]) /\ Top.pc \in Locations
        /\ Top.pbr \in Nat
    BY <2>1, PopStep
  <2>3. pc' = "VnRts" /\ pbr' = code /\ S = Base + 2
        /\ stk[S-1].pc \in RomPC /\ code < 192 /\ code'=code
        /\ running' = running
    BY <1>21 DEF DirectIo, StackInv, Frame, Top, DirectPC, mapper, gate
  <2>4. S' = Base' + 1 /\ stk'[S'].pc \in RomPC
    BY <2>2, <2>3 DEF CpuType, S, Base
  <2>5. MapperType' /\ GateType' /\ SaveType'
    BY <1>21, <2>4, TypesUnchanged, BankTypes DEF DirectIo
  <2>6. CpuType'
    BY <1>21, <2>1, <2>2, PushFacts, PrefixFacts DEF CpuType, DirectIo
  <2>7. PortType' /\ ChainType' /\ VideoType' /\ (fault \in 0..3)'
    BY <1>21, <2>1, TypesUnchanged, PortTypes DEF DirectIo
  <2>8. MapperInv'
    BY <1>21, <2>1, <2>2, <2>3, <2>4, <2>5, <2>6 DEF MapperInv, DirectIo, S,
       Top, mapper, gate, VeneerPC, HostPC, CopPC, NmiPC, GenericPC, DirectPC,
       ProgramPC, CpuType
  <2>9. PlaceInv'
    BY <1>21, <2>1, <2>2, <2>3, <2>4, <2>5, <2>6 DEF MapperInv, PlaceInv,
       StackInv, ContextInv, DirectIo, Pop, HostBank, RawBank, CodeBank, Frame,
       HostPC, CopPC, NmiPC, GenericPC, DirectPC, ProgramPC, CpuType,
       MapperType
  <2>10. RunInv'
    BY <2>1, <2>2, <2>3, <2>4, <2>5, <2>6 DEF RunInv, DirectIo, Push, Pop,
       HostGoto, Goto, gate, VeneerPC, HostPC, CopPC, NmiPC, RunPC, GenericPC,
       DirectPC, ProgramPC
  <2>11. StackInv'
    BY <1>21, <2>1, <2>2, <2>3, <2>4, <2>5, <2>6, PushFacts, PrefixFacts DEF
       StackInv, DirectIo, Pop, HostBank, RawBank, CodeBank, Frame, GuestBank,
       NctxLive, Base, VeneerPC, HostPC, CopPC, NmiPC, RunPC, GenericPC,
       DirectPC, ProgramPC
  <2>12. ContextInv'
    BY <1>21, <2>1, <2>2, <2>3, <2>4, <2>5, <2>6 DEF ContextInv, DirectIo, Pop,
       HostBank, NctxLive, Base, S, Top, CopPC, NmiPC, RunPC, GenericPC
  <2>13. QED BY <2>5, <2>6, <2>7, <2>8, <2>9, <2>10, <2>11, <2>12
<1>22. CASE DirectReadStatus
  <2>1. S > 0 /\ Pop
    BY <1>22 DEF DirectReadStatus, StackInv, ContextInv, Base, CopPC
  <2>2. stk' \in Seq(FrameType) /\ S' = S - 1
        /\ (\A i \in 1..(S-1) : stk'[i] = stk[i]) /\ Top.pc \in Locations
        /\ Top.pbr \in Nat
    BY <2>1, PopStep
  <2>3. pc' = "VnRts" /\ pbr' = code /\ S = Base + 2
        /\ stk[S-1].pc \in RomPC /\ code < 192 /\ code'=code
        /\ running' = running
    BY <1>22 DEF DirectReadStatus, StackInv, Frame, Top, DirectPC, mapper, gate
  <2>4. S' = Base' + 1 /\ stk'[S'].pc \in RomPC
    BY <2>2, <2>3 DEF CpuType, S, Base
  <2>5. MapperType' /\ GateType' /\ SaveType'
    BY <1>22, <2>4, TypesUnchanged, BankTypes DEF DirectReadStatus
  <2>6. CpuType'
    BY <1>22, <2>1, <2>2, PushFacts, PrefixFacts DEF CpuType, DirectReadStatus
  <2>7. PortType' /\ ChainType' /\ VideoType' /\ (fault \in 0..3)'
    BY <1>22, <2>1, TypesUnchanged, PortTypes DEF DirectReadStatus
  <2>8. MapperInv'
    BY <1>22, <2>1, <2>2, <2>3, <2>4, <2>5, <2>6 DEF MapperInv,
       DirectReadStatus, S, Top, mapper, gate, VeneerPC, HostPC, CopPC, NmiPC,
       GenericPC, DirectPC, ProgramPC, CpuType
  <2>9. PlaceInv'
    BY <1>22, <2>1, <2>2, <2>3, <2>4, <2>5, <2>6 DEF MapperInv, PlaceInv,
       StackInv, ContextInv, DirectReadStatus, Pop, HostBank, RawBank,
       CodeBank, Frame, HostPC, CopPC, NmiPC, GenericPC, DirectPC, ProgramPC,
       CpuType, MapperType
  <2>10. RunInv'
    BY <2>1, <2>2, <2>3, <2>4, <2>5, <2>6 DEF RunInv, DirectReadStatus, Push,
       Pop, HostGoto, Goto, gate, VeneerPC, HostPC, CopPC, NmiPC, RunPC,
       GenericPC, DirectPC, ProgramPC
  <2>11. StackInv'
    BY <1>22, <2>1, <2>2, <2>3, <2>4, <2>5, <2>6, PushFacts, PrefixFacts DEF
       StackInv, DirectReadStatus, Pop, HostBank, RawBank, CodeBank, Frame,
       GuestBank, NctxLive, Base, VeneerPC, HostPC, CopPC, NmiPC, RunPC,
       GenericPC, DirectPC, ProgramPC
  <2>12. ContextInv'
    BY <1>22, <2>1, <2>2, <2>3, <2>4, <2>5, <2>6 DEF ContextInv,
       DirectReadStatus, Pop, HostBank, NctxLive, Base, S, Top, CopPC, NmiPC,
       RunPC, GenericPC
  <2>13. QED BY <2>5, <2>6, <2>7, <2>8, <2>9, <2>10, <2>11, <2>12
<1>23. CASE VeneerRts
  <2>1. S > 0 /\ Pop
    BY <1>23 DEF VeneerRts, StackInv, ContextInv, Base, VeneerPC
  <2>2. stk' \in Seq(FrameType) /\ S' = S - 1
        /\ (\A i \in 1..(S-1) : stk'[i] = stk[i]) /\ Top.pc \in Locations
        /\ Top.pbr \in Nat
    BY <2>1, PopStep
  <2>3. MapperType' /\ GateType' /\ SaveType'
    BY <1>23, <2>1, <2>2, TypesUnchanged DEF VeneerRts
  <2>4. CpuType'
    BY <1>23, <2>1, <2>2, <2>3, PushFacts, PrefixFacts DEF CpuType, VeneerRts
  <2>5. PortType' /\ ChainType' /\ VideoType' /\ (fault \in 0..3)'
    BY <1>23, <2>1, <2>2, TypesUnchanged DEF VeneerRts
  <2>6. MapperInv'
    BY <1>23, <2>1 DEF MapperInv, VeneerRts, Pop, HostBank, RawBank, mapper
  <2>7. PlaceInv'
    BY <1>23, <2>1 DEF MapperInv, PlaceInv, StackInv, ContextInv, VeneerRts,
       Base, S, Top, mapper, gate, VeneerPC, HostPC
  <2>8. RunInv'
    BY <1>23, <2>1, <2>2, <2>3, <2>4 DEF RunInv, VeneerRts, Push, Pop,
       HostGoto, Goto, Top, cpu, mapper, gate, VeneerPC, HostPC, CopPC, NmiPC,
       RunPC, GenericPC, DirectPC, ProgramPC, StackInv, ContextInv, GateType
  <2>9. StackInv'
    BY <1>23, <2>1, <2>2, <2>3, <2>4, PushFacts, PrefixFacts DEF StackInv,
       VeneerRts, Pop, HostBank, RawBank, CodeBank, Frame, GuestBank, NctxLive,
       Base, S, Top, mapper, gate, VeneerPC, HostPC, CopPC, NmiPC, RunPC,
       GenericPC, DirectPC, ProgramPC, CpuType, GateType, MapperType, SaveType
  <2>10. ContextInv'
    BY <1>23, <2>1, <2>2, <2>3, <2>4 DEF ContextInv, VeneerRts, Pop, HostBank,
       RawBank, CodeBank, Frame, GuestBank, NctxLive, Base, S, Top, mapper,
       gate, VeneerPC, HostPC, CopPC, ProgramPC, RunInv, StackInv, GateType
  <2>11. QED BY <2>3, <2>4, <2>5, <2>6, <2>7, <2>8, <2>9, <2>10
<1>24. CASE Nmi
  <2>1. CASE TakesFullNmi
    <3>1. pc \in RomPC /\ ~running /\ S = 0 /\ GuestBank(pbr) /\ pbr = code
      BY <1>24, <2>1 DEF TakesFullNmi, GuestBank, HostBank, PlaceInv, StackInv,
         Base, CpuType, Locations
    <3>2. Frame(pc, pbr) \in FrameType
      BY DEF Frame, FrameType, CpuType
    <3>3. stk' \in Seq(FrameType) /\ S' = 1 /\ stk'[1] = Frame(pc, pbr)
      BY <1>24, <2>1, <3>1, <3>2, PushStep DEF Nmi
    <3>4. PortType'
      BY <1>24 DEF Nmi, PortType
    <3>5. MapperType' /\ GateType' /\ SaveType'
      BY <1>24, <2>1, <3>1, TypesUnchanged DEF Nmi
    <3>6. CpuType'
      BY <1>24, <2>1, <3>1, <3>2, <3>3, <3>4, <3>5, PushFacts, PrefixFacts DEF
         CpuType, MapperType, SaveType, StackInv, ContextInv, FrameType, Nmi,
         Push, HostGoto, HostBank, Frame, S, mapper, gate, Locations, VeneerPC,
         HostPC, CopPC, NmiPC
    <3>7. PortType' /\ ChainType' /\ VideoType' /\ (fault \in 0..3)'
      BY <1>24, <3>4, TypesUnchanged, PortTypes DEF Nmi
    <3>8. MapperInv'
      BY <1>24, <2>1, <3>1, <3>6 DEF MapperInv, Nmi, Push, Base, S, mapper,
         gate, VeneerPC, HostPC, CopPC, NmiPC
    <3>9. PlaceInv'
      BY <1>24, <2>1, <3>1, <3>2, <3>3, <3>4, <3>5, <3>6 DEF MapperInv,
         PlaceInv, StackInv, ContextInv, Nmi, Push, HostGoto, S, mapper, gate,
         VeneerPC, HostPC, CopPC, NmiPC, GenericPC
    <3>10. RunInv'
      BY <1>24, <2>1, <3>1, <3>2, <3>3, <3>4, <3>5, <3>6 DEF RunInv, Nmi, Push,
         Pop, HostGoto, Goto, gate, VeneerPC, HostPC, CopPC, NmiPC, RunPC
    <3>11. StackInv'
      BY <1>24, <2>1, <3>1, <3>2, <3>3, <3>4, <3>5, <3>6, PushFacts,
         PrefixFacts DEF StackInv, Nmi, Push, HostGoto, HostBank, RawBank,
         CodeBank, Frame, TakesFullNmi, GuestBank, NctxLive, Base, S, mapper,
         gate, VeneerPC, HostPC, CopPC, NmiPC, RunPC, GenericPC, DirectPC,
         ProgramPC, RunInv, PlaceInv, ContextInv
    <3>12. ContextInv'
      BY <1>24, <2>1, <3>1, <3>2, <3>3, <3>4, <3>5, <3>6 DEF ContextInv, Nmi,
         Push, HostGoto, HostBank, GuestBank, NctxLive, Base, S, mapper, gate,
         VeneerPC, HostPC
    <3>13. QED BY <3>5, <3>6, <3>7, <3>8, <3>9, <3>10, <3>11, <3>12
  <2>2. CASE ~TakesFullNmi
    <3>1. UNCHANGED <<cpu, mapper, gate, cop, nctx, chain, video, fault>>
      BY <1>24, <2>2 DEF Nmi, cpu
    <3>2. PortType'
      BY <1>24 DEF Nmi, PortType
    <3>3. MapperType' /\ GateType' /\ SaveType'
      BY <1>24, TypesUnchanged, BankTypes DEF Nmi
    <3>4. CpuType'
      BY <1>24, <2>2, <3>1, <3>2 DEF CpuType, MapperType, SaveType, Nmi, Push
    <3>5. PortType' /\ ChainType' /\ VideoType' /\ (fault \in 0..3)'
      BY <1>24, <2>2, <3>1, <3>2, TypesUnchanged
    <3>6. MapperInv'
      BY <3>1, <3>2, <3>3, <3>4 DEF MapperInv, Nmi, Push, HostGoto, S, cpu,
         mapper, gate
    <3>7. PlaceInv'
      BY <3>1, <3>2, <3>3, <3>4 DEF MapperInv, PlaceInv, StackInv, ContextInv,
         cpu, mapper
    <3>8. RunInv'
      BY <1>24, <2>2, <3>1, <3>2, <3>3, <3>4 DEF RunInv, Nmi, Push, gate,
         VeneerPC, HostPC
    <3>9. StackInv'
      BY <1>24, <2>2, <3>1, <3>2, <3>3, <3>4, PushFacts, PrefixFacts DEF
         StackInv, Nmi, Frame, TakesFullNmi, GuestBank, NctxLive, Base, S, cpu,
         mapper, gate, VeneerPC
    <3>10. ContextInv'
      BY <2>2, <3>1, <3>2, <3>3, <3>4 DEF ContextInv, Nmi, NctxLive, Base, S,
         cpu, mapper, gate, VeneerPC, HostPC
    <3>11. QED BY <3>3, <3>4, <3>5, <3>6, <3>7, <3>8, <3>9, <3>10
  <2>3. QED BY <2>1, <2>2
<1>25. CASE NmiFull
  <2>1. S = 1 /\ Top \in FrameType /\ Top.pc \in RomPC /\ Top.pbr = code
    BY <1>25 DEF NmiFull, StackInv, S, Top, CpuType
  <2>2. GuestBank(code)
    BY <1>25 DEF NmiFull, MapperInv, MapperType, GuestBank, CodeBank, RawBank
  <2>3. nctx'.pc \in RomPC /\ nctx'.pbr = code /\ nctx'.sp = 1
        /\ nctx' \in [regs : Regs, pc : Locations, pbr : Nat, dbr : Nat,
        sp : Nat]
    BY <1>25, <2>1 DEF NmiFull, CpuType, Locations, MapperType
  <2>4. MapperType' /\ GateType' /\ SaveType'
    BY <1>25, <2>1, <2>2, <2>3, TypesUnchanged, BankTypes DEF NmiFull, SaveType
  <2>5. CpuType'
    BY <1>25, <2>1, <2>2, <2>3, <2>4, PushFacts, PrefixFacts DEF CpuType,
       MapperType, SaveType, StackInv, ContextInv, FrameType, NmiFull,
       HostGoto, HostBank, Frame, gate, Locations, VeneerPC, HostPC, CopPC,
       NmiPC
  <2>6. PortType' /\ ChainType' /\ VideoType' /\ (fault \in 0..3)'
    BY <1>25, <2>3, TypesUnchanged, PortTypes DEF NmiFull
  <2>7. MapperInv'
    BY <1>25, <2>1, <2>2, <2>3, <2>4, <2>5 DEF MapperInv, NmiFull, HostGoto,
       HostBank, RawBank, CodeBank, S, Top, mapper, gate, VeneerPC, HostPC,
       CopPC, NmiPC
  <2>8. PlaceInv'
    BY <1>25, <2>1, <2>2, <2>3, <2>4, <2>5 DEF MapperInv, PlaceInv, StackInv,
       ContextInv, NmiFull, HostGoto, Top, mapper, gate, VeneerPC, HostPC,
       CopPC, NmiPC, GenericPC
  <2>9. RunInv'
    BY <1>25, <2>1, <2>2, <2>3, <2>4, <2>5 DEF RunInv, NmiFull, Push, Pop,
       HostGoto, Goto, gate, VeneerPC, HostPC, CopPC, NmiPC, RunPC, GenericPC,
       DirectPC, ProgramPC
  <2>10. StackInv'
    BY <1>25, <2>1, <2>2, <2>3, <2>4, <2>5, PushFacts, PrefixFacts DEF
       StackInv, NmiFull, HostGoto, HostBank, RawBank, CodeBank, S, Top,
       mapper, gate, VeneerPC, HostPC, CopPC, NmiPC, RunPC, GenericPC,
       DirectPC, ProgramPC
  <2>11. ContextInv'
    BY <2>2, <2>3 DEF ContextInv, NmiFull
  <2>12. QED BY <2>4, <2>5, <2>6, <2>7, <2>8, <2>9, <2>10, <2>11
<1>26. CASE NmiCheck
  <2>1. MapperType' /\ GateType' /\ SaveType'
    BY <1>26, TypesUnchanged, BankTypes DEF NmiCheck, GateType
  <2>2. CpuType'
    BY <1>26, <2>1, PushFacts, PrefixFacts DEF CpuType, MapperType, SaveType,
       NmiCheck, HostGoto, HostBank, mapper, Locations, VeneerPC, HostPC,
       CopPC, NmiPC
  <2>3. PortType' /\ ChainType' /\ VideoType' /\ (fault \in 0..3)'
    BY <1>26, TypesUnchanged, PortTypes DEF NmiCheck, ChainType, VideoType
  <2>4. MapperInv'
    BY <1>26, <2>1, <2>2 DEF MapperInv, NmiCheck, HostGoto, HostBank, S,
       mapper, VeneerPC, HostPC, CopPC, NmiPC
  <2>5. PlaceInv'
    BY <1>26, <2>1, <2>2 DEF MapperInv, PlaceInv, StackInv, ContextInv,
       NmiCheck, HostGoto, HostBank, VeneerPC, HostPC, CopPC, NmiPC, GenericPC,
       DirectPC
  <2>6. RunInv'
    BY <1>26, <2>1, <2>2 DEF RunInv, NmiCheck, Push, Pop, HostGoto, HostPC,
       CopPC, NmiPC, RunPC, GenericPC, DirectPC, ProgramPC, StackInv,
       ContextInv, GateType
  <2>7. StackInv'
    BY <1>26, <2>1, <2>2, PushFacts, PrefixFacts DEF StackInv, NmiCheck,
       HostGoto, HostBank, RawBank, NctxLive, Base, S, mapper, VeneerPC,
       HostPC, CopPC, NmiPC, RunPC, GenericPC, DirectPC, ProgramPC
  <2>8. ContextInv'
    BY <1>26, <2>1, <2>2 DEF ContextInv, NmiCheck, HostGoto, HostBank, RawBank,
       CodeBank, NctxLive, Base, S, CopPC, NmiPC, RunPC
  <2>9. QED BY <2>1, <2>2, <2>3, <2>4, <2>5, <2>6, <2>7, <2>8
<1>27. CASE PresentPendingFrame
  <2>1. ready' \in BOOLEAN /\ frameid' \in Nat
    BY <1>27 DEF PresentPendingFrame, VideoType
  <2>2. shown' \in Nat
    BY <1>27 DEF PresentPendingFrame, VideoType
  <2>3. gframes' \in Nat
    BY <1>27 DEF PresentPendingFrame, VideoType
  <2>4. VideoType'
    BY <2>1, <2>2, <2>3 DEF VideoType
  <2>5. MapperType' /\ GateType' /\ SaveType'
    BY <1>27, <2>1, <2>4, TypesUnchanged, BankTypes DEF PresentPendingFrame
  <2>6. CpuType'
    BY <1>27 DEF CpuType, MapperType, SaveType, StackInv, ContextInv,
       FrameType, PresentPendingFrame, HostGoto, HostBank, gate, Locations,
       VeneerPC, HostPC, CopPC, NmiPC
  <2>7. PortType' /\ ChainType' /\ VideoType' /\ (fault \in 0..3)'
    BY <1>27, <2>1, <2>4, TypesUnchanged DEF PresentPendingFrame
  <2>8. MapperInv'
    BY <1>27, <2>1, <2>2, <2>3, <2>4, <2>5, <2>6 DEF MapperInv,
       PresentPendingFrame, HostGoto, HostBank, RawBank, Base, S, mapper, gate,
       VeneerPC, HostPC, CopPC, NmiPC
  <2>9. PlaceInv'
    BY <1>27, <2>1, <2>2, <2>3 DEF PlaceInv, StackInv, ContextInv,
       PresentPendingFrame, HostGoto, HostBank, RawBank, CodeBank, S, mapper,
       gate, VeneerPC, HostPC, CopPC, NmiPC, GenericPC
  <2>10. RunInv'
    BY <1>27 DEF RunInv, PresentPendingFrame, Push, Pop, HostGoto, Goto, gate,
       VeneerPC, HostPC, CopPC, NmiPC, RunPC
  <2>11. StackInv'
    BY <1>27, <2>1, <2>2, <2>3, <2>4, <2>5, <2>6, PushFacts, PrefixFacts DEF
       StackInv, PresentPendingFrame, HostGoto, HostBank, RawBank, Base, S,
       mapper, gate, VeneerPC, HostPC, CopPC, NmiPC, RunPC, GenericPC,
       DirectPC, ProgramPC
  <2>12. ContextInv'
    BY <1>27, <2>1, <2>2, <2>3, <2>4, <2>5, <2>6 DEF ContextInv,
       PresentPendingFrame, HostGoto, HostBank, NctxLive, Base, S, mapper,
       NmiPC, RunPC, GenericPC, DirectPC
  <2>13. QED BY <2>5, <2>6, <2>7, <2>8, <2>9, <2>10, <2>11, <2>12
<1>28. CASE DispatchNmi
  <2>1. MapperType' /\ GateType' /\ SaveType'
    BY <1>28, TypesUnchanged, BankTypes DEF DispatchNmi, SaveType
  <2>2. CpuType'
    BY <1>28, <2>1, PushFacts, PrefixFacts DEF CpuType, MapperType, SaveType,
       StackInv, ContextInv, FrameType, DispatchNmi, HostBank, Frame,
       EnterHandler, GuestBank, NctxLive, gate, Locations, VeneerPC, HostPC,
       CopPC, NmiPC
  <2>3. PortType' /\ ChainType' /\ VideoType' /\ (fault \in 0..3)'
    BY <1>28, TypesUnchanged, PortTypes DEF DispatchNmi, ChainType, VideoType
  <2>4. MapperInv'
    BY <1>28, <2>1, <2>2 DEF MapperInv, DispatchNmi, HostBank, EnterHandler,
       GuestBank, NctxLive, Base, S, mapper
  <2>5. PlaceInv'
    BY <1>28, <2>1, <2>2 DEF MapperInv, PlaceInv, StackInv, ContextInv,
       DispatchNmi, HostBank, EnterHandler, GuestBank, NctxLive, Base, S,
       mapper
  <2>6. RunInv'
    BY <1>28, <2>1, <2>2 DEF RunInv, DispatchNmi, Push, Pop, HostGoto, Goto,
       TakesFullNmi, RunsGuestFrame, EnterHandler, IrqDue, VeneerPC, HostPC,
       CopPC, NmiPC, RunPC, GenericPC, DirectPC, ProgramPC, StackInv,
       ContextInv, GateType
  <2>7. StackInv'
    BY <1>28, <2>1, <2>2, PushFacts, PrefixFacts DEF StackInv, DispatchNmi,
       HostBank, RawBank, CodeBank, Frame, EnterHandler, GuestBank, NctxLive,
       Base, S, mapper, gate, VeneerPC, HostPC, CopPC, NmiPC, RunPC, GenericPC,
       DirectPC, ProgramPC, RunInv, PlaceInv, ContextInv, MapperInv
  <2>8. ContextInv'
    BY <1>28, <2>1, <2>2 DEF ContextInv, DispatchNmi, HostBank, RawBank,
       CodeBank, Frame, EnterHandler, GuestBank, NctxLive, gate, VeneerPC,
       HostPC
  <2>9. QED BY <2>1, <2>2, <2>3, <2>4, <2>5, <2>6, <2>7, <2>8
<1>29. CASE GuestNmiReturn
  <2>1. MapperType' /\ GateType' /\ SaveType'
    BY <1>29, TypesUnchanged, BankTypes DEF GuestNmiReturn
  <2>2. CpuType'
    BY <1>29, <2>1, PushFacts, PrefixFacts DEF CpuType, MapperType, SaveType,
       GuestNmiReturn, HostGoto, HostBank, gate, Locations, VeneerPC, HostPC,
       CopPC, NmiPC
  <2>3. PortType' /\ ChainType' /\ VideoType' /\ (fault \in 0..3)'
    BY <1>29, TypesUnchanged, PortTypes DEF GuestNmiReturn, ChainType,
       VideoType
  <2>4. MapperInv'
    BY <1>29, <2>1, <2>2 DEF MapperInv, GuestNmiReturn, HostGoto, HostBank,
       mapper, gate, VeneerPC, HostPC, CopPC, NmiPC
  <2>5. PlaceInv'
    BY <1>29, <2>1, <2>2 DEF MapperInv, PlaceInv, StackInv, ContextInv,
       GuestNmiReturn, HostGoto, HostBank, VeneerPC, HostPC, CopPC, NmiPC,
       GenericPC, DirectPC
  <2>6. RunInv'
    BY <1>29, <2>1, <2>2 DEF RunInv, GuestNmiReturn, Push, Pop, HostGoto, Goto,
       Top, cpu, mapper, gate, VeneerPC, HostPC, CopPC, NmiPC, RunPC, GenericPC
  <2>7. StackInv'
    BY <1>29, <2>1, <2>2, PushFacts, PrefixFacts DEF StackInv, GuestNmiReturn,
       HostGoto, HostBank, RawBank, Base, S, mapper, gate, VeneerPC, HostPC,
       CopPC, NmiPC, RunPC, GenericPC, DirectPC, ProgramPC
  <2>8. ContextInv'
    BY <1>29, <2>1, <2>2 DEF ContextInv, GuestNmiReturn, HostGoto, HostBank,
       RawBank, CodeBank, Frame, GuestBank, NctxLive, CopPC, NmiPC, RunPC
  <2>9. QED BY <2>1, <2>2, <2>3, <2>4, <2>5, <2>6, <2>7, <2>8
<1>30. CASE NextGuestIrq
  <2>1. CASE ~IrqDue
    <3>1. ChainType'
      BY <1>30, <2>1 DEF NextGuestIrq, ChainType, PortType, chain
    <3>2. pc' = "Finish" /\ pbr' = HostBank /\ UNCHANGED <<dbr, regs, stk>>
      BY <1>30, <2>1 DEF NextGuestIrq, HostGoto
    <3>3. PortType'
      BY <1>30, <2>1 DEF NextGuestIrq, PortType
    <3>4. MapperType' /\ GateType' /\ SaveType'
      BY <1>30, <3>3, TypesUnchanged, BankTypes DEF NextGuestIrq
    <3>5. CpuType'
      BY <3>2, <3>3, <3>4, PushFacts, PrefixFacts DEF CpuType, HostGoto,
         HostBank, mapper, gate, Locations, VeneerPC, HostPC, CopPC, NmiPC
    <3>6. PortType' /\ ChainType' /\ VideoType' /\ (fault \in 0..3)'
      BY <1>30, <2>1, <3>3, TypesUnchanged DEF NextGuestIrq
    <3>7. MapperInv'
      BY <1>30, <2>1, <3>5 DEF MapperInv, NextGuestIrq, HostGoto, Base, S,
         mapper, gate, VeneerPC, HostPC, CopPC, NmiPC
    <3>8. PlaceInv'
      BY <3>1, <3>2, <3>3, <3>4, <3>5 DEF MapperInv, PlaceInv, StackInv, S,
         mapper, gate, VeneerPC, HostPC, CopPC, NmiPC, GenericPC
    <3>9. RunInv'
      BY <1>30, <2>1, <3>1, <3>2, <3>3, <3>4, <3>5 DEF RunInv, NextGuestIrq,
         Push, Pop, HostGoto, Goto, gate, VeneerPC, HostPC, CopPC, NmiPC, RunPC
    <3>10. StackInv'
      BY <1>30, <2>1, <3>1, <3>2, <3>3, <3>4, <3>5, PushFacts, PrefixFacts DEF
         StackInv, NextGuestIrq, HostGoto, HostBank, RawBank, CodeBank, Base,
         S, mapper, gate, VeneerPC, HostPC, CopPC, NmiPC, RunPC, GenericPC,
         DirectPC, ProgramPC, RunInv, PlaceInv, ContextInv
    <3>11. ContextInv'
      BY <1>30, <2>1, <3>1, <3>2, <3>3, <3>4, <3>5 DEF ContextInv,
         NextGuestIrq, HostGoto, HostBank, RawBank, GuestBank, NctxLive, Base,
         S, CopPC, NmiPC, RunPC, GenericPC
    <3>12. QED BY <3>4, <3>5, <3>6, <3>7, <3>8, <3>9, <3>10, <3>11
  <2>2. CASE IrqDue /\ irqcount + 1 > IrqLimit
    <3>1. ChainType'
      BY <1>30, <2>2 DEF NextGuestIrq, ChainType, PortType, chain
    <3>2. pc' = "Finish" /\ pbr' = HostBank /\ UNCHANGED <<dbr, regs, stk>>
      BY <1>30, <2>2 DEF NextGuestIrq, HostGoto
    <3>3. PortType'
      BY <1>30, <2>2 DEF NextGuestIrq, PortType
    <3>4. MapperType' /\ GateType' /\ SaveType'
      BY <1>30, <3>3, TypesUnchanged, BankTypes DEF NextGuestIrq
    <3>5. CpuType'
      BY <3>2, <3>3, <3>4, PushFacts, PrefixFacts DEF CpuType, HostGoto,
         HostBank, mapper, gate, Locations, VeneerPC, HostPC, CopPC, NmiPC
    <3>6. PortType' /\ ChainType' /\ VideoType' /\ (fault \in 0..3)'
      BY <1>30, <2>2, <3>1, <3>3, TypesUnchanged DEF NextGuestIrq
    <3>7. MapperInv'
      BY <1>30, <2>2, <3>5 DEF MapperInv, NextGuestIrq, HostGoto, Base, S,
         mapper, gate, VeneerPC, HostPC, CopPC, NmiPC
    <3>8. PlaceInv'
      BY <3>1, <3>2, <3>3, <3>4, <3>5 DEF MapperInv, PlaceInv, StackInv, S,
         mapper, gate, VeneerPC, HostPC, CopPC, NmiPC, GenericPC
    <3>9. RunInv'
      BY <1>30, <2>2, <3>1, <3>2, <3>3, <3>4, <3>5 DEF RunInv, NextGuestIrq,
         Push, Pop, HostGoto, Goto, gate, VeneerPC, HostPC, CopPC, NmiPC, RunPC
    <3>10. StackInv'
      BY <1>30, <2>2, <3>1, <3>2, <3>3, <3>4, <3>5, PushFacts, PrefixFacts DEF
         StackInv, NextGuestIrq, HostGoto, HostBank, RawBank, CodeBank, Base,
         S, mapper, gate, VeneerPC, HostPC, CopPC, NmiPC, RunPC, GenericPC,
         DirectPC, ProgramPC, RunInv, PlaceInv, ContextInv
    <3>11. ContextInv'
      BY <1>30, <2>2, <3>1, <3>2, <3>3, <3>4, <3>5 DEF ContextInv,
         NextGuestIrq, HostGoto, HostBank, RawBank, GuestBank, NctxLive, Base,
         S, CopPC, NmiPC, RunPC, GenericPC
    <3>12. QED BY <3>4, <3>5, <3>6, <3>7, <3>8, <3>9, <3>10, <3>11
  <2>3. CASE IrqDue /\ ~(irqcount + 1 > IrqLimit)
    <3>1. running /\ S = 0 /\ nctx.sp = 1
      BY <1>30 DEF NextGuestIrq, StackInv, RunInv, ContextInv, NctxLive, RunPC
    <3>2. Frame("IrqRet", HostBank) \in FrameType
      BY DEF Frame, FrameType, HostBank, Locations, HostPC, NmiPC
    <3>3. EnterHandler("IrqRet", ZeroRegs)
      BY <1>30, <2>3 DEF NextGuestIrq
    <3>4. stk' \in Seq(FrameType) /\ S' = 1
          /\ stk'[1] = Frame("IrqRet", HostBank)
      BY <3>1, <3>2, <3>3 DEF EnterHandler, S
    <3>5. ChainType'
      BY <1>30, <2>3 DEF NextGuestIrq, ChainType, PortType
    <3>6. irqpend' \in BOOLEAN
      BY <1>30, <2>3 DEF NextGuestIrq
    <3>7. PortType'
      BY <1>30, <3>6 DEF NextGuestIrq, PortType
    <3>8. MapperType' /\ GateType' /\ SaveType'
      BY <1>30, <2>3, TypesUnchanged, BankTypes DEF NextGuestIrq
    <3>9. CpuType'
      BY <3>2, <3>3, <3>4, <3>5, <3>6, <3>7, <3>8, PushFacts, PrefixFacts DEF
         CpuType, MapperType, SaveType, HostGoto, HostBank, Frame,
         EnterHandler, S, mapper, gate, Locations
    <3>10. PortType' /\ ChainType' /\ VideoType' /\ (fault \in 0..3)'
      BY <1>30, <2>3, <3>4, <3>5, <3>6, <3>7, TypesUnchanged DEF NextGuestIrq
    <3>11. MapperInv'
      BY <1>30, <2>3 DEF MapperInv, NextGuestIrq, Frame, EnterHandler, IrqDue,
         GuestBank, NctxLive, Base, S, mapper
    <3>12. PlaceInv'
      BY <1>30, <2>3 DEF MapperInv, PlaceInv, StackInv, ContextInv,
         NextGuestIrq, HostGoto, EnterHandler, IrqDue, GuestBank, NctxLive,
         Base, S, mapper, gate
    <3>13. RunInv'
      BY <2>3, <3>1, <3>2, <3>3, <3>4, <3>5, <3>6, <3>7, <3>8, <3>9 DEF RunInv,
         NextGuestIrq, Push, TakesFullNmi, RunsGuestFrame, EnterHandler,
         IrqDue, ResumeBank, ResumeData, GuestBank, WramBank, gate, VeneerPC,
         HostPC, CopPC, NmiPC, RunPC, GenericPC, DirectPC, ProgramPC, StackInv,
         ContextInv, GateType
    <3>14. StackInv'
      BY <1>30, <2>3, <3>1, <3>2, <3>3, <3>4, <3>5, <3>6, <3>7, <3>8, <3>9,
         PushFacts, PrefixFacts DEF StackInv, NextGuestIrq, HostGoto, HostBank,
         RawBank, CodeBank, Frame, EnterHandler, IrqDue, GuestBank, NctxLive,
         Base, S, mapper, gate, VeneerPC, HostPC, CopPC, NmiPC, RunPC,
         GenericPC, DirectPC, ProgramPC, RunInv, PlaceInv, ContextInv
    <3>15. ContextInv'
      BY <1>30 DEF ContextInv, NextGuestIrq, HostGoto, HostBank, RawBank,
         NctxLive, Base, S, mapper, gate, VeneerPC, HostPC, CopPC, NmiPC, RunPC
    <3>16. QED BY <3>8, <3>9, <3>10, <3>11, <3>12, <3>13, <3>14, <3>15
  <2>4. QED BY <2>1, <2>2, <2>3
<1>31. CASE GuestIrqReturn
  <2>1. MapperType' /\ GateType' /\ SaveType'
    BY <1>31, TypesUnchanged, BankTypes DEF GuestIrqReturn
  <2>2. CpuType'
    BY <1>31, <2>1, PushFacts, PrefixFacts DEF CpuType, MapperType, SaveType,
       GuestIrqReturn, HostGoto, HostBank, gate, Locations, VeneerPC, HostPC,
       CopPC, NmiPC
  <2>3. PortType' /\ ChainType' /\ VideoType' /\ (fault \in 0..3)'
    BY <1>31, TypesUnchanged, PortTypes DEF GuestIrqReturn, ChainType,
       VideoType
  <2>4. MapperInv'
    BY <1>31, <2>1, <2>2 DEF MapperInv, GuestIrqReturn, HostGoto, HostBank,
       mapper, gate, VeneerPC, HostPC, CopPC, NmiPC
  <2>5. PlaceInv'
    BY <1>31, <2>1, <2>2 DEF MapperInv, PlaceInv, StackInv, ContextInv,
       GuestIrqReturn, HostGoto, HostBank, VeneerPC, HostPC, CopPC, NmiPC,
       GenericPC, DirectPC
  <2>6. RunInv'
    BY <1>31, <2>1, <2>2 DEF RunInv, GuestIrqReturn, Push, Pop, HostGoto, Goto,
       Top, cpu, mapper, gate, VeneerPC, HostPC, CopPC, NmiPC, RunPC, GenericPC
  <2>7. StackInv'
    BY <1>31, <2>1, <2>2, PushFacts, PrefixFacts DEF StackInv, GuestIrqReturn,
       HostGoto, HostBank, RawBank, Base, S, mapper, gate, VeneerPC, HostPC,
       CopPC, NmiPC, RunPC, GenericPC, DirectPC, ProgramPC
  <2>8. ContextInv'
    BY <1>31, <2>1, <2>2 DEF ContextInv, GuestIrqReturn, HostGoto, HostBank,
       RawBank, CodeBank, Frame, GuestBank, NctxLive, CopPC, NmiPC, RunPC
  <2>9. QED BY <2>1, <2>2, <2>3, <2>4, <2>5, <2>6, <2>7, <2>8
<1>32. CASE RenderFrame
  <2>1. MapperType' /\ GateType' /\ SaveType'
    BY <1>32, TypesUnchanged, BankTypes DEF RenderFrame
  <2>2. CpuType'
    BY <1>32, <2>1, PushFacts, PrefixFacts DEF CpuType, MapperType, SaveType,
       RenderFrame, HostGoto, HostBank, gate, Locations, VeneerPC, HostPC,
       CopPC, NmiPC
  <2>3. PortType' /\ ChainType' /\ VideoType' /\ (fault \in 0..3)'
    BY <1>32, TypesUnchanged, PortTypes DEF RenderFrame, ChainType, VideoType
  <2>4. MapperInv'
    BY <1>32, <2>1, <2>2 DEF MapperInv, RenderFrame, HostGoto, HostBank,
       mapper, gate, VeneerPC, HostPC, CopPC, NmiPC
  <2>5. PlaceInv'
    BY <1>32, <2>1, <2>2 DEF MapperInv, PlaceInv, StackInv, ContextInv,
       RenderFrame, HostGoto, HostBank, VeneerPC, HostPC, CopPC, NmiPC,
       GenericPC, DirectPC
  <2>6. RunInv'
    BY <1>32, <2>1, <2>2 DEF RunInv, RenderFrame, Push, Pop, HostGoto, Goto,
       Top, cpu, mapper, gate, VeneerPC, HostPC, CopPC, NmiPC, RunPC, GenericPC
  <2>7. StackInv'
    BY <1>32, <2>1, <2>2, PushFacts, PrefixFacts DEF StackInv, RenderFrame,
       HostGoto, HostBank, RawBank, Base, S, mapper, gate, VeneerPC, HostPC,
       CopPC, NmiPC, RunPC, GenericPC, DirectPC, ProgramPC
  <2>8. ContextInv'
    BY <1>32, <2>1, <2>2 DEF ContextInv, RenderFrame, HostGoto, HostBank,
       RawBank, CodeBank, Frame, GuestBank, NctxLive, CopPC, NmiPC, RunPC
  <2>9. QED BY <2>1, <2>2, <2>3, <2>4, <2>5, <2>6, <2>7, <2>8
<1>33. CASE ClearRunning
  <2>1. copbusy' \in BOOLEAN /\ running' \in BOOLEAN
    BY <1>33 DEF ClearRunning, GateType
  <2>2. MapperType' /\ GateType' /\ SaveType'
    BY <1>33, <2>1, TypesUnchanged, BankTypes DEF ClearRunning, GateType
  <2>3. CpuType'
    BY <1>33, <2>1, <2>2, PushFacts, PrefixFacts DEF CpuType, MapperType,
       SaveType, StackInv, ContextInv, FrameType, ClearRunning, HostGoto,
       HostBank, Frame, GuestBank, mapper, Locations, VeneerPC, HostPC, CopPC,
       NmiPC
  <2>4. PortType' /\ ChainType' /\ VideoType' /\ (fault \in 0..3)'
    BY <1>33, <2>1, TypesUnchanged, PortTypes DEF ClearRunning, ChainType,
       VideoType
  <2>5. MapperInv'
    BY <1>33, <2>1, <2>2, <2>3 DEF MapperInv, ClearRunning, HostGoto, S,
       mapper, VeneerPC, HostPC, CopPC, NmiPC
  <2>6. PlaceInv'
    BY <1>33, <2>1, <2>2, <2>3 DEF MapperInv, PlaceInv, StackInv, ContextInv,
       ClearRunning, HostGoto, VeneerPC, HostPC, CopPC, NmiPC, GenericPC,
       DirectPC
  <2>7. RunInv'
    BY <1>33, <2>1, <2>2, <2>3 DEF RunInv, ClearRunning, Push, Pop, HostGoto,
       HostPC, CopPC, NmiPC, RunPC, GenericPC
  <2>8. StackInv'
    BY <1>33, <2>1 DEF StackInv, ClearRunning, HostGoto, HostBank, NctxLive,
       Base, S, mapper, VeneerPC, HostPC, CopPC, NmiPC, RunPC, GenericPC,
       DirectPC, ProgramPC
  <2>9. ContextInv'
    BY <1>33, <2>1, <2>2, <2>3 DEF ContextInv, ClearRunning, HostGoto,
       HostBank, RawBank, NctxLive, Base, S, CopPC, NmiPC, RunPC
  <2>10. QED BY <2>2, <2>3, <2>4, <2>5, <2>6, <2>7, <2>8, <2>9
<1>34. CASE NmiRestore
  <2>1. MapperType' /\ GateType' /\ SaveType'
    BY <1>34, TypesUnchanged, BankTypes DEF NmiRestore, SaveType
  <2>2. CpuType'
    BY <1>34, <2>1, PushFacts, PrefixFacts DEF CpuType, MapperType, SaveType,
       StackInv, ContextInv, FrameType, NmiRestore, HostGoto, HostBank, Frame,
       ResumeBank, ResumeData, GuestBank, NctxLive, gate, Locations, VeneerPC,
       HostPC, CopPC, NmiPC
  <2>3. PortType' /\ ChainType' /\ VideoType' /\ (fault \in 0..3)'
    BY <1>34, TypesUnchanged, PortTypes DEF NmiRestore, ChainType, VideoType
  <2>4. MapperInv'
    BY <1>34, <2>1, <2>2 DEF MapperInv, NmiRestore, HostGoto, HostBank,
       RawBank, CodeBank, Frame, ResumeBank, ResumeData, GuestBank, NctxLive,
       Base, S, mapper, gate, NmiPC, GenericPC, DirectPC, StackInv, PlaceInv,
       ContextInv
  <2>5. PlaceInv'
    BY <1>34, <2>1, <2>2 DEF MapperInv, PlaceInv, StackInv, ContextInv,
       NmiRestore, HostGoto, NctxLive, Base, VeneerPC, HostPC, CopPC, NmiPC,
       GenericPC, DirectPC
  <2>6. RunInv'
    BY <1>34, <2>1, <2>2 DEF RunInv, NmiRestore, Push, Pop, HostGoto, Goto,
       Top, cpu, mapper, gate, VeneerPC, HostPC, CopPC, NmiPC, RunPC,
       GenericPC, DirectPC, ProgramPC, StackInv, ContextInv, GateType
  <2>7. StackInv'
    BY <1>34, <2>1, <2>2, PushFacts, PrefixFacts DEF StackInv, NmiRestore,
       HostGoto, ResumeBank, ResumeData, GuestBank, NctxLive, Base, S, mapper,
       gate, VeneerPC, HostPC, CopPC, NmiPC, RunPC, GenericPC, DirectPC,
       ProgramPC, RunInv, PlaceInv, ContextInv, MapperInv
  <2>8. ContextInv'
    BY <1>34, <2>1, <2>2 DEF ContextInv, NmiRestore, NctxLive, Base, S, mapper,
       NmiPC, RunPC, GenericPC, DirectPC
  <2>9. QED BY <2>1, <2>2, <2>3, <2>4, <2>5, <2>6, <2>7, <2>8
<1>35. CASE RestoreRti
  <2>1. S = 1 /\ Top = Frame(nctx.pc, code)
    BY <1>35 DEF RestoreRti, StackInv, Top
  <2>2. stk' \in Seq(FrameType) /\ S' = S - 1
        /\ (\A i \in 1..(S-1) : stk'[i] = stk[i]) /\ Top.pc \in Locations
        /\ Top.pbr \in Nat
    BY <1>35, <2>1, PopStep DEF RestoreRti
  <2>3. nctx.pc \in RomPC /\ ~running
    BY <1>35 DEF RestoreRti, ContextInv, NctxLive, RunInv, VeneerPC, HostPC,
       CopPC, NmiPC, RunPC, ProgramPC
  <2>4. pc' = nctx.pc /\ pbr' = code /\ ~running' /\ S' = 0
    BY <1>35, <2>1, <2>2, <2>3 DEF RestoreRti, Frame, gate
  <2>5. MapperType' /\ GateType' /\ SaveType'
    BY <1>35, <2>4, TypesUnchanged, BankTypes DEF RestoreRti
  <2>6. CpuType'
    BY <1>35, <2>1, <2>2, PushFacts, PrefixFacts DEF CpuType, MapperType,
       SaveType, StackInv, RestoreRti
  <2>7. PortType' /\ ChainType' /\ VideoType' /\ (fault \in 0..3)'
    BY <1>35, <2>1, <2>4, TypesUnchanged DEF RestoreRti
  <2>8. MapperInv'
    BY <1>35, <2>5, <2>6 DEF MapperInv, RestoreRti, S, Top, mapper, gate
  <2>9. PlaceInv'
    BY <1>35, <2>1, <2>2, <2>3, <2>4, <2>5, <2>6 DEF MapperInv, PlaceInv,
       StackInv, ContextInv, RestoreRti, Pop, Top, mapper, gate, VeneerPC
  <2>10. RunInv'
    BY <2>1, <2>2, <2>3, <2>4, <2>5, <2>6 DEF RunInv, RestoreRti, Push, Pop,
       HostGoto, Goto, gate, VeneerPC, HostPC, CopPC, NmiPC, RunPC
  <2>11. StackInv'
    BY <2>3, <2>4, <2>5, <2>6, PushFacts, PrefixFacts DEF StackInv, Base, S,
       Top, mapper, gate, VeneerPC, HostPC, CopPC, NmiPC, RunPC, GenericPC,
       DirectPC
  <2>12. ContextInv'
    BY <2>3, <2>4, <2>5, <2>6 DEF ContextInv, RestoreRti, Pop, HostBank,
       NctxLive, Base, S, Top, mapper, gate, VeneerPC, HostPC
  <2>13. QED BY <2>5, <2>6, <2>7, <2>8, <2>9, <2>10, <2>11, <2>12
<1>36. CASE UNCHANGED vars
  BY <1>36 DEF vars, cpu, mapper, gate, ports, chain, video, CpuType,
     MapperType, GateType, SaveType, PortType, ChainType, VideoType, MapperInv,
     PlaceInv, RunInv, StackInv, ContextInv, NctxLive, Base, S
<1>37. CASE Halted
  BY <1>36, <1>37 DEF Halted
<1>38. QED
  BY <1>1, <1>2, <1>3, <1>4, <1>5, <1>6, <1>7, <1>8, <1>9, <1>10, <1>11, <1>12,
     <1>13, <1>14, <1>15, <1>16, <1>17, <1>18, <1>19, <1>20, <1>21, <1>22,
     <1>23, <1>24, <1>25, <1>26, <1>27, <1>28, <1>29, <1>30, <1>31, <1>32,
     <1>33, <1>34, <1>35, <1>36, <1>37 DEF Next, GuestStep, HostStep, CopStep,
     VeneerStep, NmiStep

\* The inductive invariant holds in every reachable state.
THEOREM InductiveInvariant == Spec => []IInv
  BY InductiveInit, InductiveStep, PTL DEF Spec

-----------------------------------------------------------------------------
(* The safety properties.                                                  *)

\* A step changes NCTX only in NmiFull.
LEMMA NctxWriter == [Next]_vars => UNCHANGED nctx \/ NmiFull
  BY DEF Next, GuestStep, HostStep, CopStep, VeneerStep, NmiStep, Halted, vars,
     GuestCompute, GuestCop, GuestVeneer, GuestRti, GuestBreak, CopDispatch,
     CopGeneric, QuickIo, QuickStatus, QuickBanks, QuickAbsReturn,
     CopOperation, CopStatus, CopReturn, VeneerSlot, VeneerRaw, VeneerCode,
     VeneerDbr, VeneerRtl, VeneerIo, DirectIo, DirectReadStatus, VeneerRts,
     Nmi, NmiCheck, PresentPendingFrame, DispatchNmi, GuestNmiReturn,
     NextGuestIrq, GuestIrqReturn, RenderFrame, ClearRunning, NmiRestore,
     RestoreRti

\* The frame numbers change only when a frame is presented or rendered.
LEMMA VideoWriter == [Next]_vars =>
      UNCHANGED video \/ PresentPendingFrame \/ RenderFrame
  BY DEF Next, GuestStep, HostStep, CopStep, VeneerStep, NmiStep, Halted, vars,
     GuestCompute, GuestCop, GuestVeneer, GuestRti, GuestBreak, CopDispatch,
     CopGeneric, QuickIo, QuickStatus, QuickBanks, QuickAbsReturn,
     CopOperation, CopStatus, CopReturn, VeneerSlot, VeneerRaw, VeneerCode,
     VeneerDbr, VeneerRtl, VeneerIo, DirectIo, DirectReadStatus, VeneerRts,
     Nmi, NmiFull, NmiCheck, DispatchNmi, GuestNmiReturn, NextGuestIrq,
     GuestIrqReturn, ClearRunning, NmiRestore, RestoreRti

\* The chain registers change only between IRQs.
LEMMA ChainWriter == [Next]_vars =>
      UNCHANGED chain \/ GuestNmiReturn \/ NextGuestIrq
  BY DEF Next, GuestStep, HostStep, CopStep, VeneerStep, NmiStep, Halted, vars,
     GuestCompute, GuestCop, GuestVeneer, GuestRti, GuestBreak, CopDispatch,
     CopGeneric, QuickIo, QuickStatus, QuickBanks, QuickAbsReturn,
     CopOperation, CopStatus, CopReturn, VeneerSlot, VeneerRaw, VeneerCode,
     VeneerDbr, VeneerRtl, VeneerIo, DirectIo, DirectReadStatus, VeneerRts,
     Nmi, NmiFull, NmiCheck, PresentPendingFrame, DispatchNmi, GuestIrqReturn,
     RenderFrame, ClearRunning, NmiRestore, RestoreRti

\* The stack, RUNNING and NCTX change only in these steps.
LEMMA StackWriter ==
    [Next]_vars =>
      \/ UNCHANGED <<stk, running, nctx>>
      \/ GuestCop \/ GuestVeneer \/ GuestRti \/ QuickAbsReturn \/ CopReturn
      \/ VeneerRtl \/ VeneerIo \/ DirectIo \/ DirectReadStatus \/ VeneerRts
      \/ Nmi \/ NmiFull \/ NmiCheck \/ DispatchNmi \/ NextGuestIrq
      \/ ClearRunning \/ NmiRestore \/ RestoreRti
  BY DEF Next, GuestStep, HostStep, CopStep, VeneerStep, NmiStep, Halted, vars,
     cpu, gate, GuestCompute, GuestBreak, CopDispatch, CopGeneric, QuickIo,
     QuickStatus, QuickBanks, CopOperation, CopStatus, VeneerSlot, VeneerRaw,
     VeneerCode, VeneerDbr, PresentPendingFrame, GuestNmiReturn,
     GuestIrqReturn, RenderFrame

\* An IRQ handler starts only in NextGuestIrq, which counts it.
LEMMA ServingIrqStarts ==
    ASSUME IInv, [Next]_vars, ~NextGuestIrq, ServingIrq'
    PROVE  ServingIrq
  <1> USE LabelAssumption DEF IInv, TypeOK
  <1>0. running' /\ nctx'.sp = 1 /\ S' >= 1 /\ stk'[1].pc = "IrqRet"
    <2>1. ContextInv' BY InductiveStep
    <2>2. QED BY <2>1 DEF ServingIrq, ContextInv, NctxLive
  <1>1. SUFFICES running /\ S >= 1 /\ stk[1].pc = "IrqRet"
    BY DEF ServingIrq, ContextInv, NctxLive
  <1>2. CASE UNCHANGED <<stk, running, nctx>>
    BY <1>0, <1>2 DEF S
  <1>3. CASE GuestCop \/ GuestVeneer
    <2>1. running /\ S = 1
      BY <1>0, <1>3 DEF GuestCop, GuestVeneer, InRom, StackInv, Base, gate
    <2>2. PICK next \in RomPC : Push(Frame(next, pbr))
      BY <1>3 DEF GuestCop, GuestVeneer
    <2>3. Frame(next, pbr) \in FrameType
      BY DEF Frame, FrameType, CpuType, Locations
    <2>4. QED BY <1>0, <2>1, <2>2, <2>3, PushStep
  <1>4. CASE VeneerIo
    <2>1. running /\ S = 2
      BY <1>0, <1>4 DEF VeneerIo, StackInv, Base, gate, VeneerPC
    <2>2. Frame("VnRts", pbr) \in FrameType
      BY DEF Frame, FrameType, CpuType, Locations, VeneerPC
    <2>3. QED BY <1>0, <1>4, <2>1, <2>2, PushStep DEF VeneerIo
  <1>5. CASE \/ GuestRti \/ QuickAbsReturn \/ VeneerRtl \/ DirectIo
             \/ DirectReadStatus \/ VeneerRts
    <2>1. Pop /\ running
      BY <1>0, <1>5 DEF GuestRti, QuickAbsReturn, VeneerRtl, DirectIo,
         DirectReadStatus, VeneerRts, gate
    <2>2. S > 0
      BY <1>5, <2>1 DEF GuestRti, QuickAbsReturn, VeneerRtl, DirectIo,
         DirectReadStatus, VeneerRts, StackInv, Base, InRom, VeneerPC, CopPC
    <2>3. QED BY <1>0, <2>1, <2>2, PopStep DEF CpuType, S
  <1>6. CASE CopReturn
    <2>1. S = Base + 1 /\ cop.sp = S
      BY <1>6 DEF CopReturn, StackInv, GenericPC, CopPC, DirectPC
    <2>2. Pop /\ S > 0 /\ running
      BY <1>0, <1>6, <2>1 DEF CopReturn, Pop, Base
    <2>3. QED BY <1>0, <2>2, PopStep DEF CpuType, S
  <1>7. CASE Nmi
    <2>1. ~TakesFullNmi
      BY <1>0, <1>7 DEF Nmi, TakesFullNmi, gate
    <2>2. QED BY <1>0, <1>7, <2>1 DEF Nmi, gate, S
  <1>8. CASE NmiFull \/ NmiRestore \/ RestoreRti \/ ClearRunning
    <2>1. ~running'
      BY <1>8 DEF NmiFull, NmiRestore, RestoreRti, ClearRunning, gate, RunInv,
         ProgramPC, RunPC, VeneerPC, CopPC, HostPC, NmiPC
    <2>2. QED BY <1>0, <2>1
  <1>9. CASE NmiCheck
    <2>1. stk'[1].pc \in RomPC
      BY <1>9 DEF NmiCheck, StackInv
    <2>2. QED BY <1>0, <2>1 DEF HostPC, NmiPC
  <1>10. CASE DispatchNmi
    <2>1. S = 1 /\ nctx.sp = 1
      BY <1>10 DEF DispatchNmi, StackInv, ContextInv, NctxLive, NmiPC
    <2>2. Frame("NmiRet", HostBank) \in FrameType
      BY DEF Frame, FrameType, HostBank, Locations, HostPC, NmiPC
    <2>3. stk'[1] = Frame("NmiRet", HostBank)
      BY <1>10, <2>1, <2>2, EnterFacts DEF DispatchNmi, EnterHandler
    <2>4. QED BY <1>0, <2>3 DEF Frame
  <1>11. QED BY StackWriter, <1>2, <1>3, <1>4, <1>5, <1>6, <1>7, <1>8, <1>9,
       <1>10

\* A frame starts in PresentPendingFrame and ends in RenderFrame.
LEMMA MidFrameMoves ==
    ASSUME IInv, [Next]_vars, ~PresentPendingFrame, ~RenderFrame
    PROVE  MidFrame' <=> MidFrame
  <1> USE LabelAssumption DEF IInv, MidFrame, HostGoto, gate
  <1>1. CASE UNCHANGED <<pc, running>> BY <1>1
  <1>2. CASE GuestStep
    <2>1. CASE GuestRti
      BY <2>1 DEF GuestRti, InRom, StackInv, ProgramPC, Base, Top, HostPC,
         NmiPC
    <2>2. CASE ~GuestRti
      BY <1>2, <2>2 DEF GuestStep, GuestCompute, GuestCop, GuestVeneer,
         GuestBreak, InRom, HostPC, NmiPC
    <2>3. QED BY <2>1, <2>2
  <1>3. CASE CopStep
    <2>1. CASE QuickAbsReturn
      BY <2>1 DEF QuickAbsReturn, StackInv, CopPC, DirectPC, Top, HostPC, NmiPC
    <2>2. CASE CopReturn
      BY <2>2 DEF CopReturn, StackInv, CopPC, DirectPC, GenericPC, HostPC,
         NmiPC
    <2>3. CASE CopOperation
      BY <2>3 DEF CopOperation, Die
    <2>4. CASE ~QuickAbsReturn /\ ~CopReturn /\ ~CopOperation
      BY <1>3, <2>4 DEF CopStep, CopDispatch, CopGeneric, QuickIo, QuickStatus,
         QuickBanks, CopStatus
    <2>5. QED BY <2>1, <2>2, <2>3, <2>4
  <1>4. CASE VeneerStep
    <2>1. CASE VeneerRtl \/ VeneerRts
      BY <2>1 DEF VeneerRtl, VeneerRts, StackInv, VeneerPC, Top, HostPC, NmiPC
    <2>2. CASE DirectIo \/ DirectReadStatus
      BY <2>2 DEF DirectIo, DirectReadStatus, StackInv, DirectPC, Top, Frame
    <2>3. CASE ~VeneerRtl /\ ~VeneerRts /\ ~DirectIo /\ ~DirectReadStatus
      BY <1>4, <2>3 DEF VeneerStep, VeneerSlot, VeneerRaw, VeneerCode,
         VeneerDbr, VeneerIo, Goto, Die
    <2>4. QED BY <2>1, <2>2, <2>3
  <1>5. CASE Nmi
    BY <1>5 DEF Nmi, TakesFullNmi
  <1>6. CASE NmiStep
    <2>1. CASE NmiFull \/ NmiCheck \/ ClearRunning \/ NmiRestore
      BY <2>1 DEF NmiFull, NmiCheck, ClearRunning, NmiRestore, RunInv, RunPC,
         ProgramPC, VeneerPC, CopPC, HostPC, NmiPC
    <2>2. CASE RestoreRti
      BY <2>2 DEF RestoreRti, RunInv, RunPC, ProgramPC, VeneerPC, CopPC,
         HostPC, NmiPC
    <2>3. CASE DispatchNmi \/ GuestNmiReturn \/ GuestIrqReturn
      BY <2>3 DEF DispatchNmi, GuestNmiReturn, GuestIrqReturn, EnterHandler,
         HostPC, NmiPC
    <2>4. CASE NextGuestIrq
      BY <2>4 DEF NextGuestIrq, EnterHandler, HostPC, NmiPC
    <2>5. QED BY <1>6, <2>1, <2>2, <2>3, <2>4 DEF NmiStep
  <1>7. QED BY <1>2, <1>3, <1>4, <1>5, <1>6 DEF Next, HostStep, Halted, vars,
       cpu

\* Types hold in every reachable state.
THEOREM TypeCorrect == Spec => []TypeOK
  BY InductiveInvariant, PTL DEF IInv

\* NES code always executes with the program and data banks of SLOT.
THEOREM BanksStayCoherent == Spec => []BankCoherent
  <1>1. IInv => BankCoherent
    BY LabelAssumption DEF IInv, MapperInv, PlaceInv, BankCoherent, InRom,
       VeneerPC
  <1>2. QED BY <1>1, InductiveInvariant, PTL

\* A veneer always executes in a bank that mirrors WRAM.
THEOREM VeneersStayMapped == Spec => []VeneerMapped
  <1>1. IInv => VeneerMapped
    BY DEF IInv, PlaceInv, VeneerMapped, WramBank
  <1>2. QED BY <1>1, InductiveInvariant, PTL

\* The IRQ chain of a frame is served at increasing lines and is bounded.
THEOREM ChainIsBounded == Spec => []IrqChainBounded
  <1>1. Init => IrqChainBounded
    BY NumberAssumption DEF Init, IrqChainBounded, ServingIrq, S
  <1>2. IInv /\ IrqChainBounded /\ [Next]_vars => IrqChainBounded'
    <2> SUFFICES ASSUME IInv, IrqChainBounded, [Next]_vars
                 PROVE  IrqChainBounded'
      OBVIOUS
    <2>1. CASE GuestNmiReturn
      <3>1. S' = 0 /\ irqcount' = 0 /\ lastirq' = 0
        BY <2>1 DEF GuestNmiReturn, IInv, StackInv, S
      <3>2. nctx'.sp = 1
        BY <2>1 DEF GuestNmiReturn, IInv, ContextInv, RunInv, RunPC, NctxLive
      <3>3. QED BY <3>1, <3>2 DEF IrqChainBounded, ServingIrq
    <2>2. CASE NextGuestIrq
      <3>1. irqcount' <= lastirq'
        BY <2>2, NumberAssumption DEF NextGuestIrq, IrqDue, IrqChainBounded,
           IInv, TypeOK, ChainType, PortType, chain
      <3>2. CASE pc' = "Finish"
        <4>1. S' = 0 /\ nctx'.sp = 1
          BY <2>2, <3>2, LabelAssumption DEF NextGuestIrq, IInv, StackInv, S,
             EnterHandler, ContextInv, NctxLive, HostPC, NmiPC
        <4>2. QED BY <3>1, <4>1 DEF IrqChainBounded, ServingIrq
      <3>3. CASE pc' # "Finish"
        <4>1. irqcount' <= IrqLimit
          BY <2>2, <3>3, NumberAssumption DEF NextGuestIrq, HostGoto, IInv,
             TypeOK, ChainType
        <4>2. QED BY <3>1, <4>1 DEF IrqChainBounded
      <3>4. QED BY <3>2, <3>3
    <2>3. CASE UNCHANGED chain /\ ~NextGuestIrq
      <3>1. ServingIrq' => ServingIrq
        BY ServingIrqStarts, <2>3
      <3>2. QED BY <2>3, <3>1 DEF IrqChainBounded, chain
    <2>4. QED BY <2>1, <2>2, <2>3, ChainWriter
  <1>3. QED BY <1>1, <1>2, InductiveInvariant, PTL DEF Spec

\* Frames are presented one by one, in the order they were rendered.
THEOREM FramesInOrder == Spec => FramesShownInOrder
  <1>1. Init => FrameInv
    BY NumberAssumption DEF Init, FrameInv, MidFrame
  <1>2. IInv /\ FrameInv /\ [Next]_vars => FrameInv'
    <2> SUFFICES ASSUME IInv, FrameInv, [Next]_vars PROVE FrameInv'
      OBVIOUS
    <2>1. CASE PresentPendingFrame
      <3>1. running /\ running' /\ MidFrame' /\ ~MidFrame
        BY <2>1 DEF PresentPendingFrame, HostGoto, MidFrame, IInv, RunInv,
           RunPC, gate
      <3>2. shown' = gframes /\ ready' = FALSE
        BY <2>1, <3>1 DEF PresentPendingFrame, FrameInv
      <3>3. gframes' = (shown' + 1) % FrameMod
        BY <2>1, <3>2 DEF PresentPendingFrame
      <3>4. gframes' \in 0..(FrameMod - 1)
        BY <2>1, NumberAssumption DEF PresentPendingFrame, FrameInv
      <3>5. QED BY <3>1, <3>2, <3>3, <3>4 DEF FrameInv
    <2>2. CASE RenderFrame
      <3>1. running /\ running' /\ MidFrame /\ ~MidFrame'
        BY <2>2 DEF RenderFrame, HostGoto, MidFrame, IInv, RunInv, RunPC, gate
      <3>2. QED BY <2>2, <3>1 DEF RenderFrame, FrameInv
    <2>3. CASE UNCHANGED video /\ ~PresentPendingFrame /\ ~RenderFrame
      <3>1. MidFrame' <=> MidFrame
        BY MidFrameMoves, <2>3
      <3>2. QED BY <2>3, <3>1 DEF FrameInv, video
    <2>4. QED BY <2>1, <2>2, <2>3, VideoWriter
  <1>3. IInv /\ FrameInv /\ [Next]_vars => (shown' # shown =>
        shown' = (shown + 1) % FrameMod)
    BY VideoWriter DEF video, PresentPendingFrame, RenderFrame, FrameInv
  <1>4. QED BY <1>1, <1>2, <1>3, InductiveInvariant, PTL DEF Spec,
       FramesShownInOrder

\* RUNNING changes only in two steps.
LEMMA RunningWriter == [Next]_vars =>
      UNCHANGED running \/ NmiCheck \/ ClearRunning
  BY DEF Next, GuestStep, HostStep, CopStep, VeneerStep, NmiStep, Halted, vars,
     gate, GuestCompute, GuestCop, GuestVeneer, GuestRti, GuestBreak,
     CopDispatch, CopGeneric, QuickIo, QuickStatus, QuickBanks, QuickAbsReturn,
     CopOperation, CopStatus, CopReturn, VeneerSlot, VeneerRaw, VeneerCode,
     VeneerDbr, VeneerRtl, VeneerIo, DirectIo, DirectReadStatus, VeneerRts,
     Nmi, NmiFull, PresentPendingFrame, DispatchNmi, GuestNmiReturn,
     NextGuestIrq, GuestIrqReturn, RenderFrame, NmiRestore, RestoreRti

\* Only the gate's full path begins to serve.
LEMMA ServingStarts ==
    ASSUME IInv, [Next]_vars, ~Serving, Serving'
    PROVE  Nmi /\ TakesFullNmi
  <1> USE LabelAssumption DEF IInv, HostGoto
  <1>1. ~running /\ pc \notin NmiPC
    BY DEF Serving, NctxLive
  <1>2. ~running'
    BY <1>1, RunningWriter DEF NmiCheck, ClearRunning, NmiPC
  <1>3. pc' \in NmiPC
    BY <1>2 DEF Serving, NctxLive, NmiPC
  <1>4. CASE GuestStep
    BY <1>1, <1>3, <1>4 DEF GuestStep, GuestCompute, GuestCop, GuestVeneer,
       GuestRti, GuestBreak, NmiPC, HostPC
  <1>5. CASE CopStep
    <2>1. CASE QuickAbsReturn
      BY <1>3, <2>1 DEF QuickAbsReturn, StackInv, CopPC, DirectPC, Top, HostPC
    <2>2. CASE CopReturn
      BY <1>3, <2>2 DEF CopReturn, StackInv, CopPC, DirectPC, GenericPC, HostPC
    <2>3. CASE CopOperation
      BY <1>3, <2>3 DEF CopOperation, Die, NmiPC
    <2>4. CASE ~QuickAbsReturn /\ ~CopReturn /\ ~CopOperation
      BY <1>3, <1>5, <2>4 DEF CopStep, CopDispatch, CopGeneric, QuickIo,
         QuickStatus, QuickBanks, CopStatus, NmiPC
    <2>5. QED BY <2>1, <2>2, <2>3, <2>4
  <1>6. CASE VeneerStep
    <2>1. CASE VeneerRtl \/ VeneerRts
      BY <1>3, <2>1 DEF VeneerRtl, VeneerRts, StackInv, VeneerPC, Top, HostPC
    <2>2. CASE DirectIo \/ DirectReadStatus
      BY <1>3, <2>2 DEF DirectIo, DirectReadStatus, StackInv, DirectPC, Top,
         Frame, NmiPC
    <2>3. CASE ~VeneerRtl /\ ~VeneerRts /\ ~DirectIo /\ ~DirectReadStatus
      BY <1>3, <1>6, <2>3 DEF VeneerStep, VeneerSlot, VeneerRaw, VeneerCode,
         VeneerDbr, VeneerIo, Goto, Die, NmiPC
    <2>4. QED BY <2>1, <2>2, <2>3
  <1>7. CASE NmiStep
    BY <1>1, <1>7 DEF NmiStep, NmiPC, NmiFull, NmiCheck, PresentPendingFrame,
       DispatchNmi, GuestNmiReturn, NextGuestIrq, GuestIrqReturn, RenderFrame,
       ClearRunning, NmiRestore, RestoreRti
  <1>8. CASE Nmi /\ ~TakesFullNmi
    BY <1>1, <1>3, <1>8 DEF Nmi
  <1>9. CASE UNCHANGED pc
    BY <1>1, <1>3, <1>9
  <1>10. QED
    BY <1>4, <1>5, <1>6, <1>7, <1>8, <1>9 DEF Next, HostStep, Halted, vars, cpu

\* No NMI is accepted in host code or during a frame.
LEMMA ServedQuickly ==
    ASSUME IInv, Nmi, Serving
    PROVE  ~TakesFullNmi /\ UNCHANGED <<pc, running, stk, regs, nctx>>
  <1>1. ~TakesFullNmi
    BY DEF IInv, PlaceInv, Serving, NctxLive, TakesFullNmi, GuestBank,
       HostBank, HostPC, NmiPC
  <1>2. QED BY <1>1 DEF Nmi, gate

\* What is served stays served until RestoreRti.
LEMMA ServingStays ==
    ASSUME IInv, [Next]_vars, Serving, ~NmiFull, ~RestoreRti
    PROVE  \/ NctxLive /\ NctxLive'
           \/ UNCHANGED <<pc, running, stk, regs, nctx>>
  <1> USE LabelAssumption DEF IInv, HostGoto
  <1>1. CASE Nmi \/ UNCHANGED vars \/ Halted
    BY <1>1, ServedQuickly DEF vars, cpu, gate, Halted
  <1>2. CASE pc = "NmiFull"
    <2>1. CASE GuestStep \/ CopStep \/ VeneerStep \/ NmiStep
      BY <1>2, <2>1 DEF GuestStep, GuestCompute, GuestCop, GuestVeneer,
         GuestRti, GuestBreak, InRom, CopStep, CopDispatch, CopGeneric,
         QuickIo, QuickStatus, QuickBanks, QuickAbsReturn, CopOperation,
         CopStatus, CopReturn, VeneerStep, VeneerSlot, VeneerRaw, VeneerCode,
         VeneerDbr, VeneerRtl, VeneerIo, DirectIo, DirectReadStatus, VeneerRts,
         NmiStep, NmiCheck, PresentPendingFrame, DispatchNmi, GuestNmiReturn,
         NextGuestIrq, GuestIrqReturn, RenderFrame, ClearRunning, NmiRestore,
         HostPC, NmiPC
    <2>2. QED BY <1>1, <2>1 DEF Next, HostStep
  <1>3. CASE NctxLive /\ ~ClearRunning /\ running
    BY <1>3, RunningWriter DEF NctxLive, NmiCheck
  <1>4. CASE ClearRunning
    BY <1>4 DEF ClearRunning, NctxLive, NmiPC
  <1>5. CASE NctxLive /\ ~running /\ pc # "NmiFull"
    <2>1. pc \in {"NmiCheck", "Restore", "RestoreRti"}
      BY <1>5 DEF NctxLive, NmiPC, RunInv, RunPC
    <2>2. CASE NmiCheck \/ NmiRestore
      BY <1>5, <2>2 DEF NmiCheck, NmiRestore, NctxLive, NmiPC
    <2>3. CASE GuestStep \/ CopStep \/ VeneerStep \/ NmiStep
      BY <2>1, <2>2, <2>3 DEF GuestStep, GuestCompute, GuestCop, GuestVeneer,
         GuestRti, GuestBreak, InRom, CopStep, CopDispatch, CopGeneric,
         QuickIo, QuickStatus, QuickBanks, QuickAbsReturn, CopOperation,
         CopStatus, CopReturn, VeneerStep, VeneerSlot, VeneerRaw, VeneerCode,
         VeneerDbr, VeneerRtl, VeneerIo, DirectIo, DirectReadStatus, VeneerRts,
         NmiStep, PresentPendingFrame, DispatchNmi, GuestNmiReturn,
         NextGuestIrq, GuestIrqReturn, RenderFrame, ClearRunning, HostPC, NmiPC
    <2>4. QED BY <1>1, <2>3 DEF Next, HostStep
  <1>6. QED BY <1>2, <1>3, <1>4, <1>5 DEF Serving, NctxLive

\* The RTI of NmiRestore puts back the context in NCTX.
LEMMA RestoreFacts ==
    ASSUME IInv, RestoreRti
    PROVE  /\ pc' = nctx.pc /\ nctx.pc \in RomPC /\ regs' = nctx.regs
           /\ S' = 0 /\ nctx.sp = 1 /\ ~running /\ ~running' /\ UNCHANGED nctx
  <1> USE LabelAssumption DEF IInv, RestoreRti
  <1>1. S = 1 /\ Top = Frame(nctx.pc, code)
    BY DEF StackInv, Top
  <1>2. S' = 0
    BY <1>1, PopStep DEF TypeOK
  <1>3. ~running /\ nctx.pc \in RomPC /\ nctx.sp = 1
    BY DEF RunInv, ContextInv, NctxLive, ProgramPC, RunPC, VeneerPC, CopPC,
       HostPC, NmiPC
  <1>4. QED BY <1>1, <1>2, <1>3 DEF Frame, gate

\* No step leads into NmiFull while the saved context is to be resumed.
LEMMA NoSecondEntry ==
    ASSUME IInv, [Next]_vars, NctxLive
    PROVE  pc' # "NmiFull"
  <1> SUFFICES ASSUME pc' = "NmiFull" PROVE FALSE
    OBVIOUS
  <1> USE LabelAssumption DEF IInv, HostGoto
  <1>1. pc # "NmiFull"
    BY DEF NctxLive, RunInv, ProgramPC, RunPC, VeneerPC, CopPC, HostPC, NmiPC
  <1>2. CASE GuestStep
    <2>1. CASE GuestRti
      BY <2>1 DEF GuestRti, InRom, StackInv, Top, S, ProgramPC, Base, CpuType,
         TypeOK
    <2>2. CASE ~GuestRti
      BY <1>2, <2>2 DEF GuestStep, GuestCompute, GuestCop, GuestVeneer,
         GuestBreak, HostPC, NmiPC
    <2>3. QED BY <2>1, <2>2
  <1>3. CASE CopStep
    <2>1. CASE QuickAbsReturn
      BY <2>1 DEF QuickAbsReturn, StackInv, CopPC, DirectPC, Top, S, HostPC,
         NmiPC
    <2>2. CASE CopReturn
      BY <2>2 DEF CopReturn, StackInv, CopPC, DirectPC, GenericPC, HostPC,
         NmiPC
    <2>3. CASE CopOperation
      BY <2>3 DEF CopOperation, Die
    <2>4. CASE ~QuickAbsReturn /\ ~CopReturn /\ ~CopOperation
      BY <1>3, <2>4 DEF CopStep, CopDispatch, CopGeneric, QuickIo, QuickStatus,
         QuickBanks, CopStatus
    <2>5. QED BY <2>1, <2>2, <2>3, <2>4
  <1>4. CASE VeneerStep
    <2>1. CASE VeneerRtl \/ VeneerRts
      BY <2>1 DEF VeneerRtl, VeneerRts, StackInv, VeneerPC, Top, S, HostPC,
         NmiPC
    <2>2. CASE DirectIo \/ DirectReadStatus
      BY <2>2 DEF DirectIo, DirectReadStatus, StackInv, DirectPC, Top, S, Frame
    <2>3. CASE VeneerSlot \/ VeneerRaw \/ VeneerCode \/ VeneerDbr \/ VeneerIo
      BY <2>3 DEF VeneerSlot, VeneerRaw, VeneerCode, VeneerDbr, VeneerIo,
         Goto, Die
    <2>4. QED BY <1>4, <2>1, <2>2, <2>3 DEF VeneerStep
  <1>5. CASE NmiStep
    <2>1. CASE RestoreRti
      <3>1. pc' = nctx.pc
        BY <2>1, RestoreFacts
      <3>2. nctx.pc \in RomPC
        BY DEF ContextInv
      <3>3. QED BY <3>1, <3>2 DEF HostPC, NmiPC
    <2>2. CASE DispatchNmi \/ NextGuestIrq
      <3>1. pc' \in RomPC \cup {"Finish"}
        BY <2>2 DEF DispatchNmi, NextGuestIrq, EnterHandler
      <3>2. QED BY <3>1 DEF HostPC, NmiPC
    <2>3. CASE ~RestoreRti /\ ~DispatchNmi /\ ~NextGuestIrq
      BY <1>5, <2>3 DEF NmiStep, NmiFull, NmiCheck, PresentPendingFrame,
         GuestNmiReturn, GuestIrqReturn, RenderFrame, ClearRunning, NmiRestore
    <2>4. QED BY <2>1, <2>2, <2>3
  <1>6. CASE Nmi
    <2>1. running \/ pc \in HostPC
      BY DEF NctxLive, HostPC
    <2>2. ~TakesFullNmi
      BY <2>1 DEF TakesFullNmi, PlaceInv, GuestBank, HostBank
    <2>3. QED BY <1>1, <1>6, <2>2 DEF Nmi
  <1>7. QED
    BY <1>1, <1>2, <1>3, <1>4, <1>5, <1>6 DEF Next, HostStep, Halted, vars, cpu

\* NCTX is never overwritten while the context in it is to be resumed.
THEOREM ContextSafe == Spec => ContextNotClobbered
  <1>1. IInv /\ [Next]_vars => (NctxLive => UNCHANGED nctx /\ pc' # "NmiFull")
    BY NctxWriter, NoSecondEntry, LabelAssumption DEF NmiFull, NctxLive, IInv,
       RunInv, ProgramPC, RunPC, VeneerPC, CopPC, NmiPC, HostPC
  <1>2. QED BY <1>1, InductiveInvariant, PTL DEF Spec, ContextNotClobbered

\* To the interrupted program a host NMI is atomic and gives its context back.
THEOREM NmiTransparent == Spec => NmiIsTransparent
  <1>1. Init => Abstract!Init
    BY LabelAssumption DEF Init, Abstract!Init, Serving, Program, NctxLive,
       NmiPC, HostPC
  <1>2. IInv /\ [Next]_vars => [Abstract!Next]_<<Serving, Program>>
    <2> SUFFICES ASSUME IInv, [Next]_vars
                 PROVE  [Abstract!Next]_<<Serving, Program>>
      OBVIOUS
    <2> USE LabelAssumption DEF IInv
    <2>1. CASE ~Serving /\ ~Serving'
      BY <2>1 DEF Abstract!Next, Abstract!Run
    <2>2. CASE ~Serving /\ Serving'
      <3>1. Nmi /\ TakesFullNmi
        BY <2>2, ServingStarts
      <3>2. pc \in RomPC /\ pc' = "NmiFull" /\ ~NctxLive' /\ ~NctxLive
        BY <3>1, <2>2 DEF Serving, Nmi, HostGoto, gate, TakesFullNmi, NctxLive,
           PlaceInv, GuestBank, HostBank, TypeOK, CpuType, Locations
      <3>3. S' = S + 1 /\ Top' = Frame(pc, pbr) /\ UNCHANGED regs
        <4>1. Frame(pc, pbr) \in FrameType
          BY DEF TypeOK, CpuType, Frame, FrameType
        <4>2. Push(Frame(pc, pbr)) /\ UNCHANGED regs
          BY <3>1 DEF Nmi
        <4>3. QED BY <4>1, <4>2, PushStep DEF TypeOK, Top, S
      <3>4. Program' = Program
        BY <3>2, <3>3, S \in Nat DEF Program, Frame, HostPC, NmiPC, S
      <3>5. QED BY <2>2, <3>2, <3>4 DEF Abstract!Next, Abstract!Take, Program,
           HostPC, NmiPC
    <2>3. CASE Serving
      <3>1. CASE NmiFull
        <4>1. Program' = Program /\ Serving'
          BY <3>1 DEF NmiFull, HostGoto, Program, Serving, NctxLive, NmiPC,
             gate, RunInv, ProgramPC, RunPC, VeneerPC, CopPC, HostPC
        <4>2. QED BY <2>3, <4>1
      <3>2. CASE RestoreRti
        <4>1. Program' = Program /\ ~Serving'
          <5>1. pc = "RestoreRti" BY <3>2 DEF RestoreRti
          <5>2. NctxLive /\ ~NctxLive' /\ pc' # "NmiFull"
            BY <3>2, <5>1, RestoreFacts DEF NctxLive, NmiPC, HostPC
          <5>3. QED BY <3>2, <5>2, RestoreFacts DEF Program, Serving
        <4>2. QED BY <2>3, <4>1 DEF Abstract!Next, Abstract!Resume
      <3>3. CASE ~NmiFull /\ ~RestoreRti
        <4>1. \/ NctxLive /\ NctxLive'
              \/ UNCHANGED <<pc, running, stk, regs, nctx>>
          BY <2>3, <3>3, ServingStays
        <4>2. UNCHANGED nctx
          BY NctxWriter, <3>3
        <4>3. Program' = Program /\ Serving'
          BY <2>3, <4>1, <4>2 DEF Program, Serving, NctxLive, Top, S
        <4>4. QED BY <2>3, <4>3
      <3>4. QED BY <3>1, <3>2, <3>3
    <2>4. QED BY <2>1, <2>2, <2>3
  <1>3. QED BY <1>1, <1>2, InductiveInvariant, PTL DEF Spec, NmiIsTransparent,
       Abstract!Spec

-----------------------------------------------------------------------------
(* The host's share of a frame is bounded.                                 *)

\* A NES handler that runs in a frame goes on running, above the return frame
\* the host gave it, until its RTI or an unsupported operation.
LEMMA HandlerStays ==
    ASSUME IInv, [Next]_vars, running, pc \in ProgramPC, ~GuestRti
    PROVE  /\ UNCHANGED <<running, chain>>
           /\ stk'[1] = stk[1]
           /\ pc' \in ProgramPC \cup {"Halt"}
  <1> USE LabelAssumption DEF IInv, TypeOK
  <1>1. pc \notin NmiPC /\ pc # "Halt" /\ Base = 1
    BY DEF ProgramPC, HostPC, CopPC, VeneerPC, NmiPC, Base
  <1>2. UNCHANGED <<running, chain>>
    BY <1>1, RunningWriter, ChainWriter DEF NmiCheck, ClearRunning,
       GuestNmiReturn, NextGuestIrq, NmiPC
  <1>3. ~NmiStep /\ ~TakesFullNmi
    BY <1>1 DEF NmiStep, NmiFull, NmiCheck, PresentPendingFrame, DispatchNmi,
       GuestNmiReturn, NextGuestIrq, GuestIrqReturn, RenderFrame, ClearRunning,
       NmiRestore, RestoreRti, NmiPC, TakesFullNmi
  <1>4. CASE UNCHANGED <<pc, stk>>
    BY <1>2, <1>4
  <1>5. CASE GuestCompute \/ GuestBreak
    BY <1>2, <1>5 DEF GuestCompute, GuestBreak, HostGoto, ProgramPC
  <1>6. CASE GuestCop \/ GuestVeneer
    <2>1. S = 1 /\ pc' \in VeneerPC \cup CopPC
      BY <1>1, <1>6 DEF GuestCop, GuestVeneer, InRom, HostGoto, StackInv,
         VeneerPC, CopPC
    <2>2. PICK next \in RomPC : Push(Frame(next, pbr))
      BY <1>6 DEF GuestCop, GuestVeneer
    <2>3. Frame(next, pbr) \in FrameType
      BY DEF Frame, FrameType, CpuType, Locations
    <2>4. stk'[1] = stk[1]
      BY <2>1, <2>2, <2>3, PushStep
    <2>5. QED BY <1>2, <2>1, <2>4 DEF ProgramPC
  <1>7. CASE VeneerIo
    <2>1. S = 2 /\ pc' \in CopPC
      BY <1>1, <1>7 DEF VeneerIo, StackInv, VeneerPC, CopPC
    <2>2. Frame("VnRts", pbr) \in FrameType /\ Push(Frame("VnRts", pbr))
      BY <1>7 DEF Frame, FrameType, CpuType, Locations, VeneerPC, VeneerIo
    <2>3. stk'[1] = stk[1]
      BY <2>1, <2>2, PushStep
    <2>4. QED BY <1>2, <2>1, <2>3 DEF ProgramPC
  <1>8. CASE QuickAbsReturn \/ VeneerRtl \/ VeneerRts
    <2>1. S = 2 /\ stk[S].pc \in RomPC
      BY <1>1, <1>8 DEF QuickAbsReturn, VeneerRtl, VeneerRts, StackInv,
         VeneerPC, CopPC, DirectPC
    <2>2. Pop /\ pc' \in RomPC
      BY <1>8, <2>1 DEF QuickAbsReturn, VeneerRtl, VeneerRts, Top
    <2>3. stk'[1] = stk[1]
      BY <2>1, <2>2, PopStep
    <2>4. QED BY <1>2, <2>2, <2>3 DEF ProgramPC
  <1>9. CASE DirectIo \/ DirectReadStatus
    <2>1. S = 3 /\ stk[S].pc = "VnRts"
      BY <1>1, <1>9 DEF DirectIo, DirectReadStatus, StackInv, DirectPC, Frame
    <2>2. Pop /\ pc' \in VeneerPC
      BY <1>9, <2>1 DEF DirectIo, DirectReadStatus, Top, VeneerPC
    <2>3. stk'[1] = stk[1]
      BY <2>1, <2>2, PopStep
    <2>4. QED BY <1>2, <2>2, <2>3 DEF ProgramPC
  <1>10. CASE CopReturn
    <2>1. S = 2 /\ cop.sp = S /\ stk[S].pc \in RomPC
      BY <1>1, <1>10 DEF CopReturn, StackInv, GenericPC, CopPC, DirectPC
    <2>2. Pop /\ pc' \in RomPC
      BY <1>10, <2>1 DEF CopReturn, Pop
    <2>3. stk'[1] = stk[1]
      BY <2>1, <2>2, PopStep
    <2>4. QED BY <1>2, <2>2, <2>3 DEF ProgramPC
  <1>11. CASE \/ CopDispatch \/ CopGeneric \/ QuickIo \/ QuickStatus
              \/ QuickBanks \/ CopOperation \/ CopStatus
    BY <1>2, <1>11 DEF CopDispatch, CopGeneric, QuickIo, QuickStatus,
       QuickBanks, CopOperation, CopStatus, HostGoto, Die, ProgramPC, CopPC
  <1>12. CASE VeneerSlot \/ VeneerRaw \/ VeneerCode \/ VeneerDbr
    BY <1>2, <1>12 DEF VeneerSlot, VeneerRaw, VeneerCode, VeneerDbr, Goto,
       HostGoto, Die, ProgramPC, VeneerPC
  <1>13. CASE Nmi
    BY <1>3, <1>4, <1>13 DEF Nmi
  <1>14. QED
    BY <1>3, <1>4, <1>5, <1>6, <1>7, <1>8, <1>9, <1>10, <1>11, <1>12, <1>13
    DEF Next, GuestStep, HostStep, CopStep, VeneerStep, Halted, vars, cpu

\* The chain may still serve a line above the last one, and a line is a byte.
\* Serving it takes NextIrq and IrqRet, with the handler between them.
ChainLeft == 4 * (255 - lastirq)
WholeChain == 4 * 255

\* A bound on the steps the host still takes for the NMI it serves.
HostStepsLeft ==
    IF running /\ pc \in ProgramPC
    THEN 7 + (IF stk[1].pc = "IrqRet" THEN ChainLeft ELSE WholeChain)
    ELSE CASE pc = "NmiFull"     -> 11 + WholeChain
           [] pc = "NmiCheck"    -> 10 + WholeChain
           [] pc = "Present"     -> 9 + WholeChain
           [] pc = "DispatchNmi" -> 8 + WholeChain
           [] pc = "NmiRet"      -> 6 + WholeChain
           [] pc = "IrqRet"      -> 6 + ChainLeft
           [] pc = "NextIrq"     -> 5 + ChainLeft
           [] pc = "Finish"      -> 4
           [] pc = "Done"        -> 3
           [] pc = "Restore"     -> 2
           [] pc = "RestoreRti"  -> 1
           [] OTHER              -> 0

\* The host is in a frame exactly while the bound is not 0, or it halted there.
HostStepsInv ==
    /\ HostStepsLeft \in 0..1031
    /\ HostStepsLeft = 0 <=> ~Serving \/ pc = "Halt"

\* That follows from the places code runs at.
LEMMA HostStepsRange == IInv => HostStepsInv
  <1> SUFFICES ASSUME IInv PROVE HostStepsInv
    OBVIOUS
  <1> USE LabelAssumption
  <1>1. ChainLeft \in 0..1020 /\ WholeChain = 1020
    BY DEF IInv, TypeOK, ChainType, ChainLeft, WholeChain
  <1> HIDE DEF ChainLeft, WholeChain
  <1>2. CASE running /\ pc \in ProgramPC
    <2>1. HostStepsLeft \in 7..1027
      BY <1>1, <1>2 DEF HostStepsLeft
    <2>2. Serving /\ pc # "Halt"
      BY <1>2 DEF Serving, NctxLive, ProgramPC, HostPC, VeneerPC, CopPC
    <2>3. QED BY <2>1, <2>2 DEF HostStepsInv
  <1>3. CASE pc \in NmiPC
    <2>1. Serving /\ pc # "Halt" /\ pc \notin ProgramPC
      BY <1>3 DEF Serving, NctxLive, NmiPC, ProgramPC, HostPC, VeneerPC, CopPC
    <2>2. HostStepsLeft \in 1..1031
      BY <1>1, <1>3, <2>1 DEF HostStepsLeft, NmiPC
    <2>3. QED BY <2>1, <2>2 DEF HostStepsInv
  <1>4. CASE pc \notin NmiPC /\ ~(running /\ pc \in ProgramPC)
    <2>1. HostStepsLeft = 0
      BY <1>4 DEF HostStepsLeft, NmiPC
    <2>2. ~Serving \/ pc = "Halt"
      BY <1>4 DEF Serving, NctxLive, NmiPC, IInv, RunInv, RunPC
    <2>3. QED BY <2>1, <2>2 DEF HostStepsInv
  <1>5. QED BY <1>2, <1>3, <1>4

\* The stretches of the host NMI between two NES handlers, each a step closer
\* to the RTI.
LEMMA HostAdvances ==
    ASSUME IInv, [Next]_vars, NmiStep
    PROVE  HostStepsLeft' < HostStepsLeft
  <1> USE LabelAssumption
  <1>1. /\ ChainLeft \in 0..1020 /\ WholeChain = 1020 /\ IInv'
        /\ ChainLeft' \in 0..1020 /\ WholeChain' = 1020
    BY InductiveStep DEF IInv, TypeOK, ChainType, ChainLeft, WholeChain
  <1>2. pc \in NmiPC /\ pc \notin ProgramPC /\ NmiPC \cap ProgramPC = {}
    BY DEF NmiStep, NmiFull, NmiCheck, PresentPendingFrame, DispatchNmi,
       GuestNmiReturn, NextGuestIrq, GuestIrqReturn, RenderFrame, ClearRunning,
       NmiRestore, RestoreRti, NmiPC, ProgramPC, HostPC, VeneerPC, CopPC
  <1> HIDE DEF WholeChain
  <1>3. CASE \/ NmiFull \/ NmiCheck \/ PresentPendingFrame \/ RenderFrame
             \/ ClearRunning \/ NmiRestore
    BY <1>1, <1>2, <1>3 DEF NmiFull, NmiCheck, PresentPendingFrame, RenderFrame,
       ClearRunning, NmiRestore, HostGoto, HostStepsLeft, NmiPC
  <1>4. CASE GuestNmiReturn
    BY <1>1, <1>2, <1>4 DEF GuestNmiReturn, HostGoto, HostStepsLeft, NmiPC
  <1>5. CASE GuestIrqReturn
    <2>1. ChainLeft' = ChainLeft
      BY <1>5 DEF GuestIrqReturn, chain, ChainLeft
    <2>2. QED BY <1>1, <1>2, <1>5, <2>1 DEF GuestIrqReturn, HostGoto,
         HostStepsLeft, NmiPC
  <1>6. CASE DispatchNmi
    <2>1. /\ pc = "DispatchNmi" /\ pc' \in ProgramPC /\ running'
          /\ stk'[1].pc = "NmiRet"
      <3>1. S = 1 /\ nctx.sp = 1 /\ running
        BY <1>6 DEF DispatchNmi, IInv, StackInv, ContextInv, NctxLive, NmiPC,
           RunInv, RunPC
      <3>2. Frame("NmiRet", HostBank) \in FrameType /\ CpuType
        BY DEF Frame, FrameType, HostBank, Locations, HostPC, NmiPC, IInv,
           TypeOK
      <3>3. stk'[1] = Frame("NmiRet", HostBank)
        BY <1>6, <3>1, <3>2, EnterFacts DEF DispatchNmi, EnterHandler
      <3>4. QED BY <1>6, <3>1, <3>3 DEF DispatchNmi, EnterHandler, ProgramPC,
           Frame, gate
    <2>2. HostStepsLeft = 8 + WholeChain
      BY <1>2, <2>1 DEF HostStepsLeft
    <2>3. HostStepsLeft' = 7 + WholeChain'
      BY <2>1 DEF HostStepsLeft
    <2>4. QED BY <1>1, <2>2, <2>3
  <1>7. CASE NextGuestIrq
    <2>1. HostStepsLeft = 5 + ChainLeft
      BY <1>2, <1>7 DEF NextGuestIrq, HostStepsLeft
    <2>2. CASE pc' = "Finish"
      <3>1. HostStepsLeft' = 4
        BY <1>2, <2>2 DEF HostStepsLeft, NmiPC
      <3>2. QED BY <1>1, <2>1, <3>1
    <2>3. CASE pc' # "Finish"
      <3>1. /\ IrqDue /\ lastirq' = irqpos /\ EnterHandler("IrqRet", ZeroRegs)
            /\ running' = running
        BY <1>7, <2>3 DEF NextGuestIrq, HostGoto, gate
      <3>2. S = 0 /\ nctx.sp = 1 /\ running
        BY <1>7 DEF NextGuestIrq, IInv, StackInv, ContextInv, NctxLive, NmiPC,
           RunInv, RunPC
      <3>3. Frame("IrqRet", HostBank) \in FrameType /\ CpuType
        BY DEF Frame, FrameType, HostBank, Locations, HostPC, NmiPC, IInv,
           TypeOK
      <3>4. stk'[1].pc = "IrqRet" /\ pc' \in ProgramPC
        BY <3>1, <3>2, <3>3, EnterFacts DEF EnterHandler, Frame, ProgramPC
      <3>5. HostStepsLeft' = 7 + ChainLeft'
        BY <3>1, <3>2, <3>4 DEF HostStepsLeft
      <3>6. lastirq' >= lastirq + 1 /\ lastirq' \in Int /\ lastirq \in Int
        BY <3>1 DEF IrqDue, IInv, TypeOK, ChainType, PortType
      <3>7. \A k, m \in Int : m >= k + 1 => 7 + 4 * (255 - m) < 5 + 4 * (255 - k)
        OBVIOUS
      <3>8. QED BY <2>1, <3>5, <3>6, <3>7 DEF ChainLeft
    <2>4. QED BY <2>2, <2>3
  <1>8. CASE RestoreRti
    <2>1. pc' \in RomPC /\ ~running' /\ pc = "RestoreRti"
      BY <1>8, RestoreFacts DEF RestoreRti
    <2>2. HostStepsLeft' = 0
      BY <2>1 DEF HostStepsLeft, HostPC, NmiPC
    <2>3. HostStepsLeft = 1
      BY <1>2, <2>1 DEF HostStepsLeft
    <2>4. QED BY <2>2, <2>3
  <1>9. QED BY <1>3, <1>4, <1>5, <1>6, <1>7, <1>8 DEF NmiStep

\* An accepted NMI costs the host 1031 steps at most, 11 and 4 for each line:
\* every step of the host NMI and every RTI of a NES handler lowers the bound,
\* and nothing the handlers, the COP interpreter, the veneers or a further NMI
\* do in between raises it.  So only a handler that never reaches its RTI can
\* keep the interrupted program from resuming.
THEOREM HostShareBounded ==
    Spec => /\ []HostStepsInv
            /\ [][Serving => /\ HostStepsLeft' <= HostStepsLeft
                             /\ NmiStep \/ GuestRti =>
                                    HostStepsLeft' < HostStepsLeft]_vars
  <1> USE LabelAssumption
  <1>1. ASSUME IInv, HostStepsInv, HostStepsInv', [Next]_vars, Serving
        PROVE  /\ HostStepsLeft' <= HostStepsLeft
               /\ NmiStep \/ GuestRti => HostStepsLeft' < HostStepsLeft
    <2>1. HostStepsLeft \in Int /\ HostStepsLeft' \in Int
      BY <1>1 DEF HostStepsInv
    <2>2. CASE NmiStep
      BY <1>1, <2>1, <2>2, HostAdvances
    <2>3. CASE GuestRti
      <3>1. /\ running /\ pc \in ProgramPC /\ stk[1].pc \in {"NmiRet", "IrqRet"}
            /\ pc' = stk[1].pc /\ lastirq' = lastirq
        BY <1>1, <2>3 DEF GuestRti, InRom, IInv, StackInv, Base, Top, ProgramPC,
           chain
      <3>2. pc' \notin ProgramPC
        BY <3>1 DEF ProgramPC, HostPC, NmiPC, VeneerPC, CopPC
      <3>3. ChainLeft' = ChainLeft /\ ChainLeft \in Int /\ WholeChain \in Int
        BY <1>1, <3>1 DEF ChainLeft, WholeChain, IInv, TypeOK, ChainType
      <3>4. HostStepsLeft' = 6 + (IF stk[1].pc = "IrqRet" THEN ChainLeft ELSE WholeChain)
        BY <3>1, <3>2, <3>3 DEF HostStepsLeft, WholeChain
      <3>5. HostStepsLeft = 7 + (IF stk[1].pc = "IrqRet" THEN ChainLeft ELSE WholeChain)
        BY <3>1 DEF HostStepsLeft
      <3>6. QED BY <3>3, <3>4, <3>5
    <2>4. CASE ~NmiStep /\ ~GuestRti /\ running /\ pc \in ProgramPC
      <3>1. /\ running' /\ lastirq' = lastirq /\ stk'[1] = stk[1]
            /\ pc' \in ProgramPC \cup {"Halt"}
        BY <1>1, <2>4, HandlerStays DEF chain
      <3>2. CASE pc' = "Halt"
        <4>1. HostStepsLeft' = 0
          BY <1>1, <3>2 DEF HostStepsInv
        <4>2. HostStepsLeft >= 0
          BY <1>1 DEF HostStepsInv
        <4>3. QED BY <2>1, <2>4, <4>1, <4>2
      <3>3. CASE pc' \in ProgramPC
        <4>1. HostStepsLeft' = HostStepsLeft
          BY <2>4, <3>1, <3>3 DEF HostStepsLeft, ChainLeft, WholeChain
        <4>2. QED BY <2>1, <2>4, <4>1
      <3>4. QED BY <3>1, <3>2, <3>3
    <2>5. CASE ~NmiStep /\ ~GuestRti /\ ~(running /\ pc \in ProgramPC)
      <3>1. pc \in NmiPC \cup {"Halt"}
        BY <1>1, <2>5 DEF Serving, NctxLive, IInv, RunInv, RunPC, NmiPC
      <3>2. ~GuestStep /\ ~CopStep /\ ~VeneerStep
        BY <3>1, <2>5 DEF GuestStep, GuestCompute, GuestCop, GuestVeneer,
           GuestBreak, InRom, CopStep, CopDispatch, CopGeneric, QuickIo,
           QuickStatus, QuickBanks, QuickAbsReturn, CopOperation, CopStatus,
           CopReturn, VeneerStep, VeneerSlot, VeneerRaw, VeneerCode, VeneerDbr,
           VeneerRtl, VeneerIo, DirectIo, DirectReadStatus, VeneerRts, HostPC,
           NmiPC
      <3>3. UNCHANGED <<pc, running, stk, lastirq>>
        BY <1>1, <2>5, <3>2, ServedQuickly DEF Next, HostStep, Halted, vars,
           cpu, gate, chain, Nmi
      <3>4. HostStepsLeft' = HostStepsLeft
        BY <3>3 DEF HostStepsLeft, ChainLeft, WholeChain
      <3>5. QED BY <2>1, <2>5, <3>4
    <2>6. QED BY <2>2, <2>3, <2>4, <2>5
  <1>2. IInv /\ HostStepsInv /\ HostStepsInv' /\ [Next]_vars
          => [Serving => /\ HostStepsLeft' <= HostStepsLeft
                         /\ NmiStep \/ GuestRti =>
                                HostStepsLeft' < HostStepsLeft]_vars
    BY <1>1
  <1>3. QED BY <1>2, HostStepsRange, InductiveInvariant, PTL DEF Spec
=============================================================================
