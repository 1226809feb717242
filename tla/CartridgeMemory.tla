-------------------------- MODULE CartridgeMemory --------------------------
(***************************************************************************)
(* Program banks, work RAM, ExRAM and the multiplier of the MMC5 timeline  *)
(* (snes/src/mmc5_prg.inc, mmc5_wram.inc, mmc5_cpu_io.inc and the code     *)
(* tools/mmc5_timeline.py, mmc5_wram.py and mmc5_cpu_io.py emit).          *)
(*                                                                         *)
(* A RAM page and the ExRAM are one cell each.  Values are bytes.          *)
(***************************************************************************)
EXTENDS PortStep

CONSTANT Banks      \* 8-KiB banks of program ROM, a power of two

\* slots refuses any other size.
ASSUME BanksAssumption == Banks \in {4, 8, 16, 32, 64, 128}

VARIABLES
    cart,       \* the mapper: mode, regs ($5114..$5117), slots, lock, page, ExRAM mode,
                \* mul (the operands) and product
    ram,        \* the work RAM by page
    exram,      \* the ExRAM
    wrote       \* history: the last value stored to each protection register

memory == <<cart, ram, exram, wrote>>

Absent == 255
RamPages == 128..131
IsRom(v) == v >= 128
RomBank(v) == v % Banks

\* one: a ROM bank, a RAM page, or nothing where the layer has no RAM.
One(v) ==
    IF IsRom(v) THEN RomBank(v) ELSE IF Has(PrgRam) THEN 128 + (v % 4) ELSE Absent

Pair(v) ==
    LET b == One(v)
    IN  IF b = Absent THEN <<Absent, Absent>> ELSE <<b - (b % 2), b - (b % 2) + 1>>

\* Slip: the top pair of mode 1 is not forced to ROM.
RemapTopFree(mode, r) ==
    IF mode = 1 THEN Pair(r[2]) \o Pair(r[4])
    ELSE IF mode = 2 THEN Pair(r[2]) \o <<One(r[3]), RomBank(r[4])>>
    ELSE <<One(r[1]), One(r[2]), One(r[3]), RomBank(r[4])>>

\* MapperRemap: the bank of each 8-KiB slot from $8000 on; the last is ROM.
Remap(mode, r) ==
    IF mode = 1 THEN Pair(r[2]) \o Pair(128 + (r[4] % 128))
    ELSE IF mode = 2 THEN Pair(r[2]) \o <<One(r[3]), RomBank(r[4])>>
    ELSE <<One(r[1]), One(r[2]), One(r[3]), RomBank(r[4])>>

InitialRegs == <<128, 129, 130, 255>>
InitialRam == [p \in RamPages |-> p - 63]
InitialEx == [mode |-> 3, cell |-> 165, mul |-> <<0, 0>>]

\* MapperInit, CartridgeInit and ExInit, and the boot of the original.
InitMemory ==
    /\ cart = [mode |-> 3, regs |-> InitialRegs, slots |-> Remap(3, InitialRegs), lock |-> 0,
               page |-> 0, exmode |-> InitialEx.mode, mul |-> InitialEx.mul, product |-> 0]
    /\ ram = InitialRam /\ exram = InitialEx.cell
    /\ wrote = [r \in {"5102", "5103", "5104"} |-> 0]

Maps(mode, regs) == [cart EXCEPT !.mode = mode, !.regs = regs, !.slots = Remap(mode, regs)]

\* $5100: mode 0 is refused before the register is written.
MapperMode(v) ==
    /\ Begins
    /\ IF v % 4 = 0 THEN Fault("ports", "mode") /\ UNCHANGED memory
       ELSE Takes("mode") /\ cart' = Maps(v % 4, cart.regs) /\ UNCHANGED <<ram, exram, wrote>>

\* A register that selects RAM: none in the first layer, no second chip in the others.
SelectsAbsent(v) == ~IsRom(v) /\ (Has(PrgRam) => (v \div 4) % 2 = 1)

\* $5114..$5117; the last always selects ROM.
MapperRegister(i, v) ==
    /\ Begins
    /\ IF i < 4 /\ SelectsAbsent(v) THEN Fault("ports", "bank") /\ UNCHANGED memory
       ELSE /\ Takes("bank")
            /\ cart' = Maps(cart.mode, [cart.regs EXCEPT ![i] = v])
            /\ UNCHANGED <<ram, exram, wrote>>

\* Slip: $5103 overwrites both halves of the lock.
LockWhole(port, v, lock) == IF port = "5102" THEN (v % 4) + lock - (lock % 4) ELSE 4 * (v % 4) + 2

\* $5102 and $5103: the two halves of the lock.
LockAfter(port, v, lock) ==
    IF port = "5102" THEN (v % 4) + lock - (lock % 4) ELSE 4 * (v % 4) + (lock % 4)

Protect(port, v) ==
    /\ Begins /\ Has(PrgRam) /\ Takes("protect")
    /\ cart' = [cart EXCEPT !.lock = LockAfter(port, v, cart.lock)]
    /\ wrote' = [wrote EXCEPT ![port] = v % 4]
    /\ UNCHANGED <<ram, exram>>

\* $5113: the page at $6000.
RamPage(v) ==
    /\ Begins /\ Has(PrgRam)
    /\ IF (v \div 4) % 2 = 1 THEN Fault("ports", "page") /\ UNCHANGED memory
       ELSE Takes("page") /\ cart' = [cart EXCEPT !.page = v % 4] /\ UNCHANGED <<ram, exram, wrote>>

Unlocked == cart.lock = 6

\* MapperBank: the page behind slot 0 ($6000) or 1 to 4 ($8000..$FFFF).
BankAt(slot) ==
    IF slot > 0 THEN cart.slots[slot] ELSE IF Has(PrgRam) THEN 128 + cart.page ELSE Absent

\* A store through a pointer: the target is resolved, then CartridgeCommit.
StoreMapped(slot, v) ==
    /\ Begins
    /\ LET bank == BankAt(slot)
       IN  IF bank \notin RamPages THEN Fault("ports", "store") /\ UNCHANGED memory
           ELSE /\ Proceed("store", 6)
                /\ ram' = IF Unlocked THEN [ram EXCEPT ![bank] = v] ELSE ram
                /\ UNCHANGED <<cart, exram, wrote>>

\* $5104: the modes that show ExRAM to the PPU are refused.
ExMode(v) ==
    /\ Begins /\ Has(CpuIo)
    /\ IF v % 4 < 2 THEN Fault("ports", "exmode") /\ UNCHANGED memory
       ELSE /\ Takes("exmode")
            /\ cart' = [cart EXCEPT !.exmode = v % 4] /\ wrote' = [wrote EXCEPT !["5104"] = v % 4]
            /\ UNCHANGED <<ram, exram>>

\* ExCommit: the protection of the work RAM does not matter here.
StoreEx(v) ==
    /\ Begins /\ Has(CpuIo) /\ Takes("store")
    /\ exram' = IF cart.exmode = 2 THEN v ELSE exram
    /\ UNCHANGED <<cart, ram, wrote>>

\* $5205 and $5206: an operand of the multiplier; the product follows at once.
Multiply(part, v) ==
    /\ Begins /\ Has(CpuIo) /\ Takes("multiply")
    /\ LET mul == [cart.mul EXCEPT ![part] = v]
       IN  cart' = [cart EXCEPT !.mul = mul, !.product = (mul[1] * mul[2]) % 65536]
    /\ UNCHANGED <<ram, exram, wrote>>

MemoryPort(o) ==
    \/ o.at = "5100" /\ MapperMode(o.v)
    \/ o.at = "5114" /\ MapperRegister(1, o.v)
    \/ o.at = "5115" /\ MapperRegister(2, o.v)
    \/ o.at = "5116" /\ MapperRegister(3, o.v)
    \/ o.at = "5117" /\ MapperRegister(4, o.v)
    \/ o.at \in {"5102", "5103"} /\ Protect(o.at, o.v)
    \/ o.at = "5113" /\ RamPage(o.v)
    \/ \E slot \in 0..4 : o.at = "mapped" /\ StoreMapped(slot, o.v)
    \/ o.at = "5104" /\ ExMode(o.v)
    \/ o.at = "5C00" /\ StoreEx(o.v)
    \/ o.at = "5205" /\ Multiply(1, o.v)
    \/ o.at = "5206" /\ Multiply(2, o.v)
-----------------------------------------------------------------------------
\* slots of tools/mmc5_timeline.py, which the reports compare the machine with:
\* Absent where RAM is selected.
ReferenceSlots(mode, r) ==
    LET one(v)  == IF IsRom(v) THEN RomBank(v) ELSE Absent
        pair(v) == IF one(v) = Absent THEN <<Absent, Absent>>
                   ELSE <<2 * (one(v) \div 2), 2 * (one(v) \div 2) + 1>>
        rom(v)  == IF IsRom(v) THEN v ELSE v + 128
    IN  IF mode = 1 THEN pair(r[2]) \o pair(rom(r[4]))
        ELSE IF mode = 2 THEN pair(r[2]) \o <<one(r[3]), one(rom(r[4]))>>
        ELSE <<one(r[1]), one(r[2]), one(r[3]), one(rom(r[4]))>>

\* SlotsAgree: whatever modes and registers were written in whatever order, the slots
\* the native code keeps up to date are those the reference computes from the registers
\* (a RAM page where it has no ROM), so that the slot of the interrupt vectors is
\* always ROM and an entry never faults on its vector.
SlotsAgree ==
    LET expected == ReferenceSlots(cart.mode, cart.regs)
    IN  \A k \in 1..4 :
          IF expected[k] = Absent THEN cart.slots[k] \in RamPages ELSE cart.slots[k] = expected[k]

\* ProtectedRam: work RAM and ExRAM change only while the program's last stores to
\* the protection registers allow it, in whatever order it made them; a store made
\* otherwise retires and is lost.
ProtectedRam ==
    [][/\ ram' # ram => wrote["5102"] = 2 /\ wrote["5103"] = 1
       /\ exram' # exram => wrote["5104"] = 2]_<<step, memory>>
=============================================================================
