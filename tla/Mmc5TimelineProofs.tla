------------------------- MODULE Mmc5TimelineProofs -------------------------
(***************************************************************************)
(* Proofs about Mmc5Timeline, for every program of every layer, every size *)
(* of the cartridge, of its CHR and of OAM, and every width of the clock.  *)
(***************************************************************************)
EXTENDS Mmc5Timeline, TLAPS

\* The lock and the ExRAM mode are what the program stored last.
LocksInv ==
    /\ DOMAIN wrote = {"5102", "5103", "5104"}
    /\ wrote["5102"] \in 0..3 /\ wrote["5103"] \in 0..3
    /\ cart.lock = 4 * wrote["5103"] + wrote["5102"]
    /\ cart.exmode = 2 => wrote["5104"] = 2

\* The slots are always those of the mode and registers, and a register that selects
\* RAM is only ever held where there is RAM.
BanksInv ==
    /\ cart.mode \in 1..3
    /\ DOMAIN cart.regs = 1..4
    /\ \A i \in 1..4 : cart.regs[i] \in 0..255
    /\ \A i \in 1..3 : IsRom(cart.regs[i]) \/ Has(PrgRam)
    /\ cart.slots = Remap(cart.mode, cart.regs)

MemoryInv ==
    /\ DOMAIN cart = {"mode", "regs", "slots", "lock", "page", "exmode", "mul", "product"}
    /\ LocksInv /\ BanksInv

\* How a port operation that is none of the picture's ends: refused, or to be retired.
MemoryOutcome ==
    /\ Begins /\ UNCHANGED <<plan, clock, count>>
    /\ \/ status' = "ports" /\ UNCHANGED <<cost, memory>>
       \/ UNCHANGED status /\ cost' \in {4, 6} /\ op' \notin {"dma", "pattern"}

\* A port of the banks and RAM ends in one of the outcomes.
LEMMA MemoryOutcomes ==
    ASSUME NEW o, MemoryPort(o)
    PROVE  MemoryOutcome
<1> USE DEF Takes, Proceed, Fault
<1>1. ASSUME MapperMode(o.v) PROVE MemoryOutcome
  BY <1>1 DEF MapperMode, MemoryOutcome
<1>2. ASSUME NEW i, MapperRegister(i, o.v) PROVE MemoryOutcome
  BY <1>2 DEF MapperRegister, MemoryOutcome
<1>3. ASSUME Protect(o.at, o.v) PROVE MemoryOutcome
  BY <1>3 DEF Protect, MemoryOutcome
<1>4. ASSUME RamPage(o.v) PROVE MemoryOutcome
  BY <1>4 DEF RamPage, MemoryOutcome
<1>5. ASSUME NEW slot, StoreMapped(slot, o.v) PROVE MemoryOutcome
  BY <1>5 DEF StoreMapped, MemoryOutcome
<1>6. ASSUME ExMode(o.v) PROVE MemoryOutcome
  BY <1>6 DEF ExMode, MemoryOutcome
<1>7. ASSUME StoreEx(o.v) PROVE MemoryOutcome
  BY <1>7 DEF StoreEx, MemoryOutcome
<1>8. ASSUME NEW part, Multiply(part, o.v) PROVE MemoryOutcome
  BY <1>8 DEF Multiply, MemoryOutcome
<1> HIDE DEF MemoryOutcome
<1>9. QED
  BY <1>1, <1>2, <1>3, <1>4, <1>5, <1>6, <1>7, <1>8 DEF MemoryPort

\* A mode and registers the tools admit.
LEMMA MapsFacts ==
    ASSUME MemoryInv, NEW mode \in 1..3, NEW regs, UNCHANGED plan,
           DOMAIN regs = 1..4, \A i \in 1..4 : regs[i] \in 0..255,
           \A i \in 1..3 : IsRom(regs[i]) \/ Has(PrgRam),
           cart' = Maps(mode, regs), UNCHANGED wrote
    PROVE  MemoryInv'
<1>1. /\ DOMAIN cart' = DOMAIN cart
      /\ cart'.mode = mode /\ cart'.regs = regs /\ cart'.slots = Remap(mode, regs)
      /\ cart'.lock = cart.lock /\ cart'.exmode = cart.exmode
  <2> HIDE DEF Remap
  <2>1. QED
    BY DEF MemoryInv, Maps
<1>2. \A m, r : Remap(m, r) = Remap(m, r)'
  BY DEF Remap, Pair, One, Has
<1>3. QED
  BY <1>1, <1>2 DEF MemoryInv, LocksInv, BanksInv, Has

\* A step that keeps the mapper's mode and registers.
LEMMA BanksKept ==
    ASSUME BanksInv, UNCHANGED plan,
           cart'.mode = cart.mode, cart'.regs = cart.regs, cart'.slots = cart.slots
    PROVE  BanksInv'
<1>1. Remap(cart.mode, cart.regs)' = Remap(cart'.mode, cart'.regs)
  BY DEF Remap, Pair, One, Has
<1>2. QED
  BY <1>1 DEF BanksInv, Has, Remap, Pair, One

\* The ports of the banks and RAM keep their part of the invariant.
LEMMA MemoryKeeps ==
    ASSUME MemoryInv, NEW o, o.v \in 0..255, MemoryPort(o)
    PROVE  MemoryInv'
<1>0. UNCHANGED plan
  BY MemoryOutcomes DEF MemoryOutcome
<1>1. CASE UNCHANGED memory
  BY <1>0, <1>1, BanksKept DEF memory, MemoryInv, LocksInv
<1>2. CASE MapperMode(o.v) /\ ~UNCHANGED memory
  <2>1. o.v % 4 \in 1..3
    BY <1>2 DEF MapperMode
  <2>2. cart' = Maps(o.v % 4, cart.regs) /\ UNCHANGED wrote
    BY <1>2 DEF MapperMode
  <2>3. QED
    BY <1>0, <2>1, <2>2, MapsFacts DEF MemoryInv, BanksInv
<1>3. ASSUME NEW i \in 1..4, MapperRegister(i, o.v), ~UNCHANGED memory PROVE MemoryInv'
  <2> DEFINE regs == [cart.regs EXCEPT ![i] = o.v]
  <2>1. /\ i = 4 \/ ~SelectsAbsent(o.v)
        /\ cart' = Maps(cart.mode, regs) /\ UNCHANGED wrote
    BY <1>3 DEF MapperRegister
  <2>2. /\ DOMAIN regs = 1..4
        /\ \A k \in 1..4 : regs[k] \in 0..255
    BY DEF MemoryInv, BanksInv
  <2>3. \A k \in 1..3 : IsRom(regs[k]) \/ Has(PrgRam)
    BY <2>1 DEF MemoryInv, BanksInv, SelectsAbsent, IsRom
  <2>4. cart.mode \in 1..3
    BY DEF MemoryInv, BanksInv
  <2> HIDE DEF regs
  <2>5. QED
    BY <1>0, <2>1, <2>2, <2>3, <2>4, MapsFacts
<1>4. CASE o.at \in {"5102", "5103"} /\ Protect(o.at, o.v)
  <2>1. /\ cart' = [cart EXCEPT !.lock = LockAfter(o.at, o.v, cart.lock)]
        /\ wrote' = [wrote EXCEPT ![o.at] = o.v % 4]
    BY <1>4 DEF Protect
  <2>2. /\ DOMAIN cart' = DOMAIN cart /\ cart'.lock = LockAfter(o.at, o.v, cart.lock)
        /\ cart'.mode = cart.mode /\ cart'.regs = cart.regs /\ cart'.slots = cart.slots
        /\ cart'.exmode = cart.exmode
    BY <2>1 DEF MemoryInv
  <2>3. LocksInv'
    <3>1. CASE o.at = "5102"
      BY <3>1, <2>1, <2>2 DEF MemoryInv, LocksInv, LockAfter
    <3>2. CASE o.at = "5103"
      BY <3>2, <2>1, <2>2 DEF MemoryInv, LocksInv, LockAfter
    <3>3. QED
      BY <3>1, <3>2, <1>4
  <2>4. QED
    BY <1>0, <2>2, <2>3, BanksKept DEF MemoryInv
<1>5. CASE RamPage(o.v) /\ ~UNCHANGED memory
  <2>1. cart' = [cart EXCEPT !.page = o.v % 4] /\ UNCHANGED wrote
    BY <1>5 DEF RamPage
  <2>2. QED
    BY <1>0, <2>1, BanksKept DEF MemoryInv, LocksInv
<1>6. ASSUME NEW slot, StoreMapped(slot, o.v), ~UNCHANGED memory PROVE MemoryInv'
  <2>1. UNCHANGED <<cart, wrote>>
    BY <1>6 DEF StoreMapped
  <2>2. QED
    BY <1>0, <2>1, BanksKept DEF MemoryInv, LocksInv
<1>7. CASE ExMode(o.v) /\ ~UNCHANGED memory
  <2>1. /\ cart' = [cart EXCEPT !.exmode = o.v % 4]
        /\ wrote' = [wrote EXCEPT !["5104"] = o.v % 4]
    BY <1>7 DEF ExMode
  <2>2. QED
    BY <1>0, <2>1, BanksKept DEF MemoryInv, LocksInv
<1>8. CASE StoreEx(o.v)
  <2>1. UNCHANGED <<cart, wrote>>
    BY <1>8 DEF StoreEx
  <2>2. QED
    BY <1>0, <2>1, BanksKept DEF MemoryInv, LocksInv
<1>9. ASSUME NEW part, Multiply(part, o.v) PROVE MemoryInv'
  <2> DEFINE mul == [cart.mul EXCEPT ![part] = o.v]
  <2>1. cart' = [cart EXCEPT !.mul = mul, !.product = (mul[1] * mul[2]) % 65536]
    BY <1>9 DEF Multiply
  <2>2. UNCHANGED wrote
    BY <1>9 DEF Multiply
  <2>3. QED
    BY <1>0, <2>1, <2>2, BanksKept DEF MemoryInv, LocksInv
<1> HIDE DEF MemoryInv
<1>10. QED
  BY <1>1, <1>2, <1>3, <1>4, <1>5, <1>6, <1>7, <1>8, <1>9 DEF MemoryPort

\* A store to work RAM or ExRAM that has an effect was allowed.
LEMMA MemoryProtected ==
    ASSUME MemoryInv, NEW o, MemoryPort(o)
    PROVE  /\ ram' # ram => wrote["5102"] = 2 /\ wrote["5103"] = 1
           /\ exram' # exram => wrote["5104"] = 2
<1>1. CASE UNCHANGED <<ram, exram>>
  BY <1>1
<1>2. ASSUME NEW slot, StoreMapped(slot, o.v), ram' # ram
      PROVE  UNCHANGED exram /\ wrote["5102"] = 2 /\ wrote["5103"] = 1
  <2>1. cart.lock = 6 /\ UNCHANGED exram
    BY <1>2 DEF StoreMapped, Unlocked, memory
  <2>2. QED
    BY <2>1 DEF MemoryInv, LocksInv
<1>3. ASSUME StoreEx(o.v), exram' # exram
      PROVE  UNCHANGED ram /\ wrote["5104"] = 2
  BY <1>3 DEF StoreEx, MemoryInv, LocksInv
<1>4. CASE \/ \E slot \in 0..4 : StoreMapped(slot, o.v)
           \/ StoreEx(o.v)
  BY <1>2, <1>3, <1>4 DEF StoreMapped, StoreEx, memory
<1>5. CASE ~(\/ \E slot \in 0..4 : StoreMapped(slot, o.v)
             \/ StoreEx(o.v))
  <2>1. UNCHANGED <<ram, exram>>
    BY <1>5 DEF MemoryPort, MapperMode, MapperRegister, Protect, RamPage, ExMode, Multiply, memory
  <2>2. QED
    BY <2>1
<1>6. QED
  BY <1>4, <1>5

\* The elements of two joined pairs.
LEMMA Joined ==
    ASSUME NEW a, NEW b, NEW c, NEW d, NEW p, NEW q, p = <<a, b>>, q = <<c, d>>
    PROVE  (p \o q)[1] = a /\ (p \o q)[2] = b /\ (p \o q)[3] = c /\ (p \o q)[4] = d
OBVIOUS

\* One register: a ROM bank, or the RAM page the reference has no name for.
LEMMA BankFacts ==
    ASSUME NEW v \in 0..255
    PROVE  /\ RomBank(v) \in 0..127
           /\ RomBank(128 + (v % 128)) = RomBank(v)
           /\ RomBank(v + 128) = RomBank(v)
<1>1. CASE Banks = 4
  BY <1>1 DEF RomBank
<1>2. CASE Banks = 8
  BY <1>2 DEF RomBank
<1>3. CASE Banks = 16
  BY <1>3 DEF RomBank
<1>4. CASE Banks = 32
  BY <1>4 DEF RomBank
<1>5. CASE Banks = 64
  BY <1>5 DEF RomBank
<1>6. CASE Banks = 128
  BY <1>6 DEF RomBank
<1>7. QED
  BY <1>1, <1>2, <1>3, <1>4, <1>5, <1>6, BanksAssumption

\* The slots the code computes are those of the reference.
LEMMA SlotsFacts ==
    ASSUME BanksInv
    PROVE  SlotsAgree
<1> DEFINE r == cart.regs
           Agrees(expected, slot) == IF expected = Absent THEN slot \in RamPages ELSE slot = expected
           one(v) == IF IsRom(v) THEN RomBank(v) ELSE Absent
           pair(v) == IF one(v) = Absent THEN <<Absent, Absent>>
                      ELSE <<2 * (one(v) \div 2), 2 * (one(v) \div 2) + 1>>
           rom(v) == IF IsRom(v) THEN v ELSE v + 128
<1>1. ASSUME NEW v \in 0..255, IsRom(v) \/ Has(PrgRam)
      PROVE  /\ Agrees(one(v), One(v))
             /\ Agrees(pair(v)[1], Pair(v)[1]) /\ Agrees(pair(v)[2], Pair(v)[2])
  <2>0. RomBank(v) \in 0..127
    BY BankFacts
  <2>1. CASE IsRom(v)
    <3>1. One(v) = RomBank(v) /\ one(v) = RomBank(v) /\ RomBank(v) # Absent
      BY <2>0, <2>1 DEF One, Absent
    <3>2. Pair(v) = pair(v) /\ pair(v)[1] # Absent /\ pair(v)[2] # Absent
      <4>1. Pair(v) = <<RomBank(v) - (RomBank(v) % 2), RomBank(v) - (RomBank(v) % 2) + 1>>
        BY <3>1 DEF Pair
      <4>2. pair(v) = <<2 * (RomBank(v) \div 2), 2 * (RomBank(v) \div 2) + 1>>
        BY <3>1
      <4>3. 2 * (RomBank(v) \div 2) \in 0..126 /\ RomBank(v) - (RomBank(v) % 2) = 2 * (RomBank(v) \div 2)
        BY <2>0
      <4>4. QED
        BY <4>1, <4>2, <4>3 DEF Absent
    <3>3. QED
      BY <3>1, <3>2
  <2>2. CASE ~IsRom(v)
    <3>1. /\ one(v) = Absent /\ pair(v) = <<Absent, Absent>>
          /\ One(v) = 128 + (v % 4)
      BY <1>1, <2>2 DEF One
    <3>2. Pair(v) = <<One(v) - (One(v) % 2), One(v) - (One(v) % 2) + 1>>
      BY <3>1 DEF Pair, Absent
    <3>3. QED
      BY <3>1, <3>2 DEF RamPages
  <2>3. QED
    BY <2>1, <2>2
<1>2. ASSUME NEW v \in 0..255
      PROVE  /\ one(rom(v)) = RomBank(v) /\ RomBank(v) # Absent
             /\ pair(rom(v)) = Pair(128 + (v % 128))
             /\ pair(rom(v))[1] # Absent /\ pair(rom(v))[2] # Absent
  <2>1. IsRom(rom(v)) /\ rom(v) \in Nat /\ RomBank(rom(v)) = RomBank(v)
    BY BankFacts DEF IsRom
  <2>0. RomBank(v) \in 0..127
    BY BankFacts
  <2>2. one(rom(v)) = RomBank(v) /\ RomBank(v) # Absent
    BY <2>0, <2>1 DEF Absent
  <2>3. pair(rom(v)) = <<2 * (RomBank(v) \div 2), 2 * (RomBank(v) \div 2) + 1>>
    <3> HIDE DEF one, rom
    <3>1. QED
      BY <2>2
  <2>4. One(128 + (v % 128)) = RomBank(v)
    <3>1. RomBank(128 + (v % 128)) = RomBank(v)
      BY BankFacts
    <3>2. 128 + (v % 128) >= 128
      OBVIOUS
    <3>3. QED
      BY <3>1, <3>2 DEF One, IsRom
  <2>5. Pair(128 + (v % 128)) = <<RomBank(v) - (RomBank(v) % 2), RomBank(v) - (RomBank(v) % 2) + 1>>
    BY <2>2, <2>4 DEF Pair
  <2>6. 2 * (RomBank(v) \div 2) \in 0..126 /\ RomBank(v) - (RomBank(v) % 2) = 2 * (RomBank(v) \div 2)
    BY <2>0
  <2> HIDE DEF one, rom, pair
  <2>7. QED
    BY <2>2, <2>3, <2>5, <2>6 DEF Absent
<1>3. \A i \in 1..4 : r[i] \in 0..255
  BY DEF BanksInv
<1> DEFINE expected == ReferenceSlots(cart.mode, r)
<1>4. ASSUME \A k \in 1..4 : Agrees(expected[k], cart.slots[k])
      PROVE  SlotsAgree
  BY <1>4 DEF SlotsAgree
<1>5. ASSUME NEW i \in 1..3
      PROVE  /\ Agrees(one(r[i]), One(r[i]))
             /\ Agrees(pair(r[i])[1], Pair(r[i])[1])
             /\ Agrees(pair(r[i])[2], Pair(r[i])[2])
  <2>1. r[i] \in 0..255 /\ (IsRom(r[i]) \/ Has(PrgRam))
    BY DEF BanksInv
  <2> HIDE DEF Agrees, r, one, pair
  <2>2. QED
    BY <1>1, <2>1
<1>6. /\ Agrees(one(rom(r[4])), RomBank(r[4]))
      /\ Agrees(pair(rom(r[4]))[1], Pair(128 + (r[4] % 128))[1])
      /\ Agrees(pair(rom(r[4]))[2], Pair(128 + (r[4] % 128))[2])
  <2>1. r[4] \in 0..255
    BY <1>3
  <2> HIDE DEF r, one, pair, rom
  <2>2. QED
    BY <1>2, <2>1
<1>7. ASSUME NEW v
      PROVE  pair(v) = <<pair(v)[1], pair(v)[2]>> /\ Pair(v) = <<Pair(v)[1], Pair(v)[2]>>
  <2> HIDE DEF one
  <2>1. QED
    BY DEF Pair
<1>8. ASSUME NEW p, NEW q, p = <<p[1], p[2]>>, q = <<q[1], q[2]>>
      PROVE  (p \o q)[1] = p[1] /\ (p \o q)[2] = p[2] /\ (p \o q)[3] = q[1] /\ (p \o q)[4] = q[2]
  <2>1. PICK a, b, c, d : p = <<a, b>> /\ q = <<c, d>>
    BY <1>8, Zenon
  <2>2. p[1] = a /\ p[2] = b /\ q[1] = c /\ q[2] = d
    BY <2>1
  <2>3. (p \o q)[1] = a /\ (p \o q)[2] = b /\ (p \o q)[3] = c /\ (p \o q)[4] = d
    BY <2>1, Joined
  <2>4. QED
    BY <2>2, <2>3
<1>9. /\ cart.slots = Remap(cart.mode, r) /\ cart.mode \in 1..3
      /\ expected = IF cart.mode = 1 THEN pair(r[2]) \o pair(rom(r[4]))
                    ELSE IF cart.mode = 2 THEN pair(r[2]) \o <<one(r[3]), one(rom(r[4]))>>
                    ELSE <<one(r[1]), one(r[2]), one(r[3]), one(rom(r[4]))>>
  BY DEF BanksInv, ReferenceSlots
<1> HIDE DEF Agrees, r, one, pair, rom, expected
<1>10. CASE cart.mode = 1
  <2>1. /\ expected[1] = pair(r[2])[1] /\ expected[2] = pair(r[2])[2]
        /\ expected[3] = pair(rom(r[4]))[1] /\ expected[4] = pair(rom(r[4]))[2]
    BY <1>7, <1>8, <1>9, <1>10
  <2>2. /\ cart.slots[1] = Pair(r[2])[1] /\ cart.slots[2] = Pair(r[2])[2]
        /\ cart.slots[3] = Pair(128 + (r[4] % 128))[1]
        /\ cart.slots[4] = Pair(128 + (r[4] % 128))[2]
    BY <1>7, <1>8, <1>9, <1>10 DEF Remap
  <2>3. QED
    BY <1>4, <1>5, <1>6, <2>1, <2>2
<1>11. CASE cart.mode = 2
  <2>1. /\ expected[1] = pair(r[2])[1] /\ expected[2] = pair(r[2])[2]
        /\ expected[3] = one(r[3]) /\ expected[4] = one(rom(r[4]))
    BY <1>7, <1>8, <1>9, <1>11
  <2>2. /\ cart.slots[1] = Pair(r[2])[1] /\ cart.slots[2] = Pair(r[2])[2]
        /\ cart.slots[3] = One(r[3]) /\ cart.slots[4] = RomBank(r[4])
    <3>1. cart.slots = Pair(r[2]) \o <<One(r[3]), RomBank(r[4])>>
      BY <1>9, <1>11 DEF Remap
    <3>2. QED
      BY <1>7, <1>8, <3>1
  <2>3. QED
    BY <1>4, <1>5, <1>6, <2>1, <2>2
<1>12. CASE cart.mode = 3
  <2>1. /\ expected[1] = one(r[1]) /\ expected[2] = one(r[2])
        /\ expected[3] = one(r[3]) /\ expected[4] = one(rom(r[4]))
    BY <1>9, <1>12
  <2>2. /\ cart.slots[1] = One(r[1]) /\ cart.slots[2] = One(r[2])
        /\ cart.slots[3] = One(r[3]) /\ cart.slots[4] = RomBank(r[4])
    BY <1>9, <1>12 DEF Remap
  <2>3. QED
    BY <1>4, <1>5, <1>6, <2>1, <2>2
<1>13. QED
  BY <1>9, <1>10, <1>11, <1>12
-----------------------------------------------------------------------------
\* The picture.

\* A register that is valid was written under the bank size in force.
BankSizes ==
    /\ chr.mode \in 0..3 /\ chr.last \in {"a", "b"}
    /\ DOMAIN under = Registers
    /\ \A r \in chr.valid : r \in Registers /\ under[r] = chr.mode

\* The backdrops of the sprites are those of the background.
Backdrops ==
    /\ DOMAIN palette = 0..31
    /\ \A i \in {0, 4, 8, 12} : palette[i + 16] = palette[i]

PictureInv ==
    /\ DOMAIN ppu = {"ctrl", "mask", "w", "x", "t", "v", "buffer", "latch", "map", "fill", "attr"}
    /\ ppu.v \in Int /\ ppu.t \in Int
    /\ DOMAIN chr = {"mode", "valid", "last", "regs", "upper"}
    /\ BankSizes /\ Backdrops

\* The bank of the cell at the PPU address was selected under the size in force.
FetchFits == under[RegisterOf(At \div 1024)] = chr.mode

PictureOutcome ==
    /\ Begins /\ UNCHANGED <<plan, clock, count>>
    /\ \/ status' = "ports" /\ UNCHANGED <<cost, picture>>
       \/ UNCHANGED status /\ cost' = 4 /\ op' # "dma" /\ (op' = "pattern" => FetchFits)

\* How the two forms of a port operation end.
LEMMA UnsupportedFacts ==
    ASSUME NEW name, Begins, Unsupported(name)
    PROVE  PictureOutcome
BY DEF Unsupported, Fault, PictureOutcome

\* A picture port that is taken ends in one of the outcomes.
LEMMA TakesFacts ==
    ASSUME NEW name, name # "dma", name = "pattern" => FetchFits, Begins, Takes(name)
    PROVE  PictureOutcome
<1> HIDE DEF FetchFits
<1>1. QED
  BY DEF Takes, Proceed, PictureOutcome

\* A register required in the present size is the one behind a slot.
LEMMA RequiredFacts ==
    ASSUME PictureInv, NEW slot \in 0..7
    PROVE  RegisterOf(slot) \in Required
<1>1. chr.mode \in 0..3 /\ chr.last \in {"a", "b"}
  BY DEF PictureInv, BankSizes
<1>2. CASE chr.mode = 0
  BY <1>1, <1>2 DEF RegisterOf, Group, Required
<1>3. CASE chr.mode = 1
  BY <1>1, <1>3 DEF RegisterOf, Group, Required
<1>4. CASE chr.mode = 2
  BY <1>1, <1>4 DEF RegisterOf, Group, Required
<1>5. CASE chr.mode = 3
  BY <1>1, <1>5 DEF RegisterOf, Group, Required
<1>6. QED
  BY <1>1, <1>2, <1>3, <1>4, <1>5

\* A pattern cell that is not refused.
LEMMA PatternFacts ==
    ASSUME PictureInv, IsPattern, ~PatternRefused
    PROVE  FetchFits
<1>1. At \div 1024 \in 0..7
  BY DEF IsPattern, At, PictureInv
<1>2. RegisterOf(At \div 1024) \in Required
  BY <1>1, RequiredFacts
<1>3. RegisterOf(At \div 1024) \in chr.valid
  BY <1>2 DEF PatternRefused
<1>4. QED
  BY <1>3 DEF FetchFits, PictureInv, BankSizes

\* A new value of the PPU's own registers, and nothing else.
LEMMA SetsFacts ==
    ASSUME PictureInv, NEW name, NEW value, Sets(name, value),
           DOMAIN value = DOMAIN ppu, value.v \in Int, value.t \in Int
    PROVE  PictureInv' /\ Takes(name)
BY DEF Sets, PictureInv, BankSizes, Backdrops

\* An increment keeps the fields, and the addresses numbers.
LEMMA IncrementFacts ==
    ASSUME NEW q, "v" \in DOMAIN q, "t" \in DOMAIN q, q.v \in Int, q.t \in Int
    PROVE  /\ DOMAIN Increment(q) = DOMAIN q
           /\ Increment(q).v \in Int /\ Increment(q).t \in Int
<1>1. Increment(q).v = (q.v + (IF Bit(q.ctrl, 4) = 1 THEN 32 ELSE 1)) % 32768
  <2> HIDE DEF Bit
  <2>1. QED
    BY DEF Increment
<1>2. QED
  BY <1>1 DEF Increment

\* A refused picture port leaves the invariant and an outcome.
LEMMA RefusedKeeps ==
    ASSUME PictureInv, NEW name, Begins, Unsupported(name)
    PROVE  PictureInv' /\ PictureOutcome
<1>1. UNCHANGED picture
  BY DEF Unsupported
<1>2. PictureInv'
  BY <1>1 DEF picture, PictureInv, BankSizes, Backdrops
<1>3. QED
  BY <1>2, UnsupportedFacts

\* The registers with no effect beyond the PPU's own state.
LEMMA RegistersKeep ==
    ASSUME PictureInv, NEW v \in 0..255,
           \/ PpuControl(v) \/ PpuMask(v) \/ PpuLatchWrite(v) \/ PpuStatusRead
           \/ PpuScroll(v) \/ PpuAddress(v) \/ PpuMap(v) \/ PpuFillTile(v) \/ PpuFillAttr(v)
    PROVE  PictureInv' /\ PictureOutcome
<1> DEFINE Names == {"control", "mask", "latch", "scroll", "address", "map", "fill", "status"}
<1>1. ppu.t \in Int /\ Field(ppu.t, 1024) \in Int
  BY DEF PictureInv, Field
<1>2. ASSUME NEW name \in Names, NEW value, Begins, Sets(name, value),
             DOMAIN value = DOMAIN ppu, value.v \in Int, value.t \in Int
      PROVE  PictureInv' /\ PictureOutcome
  BY <1>2, SetsFacts, TakesFacts
<1>3. ASSUME NEW name \in Names, Begins, Unsupported(name)
      PROVE  PictureInv' /\ PictureOutcome
  BY <1>3, RefusedKeeps
<1>4. CASE PpuControl(v)
  <2> DEFINE value == [ppu EXCEPT !.ctrl = v, !.latch = v,
                                  !.t = @ - Field(@, 1024) * 1024 + (v % 4) * 1024]
  <2>1. DOMAIN value = DOMAIN ppu /\ value.v \in Int /\ value.t \in Int
    <3> HIDE DEF Field
    <3>1. QED
      BY <1>1 DEF PictureInv
  <2>2. Begins /\ (Unsupported("control") \/ Sets("control", value))
    BY <1>4 DEF PpuControl
  <2> HIDE DEF value
  <2>3. QED
    BY <1>2, <1>3, <2>1, <2>2
<1>5. CASE PpuMask(v)
  <2> DEFINE value == [ppu EXCEPT !.mask = v, !.latch = v]
  <2>1. DOMAIN value = DOMAIN ppu /\ value.v \in Int /\ value.t \in Int
    BY DEF PictureInv
  <2>2. Begins /\ (Unsupported("mask") \/ Sets("mask", value))
    BY <1>5 DEF PpuMask
  <2> HIDE DEF value
  <2>3. QED
    BY <1>2, <1>3, <2>1, <2>2
<1>6. CASE PpuLatchWrite(v)
  <2> DEFINE value == [ppu EXCEPT !.latch = v]
  <2>1. DOMAIN value = DOMAIN ppu /\ value.v \in Int /\ value.t \in Int
    BY DEF PictureInv
  <2>2. Begins /\ Sets("latch", value)
    BY <1>6 DEF PpuLatchWrite
  <2> HIDE DEF value
  <2>3. QED
    BY <1>2, <2>1, <2>2
<1>7. CASE PpuStatusRead
  BY <1>3, <1>7 DEF PpuStatusRead
<1>8. CASE PpuScroll(v)
  <2> DEFINE first == [ppu EXCEPT !.latch = v, !.w = 1, !.x = v % 8,
                                  !.t = @ - (@ % 32) + (v \div 8)]
             second == [ppu EXCEPT !.latch = v, !.w = 0,
                                   !.t = (@ % 32) + Field(@, 1024) * 1024 + (v \div 8) * 32
                                         + (v % 8) * 4096]
  <2>1. DOMAIN first = DOMAIN ppu /\ first.v \in Int /\ first.t \in Int
    BY <1>1 DEF PictureInv
  <2>2. DOMAIN second = DOMAIN ppu /\ second.v \in Int /\ second.t \in Int
    <3> HIDE DEF Field
    <3>1. QED
      BY <1>1 DEF PictureInv
  <2>3. Begins /\ (Sets("scroll", first) \/ Sets("scroll", second))
    BY <1>8 DEF PpuScroll
  <2> HIDE DEF first, second
  <2>4. QED
    BY <1>2, <2>1, <2>2, <2>3
<1>9. CASE PpuAddress(v)
  <2> DEFINE first == [ppu EXCEPT !.latch = v, !.w = 1, !.t = (@ % 256) + (v % 64) * 256]
             t == ppu.t - (ppu.t % 256) + v
             second == [ppu EXCEPT !.latch = v, !.w = 0, !.t = t, !.v = t]
  <2>1. DOMAIN first = DOMAIN ppu /\ first.v \in Int /\ first.t \in Int
    BY <1>1 DEF PictureInv
  <2>2. DOMAIN second = DOMAIN ppu /\ second.v \in Int /\ second.t \in Int
    BY <1>1 DEF PictureInv
  <2>3. Begins /\ (Sets("address", first) \/ Sets("address", second))
    BY <1>9 DEF PpuAddress
  <2> HIDE DEF first, second
  <2>4. QED
    BY <1>2, <2>1, <2>2, <2>3
<1>10. CASE PpuMap(v)
  <2> DEFINE value == [ppu EXCEPT !.map = v]
  <2>1. DOMAIN value = DOMAIN ppu /\ value.v \in Int /\ value.t \in Int
    BY DEF PictureInv
  <2>2. Begins /\ (Unsupported("map") \/ Sets("map", value))
    BY <1>10 DEF PpuMap
  <2> HIDE DEF value
  <2>3. QED
    BY <1>2, <1>3, <2>1, <2>2
<1>11. CASE PpuFillTile(v)
  <2> DEFINE value == [ppu EXCEPT !.fill = v]
  <2>1. DOMAIN value = DOMAIN ppu /\ value.v \in Int /\ value.t \in Int
    BY DEF PictureInv
  <2>2. Begins /\ Sets("fill", value)
    BY <1>11 DEF PpuFillTile
  <2> HIDE DEF value
  <2>3. QED
    BY <1>2, <2>1, <2>2
<1>12. CASE PpuFillAttr(v)
  <2> DEFINE value == [ppu EXCEPT !.attr = v % 4]
  <2>1. DOMAIN value = DOMAIN ppu /\ value.v \in Int /\ value.t \in Int
    BY DEF PictureInv
  <2>2. Begins /\ (Unsupported("fill") \/ Sets("fill", value))
    BY <1>12 DEF PpuFillAttr
  <2> HIDE DEF value
  <2>3. QED
    BY <1>2, <1>3, <2>1, <2>2
<1>13. QED
  BY <1>4, <1>5, <1>6, <1>7, <1>8, <1>9, <1>10, <1>11, <1>12

\* The registers of the CHR banks.
LEMMA ChrKeeps ==
    ASSUME PictureInv, NEW v \in 0..255,
           \/ ChrModeWrite(v) \/ ChrUpper(v) \/ \E r \in Registers : ChrRegister(r, v)
    PROVE  PictureInv' /\ PictureOutcome
<1>1. ASSUME NEW name \in {"chrmode", "chr"}, Begins, Unsupported(name)
      PROVE  PictureInv' /\ PictureOutcome
  BY <1>1, RefusedKeeps
<1>2. ASSUME NEW name \in {"chrmode", "upper", "chr"}, Begins, Takes(name)
      PROVE  PictureOutcome
  BY <1>2, TakesFacts
<1>3. CASE ChrModeWrite(v) /\ ~Unsupported("chrmode")
  <2>1. /\ Begins /\ Takes("chrmode") /\ chr' = ModeAfter(v % 4)
        /\ UNCHANGED <<ppu, palette, under>>
    BY <1>3 DEF ChrModeWrite
  <2>2. v % 4 \in 0..3
    OBVIOUS
  <2>3. /\ DOMAIN chr' = DOMAIN chr /\ chr'.mode \in 0..3 /\ chr'.last = chr.last
        /\ \A r \in chr'.valid : r \in chr.valid /\ chr'.mode = chr.mode
    BY <2>1, <2>2 DEF ModeAfter, PictureInv, BankSizes
  <2>4. PictureInv'
    BY <2>1, <2>3 DEF PictureInv, BankSizes, Backdrops
  <2>5. QED
    BY <1>2, <2>1, <2>4
<1>4. CASE ChrUpper(v)
  <2>1. /\ Begins /\ Takes("upper") /\ chr' = [chr EXCEPT !.upper = v % 4]
        /\ UNCHANGED <<ppu, palette, under>>
    BY <1>4 DEF ChrUpper
  <2>2. PictureInv'
    BY <2>1 DEF PictureInv, BankSizes, Backdrops
  <2>3. QED
    BY <1>2, <2>1, <2>2
<1>5. ASSUME NEW r \in Registers, ChrRegister(r, v), ~Unsupported("chr")
      PROVE  PictureInv' /\ PictureOutcome
  <2>1. /\ Begins /\ Takes("chr")
        /\ chr' = [chr EXCEPT !.regs[r] = v + 256 * chr.upper,
                              !.last = IF r > 7 THEN "b" ELSE "a",
                              !.valid = @ \cup {r}]
        /\ under' = [under EXCEPT ![r] = chr.mode]
        /\ UNCHANGED <<ppu, palette>>
    BY <1>5 DEF ChrRegister
  <2>2. /\ DOMAIN chr' = DOMAIN chr /\ chr'.mode = chr.mode
        /\ chr'.last = (IF r > 7 THEN "b" ELSE "a")
        /\ chr'.valid = chr.valid \cup {r}
    BY <2>1 DEF PictureInv
  <2>3. BankSizes'
    BY <2>1, <2>2 DEF PictureInv, BankSizes
  <2>4. PictureInv'
    BY <2>1, <2>2, <2>3 DEF PictureInv, Backdrops
  <2>5. QED
    BY <1>2, <2>1, <2>4
<1>6. QED
  BY <1>1, <1>3, <1>4, <1>5 DEF ChrModeWrite, ChrRegister

\* $2007 on a pattern or nametable cell.
LEMMA DataKeeps ==
    ASSUME PictureInv, NEW v \in 0..255, PpuDataRead \/ PpuDataWrite(v)
    PROVE  PictureInv' /\ PictureOutcome
<1> DEFINE name == IF IsPattern THEN "pattern" ELSE "data"
<1>1. ASSUME Begins, Unsupported("pattern")
      PROVE  PictureInv' /\ PictureOutcome
  BY <1>1, RefusedKeeps
<1>2. ASSUME Begins, Takes(name), IsPattern => ~PatternRefused
      PROVE  PictureOutcome
  <2>1. name # "dma" /\ (name = "pattern" => FetchFits)
    <3> HIDE DEF FetchFits
    <3>1. QED
      BY <1>2, PatternFacts
  <2> HIDE DEF name
  <2>2. QED
    BY <1>2, <2>1, TakesFacts
<1>3. CASE PpuDataRead /\ ~Unsupported("pattern")
  <2> DEFINE fetched == IF IsPattern THEN FromPattern ELSE FromNametable(Page, At % 1024)
  <2>1. /\ Begins /\ (IsPattern => ~PatternRefused)
        /\ Sets(name, Increment([ppu EXCEPT !.latch = ppu.buffer, !.buffer = fetched]))
    BY <1>3, Zenon DEF PpuDataRead
  <2> DEFINE read == [ppu EXCEPT !.latch = ppu.buffer, !.buffer = fetched]
  <2>2. DOMAIN read = DOMAIN ppu /\ read.v \in Int /\ read.t \in Int
    BY DEF PictureInv
  <2>3. "v" \in DOMAIN read /\ "t" \in DOMAIN read
    BY <2>2 DEF PictureInv
  <2> HIDE DEF read, name
  <2>4. Sets(name, Increment(read))
    BY <2>1 DEF read
  <2>5. /\ DOMAIN Increment(read) = DOMAIN ppu
        /\ Increment(read).v \in Int /\ Increment(read).t \in Int
    BY <2>2, <2>3, IncrementFacts
  <2>6. PictureInv' /\ Takes(name)
    BY <2>4, <2>5, SetsFacts
  <2>7. QED
    BY <1>2, <2>1, <2>6
<1>4. CASE PpuDataWrite(v) /\ ~Unsupported("pattern")
  <2> DEFINE written == [ppu EXCEPT !.latch = v]
  <2>1. /\ Begins /\ (IsPattern => ~PatternRefused) /\ Takes(name)
        /\ ppu' = Increment(written) /\ UNCHANGED <<palette, chr, under>>
    BY <1>4 DEF PpuDataWrite
  <2>2. DOMAIN written = DOMAIN ppu /\ written.v \in Int /\ written.t \in Int
    BY DEF PictureInv
  <2>3. "v" \in DOMAIN written /\ "t" \in DOMAIN written
    BY <2>2 DEF PictureInv
  <2> HIDE DEF written
  <2>4. DOMAIN ppu' = DOMAIN ppu /\ ppu'.v \in Int /\ ppu'.t \in Int
    BY <2>1, <2>2, <2>3, IncrementFacts
  <2>5. PictureInv'
    BY <2>1, <2>4 DEF PictureInv, BankSizes, Backdrops
  <2>6. QED
    BY <1>2, <2>1, <2>5
<1> HIDE DEF name
<1>5. QED
  BY <1>1, <1>3, <1>4 DEF PpuDataRead, PpuDataWrite

\* A color, and its mirror when it is a backdrop.
LEMMA ColorFacts ==
    ASSUME PictureInv, NEW color, palette' = StoreColor(PaletteIndex, color)
    PROVE  Backdrops'
<1>1. /\ PaletteIndex \in 0..31
      /\ PaletteIndex % 4 = 0 => PaletteIndex \in {0, 4, 8, 12}
  BY DEF PaletteIndex, At, PictureInv
<1>2. CASE PaletteIndex % 4 = 0
  <2>1. palette' = [palette EXCEPT ![PaletteIndex] = color, ![PaletteIndex + 16] = color]
    BY <1>2 DEF StoreColor
  <2> HIDE DEF PaletteIndex
  <2>2. QED
    BY <1>1, <1>2, <2>1 DEF PictureInv, Backdrops
<1>3. CASE PaletteIndex % 4 # 0
  <2>1. palette' = [palette EXCEPT ![PaletteIndex] = color]
    BY <1>3 DEF StoreColor
  <2>2. \A i \in {0, 4, 8, 12} : i # PaletteIndex /\ i + 16 # PaletteIndex
    BY <1>3
  <2> HIDE DEF PaletteIndex
  <2>3. QED
    BY <1>1, <2>1, <2>2 DEF PictureInv, Backdrops
<1>4. QED
  BY <1>2, <1>3

\* A read or a write of palette data keeps the invariant of the picture ports.
LEMMA PaletteKeeps ==
    ASSUME PictureInv, NEW v \in 0..255, PaletteDataRead \/ PaletteDataWrite(v)
    PROVE  PictureInv' /\ PictureOutcome
<1>1. ASSUME Begins, Unsupported("data")
      PROVE  PictureInv' /\ PictureOutcome
  BY <1>1, RefusedKeeps
<1>2. ASSUME Begins, Takes("data") PROVE PictureOutcome
  BY <1>2, TakesFacts
<1>3. CASE PaletteDataRead /\ ~Unsupported("data")
  <2>1. PICK buffer, latch :
          Begins /\ Sets("data", Increment([ppu EXCEPT !.buffer = buffer, !.latch = latch]))
    BY <1>3 DEF PaletteDataRead
  <2> DEFINE read == [ppu EXCEPT !.buffer = buffer, !.latch = latch]
  <2>2. DOMAIN read = DOMAIN ppu /\ read.v \in Int /\ read.t \in Int
    BY DEF PictureInv
  <2>3. "v" \in DOMAIN read /\ "t" \in DOMAIN read
    BY <2>2 DEF PictureInv
  <2> HIDE DEF read
  <2>4. Sets("data", Increment(read))
    BY <2>1 DEF read
  <2>5. /\ DOMAIN Increment(read) = DOMAIN ppu
        /\ Increment(read).v \in Int /\ Increment(read).t \in Int
    BY <2>2, <2>3, IncrementFacts
  <2>6. PictureInv' /\ Takes("data")
    BY <2>4, <2>5, SetsFacts
  <2>7. QED
    BY <1>2, <2>1, <2>6
<1>4. CASE PaletteDataWrite(v) /\ ~Unsupported("data")
  <2> DEFINE written == [ppu EXCEPT !.latch = v]
  <2>1. /\ Begins /\ Takes("data")
        /\ palette' = StoreColor(PaletteIndex, v % 64)
        /\ ppu' = Increment(written) /\ UNCHANGED <<chr, under>>
    BY <1>4 DEF PaletteDataWrite
  <2>2. DOMAIN written = DOMAIN ppu /\ written.v \in Int /\ written.t \in Int
    BY DEF PictureInv
  <2>3. "v" \in DOMAIN written /\ "t" \in DOMAIN written
    BY <2>2 DEF PictureInv
  <2> HIDE DEF written
  <2>4. DOMAIN ppu' = DOMAIN ppu /\ ppu'.v \in Int /\ ppu'.t \in Int
    BY <2>1, <2>2, <2>3, IncrementFacts
  <2>5. Backdrops'
    BY <2>1, ColorFacts
  <2>6. PictureInv'
    BY <2>1, <2>4, <2>5 DEF PictureInv, BankSizes
  <2>7. QED
    BY <1>2, <2>1, <2>6
<1>5. QED
  BY <1>1, <1>3, <1>4 DEF PaletteDataRead, PaletteDataWrite

\* The picture ports keep their part of the invariant.
LEMMA PictureKeeps ==
    ASSUME PictureInv, NEW o, o.v \in 0..255, PicturePort(o)
    PROVE  PictureInv' /\ PictureOutcome
<1>1. \/ \/ PpuControl(o.v) \/ PpuMask(o.v) \/ PpuLatchWrite(o.v) \/ PpuStatusRead
         \/ PpuScroll(o.v) \/ PpuAddress(o.v) \/ PpuMap(o.v) \/ PpuFillTile(o.v) \/ PpuFillAttr(o.v)
      \/ ChrModeWrite(o.v) \/ ChrUpper(o.v) \/ \E r \in Registers : ChrRegister(r, o.v)
      \/ PpuDataRead \/ PpuDataWrite(o.v)
      \/ PaletteDataRead \/ PaletteDataWrite(o.v)
  BY DEF PicturePort
<1>2. QED
  BY <1>1, RegistersKeep, ChrKeeps, DataKeeps, PaletteKeeps
-----------------------------------------------------------------------------
\* The objects.

ObjectInv ==
    /\ oa \in 0..OamBytes - 1
    /\ DOMAIN oam = 0..OamBytes - 1
    /\ \A i \in 0..OamBytes - 1 : i % 4 = 2 => (oam[i] \div 4) % 8 = 0

ObjectOutcome ==
    /\ Begins /\ UNCHANGED <<plan, count>>
    /\ \/ status' \in {"ports", "clock"} /\ UNCHANGED <<clock, cost, picture, objects>>
       \/ UNCHANGED <<status, clock>> /\ cost' = 4 /\ op' = "oam"
       \/ /\ UNCHANGED status /\ ~DmaOverflow(clock) /\ clock' = clock + Stall(clock)
          /\ cost' = 4 /\ op' = "dma"

\* What an attribute byte keeps of a byte.
LEMMA StoredFacts ==
    ASSUME NEW i \in Nat, NEW v \in 0..255, i % 4 = 2
    PROVE  (Stored(i, v) \div 4) % 8 = 0
BY DEF Stored

\* An object port ends in one of the outcomes.
LEMMA ObjectOutcomes ==
    ASSUME NEW o, ObjectPort(o)
    PROVE  ObjectOutcome
<1> USE DEF Sets, Takes, Proceed, Fault
<1>1. ASSUME OamAddressWrite(o.v) PROVE ObjectOutcome
  BY <1>1 DEF OamAddressWrite, ObjectOutcome
<1>2. ASSUME OamDataRead PROVE ObjectOutcome
  BY <1>2 DEF OamDataRead, ObjectOutcome
<1>3. ASSUME OamDataWrite(o.v) PROVE ObjectOutcome
  BY <1>3 DEF OamDataWrite, ObjectOutcome
<1>4. ASSUME OamDmaRun(o.v) PROVE ObjectOutcome
  <2> HIDE DEF DmaOverflow, Stall, DmaRefused
  <2>1. QED
    BY <1>4 DEF OamDmaRun, ObjectOutcome
<1> HIDE DEF ObjectOutcome
<1>5. QED
  BY <1>1, <1>2, <1>3, <1>4 DEF ObjectPort

\* The latch aside, these ports leave the picture alone.
LEMMA LatchKeeps ==
    ASSUME PictureInv, NEW v, ppu' = [ppu EXCEPT !.latch = v],
           UNCHANGED <<palette, chr, under>>
    PROVE  PictureInv'
BY DEF PictureInv, BankSizes, Backdrops

\* The object ports keep their part of the invariant.
LEMMA ObjectKeeps ==
    ASSUME PictureInv, ObjectInv, NEW o, o.v \in 0..255, ObjectPort(o)
    PROVE  PictureInv' /\ ObjectInv'
<1>1. CASE UNCHANGED <<picture, objects>>
  BY <1>1 DEF picture, objects, PictureInv, BankSizes, Backdrops, ObjectInv
<1>2. CASE OamAddressWrite(o.v) /\ ~UNCHANGED <<picture, objects>>
  <2>1. /\ ppu' = [ppu EXCEPT !.latch = o.v] /\ UNCHANGED <<palette, chr, under>>
        /\ oa' = o.v % OamBytes /\ UNCHANGED oam
    BY <1>2 DEF OamAddressWrite, Sets
  <2>2. o.v % OamBytes \in 0..OamBytes - 1
    <3>1. \A n \in Nat : n % OamBytes \in 0..OamBytes - 1
      BY PageAssumption
    <3>2. QED
      BY <3>1
  <2>3. QED
    BY <2>1, <2>2, LatchKeeps DEF ObjectInv
<1>3. CASE OamDataRead /\ ~UNCHANGED <<picture, objects>>
  <2>1. /\ ppu' = [ppu EXCEPT !.latch = oam[oa]] /\ UNCHANGED <<palette, chr, under>>
        /\ UNCHANGED objects
    BY <1>3 DEF OamDataRead, Sets
  <2>2. QED
    BY <2>1, LatchKeeps DEF ObjectInv, objects
<1>4. CASE OamDataWrite(o.v) /\ ~UNCHANGED <<picture, objects>>
  <2>1. /\ ppu' = [ppu EXCEPT !.latch = o.v] /\ UNCHANGED <<palette, chr, under>>
        /\ oam' = [oam EXCEPT ![oa] = Stored(oa, o.v)] /\ oa' = (oa + 1) % OamBytes
    BY <1>4 DEF OamDataWrite, Sets
  <2>2. oa \in Nat /\ (oa + 1) % OamBytes \in 0..OamBytes - 1
    BY PageAssumption DEF ObjectInv
  <2>3. oa % 4 = 2 => (Stored(oa, o.v) \div 4) % 8 = 0
    BY <2>2, StoredFacts
  <2> HIDE DEF Stored
  <2>4. ObjectInv'
    BY <2>1, <2>2, <2>3 DEF ObjectInv
  <2>5. QED
    BY <2>1, <2>4, LatchKeeps
<1>5. CASE OamDmaRun(o.v) /\ ~UNCHANGED <<picture, objects>>
  <2> DEFINE copied(i) == PageData(o.v % 8, (i - oa) % OamBytes)
  <2>1. /\ oam' = [i \in 0..OamBytes - 1 |-> Stored(i, copied(i))] /\ UNCHANGED oa
        /\ ppu' = [ppu EXCEPT !.latch = PageData(o.v % 8, OamBytes - 1)]
        /\ UNCHANGED <<palette, chr, under>>
    BY <1>5 DEF OamDmaRun
  <2>2. ASSUME NEW i \in 0..OamBytes - 1
        PROVE  i \in Nat /\ copied(i) \in 0..255
    <3>1. (i - oa) % OamBytes \in 0..OamBytes - 1 /\ i \in Nat
      BY PageAssumption DEF ObjectInv
    <3>2. o.v % 8 \in 0..7
      OBVIOUS
    <3>3. QED
      BY <3>1, <3>2, PageAssumption
  <2> HIDE DEF copied
  <2>3. \A i \in 0..OamBytes - 1 : i % 4 = 2 => (Stored(i, copied(i)) \div 4) % 8 = 0
    BY <2>2, StoredFacts
  <2>4. ObjectInv'
    <3> HIDE DEF Stored
    <3>1. QED
      BY <2>1, <2>3 DEF ObjectInv
  <2>5. QED
    BY <2>1, <2>4, LatchKeeps
<1>6. QED
  BY <1>1, <1>2, <1>3, <1>4, <1>5 DEF ObjectPort
-----------------------------------------------------------------------------
\* The program.

CoreInv ==
    /\ plan \in Plans /\ clock \in Nat /\ cost \in Nat
    /\ MemoryInv /\ PictureInv /\ ObjectInv

\* Between two instructions the row is the machine; a transfer begun has room to retire.
RowInv ==
    /\ status = "running" /\ cost = 0 => Machine = row
    /\ status = "running" /\ op = "dma" /\ cost > 0 => ~ClockFull(clock)
    /\ FaultsWhole

\* The clock after the transfer, and after its store.
ParityInv == status = "running" /\ op = "dma" => clock % 2 = 0 /\ cost \in {0, 4}

\* What a plan fixes: an even origin, a CHR size, byte values.
LEMMA PlanFacts ==
    ASSUME NEW p \in Plans
    PROVE  /\ p.origin \in Nat /\ p.origin % 2 = 0 /\ p.chrmode \in 0..3
           /\ \A o \in p.ops : o.v \in 0..255
<1>1. Wrap \in Int
  BY ClockAssumption DEF Wrap
<1> HIDE DEF Wrap
<1>2. QED
  BY <1>1, PlansAssumption DEF ValidPlan, Synchronized

\* The machine at the start satisfies the invariant.
LEMMA InitCore == Init => CoreInv
<1> SUFFICES ASSUME Init PROVE CoreInv
  OBVIOUS
<1>1. plan \in Plans /\ clock \in Nat /\ cost \in Nat
  BY PlanFacts DEF Init
<1>2. MemoryInv
  <2>1. /\ cart = [mode |-> 3, regs |-> InitialRegs, slots |-> Remap(3, InitialRegs), lock |-> 0,
                   page |-> 0, exmode |-> InitialEx.mode, mul |-> InitialEx.mul, product |-> 0]
        /\ wrote = [r \in {"5102", "5103", "5104"} |-> 0]
    BY DEF Init, InitMemory
  <2>2. LocksInv
    BY <2>1 DEF LocksInv, InitialEx
  <2>3. BanksInv
    BY <2>1 DEF BanksInv, InitialRegs, IsRom
  <2>4. QED
    BY <2>1, <2>2, <2>3 DEF MemoryInv
<1>3. PictureInv
  <2>1. plan.chrmode \in 0..3
    BY <1>1, PlanFacts
  <2>2. /\ chr = [mode |-> plan.chrmode, valid |-> Registers, last |-> "a",
                  regs |-> [r \in Registers |-> 0], upper |-> 0]
        /\ under = [r \in Registers |-> plan.chrmode]
        /\ palette = [i \in 0..31 |-> 0]
    BY DEF Init, InitPicture, InitialChr, InitialPalette
  <2>3. BankSizes
    BY <2>1, <2>2 DEF BankSizes
  <2>4. Backdrops
    BY <2>2 DEF Backdrops
  <2>5. /\ DOMAIN ppu = {"ctrl", "mask", "w", "x", "t", "v", "buffer", "latch", "map", "fill", "attr"}
        /\ ppu.v \in Int /\ ppu.t \in Int
    BY DEF Init, InitPicture
  <2>6. QED
    BY <2>2, <2>3, <2>4, <2>5 DEF PictureInv
<1>4. ObjectInv
  BY PageAssumption DEF Init, InitObjects, ObjectInv
<1>5. QED
  BY <1>1, <1>2, <1>3, <1>4 DEF CoreInv

\* The steps of the program, by the outcome of the operation.
LEMMA StepCore ==
    ASSUME CoreInv, [Next]_vars
    PROVE  CoreInv'
<1>1. CASE UNCHANGED <<plan, memory, picture, objects>> /\ clock' \in Nat /\ cost' \in Nat
  <2>1. MemoryInv'
    BY <1>1, BanksKept DEF CoreInv, memory, MemoryInv, LocksInv
  <2>2. PictureInv' /\ ObjectInv'
    BY <1>1 DEF CoreInv, picture, objects, PictureInv, BankSizes, Backdrops, ObjectInv
  <2>3. QED
    BY <1>1, <2>1, <2>2 DEF CoreInv
<1>2. ASSUME NEW o \in plan.ops, MemoryPort(o), UNCHANGED <<picture, objects>>
      PROVE  CoreInv'
  <2>1. o.v \in 0..255
    BY PlanFacts DEF CoreInv
  <2>2. MemoryInv'
    BY <1>2, <2>1, MemoryKeeps DEF CoreInv
  <2>3. PictureInv' /\ ObjectInv'
    BY <1>2 DEF CoreInv, picture, objects, PictureInv, BankSizes, Backdrops, ObjectInv
  <2>4. UNCHANGED <<plan, clock>> /\ cost' \in Nat
    BY <1>2, MemoryOutcomes DEF MemoryOutcome, CoreInv
  <2>5. QED
    BY <2>2, <2>3, <2>4 DEF CoreInv
<1>3. ASSUME NEW o \in plan.ops, PicturePort(o), UNCHANGED <<memory, objects>>
      PROVE  CoreInv'
  <2>1. o.v \in 0..255
    BY PlanFacts DEF CoreInv
  <2>2. PictureInv' /\ PictureOutcome
    BY <1>3, <2>1, PictureKeeps DEF CoreInv
  <2>3. UNCHANGED <<plan, clock>> /\ cost' \in Nat
    BY <2>2 DEF PictureOutcome, CoreInv
  <2>4. MemoryInv'
    BY <1>3, <2>3, BanksKept DEF CoreInv, memory, MemoryInv, LocksInv
  <2>5. ObjectInv'
    BY <1>3 DEF CoreInv, objects, ObjectInv
  <2>6. QED
    BY <2>2, <2>3, <2>4, <2>5 DEF CoreInv
<1>4. ASSUME NEW o \in plan.ops, ObjectPort(o), UNCHANGED memory
      PROVE  CoreInv'
  <2>1. o.v \in 0..255
    BY PlanFacts DEF CoreInv
  <2>2. PictureInv' /\ ObjectInv'
    BY <1>4, <2>1, ObjectKeeps DEF CoreInv
  <2>3. UNCHANGED plan /\ clock' \in Nat /\ cost' \in Nat
    BY <1>4, ObjectOutcomes DEF ObjectOutcome, CoreInv, Stall
  <2>4. MemoryInv'
    BY <1>4, <2>3, BanksKept DEF CoreInv, memory, MemoryInv, LocksInv
  <2>5. QED
    BY <2>2, <2>3, <2>4 DEF CoreInv
<1>5. ASSUME NEW o \in plan.ops, Plain(o.v)
      PROVE  CoreInv'
  <2>1. o.v \in 0..255
    BY PlanFacts DEF CoreInv
  <2>2. QED
    BY <1>1, <1>5, <2>1 DEF Plain, Proceed, CoreInv
<1>6. CASE Retire
  BY <1>1, <1>6 DEF Retire, CoreInv
<1>7. CASE Finish \/ UNCHANGED vars
  BY <1>1, <1>7 DEF Finish, vars, step, CoreInv
<1> HIDE DEF CoreInv
<1>8. QED
  BY <1>2, <1>3, <1>4, <1>5, <1>6, <1>7 DEF Next, Access, Halt

\* Every step keeps the row in step with the machine, and the parity.
LEMMA StepRow ==
    ASSUME CoreInv, RowInv, ParityInv, [Next]_vars
    PROVE  RowInv' /\ ParityInv'
<1>1. ASSUME NEW o, MemoryPort(o), UNCHANGED <<picture, objects, row>>
      PROVE  RowInv' /\ ParityInv'
  <2>1. CASE status' = "ports" /\ UNCHANGED memory
    BY <1>1, <2>1, MemoryOutcomes
       DEF MemoryOutcome, Begins, RowInv, ParityInv, FaultsWhole, Machine, memory, picture, objects
  <2>2. CASE UNCHANGED status /\ cost' \in {4, 6} /\ op' # "dma"
    BY <2>2, <1>1, MemoryOutcomes DEF MemoryOutcome, Begins, RowInv, ParityInv, FaultsWhole
  <2>3. QED
    BY <1>1, <2>1, <2>2, MemoryOutcomes DEF MemoryOutcome
<1>2. ASSUME NEW o \in plan.ops, PicturePort(o), UNCHANGED <<memory, objects, row>>
      PROVE  RowInv' /\ ParityInv'
  <2>1. PictureOutcome
    BY <1>2, PlanFacts, PictureKeeps DEF CoreInv
  <2>2. CASE status' = "ports" /\ UNCHANGED picture
    BY <1>2, <2>1, <2>2
       DEF PictureOutcome, Begins, RowInv, ParityInv, FaultsWhole, Machine, memory, picture, objects
  <2>3. CASE UNCHANGED status /\ cost' = 4 /\ op' # "dma"
    BY <2>1, <2>3 DEF PictureOutcome, Begins, RowInv, ParityInv, FaultsWhole
  <2>4. QED
    BY <2>1, <2>2, <2>3 DEF PictureOutcome
<1>3. ASSUME NEW o, ObjectPort(o), UNCHANGED <<memory, row>>
      PROVE  RowInv' /\ ParityInv'
  <2>1. CASE status' \in {"ports", "clock"} /\ UNCHANGED <<picture, objects>>
    BY <1>3, <2>1, ObjectOutcomes
       DEF ObjectOutcome, Begins, RowInv, ParityInv, FaultsWhole, Machine, memory, picture, objects
  <2>2. CASE UNCHANGED <<status, clock>> /\ cost' = 4 /\ op' = "oam"
    BY <1>3, <2>2, ObjectOutcomes DEF ObjectOutcome, Begins, RowInv, ParityInv, FaultsWhole
  <2>3. CASE /\ UNCHANGED status /\ ~DmaOverflow(clock) /\ clock' = clock + Stall(clock)
             /\ cost' = 4 /\ op' = "dma"
    <3>1. ~ClockFull(clock')
      BY <2>3 DEF DmaOverflow, ClockFull
    <3>2. clock' % 2 = 0
      BY <2>3 DEF Stall, CoreInv
    <3>3. status = "running"
      BY <1>3, ObjectOutcomes DEF ObjectOutcome, Begins
    <3>4. RowInv'
      <4> HIDE DEF Machine, ClockFull
      <4>1. QED
        BY <2>3, <3>1, <3>3 DEF RowInv, FaultsWhole, ClockFull
    <3>5. QED
      BY <2>3, <3>2, <3>4 DEF ParityInv
  <2>4. QED
    BY <1>3, <2>1, <2>2, <2>3, ObjectOutcomes DEF ObjectOutcome
<1>4. ASSUME NEW v, Plain(v)
      PROVE  RowInv' /\ ParityInv'
  BY <1>4 DEF Plain, Begins, Proceed, RowInv, ParityInv, FaultsWhole, Machine, memory, picture, objects
<1>5. CASE Retire
  <2>1. CASE ClockFull(clock)
    <3>1. op # "dma" /\ status' = "clock" /\ UNCHANGED op
      BY <1>5, <2>1 DEF Retire, RowInv
    <3>2. QED
      BY <3>1 DEF RowInv, ParityInv, FaultsWhole
  <2>2. CASE ~ClockFull(clock)
    <3>1. /\ status' = "running" /\ cost' = 0 /\ row' = Machine /\ clock' = clock + cost
          /\ UNCHANGED <<op, memory, picture, objects>>
      BY <1>5, <2>2 DEF Retire
    <3>2. Machine' = row'
      BY <3>1 DEF Machine, memory, picture, objects
    <3>3. RowInv'
      BY <3>1, <3>2 DEF RowInv, FaultsWhole
    <3>4. ParityInv'
      BY <1>5, <3>1 DEF ParityInv, CoreInv, Retire
    <3>5. QED
      BY <3>3, <3>4
  <2>3. QED
    BY <2>1, <2>2
<1>6. CASE Finish
  BY <1>6 DEF Finish, RowInv, ParityInv, FaultsWhole, Machine, memory, picture, objects
<1>7. CASE UNCHANGED vars
  BY <1>7 DEF vars, step, RowInv, ParityInv, FaultsWhole, Machine, memory, picture, objects, ClockFull
<1> HIDE DEF CoreInv, RowInv, ParityInv
<1>8. QED
  BY <1>1, <1>2, <1>3, <1>4, <1>5, <1>6, <1>7 DEF Next, Access, Halt

\* The invariant holds in every reachable state.
LEMMA Inductive == Spec => [](CoreInv /\ RowInv /\ ParityInv)
<1>1. Init => CoreInv /\ RowInv /\ ParityInv
  <2>1. Init => RowInv /\ ParityInv
    BY DEF Init, RowInv, ParityInv, FaultsWhole
  <2>2. QED
    BY <2>1, InitCore
<1>2. CoreInv /\ RowInv /\ ParityInv /\ [Next]_vars => (CoreInv /\ RowInv /\ ParityInv)'
  BY StepCore, StepRow
<1>3. QED
  BY <1>1, <1>2, PTL DEF Spec

\* Whatever modes and registers are written in whatever order, the slots of the native
\* code are those the reference computes from the registers, and the slot of the
\* vectors is ROM.
THEOREM SlotsAlwaysAgree == Spec => []SlotsAgree
<1>1. CoreInv => SlotsAgree
  BY SlotsFacts DEF CoreInv, MemoryInv
<1>2. QED
  BY <1>1, Inductive, PTL

\* Palette memory and OAM hold what the original's can, whichever port or transfer
\* filled them.
THEOREM AlwaysStoredAsHeld == Spec => []StoredAsHeld
<1>1. CoreInv => StoredAsHeld
  BY DEF CoreInv, PictureInv, Backdrops, ObjectInv, StoredAsHeld
<1>2. QED
  BY <1>1, Inductive, PTL

\* A refused port leaves the machine as the last row shows it, and a transfer the clock
\* has no room for copies nothing.
THEOREM FaultsAreWhole == Spec => []FaultsWhole
<1>1. RowInv => FaultsWhole
  BY DEF RowInv
<1>2. QED
  BY <1>1, Inductive, PTL

\* The instruction after a transfer starts on a get cycle.
THEOREM TransfersEndOnGet == Spec => []DmaEndsOnGet
<1>1. ParityInv => DmaEndsOnGet
  BY DEF ParityInv, DmaEndsOnGet
<1>2. QED
  BY <1>1, Inductive, PTL

\* Work RAM and ExRAM change only while the last stores to the protection registers
\* allow it.
THEOREM RamIsProtected == Spec => ProtectedRam
<1> DEFINE Allowed == /\ ram' # ram => wrote["5102"] = 2 /\ wrote["5103"] = 1
                      /\ exram' # exram => wrote["5104"] = 2
<1>1. CoreInv /\ [Next]_vars => [Allowed]_<<step, memory>>
  <2> SUFFICES ASSUME CoreInv, [Next]_vars PROVE Allowed
    OBVIOUS
  <2>1. CASE UNCHANGED memory
    BY <2>1 DEF memory
  <2>2. CASE \E o \in plan.ops : MemoryPort(o)
    BY <2>2, MemoryProtected DEF CoreInv
  <2>3. QED
    BY <2>1, <2>2 DEF Next, Access, Plain, Retire, Finish, Halt, vars
<1> HIDE DEF Allowed
<1>2. Spec => [][Allowed]_<<step, memory>>
  BY <1>1, Inductive, PTL DEF Spec
<1>3. QED
  BY <1>2 DEF Allowed, ProtectedRam

\* No pattern byte is fetched or stored through a bank register written under another
\* bank size.
THEOREM NoBankIsStale == Spec => NoStaleBank
<1> DEFINE Fits == op' = "pattern" /\ cost' > cost => under[RegisterOf(At \div 1024)] = chr.mode
<1>1. CoreInv /\ [Next]_vars => [Fits]_<<step, picture>>
  <2> SUFFICES ASSUME CoreInv, [Next]_vars, op' = "pattern", cost' > cost PROVE FetchFits
    BY DEF FetchFits
  <2>1. cost \in Nat
    BY DEF CoreInv
  <2>2. ASSUME NEW o, MemoryPort(o) PROVE FALSE
    BY <2>1, <2>2, MemoryOutcomes DEF MemoryOutcome
  <2>3. ASSUME NEW o \in plan.ops, PicturePort(o) PROVE FetchFits
    <3>1. PictureOutcome
      BY <2>3, PlanFacts, PictureKeeps DEF CoreInv
    <3> HIDE DEF FetchFits
    <3>2. QED
      BY <2>1, <3>1 DEF PictureOutcome
  <2>4. ASSUME NEW o, ObjectPort(o) PROVE FALSE
    BY <2>1, <2>4, ObjectOutcomes DEF ObjectOutcome
  <2>5. ASSUME NEW v, Plain(v) PROVE FALSE
    BY <2>5 DEF Plain, Proceed
  <2>6. CASE Retire \/ Finish \/ UNCHANGED vars
    BY <2>1, <2>6 DEF Retire, Finish, vars, step
  <2> HIDE DEF FetchFits
  <2>7. QED
    BY <2>2, <2>3, <2>4, <2>5, <2>6 DEF Next, Access, Halt
<1> HIDE DEF Fits
<1>2. Spec => [][Fits]_<<step, picture>>
  BY <1>1, Inductive, PTL DEF Spec
<1>3. QED
  BY <1>2 DEF Fits, NoStaleBank
=============================================================================
