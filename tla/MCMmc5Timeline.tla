--------------------------- MODULE MCMmc5Timeline ---------------------------
(* Instances of Mmc5Timeline for model checking.                           *)
EXTENDS Mmc5Timeline

Port(at, values) == {[at |-> at, v |-> v] : v \in values}

\* Banking and memory: ROM, RAM and refused selections in every mode.
Mapping ==
    Port("5100", 0..3) \cup UNION {Port(p, {1, 4, 130, 133}) : p \in {"5114", "5115", "5116"}}
      \cup Port("5117", {3, 130})
Ram ==
    Port("5102", {1, 2}) \cup Port("5103", {1, 2}) \cup Port("5113", {2, 5})
      \cup Port("5115", {1}) \cup Port("mapped", {7})
Io ==
    Port("5104", {1, 2, 3}) \cup Port("5C00", {9}) \cup Port("5205", {255}) \cup Port("5206", {255})
      \cup Port("5102", {2}) \cup Port("5103", {1})

\* Picture: addresses in pattern, nametable and palette space.
Bank(r, v) == [at |-> "512x", v |-> v, reg |-> r]
Address == Port("2006", {0, 16, 63})
Data == Port("2007", {173}) \cup Port("read 2007", {0})
Blank ==
    Address \cup Data \cup Port("2000", {4, 36, 128}) \cup Port("2001", {1, 8})
      \cup Port("2005", {205}) \cup Port("5105", {68, 255, 170}) \cup Port("5106", {1})
      \cup Port("5107", {3, 7})
Latches == {Bank(0, 2)} \cup Port("5130", {1}) \cup Port("2002", {192}) \cup Port("read 2002", {0}) \cup Address \cup Data
Sizes ==
    Port("5101", {1, 2})
      \cup {Bank(r, 2) : r \in {1, 3, 5, 7, 9, 11}} \cup Port("2006", {0}) \cup Data

\* Objects: both phases of a transfer, and the end of the clock.
Sprites ==
    Port("2003", {0, 2, 3}) \cup Port("2004", {255}) \cup Port("read 2004", {0})
      \cup Port("4014", {1, 32}) \cup Port("plain", {2, 3})

Program(layer, steps, origin, ops) ==
    [layer |-> layer, steps |-> steps, origin |-> origin, chrmode |-> 3, ops |-> ops]

\* Bound: the steps of a program, few enough to try every order.
Programs ==
    {Program(l, 4, 0, Mapping) : l \in {PrgRom, PrgRam}}
      \cup {Program(PrgRam, 5, 0, Ram), Program(CpuIo, 5, 0, Io), Program(ChrBlank, 4, 0, Latches)}
      \cup {Program(l, 4, 0, Blank) : l \in {PpuBlank, Palette}}
      \cup {Program(l, 4, 0, Sizes) : l \in {ChrBlank, ChrSets}}
      \cup {Program(ChrRewrite, 6, 0, Sizes), Program(Palette, 2, 0, Sprites)}
      \cup {Program(OamDma, 5, t, Sprites) : t \in {0, 1544}}

ChrImage(bank, offset) == (53 * bank + offset) % 256
PageImage(page, offset) == 255 - page - offset
=============================================================================
