---------------------------- MODULE ApuCounters ----------------------------
(***************************************************************************)
(* The APU counters of the bridge (snes/src/native_apu.inc): the length    *)
(* counters, the envelopes of pulses and noise, the linear counter of the  *)
(* triangle, and the frame sequencer that clocks them.                     *)
(*                                                                         *)
(* The NES program writes the registers between any two instructions, and  *)
(* at the end of each NES frame the host advances the sequencer by four    *)
(* steps.  Both run with the interrupt gate closed, so each is one action. *)
(* The sweep units, clocked by the same half frames, are in PulseSweep.    *)
(***************************************************************************)
EXTENDS Integers

CONSTANTS
    Envelopes,      \* pulse and noise channels
    Triangle,       \* the triangle channel
    Lengths,        \* entries of ApuLengthTable
    Periods,        \* envelope periods, also fixed volumes (0..15)
    Loads,          \* linear counter loads (0..127)
    Peak            \* the volume an envelope starts from (15)

Channels == Envelopes \cup {Triangle}

ASSUME ChannelAssumption == Triangle \notin Envelopes

ASSUME ValueAssumption ==
    /\ Lengths \subseteq Nat
    /\ 0 \in Periods /\ Periods \subseteq 0..Peak
    /\ 0 \in Loads /\ Loads \subseteq Nat
    /\ Peak \in Nat

VARIABLES
    on,             \* bits of $4015
    halt,           \* bit 5 of $4000, $4004, $400C; bit 7 of $4008
    fixed, period,  \* bit 4 and the low bits of $4000, $4004, $400C
    load,           \* the low bits of $4008
    five,           \* bit 7 of $4017
    count           \* the counters

registers == <<on, halt, fixed, period, load, five>>
vars == <<registers, count>>

\* ALENGTH, ARESTART, ADECAY, ADIVIDER, ALINEAR, ALINRELOAD, APHASE.
Init ==
    /\ on = [c \in Channels |-> FALSE] /\ halt = [c \in Channels |-> FALSE]
    /\ fixed = [e \in Envelopes |-> FALSE] /\ period = [e \in Envelopes |-> 0]
    /\ load = 0 /\ five = FALSE
    /\ count = [length  |-> [c \in Channels |-> 0],
                restart |-> [e \in Envelopes |-> FALSE],
                decay   |-> [e \in Envelopes |-> 0],
                divider |-> [e \in Envelopes |-> 0],
                linear  |-> 0, reload |-> FALSE, phase |-> 0]

-----------------------------------------------------------------------------
(* One clock of the counters k.                                            *)

(* Slip: a counter at zero wraps.                                          *)
LessWraps(n) == n - 1

Less(n) == IF n = 0 THEN 0 ELSE n - 1

(* Slip: the halt flags are not looked at.                                 *)
ApuHalfAlways(k) ==
    [k EXCEPT !.length = [c \in Channels |-> Less(k.length[c])]]

ApuHalf(k) ==
    [k EXCEPT !.length = [c \in Channels |->
         IF halt[c] THEN k.length[c] ELSE Less(k.length[c])]]

\* The envelope of a channel: restarted, between divider clocks, or decaying;
\* the halt flag also makes it loop.
Restarted(k, e) == k.restart[e]
Decays(k, e) == ~k.restart[e] /\ k.divider[e] = 0

DividerAfter(k, e) ==
    IF Restarted(k, e) \/ Decays(k, e) THEN period[e] ELSE k.divider[e] - 1

(* Slip: an envelope loops whatever the flag says.                         *)
DecayAfterLoops(k, e) ==
    IF Restarted(k, e) \/ (Decays(k, e) /\ k.decay[e] = 0) THEN Peak
    ELSE IF Decays(k, e) THEN k.decay[e] - 1 ELSE k.decay[e]

DecayAfter(k, e) ==
    IF Restarted(k, e) \/ (Decays(k, e) /\ k.decay[e] = 0 /\ halt[e]) THEN Peak
    ELSE IF Decays(k, e) THEN Less(k.decay[e]) ELSE k.decay[e]

ApuQuarter(k) ==
    [k EXCEPT
        !.restart = [e \in Envelopes |-> FALSE],
        !.decay   = [e \in Envelopes |-> DecayAfter(k, e)],
        !.divider = [e \in Envelopes |-> DividerAfter(k, e)],
        !.linear  = IF k.reload THEN load ELSE Less(k.linear),
        !.reload  = k.reload /\ halt[Triangle]]

\* The sequencer: half and quarter frames of the four-step and of the
\* five-step sequence.
Steps == IF five THEN 5 ELSE 4
HalfDue(p) == IF five THEN p \in {1, 4} ELSE p \in {1, 3}
QuarterDue(p) == ~five \/ p # 3

NextPhase(p) == IF p + 1 < Steps THEN p + 1 ELSE 0

Tick(k) ==
    LET half == IF HalfDue(k.phase) THEN ApuHalf(k) ELSE k
        both == IF QuarterDue(k.phase) THEN ApuQuarter(half) ELSE half
    IN  [both EXCEPT !.phase = NextPhase(k.phase)]

-----------------------------------------------------------------------------
(* Register writes (ApuWriteRegister) and the host's frame.                *)

\* $4000, $4004, $400C.
WriteVolume ==
    /\ \E e \in Envelopes, h, f \in BOOLEAN, n \in Periods :
          /\ halt' = [halt EXCEPT ![e] = h]
          /\ fixed' = [fixed EXCEPT ![e] = f]
          /\ period' = [period EXCEPT ![e] = n]
    /\ UNCHANGED <<on, load, five, count>>

\* $4008.
WriteLinear ==
    /\ \E h \in BOOLEAN : halt' = [halt EXCEPT ![Triangle] = h]
    /\ load' \in Loads
    /\ UNCHANGED <<on, fixed, period, five, count>>

(* Slip: the length is loaded into a disabled channel.                     *)
LoadedAlways(c, n) == [count.length EXCEPT ![c] = n]

\* "enabling later must NOT resurrect an old note".
Loaded(c, n) ==
    [count.length EXCEPT ![c] = IF on[c] THEN n ELSE @]

\* $4003, $4007, $400B, $400F: retriggers even when the value is the same.
WriteLength ==
    /\ \E c \in Channels, n \in Lengths :
          count' = [count EXCEPT
              !.length = Loaded(c, n),
              !.restart = [e \in Envelopes |-> e = c \/ @[e]],
              !.reload = @ \/ c = Triangle]
    /\ UNCHANGED registers

\* $4015.
WriteEnable ==
    /\ on' \in [Channels -> BOOLEAN]
    /\ count' = [count EXCEPT !.length =
           [c \in Channels |-> IF on'[c] THEN @[c] ELSE 0]]
    /\ UNCHANGED <<halt, fixed, period, load, five>>

(* Slip: the sequencer goes on where it was.                               *)
ResetKept(k) == k

ResetPhase(k) == [k EXCEPT !.phase = 0]

\* $4017: the five-step sequence is clocked at once.
WriteFrame ==
    /\ five' \in BOOLEAN
    /\ count' = IF five' THEN ApuQuarter(ApuHalf(ResetPhase(count)))
                ELSE ResetPhase(count)
    /\ UNCHANGED <<on, halt, fixed, period, load>>

ApuFrame ==
    /\ count' = Tick(Tick(Tick(Tick(count))))
    /\ UNCHANGED registers

Next ==
    \/ WriteVolume \/ WriteLinear \/ WriteLength \/ WriteEnable \/ WriteFrame
    \/ ApuFrame

Spec == Init /\ [][Next]_vars
-----------------------------------------------------------------------------
(* Properties.                                                             *)

CountType ==
    [length  : [Channels -> Nat],
     restart : [Envelopes -> BOOLEAN],
     decay   : [Envelopes -> 0..Peak],
     divider : [Envelopes -> 0..Peak],
     linear  : Nat, reload : BOOLEAN, phase : 0..4]

\* Every variable keeps its type, and no 4-bit counter leaves its range.
TypeOK ==
    /\ on \in [Channels -> BOOLEAN] /\ halt \in [Channels -> BOOLEAN]
    /\ fixed \in [Envelopes -> BOOLEAN] /\ period \in [Envelopes -> Periods]
    /\ load \in Loads /\ five \in BOOLEAN
    /\ count \in CountType

\* A disabled channel has no note, so that enabling it later sounds none,
\* whatever was written to its registers meanwhile.
DisabledSilent == \A c \in Channels : ~on[c] => count.length[c] = 0

\* Between frames the four-step sequencer stands at its first phase, also
\* after changes between the sequences: the four steps of a frame are then a
\* whole sequence.
FourStepAligned == ~five => count.phase = 0

\* A frame takes two counts from every running length counter in the four-step
\* sequence, and one or two in the five-step sequence, which is longer.
LengthRate ==
    [][ApuFrame =>
          \A c \in Channels :
              LET before == count.length[c]
                  after  == count'.length[c]
              IN  IF halt[c] THEN after = before
                  ELSE IF five THEN after \in {Less(before), Less(Less(before))}
                  ELSE after = Less(Less(before))]_vars

\* What ApuGetVolume returns.
Volume(e) ==
    IF count.length[e] = 0 THEN 0
    ELSE IF fixed[e] THEN period[e] ELSE count.decay[e]

\* The volume of a note that is neither retriggered nor looped never rises
\* from one frame to the next.
NotesFade ==
    [][ApuFrame => \A e \in Envelopes :
          ~count.restart[e] /\ ~halt[e] => Volume(e)' <= Volume(e)]_vars

\* Once the control flag is clear, a frame ends the reloading of the linear
\* counter and counts it down by three or four, from the load or from where it
\* was; with the flag set, a reload holds it at the load.
LinearRate ==
    [][ApuFrame =>
          LET start == IF count.reload THEN load + 1 ELSE count.linear
          IN  IF count.reload /\ halt[Triangle]
              THEN count'.linear = load /\ count'.reload
              ELSE /\ ~count'.reload
                   /\ \/ count'.linear = IF start > 4 THEN start - 4 ELSE 0
                      \/ five /\ count'.linear = IF start > 3 THEN start - 3 ELSE 0
      ]_vars
=============================================================================
