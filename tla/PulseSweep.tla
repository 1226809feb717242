----------------------------- MODULE PulseSweep -----------------------------
(***************************************************************************)
(* The sweep unit of one pulse channel (snes/src/native_sweep.inc): its    *)
(* period, which register writes and half frames both change, and the      *)
(* divider that paces it.  The two channels share scratch words only, each *)
(* computed anew for the channel at hand; they differ in the subtraction.  *)
(***************************************************************************)
EXTENDS Integers

CONSTANTS
    Width,          \* number of periods ($800)
    Low,            \* values of the low register ($100)
    Floor,          \* the least audible period (8)
    MaxDivider,     \* the greatest divider setting (7)
    Divisors        \* two to the power of each shift count; 1 for no shift

ASSUME SweepAssumption ==
    /\ Width \in Nat /\ Low \in Nat /\ Floor \in Nat
    /\ 0 < Low /\ Low <= Width /\ Width % Low = 0 /\ 2 <= Floor
    /\ MaxDivider \in Nat
    /\ 1 \in Divisors /\ Divisors \subseteq Nat \ {0}

VARIABLES
    first,          \* is it pulse 1?
    control,        \* the register $4001 or $4005
    swperiod,       \* SWPERIOD
    divider,        \* SWDIV
    reload          \* SWRELOAD

sweepVars == <<first, control, swperiod, divider, reload>>

Control ==
    [on : BOOLEAN, every : 0..MaxDivider, negate : BOOLEAN, by : Divisors]

SweepInit ==
    /\ first \in BOOLEAN
    /\ control = [on |-> FALSE, every |-> 0, negate |-> FALSE, by |-> 1]
    /\ swperiod = 0 /\ divider = 0 /\ reload = FALSE

-----------------------------------------------------------------------------
(* The target of a sweep.                                                  *)

Change == swperiod \div control.by

\* Pulse 1 subtracts in one's complement.
SweepTarget ==
    IF control.negate
    THEN (swperiod - Change - (IF first THEN 1 ELSE 0)) % Width
    ELSE swperiod + Change

\* "Target overflow mutes even when sweep enable is clear or shift is zero".
SweepMuted ==
    \/ swperiod < Floor
    \/ ~control.negate /\ SweepTarget >= Width

(* Slip: a shift count of zero sweeps as well.                             *)
SweepsUnshifted ==
    /\ ~SweepMuted
    /\ divider = 0 /\ control.on

Sweeps ==
    /\ ~SweepMuted
    /\ divider = 0 /\ control.on /\ control.by # 1

-----------------------------------------------------------------------------
(* Register writes (SweepWrite) and half frames.                           *)

\* $4001, $4005: repeated values are still write events.
WriteControl ==
    /\ control' \in Control
    /\ reload' = TRUE
    /\ UNCHANGED <<first, swperiod, divider>>

\* $4002, $4006: "retain the swept high bits".
WriteLow ==
    /\ \E v \in 0..(Low - 1) : swperiod' = swperiod - (swperiod % Low) + v
    /\ UNCHANGED <<first, control, divider, reload>>

\* $4003, $4007: "retain the swept low bits".
WriteHigh ==
    /\ \E v \in 0..((Width \div Low) - 1) : swperiod' = v * Low + (swperiod % Low)
    /\ UNCHANGED <<first, control, divider, reload>>

(* Slip: the divider is not taken up again after a sweep.                  *)
NextDividerShort ==
    IF reload THEN control.every
    ELSE IF divider = 0 THEN 0
    ELSE divider - 1

NextDivider ==
    IF divider = 0 \/ reload THEN control.every ELSE divider - 1

SweepHalf ==
    /\ swperiod' = IF Sweeps THEN SweepTarget ELSE swperiod
    /\ divider' = NextDivider
    /\ reload' = FALSE
    /\ UNCHANGED <<first, control>>

SweepNext == WriteControl \/ WriteLow \/ WriteHigh \/ SweepHalf

SweepSpec == SweepInit /\ [][SweepNext]_sweepVars
-----------------------------------------------------------------------------
(* Properties.                                                             *)

\* Every variable keeps its type; the period, which indexes the pitch table,
\* never leaves it.
SweepTypeOK ==
    /\ first \in BOOLEAN /\ control \in Control
    /\ swperiod \in 0..(Width - 1)
    /\ divider \in 0..MaxDivider /\ reload \in BOOLEAN

\* A sweep moves the period the way it is told, never around the end of the
\* pitch table.
SweepsOneWay ==
    [][SweepHalf => IF control.negate THEN swperiod' <= swperiod
                    ELSE swperiod' >= swperiod]_sweepVars
=============================================================================
