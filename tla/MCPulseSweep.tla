---------------------------- MODULE MCPulseSweep ----------------------------
(***************************************************************************)
(* PulseSweep with a history: how many half frames have passed since the   *)
(* last sweep, as long as the control register is not written.             *)
(***************************************************************************)
EXTENDS PulseSweep

VARIABLES paced, age

MCInit == SweepInit /\ paced = FALSE /\ age = 0

RewriteControl ==
    WriteControl /\ paced' = FALSE /\ age' = 0

RewritePeriod ==
    (WriteLow \/ WriteHigh) /\ UNCHANGED <<paced, age>>

\* The count stops at the longest interval.
Half ==
    /\ SweepHalf
    /\ paced' = (paced \/ Sweeps)
    /\ age' = IF Sweeps THEN 0
              ELSE IF age <= MaxDivider THEN age + 1 ELSE age

MCNext == RewriteControl \/ RewritePeriod \/ Half

MCSpec == MCInit /\ [][MCNext]_<<sweepVars, paced, age>>

\* With the divider at P, a sweep comes no sooner than P + 1 half frames after
\* the one before.
SweepsPaced ==
    [][SweepHalf /\ Sweeps /\ paced => age >= control.every]_<<sweepVars, paced, age>>
=============================================================================
