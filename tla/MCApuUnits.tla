----------------------------- MODULE MCApuUnits -----------------------------
(***************************************************************************)
(* The counters of the bridge and its two sweep units, one of them at a    *)
(* time.  They share no variable, and what is stated of one says nothing   *)
(* of the other: while one unit runs the other stands still, and its       *)
(* states are not multiplied by the other's.                               *)
(***************************************************************************)
EXTENDS ApuCounters, MCPulseSweep

VARIABLE unit

pulseVars == <<sweepVars, paced, age>>

UnitsInit ==
    /\ unit \in {"counters", "sweep"}
    /\ Init /\ MCInit
    /\ unit = "counters" => first

Counting == unit = "counters" /\ Next /\ UNCHANGED <<unit, pulseVars>>
Sweeping == unit = "sweep" /\ MCNext /\ UNCHANGED <<unit, vars>>

UnitsSpec == UnitsInit /\ [][Counting \/ Sweeping]_<<unit, vars, pulseVars>>
=============================================================================
