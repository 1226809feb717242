-------------------------- MODULE MCGuestTimeline --------------------------
(* Instances of GuestTimeline for model checking.                          *)
EXTENDS GuestTimeline

CONSTANTS Cycles, MaxEvents

\* Every schedule of at most MaxEvents events at the given cycles.
Schedules ==
    {p \in UNION {[1..n -> [cycle : Cycles, irq : BOOLEAN, nmi : BOOLEAN]] : n \in 0..MaxEvents} :
        \A j \in 1..Len(p) - 1 : p[j].cycle < p[j + 1].cycle}

Instructions ==
    [kind : {"plain"}, cost : {2, 7}] \cup {[kind |-> "delayed", cost |-> 2],
                                            [kind |-> "rti", cost |-> 6]}
=============================================================================
