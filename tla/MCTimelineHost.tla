--------------------------- MODULE MCTimelineHost ---------------------------
(* Instances of TimelineHost for model checking.                           *)
EXTENDS TimelineHost

At(c, i, n) == [cycle |-> c, irq |-> i, nmi |-> n]

\* Requests that fall due together; an IRQ, and an edge during its entry.
Schedules ==
    {<<At(2, TRUE, TRUE), At(4, TRUE, FALSE), At(11, FALSE, TRUE)>>,
     <<At(3, TRUE, FALSE), At(12, FALSE, TRUE)>>}

Instructions == {[kind |-> "plain", cost |-> 7], [kind |-> "delayed", cost |-> 2]}
=============================================================================
