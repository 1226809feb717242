--------------------------- MODULE PresentedFrame ---------------------------
(***************************************************************************)
(* What the pipelined renderer promises (native_video.inc: "The next host  *)
(* NMI presents a completed immutable frame"), whatever it caches.         *)
(*                                                                         *)
(* live is the picture the NES state stands for at this moment, pending    *)
(* the one last prepared, shown the one on the screen.  A frame is a       *)
(* snapshot of the live picture, taken in one step; it is shown unchanged, *)
(* and the next one is not prepared before that.                           *)
(***************************************************************************)
VARIABLES live, pending, ready, shown

fvars == <<live, pending, ready, shown>>

Init == ready = FALSE

\* The NES program writes to its video memory: the queued frame stays as it is.
Change == UNCHANGED <<pending, ready, shown>>

Render == ~ready /\ ready' = TRUE /\ pending' = live /\ UNCHANGED <<live, shown>>

Present == ready /\ ready' = FALSE /\ shown' = pending /\ UNCHANGED <<live, pending>>

Next == Change \/ Render \/ Present

Spec == Init /\ [][Next]_fvars
=============================================================================
