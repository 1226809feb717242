------------------------- MODULE InterruptedProgram -------------------------
(***************************************************************************)
(* What an interrupt promises the program it interrupts: it is taken only  *)
(* at an interruptible location, and however long it is served the context *)
(* (location, registers, stack depth) resumes exactly as it was.           *)
(***************************************************************************)
CONSTANT Interruptible

VARIABLES serving, program

Init == serving = FALSE /\ program.pc \in Interruptible

\* The program runs freely while no interrupt is being served.
Run == ~serving /\ ~serving'

Take ==
    /\ ~serving /\ serving'
    /\ program.pc \in Interruptible
    /\ UNCHANGED program

Resume == serving /\ ~serving' /\ UNCHANGED program

Next == Run \/ Take \/ Resume

Spec == Init /\ [][Next]_<<serving, program>>
=============================================================================
