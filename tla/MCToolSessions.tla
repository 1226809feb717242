--------------------------- MODULE MCToolSessions ---------------------------
(***************************************************************************)
(* Sessions with the tools around the bridge: either some patch tools are  *)
(* used on one source tree, or one evidence script on one folder.  The two *)
(* touch different files, so one of them stands still in each session.     *)
(***************************************************************************)
EXTENDS SourcePatches, VerifierRuns

Versions == <<"v1", "v2">>

\* Tools that meet in a file, together.
PatchSessions ==
  {{"stimulus512", "stimulus2048", "map", "wram", "cpuio", "ppu", "chr"},
   {"cycle", "play"}, {"boundary", "idle"}, {"dma"}, {"idleHost", "profile", "costs"},
   {"indirectX"}, {"coalesced"}, {"dispatch"}, {"paletteReads"}}

NoSession ==
  /\ script = "none" /\ run = 0 /\ limited = FALSE /\ job = "idle" /\ stage = 1
  /\ pending = {} /\ active = {} /\ failed = FALSE /\ rows = {} /\ captures = <<>>
  /\ report = NoReport /\ progress = [run |-> 0, passed |-> FALSE]

Init == \/ NoSession /\ \E names \in PatchSessions : PatchInit(names)
        \/ VerifierInit /\ PatchInit({})

Patching  == tools # {} /\ PatchNext /\ UNCHANGED verifierVars
Verifying == tools = {} /\ VerifierNext /\ UNCHANGED patchVars

Spec == Init /\ [][Patching \/ Verifying]_<<patchVars, verifierVars>>
=============================================================================
