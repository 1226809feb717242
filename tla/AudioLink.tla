----------------------------- MODULE AudioLink -----------------------------
(***************************************************************************)
(* The sound link: AudioWrite and AudioWait of the bridge                  *)
(* (snes/src/native_audio.inc) on the main CPU, and the DSP-command        *)
(* receiver the SPC700 runs (tools/audio_program.py).                      *)
(*                                                                         *)
(* The two processors share four one-byte ports and nothing else.  A       *)
(* command is a DSP register and a value, announced by a changed token and *)
(* acknowledged by its echo; the CPU polls for the echo a bounded number   *)
(* of times and gives the link up when it does not come.  Both sides step  *)
(* independently: the receiver may be arbitrarily slow, or stop.           *)
(***************************************************************************)
EXTENDS Integers

CONSTANTS
    Registers,  \* DSP registers the frame code writes
    Values,     \* their values
    Unknown,    \* what ACACHE is filled with ($FF, which is a value too)
    Tokens,     \* tokens count modulo Tokens (256 in the code)
    Launch,     \* the token AudioInitialize starts the program with
    ReadyMark,  \* what the program answers to that ($7F)
    Polls       \* polls of AudioWait (65535 in the code)

\* audio_program.py makes an image of $55A bytes: Launch is $5B.
ASSUME LinkAssumption ==
    /\ Unknown \in Values /\ 0 \in Values
    /\ Tokens \in Nat /\ Tokens > 2
    /\ Launch \in 0..(Tokens - 1) /\ ReadyMark \in 0..(Tokens - 1)
    /\ ReadyMark # Launch /\ ReadyMark # (Launch + 1) % Tokens
    /\ Polls \in Nat \ {0}

VARIABLES
    cpu,                    \* what AudioWrite does next
    reg, val,               \* X and AVOL+1: the command
    cache,                  \* ACACHE
    token, ready, fault,    \* ATOKEN, AREADY, AFAULT
    polls,                  \* Y in AudioWait
    portToken, portReg, portVal,    \* $2140-$2142 as the SPC reads them
    portEcho,                       \* $2140 as the CPU reads it
    spc,                    \* what the receiver does next
    last,                   \* direct page $20: the last token
    select,                 \* the DSP address register $F2
    dsp                     \* the DSP registers

link  == <<portToken, portReg, portVal>>
host  == <<cpu, reg, val, cache, token, ready, fault, polls>>
audio == <<spc, last, select, dsp, portEcho>>
vars  == <<link, host, audio>>

\* AudioInitialize has just returned.  It leaves AREADY clear when the boot
\* ROM did not answer.  The receiver's own initialisation wrote the DSP
\* registers, with values other than $FF.
Init ==
    /\ cpu = "idle" /\ reg \in Registers /\ val = 0
    /\ cache = [r \in Registers |-> Unknown]
    /\ token = Launch /\ ready \in BOOLEAN /\ fault = ~ready /\ polls = 0
    /\ portToken = Launch /\ portReg \in Registers /\ portVal = 0
    /\ portEcho = ReadyMark
    /\ spc = "poll" /\ last = Launch /\ select \in Registers
    /\ dsp \in [Registers -> Values \ {Unknown}]

-----------------------------------------------------------------------------
(* The main CPU.                                                           *)

\* The frame code calls AudioWrite; an equal value is not sent again, and
\* nothing is sent on a link that was given up.
Sends(r, v) == v # cache[r] /\ ready

Send ==
    /\ cpu = "idle"
    /\ \E r \in Registers, v \in Values :
          /\ Sends(r, v)
          /\ reg' = r /\ val' = v
          /\ cache' = [cache EXCEPT ![r] = v]
          /\ portVal' = v
    /\ cpu' = "reg"
    /\ UNCHANGED <<token, ready, fault, polls, portToken, portReg, audio>>

Skip ==
    /\ cpu = "idle"
    /\ \E r \in Registers, v \in Values : ~Sends(r, v) /\ reg' = r /\ val' = v
    /\ cpu' = "skipped"
    /\ UNCHANGED <<cache, token, ready, fault, polls, link, audio>>

Done ==
    /\ cpu = "skipped" /\ cpu' = "idle"
    /\ UNCHANGED <<reg, val, cache, token, ready, fault, polls, link, audio>>

PutRegister ==
    /\ cpu = "reg"
    /\ portReg' = reg
    /\ cpu' = "token"
    /\ UNCHANGED <<reg, val, cache, token, ready, fault, polls, portToken,
                   portVal, audio>>

PutToken ==
    /\ cpu = "token"
    /\ token' = (token + 1) % Tokens /\ portToken' = token'
    /\ polls' = Polls
    /\ cpu' = "wait"
    /\ UNCHANGED <<reg, val, cache, ready, fault, portReg, portVal, audio>>

Echoed ==
    /\ cpu = "wait" /\ portEcho = token
    /\ cpu' = "idle"
    /\ UNCHANGED <<reg, val, cache, token, ready, fault, polls, link, audio>>

(* Slip: the fault is recorded and the link is used again.                 *)
GiveUpOnce ==
    /\ fault' = TRUE
    /\ UNCHANGED ready

\* What an exhausted AudioWait does to the link.
GiveUp ==
    /\ fault' = TRUE
    /\ ready' = FALSE

(* Slip: the count is loaded again at every poll.                          *)
PollReloaded ==
    /\ cpu = "wait" /\ portEcho # token
    /\ polls' = Polls
    /\ UNCHANGED <<cpu, fault, ready, reg, val, cache, token, link, audio>>

Poll ==
    /\ cpu = "wait" /\ portEcho # token
    /\ polls' = polls - 1
    /\ IF polls' = 0
       THEN GiveUp /\ cpu' = "idle"
       ELSE UNCHANGED <<fault, ready, cpu>>
    /\ UNCHANGED <<reg, val, cache, token, link, audio>>

-----------------------------------------------------------------------------
(* The receiver.                                                           *)

(* Slip: the token is echoed when it is seen, before the command is read.  *)
SpcPollEchoes ==
    /\ spc = "poll" /\ portToken # last
    /\ portEcho' = portToken
    /\ spc' = "reg"
    /\ UNCHANGED <<last, select, dsp, host, link>>

SpcPoll ==
    /\ spc = "poll" /\ portToken # last
    /\ spc' = "reg"
    /\ UNCHANGED <<last, select, dsp, portEcho, host, link>>

SpcRegister ==
    /\ spc = "reg"
    /\ select' = portReg /\ spc' = "value"
    /\ UNCHANGED <<last, dsp, portEcho, host, link>>

SpcValue ==
    /\ spc = "value"
    /\ dsp' = [dsp EXCEPT ![select] = portVal] /\ spc' = "echo"
    /\ UNCHANGED <<last, select, portEcho, host, link>>

\* The token is read again, remembered and echoed.
SpcEcho ==
    /\ spc = "echo"
    /\ last' = portToken /\ portEcho' = portToken /\ spc' = "poll"
    /\ UNCHANGED <<select, dsp, host, link>>

CpuStep == Send \/ Skip \/ Done \/ PutRegister \/ PutToken \/ Echoed \/ Poll
SpcStep == SpcPoll \/ SpcRegister \/ SpcValue \/ SpcEcho

Next == CpuStep \/ SpcStep

Spec == Init /\ [][Next]_vars

\* The CPU runs AudioWrite to its end.  Nothing is assumed of the receiver.
FairSpec == Spec /\ WF_vars(Done \/ PutRegister \/ PutToken \/ Echoed \/ Poll)
-----------------------------------------------------------------------------
(* Properties.                                                             *)

\* Every variable keeps its type.
TypeOK ==
    /\ cpu \in {"idle", "skipped", "reg", "token", "wait"}
    /\ reg \in Registers /\ val \in Values
    /\ cache \in [Registers -> Values]
    /\ token \in 0..(Tokens - 1) /\ ready \in BOOLEAN /\ fault \in BOOLEAN
    /\ polls \in 0..Polls
    /\ portToken \in 0..(Tokens - 1)
    /\ portReg \in Registers /\ portVal \in Values
    /\ portEcho \in 0..(Tokens - 1)
    /\ spc \in {"poll", "reg", "value", "echo"}
    /\ last \in 0..(Tokens - 1) /\ select \in Registers
    /\ dsp \in [Registers -> Values]

\* Whenever the CPU is between commands on a working link, every value it has
\* sent is in the DSP: no command is lost, torn or applied to another
\* register, however slow the receiver is.
LinkCoherent ==
    ready /\ cpu = "idle" =>
        \A r \in Registers : cache[r] = Unknown \/ dsp[r] = cache[r]

\* A link that was given up stays given up: no token is ever announced again
\* ("failure disables further commands rather than hanging indefinitely").
FaultDisables == [][fault => UNCHANGED <<fault, ready, portToken>>]_vars

\* AudioWrite always returns, whatever the receiver does.
WriteReturns == (cpu # "idle") ~> (cpu = "idle")

\* docs/direct-audio-2026-09-25.md:32: "cached DSP values avoid unchanged
\* writes".  On a working link, only a value the DSP already holds is skipped.
SkipsOnlyUnchanged == cpu = "skipped" /\ ready => dsp[reg] = val
=============================================================================
