--------------------------- MODULE AudioLinkProofs --------------------------
(***************************************************************************)
(* Proofs about the sound link: for every token width, register set and    *)
(* poll bound, commands neither get lost nor torn, and a link that was     *)
(* given up is never used again.                                           *)
(***************************************************************************)
EXTENDS AudioLink, TLAPS

-----------------------------------------------------------------------------
(* The inductive invariant.                                                *)

Sending == cpu \in {"reg", "token", "wait"}

\* The link is either ready or faulted, only a ready link is written to, and
\* the poll count is not exhausted while the CPU waits.
ReadyInv ==
    /\ ready <=> ~fault
    /\ Sending => ready
    /\ cpu = "wait" => polls > 0

\* Between commands the receiver waits for the token after the current one.
QuietInv ==
    ready /\ cpu # "wait" =>
        /\ spc = "poll" /\ last = token /\ portToken = token
        /\ portEcho = token \/ (portEcho = ReadyMark /\ token = Launch)

\* The ports hold the command from the moment each part is stored.
PortInv ==
    /\ Sending => cache[reg] = val /\ portVal = val
    /\ cpu \in {"token", "wait"} => portReg = reg
    /\ cpu = "wait" => portToken = token

\* While the CPU waits, the echo says whether the command was executed.
WaitInv ==
    cpu = "wait" =>
        /\ spc \in {"value", "echo"} => select = reg
        /\ spc = "echo" => dsp[reg] = val
        /\ IF spc = "poll" /\ last = token
           THEN portEcho = token /\ dsp[reg] = val
           ELSE portEcho # token

\* Every register but the one being sent holds what the cache says.
CacheInv ==
    ready => \A r \in Registers :
                (Sending /\ r = reg) \/ cache[r] = Unknown \/ dsp[r] = cache[r]

IInv ==
    TypeOK /\ ReadyInv /\ QuietInv /\ PortInv /\ WaitInv /\ CacheInv

-----------------------------------------------------------------------------
\* The next token is a token, and differs from the current one.
LEMMA NextToken ==
    ASSUME NEW t \in 0..(Tokens - 1)
    PROVE  (t + 1) % Tokens \in 0..(Tokens - 1) /\ (t + 1) % Tokens # t
  <1>1. CASE t = Tokens - 1
    BY <1>1, LinkAssumption
  <1>2. CASE t + 1 < Tokens
    <2>1. (t + 1) % Tokens = t + 1
      BY <1>2, LinkAssumption
    <2>2. QED
      BY <1>2, <2>1, LinkAssumption
  <1>3. QED
    BY <1>1, <1>2, LinkAssumption

\* The link as AudioInitialize leaves it satisfies the invariant.
LEMMA LinkInit == Init => IInv
  <1> SUFFICES ASSUME Init PROVE IInv
    OBVIOUS
  <1>1. TypeOK
    BY LinkAssumption DEF Init, TypeOK
  <1>2. ReadyInv /\ QuietInv /\ PortInv /\ WaitInv
    BY DEF Init, ReadyInv, QuietInv, PortInv, WaitInv, Sending
  <1>3. CacheInv
    BY DEF Init, CacheInv
  <1>4. QED
    BY <1>1, <1>2, <1>3 DEF IInv

\* Every step of either processor keeps it.
LEMMA LinkStep ==
    ASSUME IInv, [Next]_vars
    PROVE  IInv'
  <1> USE DEF IInv
  <1>1. CASE Send
    <2>1. TypeOK'
      BY <1>1 DEF Send, Sends, TypeOK, audio
    <2>2. ReadyInv' /\ QuietInv' /\ PortInv' /\ WaitInv'
      BY <1>1 DEF Send, Sends, TypeOK, audio, ReadyInv, QuietInv, PortInv,
         WaitInv, Sending
    <2>3. CacheInv'
      BY <1>1 DEF Send, Sends, TypeOK, audio, CacheInv, Sending
    <2>4. QED
      BY <2>1, <2>2, <2>3
  <1>2. CASE Skip \/ Done
    <2>1. TypeOK'
      BY <1>2 DEF Skip, Done, TypeOK, audio, link
    <2>2. ReadyInv' /\ QuietInv' /\ PortInv' /\ WaitInv' /\ CacheInv'
      BY <1>2 DEF Skip, Done, audio, link, ReadyInv, QuietInv, PortInv,
         WaitInv, CacheInv, Sending
    <2>3. QED
      BY <2>1, <2>2
  <1>3. CASE PutRegister
    <2>1. TypeOK'
      BY <1>3 DEF PutRegister, TypeOK, audio
    <2>2. ReadyInv' /\ QuietInv' /\ PortInv' /\ WaitInv' /\ CacheInv'
      BY <1>3 DEF PutRegister, audio, ReadyInv, QuietInv, PortInv, WaitInv,
         CacheInv, Sending
    <2>3. QED
      BY <2>1, <2>2
  <1>4. CASE PutToken
    <2>1. token' \in 0..(Tokens - 1) /\ token' # token
      BY <1>4, NextToken DEF PutToken, TypeOK
    <2>2. TypeOK'
      BY <1>4, <2>1, LinkAssumption DEF PutToken, TypeOK, audio
    <2>3. portEcho' # token'
      BY <1>4, <2>1, LinkAssumption
      DEF PutToken, audio, QuietInv, ReadyInv, Sending
    <2>4. ReadyInv' /\ QuietInv' /\ PortInv' /\ WaitInv' /\ CacheInv'
      BY <1>4, <2>1, <2>3, LinkAssumption
      DEF PutToken, audio, ReadyInv, QuietInv, PortInv,
         WaitInv, CacheInv, Sending
    <2>5. QED
      BY <2>2, <2>4
  <1>5. CASE Echoed
    <2>1. TypeOK'
      BY <1>5 DEF Echoed, TypeOK, audio, link
    <2>2. ReadyInv' /\ QuietInv' /\ PortInv' /\ WaitInv' /\ CacheInv'
      BY <1>5 DEF Echoed, audio, link, ReadyInv, QuietInv, PortInv, WaitInv,
         CacheInv, Sending, TypeOK
    <2>3. QED
      BY <2>1, <2>2
  <1>6. CASE Poll
    <2>1. polls' \in 0..Polls /\ (cpu' = "wait" => polls' > 0)
      BY <1>6, LinkAssumption DEF Poll, TypeOK, ReadyInv
    <2>2. ready' \in BOOLEAN /\ fault' \in BOOLEAN /\ cpu' \in {"idle", "wait"}
      BY <1>6 DEF Poll, GiveUp, TypeOK
    <2>3. TypeOK'
      BY <1>6, <2>1, <2>2 DEF Poll, TypeOK, audio, link
    <2>4. ReadyInv' /\ QuietInv' /\ PortInv' /\ WaitInv' /\ CacheInv'
      BY <1>6, <2>1 DEF Poll, GiveUp, audio, link, ReadyInv, QuietInv, PortInv,
         WaitInv, CacheInv, Sending
    <2>5. QED
      BY <2>3, <2>4
  <1>7. CASE SpcPoll \/ SpcRegister
    <2>1. TypeOK'
      BY <1>7 DEF SpcPoll, SpcRegister, TypeOK, host, link
    <2>2. ReadyInv' /\ QuietInv' /\ PortInv' /\ WaitInv' /\ CacheInv'
      BY <1>7 DEF SpcPoll, SpcRegister, host, link, ReadyInv, QuietInv,
         PortInv, WaitInv, CacheInv, Sending
    <2>3. QED
      BY <2>1, <2>2
  <1>8. CASE SpcValue
    <2>1. TypeOK'
      BY <1>8 DEF SpcValue, TypeOK, host, link
    <2>2. ReadyInv' /\ QuietInv' /\ PortInv' /\ WaitInv'
      BY <1>8 DEF SpcValue, host, link, ReadyInv, QuietInv, PortInv, WaitInv,
         Sending, TypeOK
    <2>3. CacheInv'
      BY <1>8 DEF SpcValue, host, link, QuietInv, WaitInv, CacheInv, Sending,
         TypeOK
    <2>4. QED
      BY <2>1, <2>2, <2>3
  <1>9. CASE SpcEcho
    <2>1. TypeOK'
      BY <1>9 DEF SpcEcho, TypeOK, host, link
    <2>2. ReadyInv' /\ QuietInv' /\ PortInv' /\ WaitInv' /\ CacheInv'
      BY <1>9 DEF SpcEcho, host, link, ReadyInv, QuietInv, PortInv, WaitInv,
         CacheInv, Sending
    <2>3. QED
      BY <2>1, <2>2
  <1>10. CASE UNCHANGED vars
    BY <1>10 DEF vars, host, link, audio, TypeOK, ReadyInv, QuietInv, PortInv,
       WaitInv, CacheInv, Sending
  <1>11. QED
    BY <1>1, <1>2, <1>3, <1>4, <1>5, <1>6, <1>7, <1>8, <1>9, <1>10
    DEF Next, CpuStep, SpcStep

\* In every reachable state of the link the invariant holds: whatever the
\* receiver's speed, AudioWrite and the receiver keep in step.
THEOREM LinkInvariant == Spec => []IInv
  BY LinkInit, LinkStep, PTL DEF Spec

\* Every variable of AudioWrite, AudioWait and the receiver keeps its type.
THEOREM LinkTypes == Spec => []TypeOK
  <1>1. IInv => TypeOK
    BY DEF IInv
  <1>2. QED
    BY <1>1, LinkInvariant, PTL

\* A value AudioWrite has sent over a working link is in the DSP when it
\* returns, whatever the speed of the receiver.
THEOREM CommandsArrive == Spec => []LinkCoherent
  <1>1. IInv => LinkCoherent
    BY DEF IInv, CacheInv, LinkCoherent, Sending
  <1>2. QED
    BY <1>1, LinkInvariant, PTL

\* After AudioWait has timed out once, no token is announced again and the
\* fault stays.
THEOREM FaultIsFinal == Spec => FaultDisables
  <1>1. ASSUME IInv, [Next]_vars, fault
        PROVE  UNCHANGED <<fault, ready, portToken>>
    <2>1. ~ready /\ ~Sending
      BY <1>1 DEF IInv, ReadyInv
    <2>2. CASE CpuStep
      BY <1>1, <2>1, <2>2 DEF CpuStep, Send, Sends, Skip, Done, PutRegister,
         PutToken, Echoed, Poll, Sending, link
    <2>3. CASE SpcStep
      BY <2>3 DEF SpcStep, SpcPoll, SpcRegister, SpcValue, SpcEcho, host, link
    <2>4. CASE UNCHANGED vars
      BY <2>4 DEF vars, host, link
    <2>5. QED
      BY <1>1, <2>2, <2>3, <2>4 DEF Next
  <1>2. IInv /\ [Next]_vars
          => [fault => UNCHANGED <<fault, ready, portToken>>]_vars
    BY <1>1
  <1>3. QED
    BY <1>2, LinkInvariant, PTL DEF Spec, FaultDisables

\* A bound on the steps AudioWrite still takes: the polls left, and the stores
\* before the first of them.
StepsLeft ==
    CASE cpu = "idle" -> 0 [] cpu = "skipped" -> 1 [] cpu = "wait" -> polls
      [] cpu = "token" -> Polls + 1 [] OTHER -> Polls + 2

\* AudioWrite returns after Polls + 2 steps of its own at most, whatever the
\* receiver does meanwhile: every step of the CPU before the return lowers the
\* bound, and no step of the receiver raises it.
THEOREM WritesAreBounded ==
    Spec => /\ [](/\ StepsLeft \in 0..(Polls + 2)
                  /\ StepsLeft = 0 <=> cpu = "idle")
            /\ [][cpu # "idle" => UNCHANGED host \/ StepsLeft' < StepsLeft]_vars
  <1>1. IInv => StepsLeft \in 0..(Polls + 2) /\ (StepsLeft = 0 <=> cpu = "idle")
    BY LinkAssumption DEF IInv, TypeOK, ReadyInv, StepsLeft
  <1>2. ASSUME IInv, [Next]_vars, cpu # "idle"
        PROVE  UNCHANGED host \/ StepsLeft' < StepsLeft
    <2>1. polls \in Nat /\ Polls \in Nat \ {0} /\ (cpu = "wait" => polls > 0)
      BY <1>2, LinkAssumption DEF IInv, TypeOK, ReadyInv
    <2>2. CASE Send \/ Skip
      BY <1>2, <2>2 DEF Send, Skip
    <2>3. CASE Done \/ Echoed
      BY <2>1, <2>3 DEF Done, Echoed, StepsLeft
    <2>4. CASE PutRegister \/ PutToken
      BY <2>1, <2>4 DEF PutRegister, PutToken, StepsLeft
    <2>5. CASE Poll
      BY <2>1, <2>5 DEF Poll, StepsLeft
    <2>6. CASE SpcStep
      BY <2>6 DEF SpcStep, SpcPoll, SpcRegister, SpcValue, SpcEcho
    <2>7. CASE UNCHANGED vars
      BY <2>7 DEF vars
    <2>8. QED
      BY <1>2, <2>2, <2>3, <2>4, <2>5, <2>6, <2>7 DEF Next, CpuStep
  <1>3. IInv /\ [Next]_vars
          => [cpu # "idle" => UNCHANGED host \/ StepsLeft' < StepsLeft]_vars
    BY <1>2
  <1>4. QED
    BY <1>1, <1>3, LinkInvariant, PTL DEF Spec
=============================================================================
