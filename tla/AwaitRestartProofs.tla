------------------------- MODULE AwaitRestartProofs -------------------------
(***************************************************************************)
(* What AwaitRestart concludes from an answer is right, and it does not     *)
(* pass a restarted process over, for every jitter, margin and timeout      *)
(* with 2 * Jitter <= Margin.                                               *)
(***************************************************************************)
EXTENDS AwaitRestart, TLAPS

Early == {"idle", "sending", "replied", "failed"}

(* The process that answered started within Jitter of the interval from    *)
(* startedFrom to startedBy.                                                *)
Bracketed ==
  stage = "answered" =>
    /\ startedFrom <= answerer + Jitter
    /\ answerer - Jitter <= startedBy
    /\ servedBy <= answerer
    /\ \A b \in passedOver : b <= answerer

(* Nothing is remembered before the loop, and what is remembered places    *)
(* the processes passed over.                                               *)
Remembered ==
  /\ stage \in Early => passedOver = {}
  /\ seen => servedBy - Jitter <= seenBy
  /\ \A b \in passedOver : seenBy <= b + ProbeTimeout + Jitter

IInv == TypeOK /\ Bracketed /\ Remembered /\ RestartOverIfPrompt /\ RestartNoticed

LEMMA Start0 == Init => IInv
<1> SUFFICES ASSUME Init PROVE IInv
  OBVIOUS
<1> USE TimeAssumption DEF Init
<1>1. TypeOK
  <2>1. seen = (passedOver # {}) /\ passedOver \in SUBSET (0..born)
    OBVIOUS
  <2> QED
    BY <2>1 DEF TypeOK, Stages
<1>2. Bracketed /\ Remembered
  BY DEF Bracketed, Remembered
<1>3. RestartOverIfPrompt /\ RestartNoticed
  BY DEF RestartOverIfPrompt, RestartOver, RestartNoticed
<1> QED
  BY <1>1, <1>2, <1>3 DEF IInv

LEMMA TypeStep == IInv /\ [Next]_vars => TypeOK'
<1> SUFFICES ASSUME IInv, [Next]_vars PROVE TypeOK'
  OBVIOUS
<1> USE TimeAssumption DEF IInv, TypeOK, Stages
<1>1. CASE Tick
  BY <1>1 DEF Tick, ftlVars, probeVars, seenVars
<1>2. CASE Die
  BY <1>2 DEF Die, probeVars, seenVars
<1>3. CASE Start
  BY <1>3 DEF Start, probeVars, seenVars
<1>4. CASE SendWrite
  BY <1>4 DEF SendWrite, ftlVars, probeVars, seenVars
<1>5. CASE ServeWrite
  BY <1>5 DEF ServeWrite, ftlVars, probeVars, seenVars
<1>6. CASE WriteFails \/ TakeReply \/ WaitEnds
  BY <1>6 DEF WriteFails, TakeReply, WaitEnds, ftlVars, probeVars, seenVars
<1>7. CASE Probe
  BY <1>7 DEF Probe, ftlVars, seenVars
<1>8. CASE \E off \in (-Jitter)..Jitter : AnswerProbe(off)
  BY <1>8 DEF AnswerProbe, ftlVars, seenVars
<1>9. CASE ProbeFails
  BY <1>9 DEF ProbeFails, ftlVars, probeVars, seenVars
<1>10. CASE TakeAnswer
  <2>1. UNCHANGED <<now, up, born, sent, servedBy, probed, uptime, answerer>>
    BY <1>10 DEF TakeAnswer, ftlVars, probeVars
  <2>2. CASE Confirmed
    BY <1>10, <2>1, <2>2 DEF TakeAnswer, seenVars
  <2>3. CASE ~Confirmed
    <3>1. startedBy \in Int
      BY DEF startedBy
    <3>2. /\ stage' = "waiting" /\ seen' = TRUE
          /\ passedOver' = passedOver \cup {answerer}
          /\ seenBy' \in Int
      BY <1>10, <2>3, <3>1 DEF TakeAnswer
    <3> QED
      BY <2>1, <3>2
  <2> QED
    BY <2>2, <2>3
<1>11. CASE UNCHANGED vars
  BY <1>11 DEF vars, ftlVars, probeVars, seenVars
<1> QED
  BY <1>1, <1>2, <1>3, <1>4, <1>5, <1>6, <1>7, <1>8, <1>9, <1>10, <1>11 DEF Next

LEMMA Shifted ==
  ASSUME NEW x \in Int, NEW y \in Int, NEW z \in Int, x <= y
  PROVE  x - z <= y - z
OBVIOUS

(* The steps that leave what the conclusion rests on alone. *)
LEMMA QuietStep ==
  ASSUME IInv, TypeOK',
         Tick \/ Die \/ Start \/ WriteFails \/ TakeReply \/ Probe
           \/ ProbeFails \/ WaitEnds \/ UNCHANGED vars
  PROVE  Bracketed' /\ Remembered' /\ RestartOverIfPrompt' /\ RestartNoticed'
<1> USE TimeAssumption DEF IInv, TypeOK, Stages, Early
<1>1. /\ UNCHANGED <<sent, servedBy, answerer, uptime, seen, seenBy, passedOver>>
      /\ stage' = "answered" => stage = "answered" /\ UNCHANGED probed
      /\ stage' \in Early => stage \in Early
      /\ stage' = "restarted" => stage = "restarted"
      /\ now <= now'
  <2> USE DEF ftlVars, probeVars, seenVars
  <2>1. CASE Tick \/ Die \/ Start
    BY <2>1 DEF Tick, Die, Start
  <2>2. CASE WriteFails \/ TakeReply
    BY <2>2 DEF WriteFails, TakeReply
  <2>3. CASE Probe \/ ProbeFails \/ WaitEnds
    BY <2>3 DEF Probe, ProbeFails, WaitEnds
  <2>4. CASE UNCHANGED vars
    BY <2>4 DEF vars
  <2> QED
    BY <2>1, <2>2, <2>3, <2>4
<1>2. Bracketed'
  <2> SUFFICES ASSUME stage' = "answered" PROVE Bracketed'
    BY DEF Bracketed
  <2>1. stage = "answered" /\ probed' = probed
    BY <1>1
  <2>2. startedFrom' = startedFrom /\ startedBy <= startedBy'
    <3>1. startedFrom' = startedFrom
      BY <1>1, <2>1 DEF startedFrom
    <3>2. startedBy <= startedBy'
      <4> HIDE DEF TypeOK, IInv
      <4>1. now \in Nat /\ now' \in Nat /\ uptime \in Int
        BY DEF TypeOK, IInv
      <4>2. startedBy' = now' - uptime /\ startedBy = now - uptime
        BY <1>1 DEF startedBy
      <4>3. now - uptime <= now' - uptime
        <5> HIDE DEF Early, Stages
        <5>1. now <= now'
          BY <1>1
        <5>2. now \in Int /\ now' \in Int
          BY <4>1
        <5> QED
          BY <4>1, <5>1, <5>2, Shifted
      <4> QED
        BY <4>2, <4>3
    <3> QED
      BY <3>1, <3>2
  <2>3. startedBy \in Int /\ startedBy' \in Int
    BY <1>1 DEF startedBy
  <2>4. /\ startedFrom <= answerer + Jitter
        /\ answerer - Jitter <= startedBy
        /\ servedBy <= answerer
        /\ \A b \in passedOver : b <= answerer
    BY <2>1 DEF Bracketed
  <2> HIDE DEF TypeOK, IInv
  <2>5. answerer - Jitter \in Int
    BY DEF IInv, TypeOK
  <2> QED
    BY <1>1, <2>2, <2>3, <2>4, <2>5 DEF Bracketed
<1>3. Remembered'
  BY <1>1 DEF Remembered
<1>4. RestartOverIfPrompt' /\ RestartNoticed'
  BY <1>1 DEF RestartOverIfPrompt, RestartOver, RestartNoticed
<1> QED
  BY <1>2, <1>3, <1>4

(* A write, until its reply: nothing has been probed yet. *)
LEMMA WriteStep ==
  ASSUME IInv, TypeOK', SendWrite \/ ServeWrite
  PROVE  Bracketed' /\ Remembered' /\ RestartOverIfPrompt' /\ RestartNoticed'
<1>1. /\ stage \in Early /\ stage' \in {"sending", "replied"}
      /\ UNCHANGED <<seen, seenBy, passedOver>>
  BY DEF SendWrite, ServeWrite, Early, seenVars
<1>2. passedOver' = {} /\ ~seen'
  BY <1>1 DEF IInv, Remembered, TypeOK
<1> QED
  BY <1>1, <1>2
  DEF Bracketed, Remembered, RestartOverIfPrompt, RestartOver, RestartNoticed

(* An answer places the start of the process that gave it. *)
LEMMA AnswerStep ==
  ASSUME IInv, TypeOK', NEW off \in (-Jitter)..Jitter, AnswerProbe(off)
  PROVE  Bracketed' /\ Remembered' /\ RestartOverIfPrompt' /\ RestartNoticed'
<1> USE TimeAssumption DEF IInv, TypeOK
<1>1. /\ stage' = "answered" /\ answerer' = born
      /\ uptime' = (now - born) + off
      /\ UNCHANGED <<now, born, sent, servedBy, probed, seen, seenBy, passedOver>>
  BY DEF AnswerProbe, ftlVars, seenVars
<1>2. off \in Int /\ -Jitter <= off /\ off <= Jitter
  OBVIOUS
<1>3. Bracketed'
  BY <1>1, <1>2 DEF Bracketed, startedFrom, startedBy
<1>4. Remembered'
  BY <1>1 DEF Remembered, Early
<1>5. RestartOverIfPrompt' /\ RestartNoticed'
  BY <1>1 DEF RestartOverIfPrompt, RestartOver, RestartNoticed
<1> QED
  BY <1>3, <1>4, <1>5

(* An answer that confirms comes from a later process than the one that    *)
(* carried the write out.                                                   *)
LEMMA ConfirmStep ==
  ASSUME IInv, TypeOK', TakeAnswer, Confirmed
  PROVE  Bracketed' /\ Remembered' /\ RestartOverIfPrompt' /\ RestartNoticed'
<1> USE TimeAssumption DEF IInv, TypeOK
<1>1. /\ stage = "answered" /\ stage' = "restarted"
      /\ UNCHANGED <<sent, servedBy, answerer, seen, seenBy, passedOver>>
  BY DEF TakeAnswer, seenVars, probeVars
<1>2. startedFrom <= answerer + Jitter
  BY <1>1 DEF Bracketed
<1>3. ASSUME servedBy + Jitter <= sent PROVE servedBy < answerer
  <2> startedFrom \in Int
    BY DEF startedFrom
  <2>1. CASE startedFrom > sent
    BY <1>2, <1>3, <2>1
  <2>2. CASE seen /\ startedFrom > seenBy + Margin
    BY <1>2, <2>2 DEF Remembered
  <2> QED
    BY <2>1, <2>2 DEF Confirmed
<1>4. RestartOverIfPrompt'
  BY <1>1, <1>3 DEF RestartOverIfPrompt, RestartOver
<1>5. Bracketed' /\ Remembered' /\ RestartNoticed'
  BY <1>1 DEF Bracketed, Remembered, Early, RestartNoticed
<1> QED
  BY <1>4, <1>5

(* A process is passed over only if it started soon after the request and  *)
(* soon after the others.                                                   *)
LEMMA PassStep ==
  ASSUME IInv, TypeOK', TakeAnswer, ~Confirmed
  PROVE  Bracketed' /\ Remembered' /\ RestartOverIfPrompt' /\ RestartNoticed'
<1> USE TimeAssumption DEF IInv, TypeOK
<1>1. /\ stage = "answered" /\ stage' = "waiting"
      /\ now - probed <= ProbeTimeout
      /\ UNCHANGED <<sent, servedBy, answerer>>
      /\ passedOver' = passedOver \cup {answerer}
      /\ seenBy' = IF ~seen \/ startedBy < seenBy THEN startedBy ELSE seenBy
      /\ seen' = TRUE
  BY DEF TakeAnswer, probeVars
<1>2. /\ startedFrom <= answerer + Jitter
      /\ answerer - Jitter <= startedBy
      /\ servedBy <= answerer
      /\ \A b \in passedOver : b <= answerer
  BY <1>1 DEF Bracketed
<1>3. /\ startedFrom \in Int /\ startedBy \in Int
      /\ startedBy <= answerer + ProbeTimeout + Jitter
      /\ answerer - ProbeTimeout - Jitter <= startedFrom
  BY <1>1, <1>2 DEF startedFrom, startedBy
<1>4. Remembered'
  <2>1. servedBy' - Jitter <= seenBy'
    BY <1>1, <1>2, <1>3 DEF Remembered
  <2>2. ASSUME NEW b \in passedOver' PROVE seenBy' <= b + ProbeTimeout + Jitter
    <3>1. CASE b = answerer
      BY <1>1, <1>3, <3>1
    <3>2. CASE b \in passedOver
      BY <1>1, <1>3, <3>2 DEF Remembered
    <3> QED
      BY <1>1, <3>1, <3>2
  <2> QED
    BY <1>1, <2>1, <2>2 DEF Remembered, Early
<1>5. RestartNoticed'
  <2>1. startedFrom <= sent /\ (seen => startedFrom <= seenBy + Margin)
    BY <1>3 DEF Confirmed
  <2>2. answerer <= sent + ProbeTimeout + Jitter
    BY <1>3, <2>1
  <2>3. ASSUME NEW a \in passedOver
        PROVE  answerer - a <= 2 * (ProbeTimeout + Jitter) + Margin
    <3>1. a \in Int
      OBVIOUS
    <3>2. seen
      <4>1. passedOver # {}
        OBVIOUS
      <4> QED
        BY <4>1
    <3>3. seenBy <= a + ProbeTimeout + Jitter
      BY DEF Remembered
    <3> QED
      BY <1>3, <2>1, <3>1, <3>2, <3>3
  <2>4. ASSUME NEW b \in passedOver
        PROVE  b - answerer <= 2 * (ProbeTimeout + Jitter) + Margin
    BY <1>2
  <2> QED
    BY <1>1, <2>2, <2>3, <2>4 DEF RestartNoticed
<1>6. Bracketed' /\ RestartOverIfPrompt'
  BY <1>1 DEF Bracketed, RestartOverIfPrompt, RestartOver
<1> QED
  BY <1>4, <1>5, <1>6

THEOREM Inductive == IInv /\ [Next]_vars => IInv'
<1> SUFFICES ASSUME IInv, [Next]_vars PROVE IInv'
  OBVIOUS
<1>1. TypeOK'
  BY TypeStep
<1>2. Bracketed' /\ Remembered' /\ RestartOverIfPrompt' /\ RestartNoticed'
  BY <1>1, QuietStep, WriteStep, AnswerStep, ConfirmStep, PassStep DEF Next
<1> QED
  BY <1>1, <1>2 DEF IInv

(* Times and stages stay what they are meant to be. *)
THEOREM TypeCorrect == Spec => []TypeOK
<1>1. IInv => TypeOK
  BY DEF IInv
<1> QED
  BY Start0, Inductive, <1>1, PTL DEF Spec

(* A wait for the restart caused by a write that was served at once ends   *)
(* only once a later process answers, whatever jitter, failed probes and    *)
(* slow answers there are.                                                  *)
THEOREM OverIfPrompt == Spec => []RestartOverIfPrompt
<1>1. IInv => RestartOverIfPrompt
  BY DEF IInv
<1> QED
  BY Start0, Inductive, <1>1, PTL DEF Spec

(* A restarted process that answers is passed over only if it started      *)
(* within one probe of the request, and two of any other passed over.       *)
THEOREM Noticed == Spec => []RestartNoticed
<1>1. IInv => RestartNoticed
  BY DEF IInv
<1> QED
  BY Start0, Inductive, <1>1, PTL DEF Spec
=============================================================================
