---------------------------- MODULE ServerProofs ----------------------------
(***************************************************************************)
(* The promises of the server's two sides.                                  *)
(*                                                                         *)
(* Towards a Pi-hole (ApiClient), for any number of goroutines, session ids *)
(* and retries: a change is carried out at most once, and its caller is     *)
(* told the truth about it.  With a shutdown that waits for the running     *)
(* calls, the client never holds a second seat.                             *)
(*                                                                         *)
(* Towards its own clients (Serving), for any environment, tools,           *)
(* connections and Pi-holes: a call goes where it was meant to, its report  *)
(* is of what happened, the gravity update's included, and no call is cut   *)
(* off before the grace period is over.                                     *)
(***************************************************************************)
EXTENDS ApiClient, Serving, FiniteSetTheorems, SequenceTheorems, TLAPS

----------------------------------------------------------------------------
(* ApiClient: the fate of a change *)

(* Nothing answered, or an answer given before doing anything. *)
Unserved == {"none", "auth", "rate", "server", "reject"}

(* The fate of a call's change, by the place the call is at. *)
Fate(p) ==
  /\ kind[p] = "read" => applied[p] = 0 /\ late[p] = 0
  /\ pc[p] \in {"ensure", "lock", "login", "send", "reauth", "backoff"} =>
       applied[p] = 0 /\ late[p] = 0
  /\ pc[p] = "wait" =>
       /\ late[p] = 0
       /\ answer[p] \in Unserved => applied[p] = 0
       /\ applied[p] <= 1
       /\ answer[p] = "ok" /\ kind[p] = "write" => applied[p] = 1
       /\ live[p]
  /\ pc[p] = "idle" =>
       /\ applied[p] + late[p] <= 1
       /\ kind[p] = "write" =>
            /\ result[p] = "ok" => applied[p] = 1 /\ late[p] = 0
            /\ result[p] = "error" => applied[p] = 0 /\ late[p] = 0
  /\ ~live[p] => ended[p]
  /\ pc[p] = "backoff" => attempt[p] < MaxRetries /\ result[p] # "ok"

CallInv == TypeOK /\ \A p \in Procs : Fate(p)

(* Every label of an error is a result. *)
LEMMA LabelType ==
  ASSUME NEW p \in Procs, NEW e
  PROVE  Label(p, e) \in Results \ {"none", "ok"}
  BY DEF Label, Results

(* What a failed attempt leaves: its caller backs off, with an error that   *)
(* may be tried again, or has returned, with the error labelled.            *)
LEMMA FailEffect ==
  ASSUME TypeOK, NEW p \in Procs, NEW e, Fail(p, e)
  PROVE  /\ \E q \in {"idle", "backoff"} : pc' = [pc EXCEPT ![p] = q]
         /\ pc'[p] = "backoff" =>
              /\ retryable(e, kind[p] = "read")
              /\ attempt[p] < MaxRetries
              /\ UNCHANGED <<live, ended, attempt>>
         /\ result' = [result EXCEPT ![p] = Label(p, e)]
         /\ used' = [used EXCEPT ![p] = NoSid]
         /\ replay' = [replay EXCEPT ![p] = FALSE]
         /\ answer' = [answer EXCEPT ![p] = "none"]
         /\ kind' = kind
         /\ \/ UNCHANGED <<live, ended, attempt>>
            \/ /\ live' = [live EXCEPT ![p] = TRUE]
               /\ ended' = [ended EXCEPT ![p] = FALSE]
               /\ attempt' = [attempt EXCEPT ![p] = 0]
  <1>1. CASE attempt[p] < MaxRetries /\ retryable(e, kind[p] = "read")
    <2>1. BackOff(p, Label(p, e))
      BY <1>1 DEF Fail, idempotentMethod
    <2>. QED
      BY <1>1, <2>1 DEF BackOff, EndAttempt, TypeOK
  <1>2. CASE ~(attempt[p] < MaxRetries /\ retryable(e, kind[p] = "read"))
    <2>1. Return(p, Label(p, e))
      BY <1>2 DEF Fail, idempotentMethod
    <2>. QED
      BY <2>1 DEF Return, EndAttempt, TypeOK
  <1>. QED
    BY <1>1, <1>2

(* A failed attempt keeps the types of the variables it sets. *)
LEMMA FailType ==
  ASSUME TypeOK, NEW p \in Procs, NEW e, Fail(p, e)
  PROVE  /\ pc' \in [Procs -> Places] /\ kind' \in [Procs -> Kinds]
         /\ live' \in [Procs -> BOOLEAN] /\ ended' \in [Procs -> BOOLEAN]
         /\ attempt' \in [Procs -> 0..MaxRetries]
         /\ used' \in [Procs -> Sids \cup {NoSid}]
         /\ replay' \in [Procs -> BOOLEAN] /\ answer' \in [Procs -> Answers]
         /\ result' \in [Procs -> Results]
  <1>1. Label(p, e) \in Results
    BY LabelType
  <1>2. pc' \in [Procs -> Places]
    BY FailEffect DEF TypeOK, Places
  <1>3. attempt' \in [Procs -> 0..MaxRetries]
    BY FailEffect, ClientAssumption DEF TypeOK
  <1>4. /\ kind' \in [Procs -> Kinds] /\ result' \in [Procs -> Results]
        /\ used' \in [Procs -> Sids \cup {NoSid}] /\ answer' \in [Procs -> Answers]
    BY <1>1, FailEffect DEF TypeOK, Answers
  <1>5. /\ live' \in [Procs -> BOOLEAN] /\ ended' \in [Procs -> BOOLEAN]
        /\ replay' \in [Procs -> BOOLEAN]
    BY FailEffect DEF TypeOK
  <1>. QED
    BY <1>2, <1>3, <1>4, <1>5

LEMMA InitType == Init => TypeOK
  BY ClientAssumption DEF Init, TypeOK, Places, Answers, Refusals, Results

(* Every step keeps the types of the client's and of FTL's state. *)
LEMMA NextType == CallInv /\ [Next]_vars => TypeOK'
  <1>. SUFFICES ASSUME CallInv, TypeOK, [Next]_vars PROVE TypeOK'
    BY DEF CallInv
  <1>0. open' \in BOOLEAN
    BY DEF Next, TypeOK, vars
  <1>. USE <1>0 DEF callVars, ftlVars, seatVars
  <1>1. ASSUME NEW p \in Procs, NEW k \in Kinds, NEW dead \in BOOLEAN, Begin(p, k, dead)
        PROVE  TypeOK'
    BY <1>1 DEF Begin, TypeOK, Places, Results
  <1>2. ASSUME NEW p \in Procs, EndContext(p) PROVE TypeOK'
    BY <1>2 DEF EndContext, TypeOK
  <1>3. ASSUME NEW p \in Procs, GiveUp(p) PROVE TypeOK'
    BY <1>3, ClientAssumption DEF GiveUp, Return, EndAttempt, TypeOK, Places, Answers
  <1>4. ASSUME NEW p \in Procs, Ensure(p) PROVE TypeOK'
    BY <1>4 DEF Ensure, Carry, TypeOK, Places
  <1>5. ASSUME NEW p \in Procs, Lock(p) PROVE TypeOK'
    BY <1>5 DEF Lock, Carry, TypeOK, Places
  <1>6. ASSUME NEW p \in Procs, Reauth(p) PROVE TypeOK'
    BY <1>6 DEF Reauth, Carry, TypeOK, Places
  <1>7. ASSUME NEW p \in Procs, Wake(p) PROVE TypeOK'
    <2>1. attempt[p] + 1 \in 0..MaxRetries
      BY <1>7, ClientAssumption DEF Wake, CallInv, Fate, TypeOK
    <2>. QED
      BY <1>7, <2>1 DEF Wake, TypeOK, Places, Results
  <1>8. ASSUME NEW p \in Procs, NEW s \in Sids \cup {NoSid}, LoginOK(p, s) PROVE TypeOK'
    BY <1>8 DEF LoginOK, Grants, Fresh, Carry, TypeOK, Places
  <1>9. ASSUME NEW p \in Procs, NEW c \in Classes, LoginFail(p, c) PROVE TypeOK'
    <2>1. /\ sessions' \in SUBSET Sids /\ lost' \in SUBSET sessions'
      BY <1>9 DEF LoginFail, TypeOK
    <2>. QED
      BY <1>9, <2>1, FailType DEF LoginFail, TypeOK
  <1>10. ASSUME NEW p \in Procs, Send(p) PROVE TypeOK'
    BY <1>10 DEF Send, TypeOK, Places, Answers
  <1>11. ASSUME NEW p \in Procs, SendFail(p) PROVE TypeOK'
    BY <1>11, FailType DEF SendFail, TypeOK
  <1>12. ASSUME NEW p \in Procs, NEW a \in Answers, Serve(p, a) PROVE TypeOK'
    <2>1. applied' \in [Procs -> Nat]
      BY <1>12 DEF Serve, TypeOK
    <2>. QED
      BY <1>12, <2>1 DEF Serve, TypeOK
  <1>13. ASSUME NEW p \in Procs, ServeLate(p) PROVE TypeOK'
    BY <1>13 DEF ServeLate, TypeOK
  <1>14. ASSUME NEW p \in Procs, Succeed(p) PROVE TypeOK'
    BY <1>14, ClientAssumption DEF Succeed, Return, EndAttempt, TypeOK, Places, Answers, Results
  <1>15. ASSUME NEW p \in Procs, Unauthorised(p) PROVE TypeOK'
    BY <1>15 DEF Unauthorised, TypeOK, Places
  <1>16. ASSUME NEW p \in Procs, Refused(p) PROVE TypeOK'
    BY <1>16, FailType DEF Refused, TypeOK
  <1>17. ASSUME NEW p \in Procs, NEW c \in Classes, NoAnswer(p, c) PROVE TypeOK'
    <2>1. late' \in [Procs -> Nat]
      BY <1>17 DEF NoAnswer, TypeOK
    <2>. QED
      BY <1>17, <2>1, FailType DEF NoAnswer, TypeOK
  <1>18. ASSUME NEW s \in Sids, Expire(s) PROVE TypeOK'
    BY <1>18 DEF Expire, TypeOK
  <1>19. CASE Stop \/ Logout \/ LogoutFail \/ Forget
    <2>1. UNCHANGED <<mu, pc, kind, live, ended, attempt, used, replay, answer, result, applied, late>>
      BY <1>19 DEF Stop, Logout, LogoutFail, Forget
    <2>2. sid' \in Sids \cup {NoSid} /\ closing' \in {"off", "stopping", "answered", "closed"}
      BY <1>19 DEF Stop, Logout, LogoutFail, Forget, TypeOK
    <2>3. sessions' \in SUBSET Sids /\ lost' \in SUBSET sessions'
      BY <1>19 DEF Stop, Logout, LogoutFail, Forget, TypeOK
    <2>. QED
      BY <2>1, <2>2, <2>3 DEF TypeOK
  <1>20. CASE UNCHANGED vars
    BY <1>20 DEF vars, TypeOK
  <1>21. {"cut", "ended"} \subseteq Classes
    BY DEF Classes
  <1>. QED
    BY <1>1, <1>2, <1>3, <1>4, <1>5, <1>6, <1>7, <1>8, <1>9, <1>10, <1>11, <1>12, <1>13,
       <1>14, <1>15, <1>16, <1>17, <1>18, <1>19, <1>20, <1>21 DEF Next, Proceed

(* A failed attempt keeps its call's fate if nothing was done where the    *)
(* call goes on, or where it is told so.                                    *)
LEMMA FailFate ==
  ASSUME CallInv, NEW p \in Procs, NEW e, Fail(p, e),
         applied'[p] \in Nat, late'[p] \in Nat, applied'[p] + late'[p] <= 1,
         \/ applied'[p] = 0 /\ late'[p] = 0
         \/ kind[p] # "read" /\ ~retryable(e, FALSE)
            /\ (kind[p] = "write" => Label(p, e) # "error")
  PROVE  Fate(p)'
  <1>1. TypeOK /\ Fate(p)
    BY DEF CallInv
  <1>2. PICK r \in {"idle", "backoff"} : pc' = [pc EXCEPT ![p] = r]
    BY <1>1, FailEffect
  <1>3. pc'[p] = r /\ kind'[p] = kind[p] /\ result'[p] = Label(p, e)
    <2>1. kind' = kind /\ result' = [result EXCEPT ![p] = Label(p, e)]
      BY <1>1, FailEffect
    <2>. QED
      BY <1>1, <1>2, <2>1 DEF TypeOK
  <1>4. ~live'[p] => ended'[p]
    BY <1>1, FailEffect DEF TypeOK, Fate
  <1>5. r = "backoff" => retryable(e, kind[p] = "read") /\ attempt'[p] < MaxRetries
    BY <1>1, <1>3, FailEffect
  <1>6. Label(p, e) # "ok"
    BY LabelType
  <1>. QED
    BY <1>3, <1>4, <1>5, <1>6 DEF Fate

LEMMA InitFate == Init => \A p \in Procs : Fate(p)
  BY DEF Init, Fate

(* What FTL does and what the client is told about it, call by call.  Only *)
(* the call whose step it is can change its fate.                           *)
LEMMA NextFate == CallInv /\ [Next]_vars => \A q \in Procs : Fate(q)'
  <1>. SUFFICES ASSUME CallInv, TypeOK, [Next]_vars, NEW q \in Procs PROVE Fate(q)'
    BY DEF CallInv
  <1>0. Fate(q)
    BY DEF CallInv
  <1>. USE DEF callVars, ftlVars, seatVars
  <1>1. ASSUME NEW p \in Procs, NEW k \in Kinds, NEW dead \in BOOLEAN, Begin(p, k, dead)
        PROVE  Fate(q)'
    BY <1>0, <1>1 DEF Begin, Fate, TypeOK
  <1>2. ASSUME NEW p \in Procs, EndContext(p) PROVE Fate(q)'
    BY <1>0, <1>2 DEF EndContext, Fate, TypeOK
  <1>3. ASSUME NEW p \in Procs, GiveUp(p) PROVE Fate(q)'
    BY <1>0, <1>3 DEF GiveUp, Return, EndAttempt, Fate, TypeOK
  <1>4. ASSUME NEW p \in Procs, Ensure(p) PROVE Fate(q)'
    BY <1>0, <1>4 DEF Ensure, Carry, Fate, TypeOK
  <1>5. ASSUME NEW p \in Procs, Lock(p) PROVE Fate(q)'
    BY <1>0, <1>5 DEF Lock, Carry, Fate, TypeOK
  <1>6. ASSUME NEW p \in Procs, Reauth(p) PROVE Fate(q)'
    BY <1>0, <1>6 DEF Reauth, Carry, Fate, TypeOK
  <1>7. ASSUME NEW p \in Procs, Wake(p) PROVE Fate(q)'
    BY <1>0, <1>7 DEF Wake, Fate, TypeOK
  <1>8. ASSUME NEW p \in Procs, NEW s \in Sids \cup {NoSid}, LoginOK(p, s) PROVE Fate(q)'
    BY <1>0, <1>8 DEF LoginOK, Carry, Fate, TypeOK
  <1>10. ASSUME NEW p \in Procs, Send(p) PROVE Fate(q)'
    BY <1>0, <1>10 DEF Send, Fate, TypeOK
  <1>12. ASSUME NEW p \in Procs, NEW a \in Answers \ {"none"}, Serve(p, a) PROVE Fate(q)'
    BY <1>0, <1>12 DEF Serve, Fate, TypeOK, Unserved, Refusals
  <1>13. ASSUME NEW p \in Procs, ServeLate(p) PROVE Fate(q)'
    BY <1>0, <1>13 DEF ServeLate, Fate, TypeOK
  <1>14. ASSUME NEW p \in Procs, Succeed(p) PROVE Fate(q)'
    BY <1>0, <1>14 DEF Succeed, Return, EndAttempt, Fate, TypeOK
  <1>15. ASSUME NEW p \in Procs, Unauthorised(p) PROVE Fate(q)'
    BY <1>0, <1>15 DEF Unauthorised, Fate, TypeOK, Unserved
  <1>9. ASSUME NEW p \in Procs, NEW c \in Classes, LoginFail(p, c) PROVE Fate(q)'
    <2>1. CASE q = p
      <3>1. applied'[p] = 0 /\ late'[p] = 0
        BY <1>0, <1>9, <2>1 DEF LoginFail, Fate
      <3>2. Fail(p, [at |-> "login", class |-> c])
        BY <1>9 DEF LoginFail
      <3>3. applied'[p] \in Nat /\ late'[p] \in Nat /\ applied'[p] + late'[p] <= 1
        BY <3>1
      <3>. QED
        BY <2>1, <3>1, <3>2, <3>3, FailFate
    <2>2. CASE q # p
      BY <1>0, <1>9, <2>2, FailEffect DEF LoginFail, Fate, TypeOK
    <2>. QED
      BY <2>1, <2>2
  <1>11. ASSUME NEW p \in Procs, SendFail(p) PROVE Fate(q)'
    <2>1. CASE q = p
      <3>1. applied'[p] = 0 /\ late'[p] = 0
        BY <1>0, <1>11, <2>1 DEF SendFail, Fate
      <3>. DEFINE e == [at |-> "request", class |-> IF ended[p] THEN "ended" ELSE "refused"]
      <3>2. Fail(p, e)
        BY <1>11 DEF SendFail
      <3>. HIDE DEF e
      <3>3. applied'[p] \in Nat /\ late'[p] \in Nat /\ applied'[p] + late'[p] <= 1
        BY <3>1
      <3>. QED
        BY <2>1, <3>1, <3>2, <3>3, FailFate
    <2>2. CASE q # p
      BY <1>0, <1>11, <2>2, FailEffect DEF SendFail, Fate, TypeOK
    <2>. QED
      BY <2>1, <2>2
  <1>16. ASSUME NEW p \in Procs, Refused(p) PROVE Fate(q)'
    <2>1. CASE q = p
      <3>. DEFINE e == [at |-> "request", class |-> answer[p]]
      <3>1. Fail(p, e) /\ pc[p] = "wait" /\ UNCHANGED <<applied, late>>
            /\ answer[p] \in {"auth", "rate", "server", "reject", "garbled"}
        BY <1>16 DEF Refused, TypeOK, Answers, Refusals
      <3>2. CASE answer[p] # "garbled"
        <4>1. applied'[p] = 0 /\ late'[p] = 0
          BY <1>0, <2>1, <3>1, <3>2 DEF Fate, Unserved
        <4>2. applied'[p] \in Nat /\ late'[p] \in Nat /\ applied'[p] + late'[p] <= 1
          BY <4>1
        <4>. HIDE DEF e
        <4>. QED
          BY <2>1, <3>1, <4>1, <4>2, FailFate
      <3>3. CASE answer[p] = "garbled"
        <4>1. applied'[p] \in Nat /\ late'[p] \in Nat /\ applied'[p] + late'[p] <= 1
              /\ (kind[p] = "read" => applied'[p] = 0 /\ late'[p] = 0)
          BY <1>0, <2>1, <3>1 DEF Fate, TypeOK
        <4>2. ~retryable(e, FALSE) /\ Label(p, e) # "error"
          BY <3>3 DEF retryable, transient, Label, mayHaveApplied
        <4>. QED
          BY <2>1, <3>1, <4>1, <4>2, FailFate
      <3>. QED
        BY <3>2, <3>3
    <2>2. CASE q # p
      BY <1>0, <1>16, <2>2, FailEffect DEF Refused, Fate, TypeOK
    <2>. QED
      BY <2>1, <2>2
  <1>17. ASSUME NEW p \in Procs, NEW c \in {"cut", "ended"}, NoAnswer(p, c) PROVE Fate(q)'
    <2>1. CASE q = p
      <3>. DEFINE e == [at |-> "request", class |-> c]
      <3>1. Fail(p, e) /\ pc[p] = "wait" /\ live[p]
        BY <1>0, <1>17, <2>1 DEF NoAnswer, Fate
      <3>2. applied'[p] \in Nat /\ late'[p] \in Nat /\ applied'[p] + late'[p] <= 1
            /\ (kind[p] = "read" => applied'[p] = 0 /\ late'[p] = 0)
        BY <1>0, <1>17, <2>1, <3>1 DEF NoAnswer, Fate, TypeOK, Unserved
      <3>3. ~retryable(e, FALSE) /\ (kind[p] = "write" => Label(p, e) # "error")
        BY <3>1 DEF retryable, transient, Label, mayHaveApplied
      <3>. QED
        BY <2>1, <3>1, <3>2, <3>3, FailFate
    <2>2. CASE q # p
      BY <1>0, <1>17, <2>2, FailEffect DEF NoAnswer, Fate, TypeOK
    <2>. QED
      BY <2>1, <2>2
  <1>18. CASE (\E s \in Sids : Expire(s)) \/ Stop \/ Logout \/ LogoutFail \/ Forget
    BY <1>0, <1>18 DEF Expire, Stop, Logout, LogoutFail, Forget, Fate
  <1>19. CASE UNCHANGED vars
    BY <1>0, <1>19 DEF vars, Fate
  <1>. QED
    BY <1>1, <1>2, <1>3, <1>4, <1>5, <1>6, <1>7, <1>8, <1>9, <1>10, <1>11, <1>12, <1>13,
       <1>14, <1>15, <1>16, <1>17, <1>18, <1>19 DEF Next, Proceed

(* CallInv is an invariant of the client. *)
THEOREM CallInductive == Spec => []CallInv
  <1>1. Init => CallInv
    BY InitType, InitFate DEF CallInv
  <1>2. CallInv /\ [Next]_vars => CallInv'
    BY NextType, NextFate DEF CallInv
  <1>. QED
    BY <1>1, <1>2, PTL DEF Spec

(* The state of the client and of FTL always has its declared types; above *)
(* all, no call makes more attempts than the policy allows.                 *)
THEOREM TypeCorrect == Spec => []TypeOK
  <1>1. CallInv => TypeOK
    BY DEF CallInv
  <1>. QED
    BY <1>1, CallInductive, PTL

(* FTL carries a change out at most once, copies on their way included,    *)
(* through any number of retries, session refreshes and lost answers.       *)
THEOREM AppliedAtMostOnce == Spec => []AtMostOnce
  <1>1. CallInv => AtMostOnce
    <2>. SUFFICES ASSUME CallInv, NEW p \in Procs PROVE applied[p] + late[p] <= 1
      BY DEF AtMostOnce
    <2>1. Fate(p) /\ pc[p] \in Places /\ applied[p] \in Nat /\ late[p] \in Nat
      BY DEF CallInv, TypeOK
    <2>. QED
      BY <2>1 DEF Fate, Places
  <1>. QED
    BY <1>1, CallInductive, PTL

(* A change reported as done has been carried out, and one reported as     *)
(* failed, but not as uncertain, has not been and will not be.              *)
THEOREM Truthful == Spec => []OutcomeTruthful
  <1>1. CallInv => OutcomeTruthful
    BY DEF CallInv, Fate, OutcomeTruthful
  <1>. QED
    BY <1>1, CallInductive, PTL

----------------------------------------------------------------------------
(* One seat *)

(* The session a call was refused with is none FTL would accept. *)
Stale(p) ==
  (pc[p] = "wait" /\ answer[p] = "auth") \/ pc[p] = "reauth" => used[p] \notin sessions

(* Who logs in has the lock, and no session is current meanwhile. *)
LoggingIn(p) == pc[p] = "login" => mu = p /\ sid = NoSid

(* Close begins once the calls have returned, and no session of sid's is    *)
(* left when its logout is answered.                                        *)
Closing ==
  /\ closing \in {"answered", "closed"} => \A p \in Procs : pc[p] = "idle"
  /\ closing = "answered" => sid \notin sessions \ lost

SeatInv ==
  /\ OneSeat
  /\ \A p \in Procs : Stale(p) /\ LoggingIn(p)
  /\ Closing

LEMMA InitSeat == Init => SeatInv
  BY DEF Init, SeatInv, OneSeat, Stale, LoggingIn, Closing

LEMMA NextSeat ==
  ASSUME DrainWaits = TRUE, TypeOK, SeatInv, [Next]_vars
  PROVE  SeatInv'
  <1>. USE DEF callVars, ftlVars, seatVars
  <1>0. /\ \A p \in Procs : pc[p] # "idle" => closing \in {"off", "stopping"}
        /\ NoSid \notin Sids /\ Nobody \notin Procs
    BY ClientAssumption DEF SeatInv, Closing, TypeOK
  (* Steps of a call that leave the session alone and end no attempt. *)
  <1>1. ASSUME NEW p \in Procs, NEW k \in Kinds, NEW dead \in BOOLEAN, Begin(p, k, dead)
        PROVE  SeatInv'
    BY <1>0, <1>1 DEF Begin, SeatInv, OneSeat, Stale, LoggingIn, Closing, TypeOK
  <1>2. ASSUME NEW p \in Procs, EndContext(p) PROVE SeatInv'
    BY <1>2 DEF EndContext, SeatInv, OneSeat, Stale, LoggingIn, Closing
  <1>3. ASSUME NEW p \in Procs, GiveUp(p) PROVE SeatInv'
    BY <1>3 DEF GiveUp, Return, EndAttempt, SeatInv, OneSeat, Stale, LoggingIn, Closing, TypeOK
  <1>4. ASSUME NEW p \in Procs, Ensure(p) PROVE SeatInv'
    BY <1>0, <1>4 DEF Ensure, Carry, SeatInv, OneSeat, Stale, LoggingIn, Closing, TypeOK
  <1>5. ASSUME NEW p \in Procs, Lock(p) PROVE SeatInv'
    BY <1>0, <1>5 DEF Lock, Carry, SeatInv, OneSeat, Stale, LoggingIn, Closing, TypeOK
  <1>6. ASSUME NEW p \in Procs, Reauth(p) PROVE SeatInv'
    BY <1>0, <1>6 DEF Reauth, Carry, SeatInv, OneSeat, Stale, LoggingIn, Closing, TypeOK
  <1>7. ASSUME NEW p \in Procs, Wake(p) PROVE SeatInv'
    BY <1>0, <1>7 DEF Wake, SeatInv, OneSeat, Stale, LoggingIn, Closing, TypeOK
  <1>8. ASSUME NEW p \in Procs, NEW s \in Sids \cup {NoSid}, LoginOK(p, s) PROVE SeatInv'
    BY <1>0, <1>8 DEF LoginOK, Grants, Fresh, Carry, SeatInv, OneSeat, Stale, LoggingIn, Closing, TypeOK
  <1>10. ASSUME NEW p \in Procs, Send(p) PROVE SeatInv'
    BY <1>0, <1>10 DEF Send, SeatInv, OneSeat, Stale, LoggingIn, Closing, TypeOK
  <1>12. ASSUME NEW p \in Procs, NEW a \in Answers, Serve(p, a) PROVE SeatInv'
    BY <1>12 DEF Serve, Accepted, SeatInv, OneSeat, Stale, LoggingIn, Closing, TypeOK, Refusals
  <1>13. ASSUME NEW p \in Procs, ServeLate(p) PROVE SeatInv'
    BY <1>13 DEF ServeLate, SeatInv, OneSeat, Stale, LoggingIn, Closing
  <1>14. ASSUME NEW p \in Procs, Succeed(p) PROVE SeatInv'
    BY <1>14 DEF Succeed, Return, EndAttempt, SeatInv, OneSeat, Stale, LoggingIn, Closing, TypeOK
  <1>15. ASSUME NEW p \in Procs, Unauthorised(p) PROVE SeatInv'
    BY <1>0, <1>15 DEF Unauthorised, SeatInv, OneSeat, Stale, LoggingIn, Closing, TypeOK
  (* Steps that end an attempt. *)
  <1>16. ASSUME NEW p \in Procs, NEW e, Fail(p, e), pc[p] \in {"send", "wait"},
                UNCHANGED <<seatVars, closing>>
         PROVE  SeatInv'
    <2>1. PICK r \in {"idle", "backoff"} : pc' = [pc EXCEPT ![p] = r]
      BY <1>16, FailEffect
    <2>2. used' = [used EXCEPT ![p] = NoSid] /\ answer' = [answer EXCEPT ![p] = "none"]
      BY <1>16, FailEffect
    <2>3. \A q \in Procs : Stale(q)' /\ LoggingIn(q)'
      BY <1>16, <2>1, <2>2 DEF SeatInv, Stale, LoggingIn, TypeOK
    <2>4. Closing'
      BY <1>0, <1>16 DEF SeatInv, Closing
    <2>. QED
      BY <1>16, <2>3, <2>4 DEF SeatInv, OneSeat
  <1>17. ASSUME NEW p \in Procs, SendFail(p) \/ Refused(p) \/ \E c \in {"cut", "ended"} : NoAnswer(p, c)
         PROVE  SeatInv'
    BY <1>16, <1>17 DEF SendFail, Refused, NoAnswer
  <1>9. ASSUME NEW p \in Procs, NEW c \in Classes, LoginFail(p, c) PROVE SeatInv'
    <2>0. pc[p] = "login" /\ Fail(p, [at |-> "login", class |-> c])
          /\ mu' = Nobody /\ sid' = sid /\ closing' = closing
      BY <1>9 DEF LoginFail
    <2>1. PICK r \in {"idle", "backoff"} : pc' = [pc EXCEPT ![p] = r]
      BY <2>0, FailEffect
    <2>2. used' = [used EXCEPT ![p] = NoSid] /\ answer' = [answer EXCEPT ![p] = "none"]
      BY <2>0, FailEffect
    <2>3. \E N \in SUBSET Sids :
            /\ sessions' = sessions \cup N /\ lost' = lost \cup N
            /\ \A s \in N : Fresh(s)
      <3>1. CASE UNCHANGED <<sessions, lost>>
        <4>1. /\ {} \in SUBSET Sids /\ sessions' = sessions \cup {} /\ lost' = lost \cup {}
              /\ \A s \in {} : Fresh(s)
          BY <3>1
        <4>. QED
          BY <4>1
      <3>2. CASE ~UNCHANGED <<sessions, lost>>
        <4>1. PICK s \in Sids : /\ Grants(s) /\ sessions' = sessions \cup {s}
                               /\ lost' = lost \cup {s}
          BY <1>9, <3>2, Zenon DEF LoginFail
        <4>2. {s} \in SUBSET Sids /\ \A t \in {s} : Fresh(t)
          BY <1>0, <4>1 DEF Grants
        <4>. QED
          BY <4>1, <4>2
      <3>. QED
        BY <3>1, <3>2
    <2>4. \A q \in Procs : Stale(q)'
      BY <2>0, <2>1, <2>2, <2>3 DEF SeatInv, Stale, Fresh, TypeOK
    <2>5. \A q \in Procs : LoggingIn(q)'
      BY <1>0, <2>0, <2>1 DEF SeatInv, LoggingIn, TypeOK
    <2>6. Closing'
      BY <1>0, <2>0 DEF SeatInv, Closing
    <2>7. OneSeat'
      BY <2>0, <2>3 DEF SeatInv, OneSeat
    <2>. QED
      BY <2>4, <2>5, <2>6, <2>7 DEF SeatInv
  (* Steps of FTL and of the shutdown. *)
  <1>18. ASSUME NEW s \in Sids, Expire(s) PROVE SeatInv'
    BY <1>18 DEF Expire, SeatInv, OneSeat, Stale, LoggingIn, Closing
  <1>19. CASE Stop
    BY <1>19 DEF Stop, SeatInv, OneSeat, Stale, LoggingIn, Closing
  <1>20. CASE Logout
    BY <1>0, <1>20 DEF Logout, SeatInv, OneSeat, Stale, LoggingIn, Closing
  <1>21. CASE LogoutFail
    BY <1>0, <1>21 DEF LogoutFail, SeatInv, OneSeat, Stale, LoggingIn, Closing
  <1>22. CASE Forget
    BY <1>0, <1>22 DEF Forget, SeatInv, OneSeat, Stale, LoggingIn, Closing
  <1>23. CASE UNCHANGED vars
    BY <1>23 DEF vars, SeatInv, OneSeat, Stale, LoggingIn, Closing
  <1>. QED
    BY <1>1, <1>2, <1>3, <1>4, <1>5, <1>6, <1>7, <1>8, <1>9, <1>10, <1>12, <1>13, <1>14,
       <1>15, <1>17, <1>18, <1>19, <1>20, <1>21, <1>22, <1>23 DEF Next, Proceed

(* SeatInv is an invariant of a client that is closed once its calls have  *)
(* returned.                                                                *)
THEOREM SeatInductive ==
  ASSUME DrainWaits = TRUE
  PROVE  Spec => []SeatInv
  <1>1. Init => SeatInv
    BY InitSeat
  <1>2. SeatInv /\ TypeOK /\ [Next]_vars => SeatInv'
    BY NextSeat
  <1>. QED
    BY <1>1, <1>2, TypeCorrect, PTL DEF Spec

(* The client holds no seat but the one its sid names, and those whose     *)
(* login was answered too late, however many calls meet the same 401.       *)
THEOREM HoldsOneSeat ==
  ASSUME DrainWaits = TRUE
  PROVE  Spec => []OneSeat
  <1>1. SeatInv => OneSeat
    BY DEF SeatInv
  <1>. QED
    BY <1>1, SeatInductive, PTL

(* When Close returns FTL has no session left the client could have known  *)
(* of, if the calls had returned before.                                    *)
THEOREM ReleasesSeat ==
  ASSUME DrainWaits = TRUE
  PROVE  Spec => SeatReleased
  <1>1. TypeOK /\ SeatInv /\ [Next]_vars =>
          [closing # "closed" /\ closing' = "closed" => sessions' \subseteq lost']_vars
    <2>. SUFFICES ASSUME TypeOK, SeatInv, [Next]_vars,
                         closing # "closed", closing' = "closed"
                  PROVE  sessions' \subseteq lost'
      OBVIOUS
    <2>1. Logout \/ LogoutFail \/ Forget
      <3>1. closing' # closing
        OBVIOUS
      <3>2. ASSUME NEW p \in Procs, Proceed(p) PROVE FALSE
        BY <3>1, <3>2 DEF Proceed, Ensure, Lock, Reauth, Wake, LoginOK, LoginFail, Send,
           SendFail, Succeed, Unauthorised, Refused, NoAnswer
      <3>3. ASSUME NEW p \in Procs,
                   \/ \E k \in Kinds, dead \in BOOLEAN : Begin(p, k, dead)
                   \/ EndContext(p) \/ GiveUp(p)
                   \/ \E a \in Answers \ {"none"} : Serve(p, a)
                   \/ ServeLate(p)
                   \/ NoAnswer(p, "cut")
            PROVE  FALSE
        BY <3>1, <3>3 DEF Begin, EndContext, GiveUp, Serve, ServeLate, NoAnswer
      <3>4. ~(\E s \in Sids : Expire(s)) /\ ~Stop /\ ~UNCHANGED vars
        BY <3>1 DEF Expire, Stop, vars
      <3> QED
        BY <3>2, <3>3, <3>4 DEF Next
    <2>. QED
      BY <2>1 DEF Logout, LogoutFail, Forget, seatVars, SeatInv, OneSeat, Closing, TypeOK
  <1>. QED
    BY <1>1, SeatInductive, TypeCorrect, PTL DEF Spec, SeatReleased

----------------------------------------------------------------------------
(* Serving: the process *)

Conns == {"none", "new", "idle", "stream", "call", "closed"}

(* The drain is over when every connection is closed, or when the grace       *)
(* period is; run goes on only then, or if there never was a connection.      *)
ShutInv ==
  /\ conn \in [Calls -> Conns]
  /\ env.http => main # "stdio"
  /\ main \in {"load", "listen"} => \A c \in Calls : conn[c] = "none"
  /\ main = "wait" => shutting
  /\ drain = "over" => shutting
  /\ drain = "over" /\ ~graceOver => \A c \in Calls : conn[c] \in {"none", "closed"}
  /\ env.http /\ main \in {"close", "gone"} =>
       drain = "over" \/ \A c \in Calls : conn[c] = "none"

(* What a step about one connection leaves it at. *)
LEMMA OneConn ==
  ASSUME ShutInv, NEW c \in Calls, NEW x \in Conns, conn' = [conn EXCEPT ![c] = x],
         UNCHANGED <<env, main, drain, shutting, graceOver>>,
         \/ x \in {"none", "closed"} /\ conn[c] # "none"
         \/ /\ main \notin {"load", "listen"}
            /\ conn[c] = "none" => main \in {"serve", "stdio"} /\ ~shutting
            /\ conn[c] # "closed"
  PROVE  ShutInv'
<1>1. conn' \in [Calls -> Conns] /\ conn'[c] = x /\ \A d \in Calls \ {c} : conn'[d] = conn[d]
  BY DEF ShutInv
<1>2. main' \in {"load", "listen"} => \A d \in Calls : conn'[d] = "none"
  BY <1>1 DEF ShutInv
<1>3. drain' = "over" /\ ~graceOver' => \A d \in Calls : conn'[d] \in {"none", "closed"}
  BY <1>1 DEF ShutInv
<1>4. env'.http /\ main' \in {"close", "gone"} =>
        drain' = "over" \/ \A d \in Calls : conn'[d] = "none"
  BY <1>1 DEF ShutInv
<1> QED
  BY <1>1, <1>2, <1>3, <1>4 DEF ShutInv

LEMMA ShutStep == ShutInv /\ [ServingNext]_servingVars => ShutInv'
<1> SUFFICES ASSUME ShutInv, [ServingNext]_servingVars PROVE ShutInv'
  OBVIOUS
<1>1. CASE Load
  BY <1>1 DEF Load, ShutInv
<1>2. CASE ListenUp \/ ListenFails
  BY <1>2 DEF ListenUp, ListenFails, ShutInv
<1>3. CASE ServeReturns
  BY <1>3 DEF ServeReturns, NextOfServe, ShutInv
<1>4. CASE Drained
  BY <1>4 DEF Drained, ShutInv
<1>5. CASE Leave \/ StdioEnds
  BY <1>5 DEF Leave, StdioEnds, ShutInv
<1>6. CASE Signal \/ ShutdownBegins \/ GraceEnds
  BY <1>6 DEF Signal, ShutdownBegins, GraceEnds, ShutInv
<1>7. CASE ShutdownReturns
  BY <1>7 DEF ShutdownReturns, ShutInv
<1>8. CASE FirstSweep \/ Tick
  <2>1. /\ conn' = Swept /\ drain # "over" /\ drain' = "loop"
        /\ UNCHANGED <<env, main, shutting, graceOver>>
    BY <1>8 DEF FirstSweep, Tick, TickSweeps
  <2>2. conn' \in [Calls -> Conns] /\ \A c \in Calls : conn[c] = "none" => conn'[c] = "none"
    BY <2>1 DEF Swept, Rest, ShutInv, Conns
  <2> QED
    BY <2>1, <2>2 DEF ShutInv
<1>9. CASE \E c \in Calls : ClosesIdle(c)
  <2>1. PICK c \in Calls : ClosesIdle(c)
    BY <1>9
  <2> QED
    BY <2>1, OneConn DEF ClosesIdle, Conns
<1>10. CASE Clients
  <2>1. PICK c \in Calls : \/ Connect(c) \/ OpenStream(c) \/ Disconnect(c)
                           \/ \E ask \in Asks[c] : StartCall(c, ask[1], ask[2])
    BY <1>10 DEF Clients
  <2>2. CASE Connect(c)
    BY <2>2, OneConn DEF Connect, Conns
  <2>3. CASE OpenStream(c)
    BY <2>3, OneConn DEF OpenStream, Sends, Up, Conns
  <2>4. CASE Disconnect(c)
    <3>1. conn[c] \in Conns \ {"none", "closed"} /\ UNCHANGED <<env, main, drain, shutting, graceOver>>
      BY <2>4 DEF Disconnect, ShutInv
    <3>2. CASE conn[c] = "call"
      <4>1. conn' = conn
        BY <2>4, <3>2 DEF Disconnect, ShutInv
      <4> QED
        BY <3>1, <4>1 DEF ShutInv
    <3>3. CASE conn[c] # "call"
      <4>1. conn' = [conn EXCEPT ![c] = "closed"]
        BY <2>4, <3>3 DEF Disconnect, ShutInv
      <4> QED
        BY <3>1, <4>1, OneConn DEF Conns
    <3> QED
      BY <3>2, <3>3
  <2>5. CASE \E ask \in Asks[c] : StartCall(c, ask[1], ask[2])
    <3>1. /\ conn' = [conn EXCEPT ![c] = "call"] /\ Sends(c)
          /\ UNCHANGED <<env, main, drain, shutting, graceOver>>
      BY <2>5 DEF StartCall
    <3> QED
      BY <3>1, OneConn DEF Sends, Up, Conns
  <2> QED
    BY <2>1, <2>2, <2>3, <2>4, <2>5
<1>11. ASSUME NEW c \in Calls, CallStep(c) PROVE ShutInv'
  <2>1. CASE CallEnds(c)
    <3>1. /\ conn' = [conn EXCEPT ![c] = Rest] /\ Rest \in Conns /\ Calling(c)
          /\ UNCHANGED <<env, main, drain, shutting, graceOver>>
      BY <2>1 DEF CallEnds, Rest, Conns
    <3> HIDE DEF Rest
    <3> QED
      BY <3>1, OneConn DEF Calling, Up
  <2>2. CASE \E i \in DOMAIN call[c].branch :
               \/ BranchRuns(c, i) \/ GravityStep(c, i)
               \/ \E outcome \in {"ok", "large", "failed"} : BranchEnds(c, i, outcome)
    <3>1. UNCHANGED <<env, main, drain, shutting, graceOver, conn>>
      BY <2>2 DEF BranchRuns, GravityStep, BranchEnds
    <3> QED
      BY <3>1 DEF ShutInv
  <2> QED
    BY <1>11, <2>1, <2>2 DEF CallStep
<1>12. CASE UNCHANGED processVars
  BY <1>12 DEF processVars, ShutInv
<1> QED
  BY <1>1, <1>2, <1>3, <1>4, <1>5, <1>6, <1>7, <1>8, <1>9, <1>10, <1>11, <1>12
     DEF ServingNext, Run, Drain, servingVars

(* main.go: run waits for the drain, so that no call is cut off before the    *)
(* grace period is over, however many connections there are.                 *)
THEOREM CallsFinish == ServingSpec => []NotCutShort
<1>1. ServingInit => ShutInv
  BY DEF ServingInit, ShutInv, Conns
<1>2. ShutInv => NotCutShort
  BY DEF ShutInv, NotCutShort
<1> QED
  BY <1>1, <1>2, ShutStep, PTL DEF ServingSpec

----------------------------------------------------------------------------
(* The gravity update *)

Marks == {"line", "gravityFailedLine", "end", "broken"}
Lines(s, n) == \A m \in 1..n : s[m] = "line"

(* What is left of a stream, and the last line read, do not mislead.          *)
Tells(s, last, state) ==
  \/ last # "gravityFailedLine" /\ Lines(s, Len(s))
  \/ /\ last # "gravityFailedLine" /\ Len(s) > 0 /\ s[Len(s)] = "end" /\ Lines(s, Len(s) - 1)
     /\ state \in (IF modern THEN {"done"} ELSE {"done", "failed"})
  \/ /\ last # "gravityFailedLine" /\ Len(s) > 1 /\ s[Len(s)] = "end"
     /\ s[Len(s) - 1] = "gravityFailedLine" /\ Lines(s, Len(s) - 2) /\ state = "failed"
  \/ last = "gravityFailedLine" /\ Len(s) = 1 /\ s[1] = "end" /\ state = "failed"
  \/ Len(s) > 0 /\ s[1] = "broken"

Lasts   == {"nothing", "line", "gravityFailedLine"}
Readers == [pc : {"none", "reading", "done"}, cancelled : BOOLEAN, last : Lasts,
            report : {"none", "complete", "failed", "running", "error", "unknown"}]

Job(j) == j = [at |-> j.at, state |-> j.state, lines |-> j.lines]

(* A report, once made, is right, and one to be made will be.                 *)
Reporting(r, s, state) ==
  /\ r.pc # "done" => r.report = "none"
  /\ r.pc = "reading" => Tells(s, r.last, state)
  /\ r.report = "complete" => state \in (IF modern THEN {"done"} ELSE {"done", "failed"})
  /\ r.report = "failed" => state = "failed"

GravityInv ==
  /\ modern \in BOOLEAN
  /\ DOMAIN job = Calls /\ \A c \in Calls : Job(job[c])
  /\ pipe \in [Calls -> Seq(Marks)]
  /\ reader \in [Calls -> Readers]
  /\ \A c \in Calls : Reporting(reader[c], pipe[c], job[c].state)

(* The function g is f but for c, where it is x. *)
SameBut(f, g, c, x) == g = [f EXCEPT ![c] = x] \/ (g = f /\ x = f[c])

(* A step about one call. *)
LEMMA OneCall ==
  ASSUME GravityInv, NEW c \in Calls, NEW j, NEW s \in Seq(Marks), NEW r \in Readers,
         SameBut(job, job', c, j), SameBut(pipe, pipe', c, s), SameBut(reader, reader', c, r),
         modern' = modern,
         Job(j), Reporting(r, s, j.state)
  PROVE  GravityInv'
<1>1. /\ DOMAIN job' = Calls /\ pipe' \in [Calls -> Seq(Marks)] /\ reader' \in [Calls -> Readers]
      /\ job'[c] = j /\ pipe'[c] = s /\ reader'[c] = r
      /\ \A d \in Calls \ {c} : job'[d] = job[d] /\ pipe'[d] = pipe[d] /\ reader'[d] = reader[d]
  BY DEF GravityInv, SameBut
<1>2. ASSUME NEW d \in Calls PROVE Job(job'[d]) /\ Reporting(reader'[d], pipe'[d], job'[d].state)
  <2>1. CASE d = c
    BY <1>1, <2>1
  <2>2. CASE d # c
    BY <1>1, <2>2 DEF GravityInv
  <2> QED
    BY <2>1, <2>2
<1>3. \A d \in Calls : Reporting(reader[d], pipe[d], job[d].state)' <=>
                       Reporting(reader'[d], pipe'[d], job'[d].state)
  BY DEF Reporting, Tells
<1> QED
  BY <1>1, <1>2, <1>3 DEF GravityInv, Job

LEMMA FreshReader ==
  NoReader \in Readers /\ NoReader.report = "none" /\ NoReader.pc = "none"
  BY DEF NoReader, Readers, Lasts

(* The end of a handler, with a report. *)
LEMMA Reports ==
  ASSUME GravityInv, NEW c \in Calls, NEW what \in {"complete", "failed", "running", "error", "unknown"},
         Report(c, what), NEW s \in Seq(Marks), SameBut(pipe, pipe', c, s),
         NEW j, Job(j), SameBut(job, job', c, j), modern' = modern,
         what = "complete" => j.state \in (IF modern THEN {"done"} ELSE {"done", "failed"}),
         what = "failed" => j.state = "failed"
  PROVE  GravityInv'
<1> DEFINE r == [NoReader EXCEPT !.pc = "done", !.report = what]
<1>1. r \in Readers /\ r.pc = "done" /\ r.report = what
  BY DEF NoReader, Readers, Lasts
<1>2. SameBut(reader, reader', c, r)
  BY DEF Report, SameBut
<1> HIDE DEF r
<1>3. Reporting(r, s, j.state)
  BY <1>1 DEF Reporting
<1> QED
  BY <1>1, <1>2, <1>3, OneCall

(* One line is read. *)
LEMMA OneLess ==
  ASSUME NEW s \in Seq(Marks), s # <<>>, NEW last \in Lasts, NEW state, Tells(s, last, state),
         Head(s) \in {"line", "gravityFailedLine"}, NEW t, t = Tail(s)
  PROVE  t \in Seq(Marks) /\ Tells(t, Head(s), state)
<1>1. /\ t \in Seq(Marks) /\ Len(s) \in Nat \ {0} /\ Len(t) = Len(s) - 1
      /\ Head(s) = s[1] /\ \A m \in 1..Len(t) : t[m] = s[m + 1]
  OBVIOUS
<1>2. s[1] # "broken" /\ s[1] # "end" /\ last # "gravityFailedLine"
  BY <1>1 DEF Tells
<1>3. CASE Lines(s, Len(s))
  <2>1. s[1] = "line" /\ Lines(t, Len(t))
    BY <1>1, <1>3 DEF Lines
  <2> QED
    BY <1>1, <2>1 DEF Tells
<1>4. CASE /\ s[Len(s)] = "end" /\ Lines(s, Len(s) - 1)
           /\ state \in (IF modern THEN {"done"} ELSE {"done", "failed"})
  <2>1. Len(s) > 1 /\ s[1] = "line"
    BY <1>1, <1>2, <1>4 DEF Lines
  <2>2. Len(t) > 0 /\ t[Len(t)] = s[Len(s)]
    BY <1>1, <2>1
  <2>3. Lines(t, Len(t) - 1)
    BY <1>1, <1>4, <2>1 DEF Lines
  <2> QED
    BY <1>1, <1>4, <2>1, <2>2, <2>3 DEF Tells
<1>5. CASE /\ Len(s) > 1 /\ s[Len(s)] = "end" /\ s[Len(s) - 1] = "gravityFailedLine"
           /\ Lines(s, Len(s) - 2) /\ state = "failed"
  <2>1. CASE Len(s) = 2
    <3>1. Len(t) = 1 /\ t[1] = "end" /\ Head(s) = "gravityFailedLine"
      BY <1>1, <1>5, <2>1
    <3> QED
      BY <1>5, <3>1 DEF Tells
  <2>2. CASE Len(s) > 2
    <3>1. s[1] = "line"
      BY <1>1, <1>5, <2>2 DEF Lines
    <3>2. Len(t) > 1 /\ t[Len(t)] = s[Len(s)] /\ t[Len(t) - 1] = s[Len(s) - 1]
      BY <1>1, <2>2
    <3>3. Lines(t, Len(t) - 2)
      BY <1>1, <1>5, <2>2 DEF Lines
    <3> QED
      BY <1>1, <1>5, <3>1, <3>2, <3>3 DEF Tells
  <2> QED
    BY <1>1, <1>5, <2>1, <2>2
<1> QED
  BY <1>1, <1>2, <1>3, <1>4, <1>5 DEF Tells

(* The rebuild says one line more, *)
LEMMA OneMoreLine ==
  ASSUME NEW s \in Seq(Marks), NEW last \in Lasts, Tells(s, last, "running"),
         NEW t, t = Append(s, "line")
  PROVE  t \in Seq(Marks) /\ Tells(t, last, "running")
<1>1. /\ t \in Seq(Marks) /\ Len(s) \in Nat /\ Len(t) = Len(s) + 1 /\ t[Len(t)] = "line"
      /\ \A m \in 1..Len(s) : t[m] = s[m]
  BY AppendProperties DEF Marks
<1>2. CASE last # "gravityFailedLine" /\ Lines(s, Len(s))
  <2>1. Lines(t, Len(t))
    BY <1>1, <1>2 DEF Lines
  <2> QED
    BY <1>1, <1>2, <2>1 DEF Tells
<1>3. CASE Len(s) > 0 /\ s[1] = "broken"
  <2>1. Len(t) > 0 /\ t[1] = "broken"
    BY <1>1, <1>3
  <2> QED
    BY <1>1, <2>1 DEF Tells
<1> QED
  BY <1>1, <1>2, <1>3 DEF Tells

(* or how it ended. *)
LEMMA LastLines ==
  ASSUME modern \in BOOLEAN, NEW s \in Seq(Marks), NEW last \in Lasts, Tells(s, last, "running"),
         NEW state \in {"done", "failed"}, NEW t,
         t = s \o (IF modern /\ state = "failed" THEN <<"gravityFailedLine">> ELSE <<>>) \o <<"end">>
  PROVE  t \in Seq(Marks) /\ Tells(t, last, state)
<1> DEFINE u == IF modern /\ state = "failed" THEN <<"gravityFailedLine", "end">> ELSE <<"end">>
<1>1. u \in Seq(Marks) /\ Len(u) \in 1..2 /\ u[Len(u)] = "end"
      /\ (Len(u) = 2 => modern /\ state = "failed" /\ u[1] = "gravityFailedLine")
      /\ (Len(u) = 1 => state \in (IF modern THEN {"done"} ELSE {"done", "failed"}))
  <2>1. <<"gravityFailedLine", "end">> \in Seq(Marks) /\ <<"end">> \in Seq(Marks)
    BY DEF Marks
  <2>2. CASE modern /\ state = "failed"
    BY <2>1, <2>2
  <2>3. CASE ~(modern /\ state = "failed")
    BY <2>1, <2>3
  <2> QED
    BY <2>2, <2>3
<1>2. t = s \o u
  <2>1. CASE modern /\ state = "failed"
    <3>1. /\ t = s \o <<"gravityFailedLine">> \o <<"end">>
          /\ u = <<"gravityFailedLine">> \o <<"end">>
      BY <2>1
    <3>2. <<"gravityFailedLine">> \in Seq(Marks) /\ <<"end">> \in Seq(Marks)
      BY DEF Marks
    <3>3. s \o <<"gravityFailedLine">> \o <<"end">> = s \o (<<"gravityFailedLine">> \o <<"end">>)
      BY <3>2, ConcatAssociative
    <3> QED
      BY <3>1, <3>3
  <2>2. CASE ~(modern /\ state = "failed")
    <3>1. t = s \o <<>> \o <<"end">> /\ u = <<"end">> /\ s \o <<>> = s
      BY <2>2, ConcatEmptySeq
    <3> QED
      BY <3>1
  <2> QED
    BY <2>1, <2>2
<1> HIDE DEF u
<1>3. /\ t \in Seq(Marks) /\ Len(s) \in Nat /\ Len(t) = Len(s) + Len(u)
      /\ \A m \in 1..Len(t) : t[m] = IF m <= Len(s) THEN s[m] ELSE u[m - Len(s)]
  BY <1>1, <1>2, ConcatProperties
<1>4. CASE last # "gravityFailedLine" /\ Lines(s, Len(s))
  <2>1. CASE Len(u) = 1
    <3>1. Len(t) > 0 /\ t[Len(t)] = "end" /\ Lines(t, Len(t) - 1)
      BY <1>1, <1>3, <1>4, <2>1 DEF Lines
    <3> QED
      BY <1>1, <1>3, <1>4, <2>1, <3>1 DEF Tells
  <2>2. CASE Len(u) = 2
    <3>1. /\ Len(t) > 1 /\ t[Len(t)] = "end" /\ t[Len(t) - 1] = "gravityFailedLine"
          /\ Lines(t, Len(t) - 2)
      BY <1>1, <1>3, <1>4, <2>2 DEF Lines
    <3> QED
      BY <1>1, <1>3, <1>4, <2>2, <3>1 DEF Tells
  <2> QED
    BY <1>1, <2>1, <2>2
<1>5. CASE Len(s) > 0 /\ s[1] = "broken"
  <2>1. Len(t) > 0 /\ t[1] = "broken"
    BY <1>1, <1>3, <1>5
  <2> QED
    BY <1>3, <2>1 DEF Tells
<1> QED
  BY <1>3, <1>4, <1>5 DEF Tells

LEMMA HandlerStep ==
  ASSUME GravityInv, NEW c \in Calls, NEW pi, GravityHandler(c, pi)
  PROVE  GravityInv'
<1> DEFINE r == reader[c]
           s == pipe[c]
           j == job[c]
<1>1. /\ r \in Readers /\ s \in Seq(Marks) /\ Job(j) /\ Reporting(r, s, j.state)
      /\ SameBut(job, job, c, j) /\ SameBut(pipe, pipe, c, s) /\ <<>> \in Seq(Marks)
      /\ modern \in BOOLEAN
  BY DEF GravityInv, SameBut
<1>2. CASE GravityStarts(c, pi)
  <2> DEFINE new  == [at |-> pi, state |-> "running", lines |-> 0]
             read == [NoReader EXCEPT !.pc = "reading"]
  <2>1. /\ SameBut(job, job', c, new) /\ SameBut(pipe, pipe', c, <<>>)
        /\ SameBut(reader, reader', c, read) /\ modern' = modern
    BY <1>2 DEF GravityStarts, SameBut
  <2>2. read \in Readers /\ read.pc = "reading" /\ read.report = "none" /\ read.last = "nothing"
    BY DEF NoReader, Readers, Lasts
  <2>3. Job(new)
    BY DEF Job
  <2> HIDE DEF new, read
  <2>4. Reporting(read, <<>>, new.state)
    BY <2>2 DEF Reporting, Tells, Lines
  <2> QED
    BY <1>1, <2>1, <2>2, <2>3, <2>4, OneCall
<1>3. CASE GravityRefused(c, pi)
  <2>1. Report(c, "running") /\ job' = job /\ pipe' = pipe /\ modern' = modern
    BY <1>3 DEF GravityRefused
  <2>2. SameBut(job, job', c, j) /\ SameBut(pipe, pipe', c, s)
    BY <1>1, <2>1
  <2> HIDE DEF j, s, r
  <2> QED
    BY <1>1, <2>1, <2>2, Reports
<1>4. CASE GravityUnanswered(c, pi)
  <2> DEFINE new == [at |-> pi, state |-> "running", lines |-> MaxLines]
  <2>1. /\ Report(c, "error") /\ modern' = modern /\ SameBut(pipe, pipe', c, <<>>)
        /\ SameBut(job, job', c, j) \/ SameBut(job, job', c, new)
    BY <1>4 DEF GravityUnanswered, SameBut
  <2>2. Job(new)
    BY DEF Job
  <2> HIDE DEF j, s, r, new
  <2> QED
    BY <1>1, <2>1, <2>2, Reports
<1>5. CASE IdleFires(c)
  <2> DEFINE read == [r EXCEPT !.cancelled = TRUE]
  <2>1. /\ SameBut(reader, reader', c, read) /\ modern' = modern
        /\ SameBut(job, job', c, j) /\ SameBut(pipe, pipe', c, s)
    BY <1>1, <1>5 DEF IdleFires, SameBut
  <2>2. read \in Readers /\ read.pc = r.pc /\ read.report = r.report /\ read.last = r.last
    BY <1>1 DEF Readers
  <2> HIDE DEF j, s, r, read
  <2>3. Reporting(read, s, j.state)
    BY <1>1, <2>2 DEF Reporting
  <2> QED
    BY <1>1, <2>1, <2>2, <2>3, OneCall
<1>6. CASE ReadLine(c)
  <2> DEFINE read == [r EXCEPT !.last = Head(s)]
             rest == Tail(s)
  <2>1. /\ SameBut(reader, reader', c, read) /\ modern' = modern
        /\ SameBut(job, job', c, j) /\ SameBut(pipe, pipe', c, rest)
    BY <1>1, <1>6 DEF ReadLine, SameBut, GravityInv
  <2>2. /\ r.pc = "reading" /\ s # <<>> /\ Head(s) \in {"line", "gravityFailedLine"}
        /\ Tells(s, r.last, j.state) /\ r.report = "none" /\ r.last \in Lasts
    BY <1>1, <1>6 DEF ReadLine, Reporting, Readers
  <2>3. read \in Readers /\ read.pc = r.pc /\ read.report = r.report /\ read.last = Head(s)
    BY <1>1, <2>2 DEF Readers, Lasts
  <2> HIDE DEF j, s, r, read
  <2>4. rest \in Seq(Marks) /\ Tells(rest, Head(s), j.state)
    BY <1>1, <2>2, OneLess
  <2> HIDE DEF rest
  <2>5. Reporting(read, rest, j.state)
    BY <2>2, <2>3, <2>4 DEF Reporting
  <2> QED
    BY <1>1, <2>1, <2>3, <2>4, <2>5, OneCall
<1>7. CASE ReadEnd(c)
  <2> DEFINE what == IF r.last = "gravityFailedLine" THEN "failed" ELSE "complete"
  <2>1. /\ Report(c, what) /\ modern' = modern
        /\ SameBut(job, job', c, j) /\ SameBut(pipe, pipe', c, <<>>)
    BY <1>1, <1>7 DEF ReadEnd, SameBut
  <2>2. /\ Len(s) > 0 /\ s[1] = "end" /\ Tells(s, r.last, j.state)
    BY <1>1, <1>7 DEF ReadEnd, Reporting
  <2>3. Len(s) \in Nat /\ (Len(s) > 1 => ~Lines(s, Len(s) - 1)) /\ ~Lines(s, Len(s))
    BY <1>1, <2>2 DEF Lines
  <2> HIDE DEF j, s, r
  <2>4. /\ r.last = "gravityFailedLine" => j.state = "failed"
        /\ r.last # "gravityFailedLine" => j.state \in (IF modern THEN {"done"} ELSE {"done", "failed"})
    <3>1. ~(Len(s) > 1 /\ s[Len(s) - 1] = "gravityFailedLine" /\ Lines(s, Len(s) - 2))
      <4> SUFFICES ASSUME Len(s) > 1, s[Len(s) - 1] = "gravityFailedLine", Lines(s, Len(s) - 2)
                   PROVE  FALSE
        OBVIOUS
      <4>1. CASE Len(s) = 2
        BY <2>2, <4>1
      <4>2. CASE Len(s) > 2
        <5>1. 1 \in 1..(Len(s) - 2)
          BY <2>3, <4>2
        <5>2. s[1] = "line"
          BY <5>1 DEF Lines
        <5> QED
          BY <2>2, <5>2
      <4>3. Len(s) = 2 \/ Len(s) > 2
        BY <2>3
      <4> QED
        BY <4>1, <4>2, <4>3
    <3> QED
      BY <2>2, <2>3, <3>1 DEF Tells
  <2>5. what \in {"failed", "complete"} /\ (what = "failed" <=> r.last = "gravityFailedLine")
    OBVIOUS
  <2> HIDE DEF what
  <2> QED
    BY <1>1, <2>1, <2>4, <2>5, Reports
<1>8. CASE ReadFails(c)
  <2>1. /\ Report(c, "unknown") /\ modern' = modern
        /\ SameBut(job, job', c, j) /\ SameBut(pipe, pipe', c, <<>>)
    BY <1>1, <1>8 DEF ReadFails, Stopped, SameBut
  <2> HIDE DEF j, s, r
  <2> QED
    BY <1>1, <2>1, Reports
<1> QED
  BY <1>2, <1>3, <1>4, <1>5, <1>6, <1>7, <1>8 DEF GravityHandler

LEMMA WorldStep == GravityInv /\ GravityWorld => GravityInv'
<1> SUFFICES ASSUME GravityInv, NEW c \in Calls,
                    JobPrints(c) \/ PipeBreaks(c) \/ \E state \in {"done", "failed"} : JobEnds(c, state)
             PROVE  GravityInv'
  BY DEF GravityWorld
<1> DEFINE r == reader[c]
           s == pipe[c]
           j == job[c]
<1>1. /\ r \in Readers /\ s \in Seq(Marks) /\ Job(j) /\ Reporting(r, s, j.state)
      /\ SameBut(job, job, c, j) /\ SameBut(reader, reader, c, r) /\ modern \in BOOLEAN
      /\ r.last \in Lasts /\ SameBut(pipe, pipe, c, s)
  BY DEF GravityInv, SameBut, Readers
<1>2. CASE JobPrints(c)
  <2> DEFINE new == [j EXCEPT !.lines = @ + 1]
             more == IF r.pc = "reading" THEN Append(s, "line") ELSE s
  <2>1. /\ SameBut(job, job', c, new) /\ SameBut(pipe, pipe', c, more)
        /\ SameBut(reader, reader', c, r) /\ modern' = modern /\ j.state = "running"
    BY <1>1, <1>2 DEF JobPrints, SameBut
  <2>2. Job(new) /\ new.state = j.state
    BY <1>1 DEF Job
  <2> HIDE DEF j, s, r, new
  <2>3. more \in Seq(Marks) /\ Reporting(r, more, new.state)
    <3>1. CASE r.pc = "reading"
      <4>1. more = Append(s, "line") /\ Tells(s, r.last, "running") /\ r.report = "none"
        BY <1>1, <2>1, <3>1 DEF Reporting
      <4>2. more \in Seq(Marks) /\ Tells(more, r.last, "running")
        BY <1>1, <4>1, OneMoreLine
      <4> QED
        BY <2>1, <2>2, <3>1, <4>1, <4>2 DEF Reporting
    <3>2. CASE r.pc # "reading"
      BY <1>1, <2>2, <3>2 DEF Reporting
    <3> QED
      BY <3>1, <3>2
  <2> HIDE DEF more
  <2> QED
    BY <1>1, <2>1, <2>2, <2>3, OneCall
<1>3. CASE PipeBreaks(c)
  <2>1. /\ SameBut(pipe, pipe', c, <<"broken">>) /\ r.pc = "reading"
        /\ SameBut(job, job', c, j) /\ SameBut(reader, reader', c, r) /\ modern' = modern
    BY <1>1, <1>3 DEF PipeBreaks, SameBut
  <2>2. <<"broken">> \in Seq(Marks) /\ Tells(<<"broken">>, r.last, j.state)
    BY DEF Marks, Tells
  <2>3. Reporting(r, <<"broken">>, j.state)
    BY <1>1, <2>2 DEF Reporting
  <2> HIDE DEF j, s, r
  <2> QED
    BY <1>1, <2>1, <2>2, <2>3, OneCall
<1>4. ASSUME NEW state \in {"done", "failed"}, JobEnds(c, state) PROVE GravityInv'
  <2> DEFINE new == [j EXCEPT !.state = state]
             all == s \o (IF modern /\ state = "failed" THEN <<"gravityFailedLine">> ELSE <<>>) \o <<"end">>
             more == IF r.pc # "reading" THEN s ELSE all
  <2>1. /\ SameBut(job, job', c, new) /\ SameBut(pipe, pipe', c, more)
        /\ SameBut(reader, reader', c, r) /\ modern' = modern /\ j.state = "running"
    BY <1>1, <1>4 DEF JobEnds, SameBut
  <2>2. Job(new) /\ new.state = state
    BY <1>1 DEF Job
  <2> HIDE DEF j, s, r, new
  <2>3. more \in Seq(Marks) /\ Reporting(r, more, new.state)
    <3>1. CASE r.pc = "reading"
      <4>1. more = all /\ Tells(s, r.last, "running") /\ r.report = "none"
        BY <1>1, <2>1, <3>1 DEF Reporting
      <4>2. all \in Seq(Marks) /\ Tells(all, r.last, state)
        BY <1>1, <4>1, LastLines
      <4> HIDE DEF all, more
      <4> QED
        BY <2>2, <3>1, <4>1, <4>2 DEF Reporting
    <3>2. CASE r.pc # "reading"
      <4>1. more = s
        BY <3>2
      <4> HIDE DEF all, more
      <4> QED
        BY <1>1, <2>1, <2>2, <3>2, <4>1 DEF Reporting
    <3> QED
      BY <3>1, <3>2
  <2> HIDE DEF more
  <2> QED
    BY <1>1, <2>1, <2>2, <2>3, OneCall
<1> QED
  BY <1>2, <1>3, <1>4

LEMMA GravityStays == GravityInv /\ [ServingNext]_servingVars => GravityInv'
<1> SUFFICES ASSUME GravityInv, [ServingNext]_servingVars PROVE GravityInv'
  OBVIOUS
<1>1. CASE UNCHANGED gravityVars
  BY <1>1 DEF gravityVars, GravityInv, Reporting, Tells, Job
<1>2. CASE Run \/ Drain \/ Tick \/ Signal \/ GraceEnds \/ StdioEnds
  <2>1. UNCHANGED gravityVars
    BY <1>2 DEF Run, Load, ListenUp, ListenFails, ServeReturns, Drained, Leave, Drain, FirstSweep,
       ShutdownBegins, ShutdownReturns, ClosesIdle, Tick, Signal, GraceEnds, StdioEnds
  <2> QED
    BY <1>1, <2>1
<1>3. CASE Clients
  <2>1. PICK c \in Calls : \/ Connect(c) \/ OpenStream(c) \/ Disconnect(c)
                           \/ \E ask \in Asks[c] : StartCall(c, ask[1], ask[2])
    BY <1>3 DEF Clients
  <2> DEFINE r == reader[c]
  <2>2. /\ r \in Readers /\ pipe[c] \in Seq(Marks) /\ Job(job[c])
        /\ Reporting(r, pipe[c], job[c].state)
        /\ SameBut(job, job, c, job[c]) /\ SameBut(pipe, pipe, c, pipe[c])
    BY DEF GravityInv, SameBut
  <2>3. CASE Connect(c) \/ OpenStream(c)
    BY <1>1, <2>3 DEF Connect, OpenStream
  <2>4. CASE Disconnect(c)
    <3> DEFINE read == [r EXCEPT !.cancelled = (reader[c].pc = "reading")]
    <3>1. /\ SameBut(reader, reader', c, read) /\ modern' = modern
          /\ job' = job /\ pipe' = pipe
      BY <2>4 DEF Disconnect, SameBut
    <3>2. read \in Readers /\ read.pc = r.pc /\ read.report = r.report /\ read.last = r.last
      BY <2>2 DEF Readers
    <3> HIDE DEF r, read
    <3>3. Reporting(read, pipe[c], job[c].state)
      BY <2>2, <3>2 DEF Reporting
    <3> QED
      BY <2>2, <3>1, <3>2, <3>3, OneCall
  <2>5. CASE \E ask \in Asks[c] : StartCall(c, ask[1], ask[2])
    <3>1. /\ SameBut(reader, reader', c, NoReader) /\ modern' = modern
          /\ job' = job /\ pipe' = pipe
      BY <2>5 DEF StartCall, SameBut
    <3>2. Reporting(NoReader, pipe[c], job[c].state) /\ NoReader \in Readers
      BY FreshReader DEF Reporting
    <3> QED
      BY <2>2, <3>1, <3>2, OneCall
  <2> QED
    BY <2>1, <2>3, <2>4, <2>5
<1>4. ASSUME NEW c \in Calls, CallStep(c) PROVE GravityInv'
  <2>1. CASE CallEnds(c)
    BY <1>1, <2>1 DEF CallEnds
  <2>2. ASSUME NEW i \in DOMAIN call[c].branch,
               \/ BranchRuns(c, i)
               \/ \E outcome \in {"ok", "large", "failed"} : BranchEnds(c, i, outcome)
        PROVE  GravityInv'
    BY <1>1, <2>2 DEF BranchRuns, BranchEnds
  <2>3. ASSUME NEW i \in DOMAIN call[c].branch, GravityStep(c, i) PROVE GravityInv'
    <3>1. GravityHandler(c, Client(env, call[c].targets[i]))
      BY <2>3 DEF GravityStep
    <3> QED
      BY <3>1, HandlerStep
  <2> QED
    BY <1>4, <2>1, <2>2, <2>3 DEF CallStep
<1> QED
  BY <1>1, <1>2, <1>3, <1>4, WorldStep DEF ServingNext, servingVars

(* actions.go: a rebuild reported as complete is over, and from v6.8 on did   *)
(* not fail, and one reported as failed has, however the stream of its lines, *)
(* its breaking off, the idle timer and the caller's leaving fall.            *)
THEOREM GravityTold == ServingSpec => []GravityTruthful
<1>1. ServingInit => GravityInv
  <2> SUFFICES ASSUME ServingInit PROVE GravityInv
    OBVIOUS
  <2>1. /\ modern \in BOOLEAN /\ job = [c \in Calls |-> NoJob] /\ pipe = [c \in Calls |-> <<>>]
        /\ reader = [c \in Calls |-> NoReader]
    BY DEF ServingInit, GravityInit
  <2>2. Job(NoJob) /\ Reporting(NoReader, <<>>, NoJob.state)
    BY FreshReader DEF Job, NoJob, Reporting
  <2> QED
    BY <2>1, <2>2, FreshReader DEF GravityInv
<1>2. GravityInv => GravityTruthful
  BY DEF GravityInv, Reporting, GravityTruthful
<1> QED
  BY <1>1, <1>2, GravityStays, PTL DEF ServingSpec

----------------------------------------------------------------------------
(* What a call is, where it goes, and what it reports *)

Branches == {"waiting", "running", "ok", "large", "failed"}

(* The handlers of a call are those of its targets. *)
CallWell(r) ==
  /\ r = [tool |-> r.tool, arg |-> r.arg, targets |-> r.targets, branch |-> r.branch,
          report |-> r.report]
  /\ r.branch = [i \in DOMAIN r.targets |-> r.branch[i]]
  /\ \A i \in DOMAIN r.branch : r.branch[i] \in Branches

(* Its report is of all of them. *)
Summed(r) ==
  /\ r.report = "error" <=> \A i \in DOMAIN r.branch : r.branch[i] = "failed"
  /\ r.report = "too large" => r.tool \in ReadTools

(* It was let through by the filters, and its targets are those of the      *)
(* Pi-holes declared.                                                        *)
LetThrough(r) ==
  /\ Loads(env) /\ r.tool \in Exposed(env)
  /\ r.targets = Targets(env, r.tool, r.arg) /\ r.targets # <<>>

Deed(r, at) ==
  /\ CallWell(r)
  /\ r.report # "none" => at # "call" /\ Summed(r)
  /\ at = "call" => LetThrough(r)

DeedInv ==
  /\ env \in Environments
  /\ main \notin {"load", "gone"} => Loads(env)
  /\ call = [c \in Calls |-> call[c]]
  /\ \A c \in Calls : Deed(call[c], conn[c])

(* A step that changes no call, and begins none. *)
LEMMA NoDeed ==
  ASSUME DeedInv, UNCHANGED <<env, call>>, main' \notin {"load", "gone"} => Loads(env),
         \A c \in Calls : conn'[c] = "call" => conn[c] = "call"
  PROVE  DeedInv'
<1>1. \A c \in Calls : Deed(call[c], conn[c])'
  BY DEF DeedInv, Deed, LetThrough
<1> QED
  BY <1>1 DEF DeedInv

(* A step about one call. *)
LEMMA OneDeed ==
  ASSUME DeedInv, NEW c \in Calls, NEW r, call' = [call EXCEPT ![c] = r],
         UNCHANGED <<env, main>>, \A d \in Calls \ {c} : conn'[d] = conn[d],
         Deed(r, conn'[c])
  PROVE  DeedInv'
<1>1. /\ call' = [d \in Calls |-> call'[d]] /\ call'[c] = r
      /\ \A d \in Calls \ {c} : call'[d] = call[d]
  BY DEF DeedInv
<1>2. LetThrough(r)' <=> LetThrough(r)
  BY DEF LetThrough
<1>3. Deed(call[c], conn[c])'
  BY <1>1 DEF Deed, LetThrough
<1>4. ASSUME NEW d \in Calls \ {c} PROVE Deed(call[d], conn[d])'
  BY <1>1, <1>4 DEF DeedInv, Deed, LetThrough
<1>5. \A d \in Calls : Deed(call[d], conn[d])'
  BY <1>3, <1>4
<1> QED
  BY <1>1, <1>5 DEF DeedInv

(* A handler of a call goes on. *)
LEMMA OneBranch ==
  ASSUME DeedInv, NEW c \in Calls, Calling(c), NEW i \in DOMAIN call[c].branch, NEW x \in Branches,
         call' = [call EXCEPT ![c].branch[i] = x], UNCHANGED <<env, main, conn>>
  PROVE  DeedInv'
<1> DEFINE old == call[c]
           new == [old EXCEPT !.branch = [old.branch EXCEPT ![i] = x]]
<1>1. call' = [call EXCEPT ![c] = new]
  BY DEF DeedInv
<1>2. Deed(old, conn[c]) /\ conn[c] = "call" /\ CallWell(old) /\ LetThrough(old)
      /\ old.report = "none"
  BY DEF DeedInv, Deed, Calling
<1>3. /\ new = [tool |-> old.tool, arg |-> old.arg, targets |-> old.targets,
                branch |-> [old.branch EXCEPT ![i] = x], report |-> old.report]
  BY <1>2 DEF CallWell
<1> HIDE DEF new
<1>4. CallWell(new)
  BY <1>2, <1>3 DEF CallWell
<1>5. LetThrough(new) /\ new.report = "none"
  BY <1>2, <1>3 DEF LetThrough
<1>6. Deed(new, conn'[c])
  BY <1>4, <1>5 DEF Deed
<1> QED
  BY <1>1, <1>6, OneDeed

LEMMA DeedStep == ShutInv /\ DeedInv /\ [ServingNext]_servingVars => DeedInv'
<1> SUFFICES ASSUME ShutInv, DeedInv, [ServingNext]_servingVars PROVE DeedInv'
  OBVIOUS
<1>1. CASE Load
  BY <1>1, NoDeed DEF Load
<1>2. CASE ListenUp \/ ListenFails \/ ServeReturns \/ Drained \/ Leave \/ StdioEnds
  <2>1. UNCHANGED <<env, call, conn>> /\ main \notin {"load", "gone"}
    BY <1>2 DEF ListenUp, ListenFails, ServeReturns, Drained, Leave, StdioEnds
  <2> QED
    BY <2>1, NoDeed DEF DeedInv
<1>3. CASE Signal \/ ShutdownBegins \/ GraceEnds \/ ShutdownReturns
  <2>1. UNCHANGED <<env, main, call, conn>>
    BY <1>3 DEF Signal, ShutdownBegins, GraceEnds, ShutdownReturns
  <2> QED
    BY <2>1, NoDeed DEF DeedInv
<1>4. CASE FirstSweep \/ Tick
  <2>1. conn' = Swept /\ UNCHANGED <<env, main, call>>
    BY <1>4 DEF FirstSweep, Tick, TickSweeps
  <2>2. \A c \in Calls : conn'[c] = "call" => conn[c] = "call"
    BY <2>1 DEF Swept, Rest
  <2> QED
    BY <2>1, <2>2, NoDeed DEF DeedInv
<1>5. ASSUME NEW c \in Calls, NEW x \in Conns \ {"call"}, conn' = [conn EXCEPT ![c] = x],
             UNCHANGED <<env, main, call>>
      PROVE  DeedInv'
  <2>1. \A d \in Calls : conn'[d] = "call" => conn[d] = "call"
    BY <1>5 DEF ShutInv
  <2> QED
    BY <1>5, <2>1, NoDeed DEF DeedInv
<1>6. CASE \E c \in Calls : ClosesIdle(c) \/ Connect(c) \/ OpenStream(c)
  <2>1. PICK c \in Calls : ClosesIdle(c) \/ Connect(c) \/ OpenStream(c)
    BY <1>6
  <2>2. UNCHANGED <<env, main, call>> /\ \E x \in Conns \ {"call"} : conn' = [conn EXCEPT ![c] = x]
    BY <2>1 DEF ClosesIdle, Connect, OpenStream, Conns
  <2> QED
    BY <1>5, <2>2
<1>7. ASSUME NEW c \in Calls, Disconnect(c) PROVE DeedInv'
  <2>1. UNCHANGED <<env, main, call>> /\ \A d \in Calls : conn'[d] = "call" => conn[d] = "call"
    BY <1>7 DEF Disconnect, ShutInv
  <2> QED
    BY <2>1, NoDeed DEF DeedInv
<1>8. ASSUME NEW c \in Calls, NEW tool, NEW arg, StartCall(c, tool, arg) PROVE DeedInv'
  <2> DEFINE targets == Targets(env, tool, arg)
             new == [tool |-> tool, arg |-> arg, targets |-> targets,
                     branch |-> [i \in DOMAIN targets |-> "waiting"], report |-> "none"]
  <2>1. /\ call' = [call EXCEPT ![c] = new] /\ conn' = [conn EXCEPT ![c] = "call"]
        /\ UNCHANGED <<env, main>> /\ tool \in Exposed(env) /\ targets # <<>>
        /\ main \notin {"load", "gone"}
    BY <1>8 DEF StartCall, Sends, Up
  <2>2. conn'[c] = "call" /\ \A d \in Calls \ {c} : conn'[d] = conn[d]
    BY <2>1 DEF ShutInv
  <2>3. /\ new.tool = tool /\ new.arg = arg /\ new.targets = targets /\ new.report = "none"
        /\ new.branch = [i \in DOMAIN targets |-> "waiting"]
        /\ new = [tool |-> new.tool, arg |-> new.arg, targets |-> new.targets,
                  branch |-> new.branch, report |-> new.report]
    OBVIOUS
  <2>4. new.targets = Targets(env, new.tool, new.arg) /\ new.targets # <<>> /\ new.tool \in Exposed(env)
    BY <2>1, <2>3
  <2> HIDE DEF new, targets
  <2>5. CallWell(new)
    BY <2>3 DEF CallWell, Branches
  <2>6. Loads(env)
    BY <2>1 DEF DeedInv
  <2>7. LetThrough(new)
    BY <2>4, <2>6 DEF LetThrough
  <2>8. Deed(new, conn'[c])
    BY <2>2, <2>3, <2>5, <2>7 DEF Deed
  <2> QED
    BY <2>1, <2>2, <2>8, OneDeed
<1>9. ASSUME NEW c \in Calls, NEW i \in DOMAIN call[c].branch, BranchRuns(c, i) PROVE DeedInv'
  BY <1>9, OneBranch DEF BranchRuns, Branches
<1>10. ASSUME NEW c \in Calls, NEW i \in DOMAIN call[c].branch, GravityStep(c, i) PROVE DeedInv'
  <2> DEFINE x == IF reader'[c].pc # "done" THEN "running"
                  ELSE IF reader'[c].report = "complete" THEN "ok" ELSE "failed"
  <2>1. x \in Branches
    BY DEF Branches
  <2>2. call' = [call EXCEPT ![c].branch[i] = x] /\ UNCHANGED <<env, main, conn>> /\ Calling(c)
    BY <1>10 DEF GravityStep
  <2> HIDE DEF x
  <2> QED
    BY <2>1, <2>2, OneBranch
<1>11. ASSUME NEW c \in Calls, NEW i \in DOMAIN call[c].branch,
              NEW outcome \in {"ok", "large", "failed"}, BranchEnds(c, i, outcome)
       PROVE  DeedInv'
  BY <1>11, OneBranch DEF BranchEnds, Branches
<1>12. ASSUME NEW c \in Calls, CallEnds(c) PROVE DeedInv'
  <2> DEFINE old == call[c]
             what == IF Failed(c) THEN "error"
                     ELSE IF Measured(c) /\ InBranch(c, "large") # {} THEN "too large" ELSE "result"
             new == [old EXCEPT !.report = what]
  <2>1. /\ call' = [call EXCEPT ![c] = new] /\ conn' = [conn EXCEPT ![c] = Rest]
        /\ UNCHANGED <<env, main>>
    BY <1>12 DEF CallEnds, DeedInv
  <2>2. conn'[c] = Rest /\ Rest # "call" /\ \A d \in Calls \ {c} : conn'[d] = conn[d]
    BY <2>1 DEF ShutInv, Rest
  <2>3. CallWell(old)
    BY DEF DeedInv, Deed
  <2>4. new = [tool |-> old.tool, arg |-> old.arg, targets |-> old.targets,
               branch |-> old.branch, report |-> what]
    <3> HIDE DEF what, old
    <3> QED
      BY <2>3 DEF CallWell
  <2>5. /\ what = "error" <=> \A i \in DOMAIN old.branch : old.branch[i] = "failed"
        /\ what = "too large" => old.tool \in ReadTools
    BY DEF Failed, InBranch, Measured
  <2> HIDE DEF new, what
  <2>6. CallWell(new)
    BY <2>3, <2>4 DEF CallWell
  <2>7. Summed(new)
    BY <2>4, <2>5 DEF Summed
  <2>8. Deed(new, conn'[c])
    BY <2>2, <2>6, <2>7 DEF Deed
  <2> QED
    BY <2>1, <2>2, <2>8, OneDeed
<1>13. CASE UNCHANGED processVars
  BY <1>13, NoDeed DEF processVars, DeedInv
<1>14. CASE \E c \in Calls : CallStep(c)
  BY <1>9, <1>10, <1>11, <1>12, <1>14 DEF CallStep
<1>15. CASE Clients
  BY <1>6, <1>7, <1>8, <1>15 DEF Clients
<1> QED
  BY <1>1, <1>2, <1>3, <1>4, <1>6, <1>13, <1>14, <1>15 DEF ServingNext, Run, Drain, servingVars

LEMMA DeedStays == ServingSpec => [](ShutInv /\ DeedInv)
<1>1. ServingInit => ShutInv /\ DeedInv
  <2> SUFFICES ASSUME ServingInit PROVE ShutInv /\ DeedInv
    OBVIOUS
  <2>1. ShutInv
    BY DEF ServingInit, ShutInv, Conns
  <2>2. CallWell(NoCall) /\ NoCall.report = "none"
    BY DEF NoCall, CallWell
  <2>3. \A c \in Calls : Deed(call[c], conn[c])
    BY <2>2 DEF ServingInit, Deed
  <2> QED
    BY <2>1, <2>3 DEF ServingInit, DeedInv
<1> QED
  BY <1>1, ShutStep, DeedStep, PTL DEF ServingSpec

(* instance.go and resultsize.go: a call over several Pi-holes is an error    *)
(* exactly if it failed at each of them, and only a read is replaced for its  *)
(* size, whatever the calls and the answers.                                 *)
THEOREM ReportsTruthful == ServingSpec => []ReportTruthful
<1>1. DeedInv => ReportTruthful
  BY DEF DeedInv, Deed, Summed, ReportTruthful
<1> QED
  BY <1>1, DeedStays, PTL

----------------------------------------------------------------------------
(* The Pi-holes of a deployment *)

(* There is one at least, and no two have one name. *)
LEMMA DeclaredWell ==
  ASSUME env \in Environments, Loads(env)
  PROVE  \E n \in Nat \ {0} :
           /\ DOMAIN Declared(env) = 1..n
           /\ Declared(env) = [i \in 1..n |-> Declared(env)[i]]
           /\ Declared(env)[1] = IF env.single THEN 0 ELSE 1
           /\ \A i, j \in 1..n :
                NameOf(env, Declared(env)[i]) = NameOf(env, Declared(env)[j]) => i = j
<1>1. ASSUME NEW n \in Nat \ {0}, DOMAIN Declared(env) = 1..n,
             \A i, j \in 1..n : Declared(env)[i] = Declared(env)[j] => i = j
      PROVE  \A i, j \in 1..n :
               NameOf(env, Declared(env)[i]) = NameOf(env, Declared(env)[j]) => i = j
  <2>1. \A i \in 1..n : Declared(env)[i] \in ToSet(Declared(env))
    BY <1>1 DEF ToSet
  <2> QED
    BY <1>1, <2>1 DEF Loads, NamesWell
<1>2. CASE env.single
  <2>1. Declared(env) = <<0>>
    BY <1>2 DEF Declared
  <2>2. DOMAIN Declared(env) = 1..1 /\ Declared(env)[1] = 0 /\ Declared(env) = [i \in 1..1 |-> Declared(env)[i]]
    BY <2>1
  <2>3. \A i, j \in 1..1 : Declared(env)[i] = Declared(env)[j] => i = j
    OBVIOUS
  <2> QED
    BY <1>1, <1>2, <2>2, <2>3
<1>3. CASE ~env.single
  <2> DEFINE S == Scanned(env)
             n == Cardinality(S)
  <2>1. 1 \in env.numbers
    BY <1>3, SurfaceAssumption DEF Loads, OneForm
  <2>2. IsFiniteSet(env.numbers) /\ S \subseteq env.numbers
    BY SurfaceAssumption DEF Scanned
  <2>3. IsFiniteSet(S)
    BY <2>2, FS_Subset
  <2>4. 1 \in S
    <3>1. 1..1 = {1}
      OBVIOUS
    <3> QED
      BY <2>1, <3>1 DEF Scanned
  <2>5. n \in Nat \ {0}
    BY <2>3, <2>4, FS_CardinalityType, FS_EmptySet
  <2>6. Declared(env) = [i \in 1..n |-> i]
    BY <1>3 DEF Declared
  <2> HIDE DEF n, S
  <2>7. /\ DOMAIN Declared(env) = 1..n /\ Declared(env)[1] = 1
        /\ \A i \in 1..n : Declared(env)[i] = i
    BY <2>5, <2>6
  <2>8. Declared(env) = [i \in 1..n |-> Declared(env)[i]]
    BY <2>6, <2>7
  <2>9. \A i, j \in 1..n : Declared(env)[i] = Declared(env)[j] => i = j
    BY <2>7
  <2>10. \A i, j \in 1..n :
           NameOf(env, Declared(env)[i]) = NameOf(env, Declared(env)[j]) => i = j
    BY <1>1, <2>5, <2>7, <2>9
  <2> QED
    BY <1>3, <2>5, <2>7, <2>8, <2>10
<1> QED
  BY <1>2, <1>3

(* The client of a name is that of the Pi-hole called so. *)
LEMMA ClientOfName ==
  ASSUME env \in Environments, Loads(env), NEW i \in DOMAIN Declared(env)
  PROVE  /\ Client(env, Names(env)[i]) = Declared(env)[i]
         /\ Names(env)[i] = NameOf(env, Declared(env)[i])
<1> DEFINE D == Declared(env)
<1>1. PICK n \in Nat \ {0} :
        /\ DOMAIN D = 1..n
        /\ \A k, j \in 1..n : NameOf(env, D[k]) = NameOf(env, D[j]) => k = j
  BY DeclaredWell
<1>2. DOMAIN Names(env) = 1..n /\ \A k \in 1..n : Names(env)[k] = NameOf(env, D[k])
  BY <1>1 DEF Names
<1> DEFINE P(k) == Names(env)[k] = Names(env)[i]
                   /\ \A j \in DOMAIN Names(env) : Names(env)[j] = Names(env)[i] => j <= k
           m == CHOOSE k \in DOMAIN Names(env) : P(k)
<1>3. i \in 1..n /\ \A k \in 1..n : Names(env)[k] = Names(env)[i] => k = i
  BY <1>1, <1>2
<1>4. P(i) /\ i \in DOMAIN Names(env)
  BY <1>2, <1>3
<1>5. m \in DOMAIN Names(env) /\ P(m)
  BY <1>4
<1>6. m = i
  BY <1>2, <1>3, <1>5
<1>7. Client(env, Names(env)[i]) = D[m]
  BY DEF Client
<1> QED
  BY <1>2, <1>3, <1>6, <1>7

(* A call that may change something goes to the one Pi-hole its caller named. *)
LEMMA OneTarget ==
  ASSUME env \in Environments, NEW tool, tool \notin ReadTools, NEW arg, Loads(env),
         NEW targets, targets = Targets(env, tool, arg), targets # <<>>
  PROVE  {{Client(env, targets[i])} : i \in DOMAIN targets} = {Wanted(arg)}
<1> DEFINE D == Declared(env)
           N == Names(env)
<1>1. PICK n \in Nat \ {0} :
        /\ DOMAIN D = 1..n /\ D = [i \in 1..n |-> D[i]]
        /\ D[1] = IF env.single THEN 0 ELSE 1
        /\ \A i, j \in 1..n : NameOf(env, D[i]) = NameOf(env, D[j]) => i = j
  BY DeclaredWell
<1>2. \A i \in 1..n : Client(env, N[i]) = D[i] /\ N[i] = NameOf(env, D[i])
  BY <1>1, ClientOfName
<1>3. DOMAIN N = 1..n
  BY <1>1 DEF Names
<1>4. SUFFICES \E i \in 1..n : targets = <<N[i]>> /\ Wanted(arg) = {D[i]}
  <2> PICK i \in 1..n : targets = <<N[i]>> /\ Wanted(arg) = {D[i]}
    BY <1>4
  <2>1. DOMAIN targets = {1} /\ targets[1] = N[i]
    OBVIOUS
  <2>2. {{Client(env, targets[k])} : k \in DOMAIN targets} = {{Client(env, N[i])}}
    BY <2>1
  <2> QED
    BY <1>2, <2>2
<1>5. CASE arg = Unset
  <2>1. N \in Seq({N[i] : i \in 1..n}) /\ N # <<>> /\ Head(N) = N[1]
    BY <1>3 DEF Names
  <2>2. targets = <<N[1]>> /\ Wanted(arg) = {D[1]}
    BY <1>1, <1>5, <2>1 DEF Targets, Wanted
  <2> QED
    BY <1>1, <2>2
<1>6. CASE arg # Unset /\ arg \in ToSet(N) /\ targets = <<arg>>
  <2>1. PICK i \in 1..n : N[i] = arg
    BY <1>3, <1>6 DEF ToSet
  <2>2. Wanted(arg) = {k \in ToSet(D) : NameOf(env, k) = arg}
    BY <1>6 DEF Wanted
  <2>3. ToSet(D) = {D[k] : k \in 1..n}
    BY <1>1 DEF ToSet
  <2>4. Wanted(arg) = {D[i]}
    BY <1>1, <1>2, <2>1, <2>2, <2>3
  <2> QED
    BY <1>6, <2>1, <2>4
<1>7. arg = Unset \/ (arg # Unset /\ arg \in ToSet(N) /\ targets = <<arg>>)
  BY DEF Targets, IsReadOnly
<1> QED
  BY <1>5, <1>6, <1>7

(* config.go and instance.go: a tool runs only where it is allowed, and one   *)
(* that changes something on the one Pi-hole its caller named, for any Pi-holes, *)
(* names, tools and toolsets.                                                *)
THEOREM CallsReachNamed == ServingSpec => []ReachesNamed
<1>1. DeedInv => ReachesNamed
  <2> SUFFICES ASSUME DeedInv, NEW c \in Calls, conn[c] = "call"
               PROVE  /\ Allowed(call[c].tool)
                      /\ call[c].tool \notin ReadTools =>
                           {{Client(env, call[c].targets[i])} : i \in DOMAIN call[c].targets}
                             = {Wanted(call[c].arg)}
    BY DEF ReachesNamed
  <2>1. LetThrough(call[c]) /\ env \in Environments
    BY DEF DeedInv, Deed
  <2>2. Allowed(call[c].tool)
    BY <2>1 DEF LetThrough, Allowed, Exposed, toolsetFilter, readOnlyFilter, Restricted, IsReadOnly
  <2>3. call[c].tool \notin ReadTools =>
          {{Client(env, call[c].targets[i])} : i \in DOMAIN call[c].targets} = {Wanted(call[c].arg)}
    BY <2>1, OneTarget DEF LetThrough
  <2> QED
    BY <2>2, <2>3
<1> QED
  BY <1>1, DeedStays, PTL

----------------------------------------------------------------------------
(* The semaphore *)

AtWork(r) == {i \in DOMAIN r.branch : r.branch[i] = "running"}

(* Not more handlers of a call run than there are places. *)
Seated(r) == IsFiniteSet(DOMAIN r.branch) /\ Cardinality(AtWork(r)) <= MaxFanout

FanInv == \A c \in Calls : Seated(call[c])

LEMMA TargetsFinite ==
  ASSUME env \in Environments, Loads(env), NEW tool, NEW arg
  PROVE  IsFiniteSet(DOMAIN Targets(env, tool, arg))
<1> DEFINE N == Names(env)
<1>1. PICK n \in Nat : DOMAIN N = 1..n
  BY DeclaredWell DEF Names
<1>2. \A m \in Nat : IsFiniteSet(1..m)
  BY FS_Interval
<1>3. \/ Targets(env, tool, arg) = N \/ Targets(env, tool, arg) = <<>>
      \/ Targets(env, tool, arg) = <<Head(N)>> \/ Targets(env, tool, arg) = <<arg>>
  BY DEF Targets
<1>4. /\ DOMAIN <<>> = 1..0 /\ DOMAIN <<Head(N)>> = 1..1 /\ DOMAIN <<arg>> = 1..1
  OBVIOUS
<1> HIDE DEF N
<1> QED
  BY <1>1, <1>2, <1>3, <1>4

(* A handler goes on. *)
LEMMA OneHandler ==
  ASSUME DeedInv, FanInv, NEW c \in Calls, NEW i \in DOMAIN call[c].branch, NEW x \in Branches,
         call' = [call EXCEPT ![c].branch[i] = x],
         x = "running" => i \in AtWork(call[c]) \/ Cardinality(AtWork(call[c])) < MaxFanout
  PROVE  FanInv'
<1> DEFINE old == call[c]
           new == [old EXCEPT !.branch = [old.branch EXCEPT ![i] = x]]
<1>1. call' = [call EXCEPT ![c] = new]
  BY DEF DeedInv
<1>2. CallWell(old) /\ Seated(old)
  BY DEF DeedInv, Deed, FanInv
<1>3. new.branch = [old.branch EXCEPT ![i] = x]
  BY <1>2 DEF CallWell
<1>4. /\ IsFiniteSet(DOMAIN old.branch) /\ MaxFanout \in Nat
      /\ AtWork(old) \subseteq DOMAIN old.branch
  BY <1>2, ServingAssumption DEF Seated, AtWork
<1>5. IsFiniteSet(AtWork(old))
  BY <1>4, FS_Subset
<1> HIDE DEF new
<1>6. DOMAIN new.branch = DOMAIN old.branch
  BY <1>3
<1>7. ASSUME x = "running", i \notin AtWork(old)
      PROVE  Cardinality(AtWork(new)) <= MaxFanout
  <2>1. AtWork(new) = AtWork(old) \cup {i}
    BY <1>2, <1>3, <1>7 DEF AtWork, CallWell
  <2>2. Cardinality(AtWork(new)) = Cardinality(AtWork(old)) + 1
    BY <1>5, <1>7, <2>1, FS_AddElement
  <2>3. Cardinality(AtWork(old)) \in Nat
    BY <1>5, FS_CardinalityType
  <2> QED
    BY <1>4, <1>7, <2>2, <2>3
<1>8. ASSUME ~(x = "running" /\ i \notin AtWork(old))
      PROVE  Cardinality(AtWork(new)) <= MaxFanout
  <2>1. AtWork(new) \subseteq AtWork(old)
    BY <1>2, <1>3, <1>8 DEF AtWork, CallWell
  <2>2. /\ Cardinality(AtWork(new)) <= Cardinality(AtWork(old))
        /\ Cardinality(AtWork(new)) \in Nat /\ Cardinality(AtWork(old)) \in Nat
    BY <1>5, <2>1, FS_Subset, FS_CardinalityType
  <2> QED
    BY <1>2, <1>4, <2>2 DEF Seated
<1>9. Seated(new)
  <2>1. Cardinality(AtWork(new)) <= MaxFanout
    BY <1>7, <1>8
  <2> QED
    BY <1>4, <1>6, <2>1 DEF Seated
<1>10. call'[c] = new /\ \A d \in Calls \ {c} : call'[d] = call[d]
  BY <1>1 DEF DeedInv
<1> HIDE DEF new
<1>11. \A d \in Calls : Seated(call'[d])
  BY <1>9, <1>10 DEF FanInv
<1> QED
  BY <1>11 DEF FanInv, Seated, AtWork

LEMMA FanStep == ShutInv /\ DeedInv /\ FanInv /\ [ServingNext]_servingVars => FanInv'
<1> SUFFICES ASSUME ShutInv, DeedInv, FanInv, [ServingNext]_servingVars PROVE FanInv'
  OBVIOUS
<1>1. ASSUME call' = call PROVE FanInv'
  BY <1>1 DEF FanInv, Seated, AtWork
<1>2. CASE Run \/ Drain \/ Tick \/ Signal \/ GraceEnds \/ StdioEnds \/ UNCHANGED processVars
  BY <1>1, <1>2
     DEF Run, Load, ListenUp, ListenFails, ServeReturns, Drained, Leave, Drain, FirstSweep,
         ShutdownBegins, ShutdownReturns, ClosesIdle, Tick, Signal, GraceEnds, StdioEnds,
         processVars
<1>3. ASSUME NEW c \in Calls, NEW tool, NEW arg, StartCall(c, tool, arg) PROVE FanInv'
  <2> DEFINE targets == Targets(env, tool, arg)
             new == [tool |-> tool, arg |-> arg, targets |-> targets,
                     branch |-> [i \in DOMAIN targets |-> "waiting"], report |-> "none"]
  <2>1. call' = [call EXCEPT ![c] = new] /\ main \notin {"load", "gone"}
    BY <1>3 DEF StartCall, Sends, Up
  <2>2. DOMAIN new.branch = DOMAIN targets /\ AtWork(new) = {}
    BY DEF AtWork
  <2>3. IsFiniteSet(DOMAIN targets)
    BY <2>1, TargetsFinite DEF DeedInv
  <2>4. call'[c] = new /\ \A d \in Calls \ {c} : call'[d] = call[d]
    BY <2>1 DEF DeedInv
  <2> HIDE DEF new, targets
  <2>5. Seated(new)
    BY <2>2, <2>3, FS_EmptySet, ServingAssumption DEF Seated
  <2> QED
    BY <2>4, <2>5 DEF FanInv, Seated, AtWork
<1>4. CASE Clients
  <2>1. (\E c \in Calls : Connect(c) \/ OpenStream(c) \/ Disconnect(c)) => call' = call
    BY DEF Connect, OpenStream, Disconnect
  <2> QED
    BY <1>1, <1>3, <1>4, <2>1 DEF Clients
<1>5. ASSUME NEW c \in Calls, NEW i \in DOMAIN call[c].branch, BranchRuns(c, i) PROVE FanInv'
  <2>1. Cardinality(AtWork(call[c])) < MaxFanout
    BY <1>5 DEF BranchRuns, InBranch, AtWork
  <2> QED
    BY <1>5, <2>1, OneHandler DEF BranchRuns, Branches
<1>6. ASSUME NEW c \in Calls, NEW i \in DOMAIN call[c].branch,
             \/ GravityStep(c, i)
             \/ \E outcome \in {"ok", "large", "failed"} : BranchEnds(c, i, outcome)
      PROVE  FanInv'
  <2>1. i \in AtWork(call[c])
    BY <1>6 DEF GravityStep, BranchEnds, InBranch, AtWork
  <2>2. PICK x \in Branches : call' = [call EXCEPT ![c].branch[i] = x]
    BY <1>6 DEF GravityStep, BranchEnds, Branches
  <2> QED
    BY <2>1, <2>2, OneHandler
<1>7. ASSUME NEW c \in Calls, CallEnds(c) PROVE FanInv'
  <2>1. CallWell(call[c])
    BY DEF DeedInv, Deed
  <2>2. PICK what : call' = [call EXCEPT ![c].report = what]
    BY <1>7 DEF CallEnds
  <2>3. call'[c].branch = call[c].branch /\ \A d \in Calls \ {c} : call'[d] = call[d]
    BY <2>1, <2>2 DEF DeedInv, CallWell
  <2> QED
    BY <2>3 DEF FanInv, Seated, AtWork
<1>8. CASE \E c \in Calls : CallStep(c)
  BY <1>5, <1>6, <1>7, <1>8 DEF CallStep
<1> QED
  BY <1>2, <1>4, <1>8 DEF ServingNext, servingVars

(* instance.go, the semaphore of aggregateAll: however many Pi-holes there    *)
(* are, at most maxFanout handlers of a call run at a time.                  *)
THEOREM ProcessTypeCorrect == ServingSpec => []ServingTypeOK
<1> DEFINE Where == /\ main \in {"load", "listen", "serve", "stdio", "wait", "close", "gone"}
                    /\ drain \in {"parked", "sweep", "loop", "over"}
                    /\ shutting \in BOOLEAN /\ graceOver \in BOOLEAN
<1>1. ServingInit => FanInv /\ Where
  <2> SUFFICES ASSUME ServingInit PROVE FanInv /\ Where
    OBVIOUS
  <2>1. NoCall.branch = <<>> /\ DOMAIN <<>> = {}
    BY DEF NoCall
  <2>2. Seated(NoCall)
    <3>1. AtWork(NoCall) = {} /\ DOMAIN NoCall.branch = {}
      BY <2>1 DEF AtWork
    <3> QED
      BY <3>1, FS_EmptySet, ServingAssumption DEF Seated
  <2>3. FanInv
    BY <2>2 DEF ServingInit, FanInv
  <2> QED
    BY <2>3 DEF ServingInit
<1>2. Where /\ [ServingNext]_servingVars => Where'
  <2> SUFFICES ASSUME Where, [ServingNext]_servingVars PROVE Where'
    OBVIOUS
  <2>1. UNCHANGED <<main, drain, shutting, graceOver>> => Where'
    OBVIOUS
  <2>2. CASE Run
    BY <2>2 DEF Run, Load, ListenUp, ListenFails, ServeReturns, NextOfServe, Drained, Leave
  <2>3. CASE Drain \/ Tick \/ Signal \/ GraceEnds \/ StdioEnds
    BY <2>3 DEF Drain, FirstSweep, ShutdownBegins, ShutdownReturns, ClosesIdle, Tick, Signal,
                GraceEnds, StdioEnds
  <2>4. CASE Clients \/ (\E c \in Calls : CallStep(c)) \/ UNCHANGED processVars
    <3>1. UNCHANGED <<main, drain, shutting, graceOver>>
      BY <2>4 DEF Clients, Connect, OpenStream, Disconnect, StartCall, CallStep, BranchRuns,
                  GravityStep, BranchEnds, CallEnds, processVars
    <3> QED
      BY <2>1, <3>1
  <2> QED
    BY <2>2, <2>3, <2>4 DEF ServingNext, servingVars
<1>3. ShutInv /\ DeedInv /\ FanInv /\ Where => ServingTypeOK
  BY DEF ShutInv, Conns, DeedInv, FanInv, Seated, AtWork, InBranch, ServingTypeOK
<1> QED
  BY <1>1, <1>2, <1>3, DeedStays, FanStep, PTL DEF ServingSpec
=============================================================================
