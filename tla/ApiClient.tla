----------------------------- MODULE ApiClient -----------------------------
(***************************************************************************)
(* internal/pihole/client.go, auth.go, retry.go, errors.go: one Client of  *)
(* one Pi-hole, shared by the goroutines that handle tool calls.           *)
(*                                                                         *)
(* A call (Do, PostMultipartReader or DoRaw) runs withRetry: make sure     *)
(* there is a session, send the request, on a 401 refresh the session and  *)
(* send once more, on a failure decide whether to try again, and label     *)
(* the final error.  The session id is shared state under Client.mu, which *)
(* a refresh holds across its own HTTP request.  Close logs out once the   *)
(* server stops taking calls.                                              *)
(*                                                                         *)
(* FTL, Pi-hole's server, is outside src/.  It is modelled from how the    *)
(* client uses it: it refuses unknown sessions (401), may refuse for other *)
(* reasons before doing anything (429, 4xx, 5xx), drops sessions at any    *)
(* time, and a connection may be refused, or end with the request served,  *)
(* about to be served, or lost.                                            *)
(***************************************************************************)
EXTENDS Integers, FiniteSets

CONSTANTS
  Procs,       \* goroutines that make calls
  Sids,        \* session ids FTL hands out
  NoSid,       \* the empty session id
  Nobody,      \* Client.mu is free
  Kinds,       \* what the calls do: read (GET), write (a change through Do or
               \* PostMultipartReader), stream (a change through DoRaw)
  MaxRetries,  \* RetryPolicy.MaxRetries
  DrainWaits   \* shutdown waits for running calls (TRUE) or runs out of its
               \* grace period and closes the client under them (FALSE)

ASSUME ClientAssumption ==
  /\ NoSid \notin Sids
  /\ Nobody \notin Procs
  /\ Kinds \subseteq {"read", "write", "stream"} /\ "read" \in Kinds
  /\ MaxRetries \in Nat
  /\ DrainWaits \in BOOLEAN

VARIABLES
  sid,       \* Client.sid
  mu,        \* who holds Client.mu for writing, or Nobody
  pc,        \* where each call is
  kind,      \* what it does
  live,      \* Do's live: the context had not ended when the call began
  ended,     \* the call's context has ended
  attempt,   \* withRetry's attempt
  used,      \* the session id the call's request carries
  replay,    \* the request is the one sent again after a 401
  answer,    \* what FTL answered to the request that is out
  result,    \* what the call returned, or would return if it gave up now
  applied,   \* how often FTL has carried out the call's change
  late,      \* copies of the change given up on that FTL may still serve
  sessions,  \* the sessions of this client FTL accepts
  lost,      \* sessions the client cannot know of: the login's answer or the
             \* logout was lost
  closing,   \* Client.Close at shutdown
  open       \* the Pi-hole has no password: it gives no sessions, nor asks
             \* for any

callVars == <<kind, live, ended, attempt, used, replay, result>>
ftlVars  == <<applied, late, answer>>
seatVars == <<sid, mu, sessions, lost>>
vars     == <<callVars, ftlVars, seatVars, pc, closing, open>>

Places   == {"idle", "ensure", "lock", "login", "send", "wait", "reauth", "backoff"}
Refusals == {"rate", "server", "reject"}              \* 429, 5xx, other 4xx
Answers  == Refusals \cup {"none", "auth", "ok", "garbled"}
Classes  == Refusals \cup {"auth", "garbled", "seats", "refused", "cut", "ended"}

(* An error is a record: at, whether it met the request or the login, and  *)
(* class, what it was, one of Classes.                                      *)
(* refused is ECONNREFUSED; cut is an EOF, a reset or an aborted            *)
(* connection; ended is a context's end or the HTTP client's timeout, which *)
(* Go reports as one; garbled is an answer that does not parse; seats is    *)
(* the 429 of a full session pool.                                          *)
Results == {"none", "ok", "error", "garbled", "uncertain"}

----------------------------------------------------------------------------
(* Decisions about errors *)

idempotentMethod(k) == k = "read"

transient(e) == e.class \in {"server", "refused", "cut"}

(* Bug: a change is sent again when its connection was cut. *)
retryableAlways(e, idempotent) ==
  e.class \notin {"ended", "seats"} /\ (e.class = "rate" \/ transient(e))

retryable(e, idempotent) ==
  /\ e.class \notin {"ended", "seats"}
  /\ \/ e.class = "rate"
     \/ transient(e) /\ (e.at = "login" \/ idempotent)

(* Bug: only a cut connection counts, not a context that ended meanwhile. *)
mayHaveAppliedCut(e, alive) == e.at = "request" /\ e.class = "cut"

mayHaveApplied(e, alive) ==
  /\ e.at = "request"
  /\ e.class = "cut" \/ (e.class = "ended" /\ alive)

(* Do and PostMultipartReader label an error; DoRaw returns it as it is. *)
Label(p, e) ==
  IF kind[p] = "write" /\ mayHaveApplied(e, live[p]) THEN "uncertain"
  ELSE IF e = [at |-> "request", class |-> "garbled"] THEN "garbled"
  ELSE "error"

----------------------------------------------------------------------------

Init ==
  /\ sid = NoSid /\ mu = Nobody
  /\ pc = [p \in Procs |-> "idle"]
  /\ kind = [p \in Procs |-> "read"]
  /\ live = [p \in Procs |-> TRUE]
  /\ ended = [p \in Procs |-> FALSE]
  /\ attempt = [p \in Procs |-> 0]
  /\ used = [p \in Procs |-> NoSid]
  /\ replay = [p \in Procs |-> FALSE]
  /\ answer = [p \in Procs |-> "none"]
  /\ result = [p \in Procs |-> "none"]
  /\ applied = [p \in Procs |-> 0]
  /\ late = [p \in Procs |-> 0]
  /\ sessions = {} /\ lost = {}
  /\ closing = "off" /\ open \in BOOLEAN

(* A tool call uses the client; its context may have ended already. *)
Begin(p, k, dead) ==
  /\ pc[p] = "idle" /\ closing = "off" /\ late[p] = 0
  /\ pc' = [pc EXCEPT ![p] = "ensure"]
  /\ kind' = [kind EXCEPT ![p] = k]
  /\ live' = [live EXCEPT ![p] = ~dead]
  /\ ended' = [ended EXCEPT ![p] = dead]
  /\ result' = [result EXCEPT ![p] = "none"]
  /\ applied' = [applied EXCEPT ![p] = 0]
  /\ UNCHANGED <<attempt, used, replay, late, answer, seatVars, closing>>

(* The client of the MCP server cancels the tool call, or its deadline passes. *)
EndContext(p) ==
  /\ pc[p] # "idle" /\ ~ended[p]
  /\ ended' = [ended EXCEPT ![p] = TRUE]
  /\ UNCHANGED <<kind, live, attempt, used, replay, result, ftlVars, seatVars, pc, closing>>

(* do's locals end with the attempt, the call's own with the call. *)
EndAttempt(p) ==
  /\ used' = [used EXCEPT ![p] = NoSid]
  /\ replay' = [replay EXCEPT ![p] = FALSE]
  /\ answer' = [answer EXCEPT ![p] = "none"]
  /\ UNCHANGED kind

Return(p, r) ==
  /\ EndAttempt(p)
  /\ pc' = [pc EXCEPT ![p] = "idle"]
  /\ result' = [result EXCEPT ![p] = r]
  /\ live' = [live EXCEPT ![p] = TRUE]
  /\ ended' = [ended EXCEPT ![p] = FALSE]
  /\ attempt' = [attempt EXCEPT ![p] = 0]

BackOff(p, r) ==
  /\ EndAttempt(p)
  /\ pc' = [pc EXCEPT ![p] = "backoff"]
  /\ result' = [result EXCEPT ![p] = r]
  /\ UNCHANGED <<live, ended, attempt>>

(* The end of an attempt that failed: back off, or return the error. *)
Fail(p, e) ==
  IF attempt[p] < MaxRetries /\ retryable(e, idempotentMethod(kind[p]))
  THEN BackOff(p, Label(p, e))
  ELSE Return(p, Label(p, e))

(* sleepBackoff ran to its end: another attempt. *)
Wake(p) ==
  /\ pc[p] = "backoff"
  /\ pc' = [pc EXCEPT ![p] = "ensure"]
  /\ attempt' = [attempt EXCEPT ![p] = @ + 1]
  /\ result' = [result EXCEPT ![p] = "none"]
  /\ UNCHANGED <<kind, live, ended, used, replay, ftlVars, seatVars, closing>>

(* The context ended during sleepBackoff: the error met before is returned. *)
GiveUp(p) ==
  /\ pc[p] = "backoff" /\ ended[p]
  /\ Return(p, result[p])
  /\ UNCHANGED <<applied, late, seatVars, closing>>

----------------------------------------------------------------------------
(* The session *)

Carry(p, s) ==
  /\ used' = [used EXCEPT ![p] = s]
  /\ pc' = [pc EXCEPT ![p] = "send"]

(* ensureAuth's read of sid under RLock. *)
Ensure(p) ==
  /\ pc[p] = "ensure" /\ mu = Nobody
  /\ IF sid # NoSid
     THEN Carry(p, sid)
     ELSE pc' = [pc EXCEPT ![p] = "lock"] /\ UNCHANGED used
  /\ UNCHANGED <<kind, live, ended, attempt, replay, result, ftlVars, seatVars, closing>>

(* Bug: ensureAuth does not look again once it has the write lock. *)
LockUnchecked(p) ==
  /\ pc[p] = "lock" /\ mu = Nobody
  /\ pc' = [pc EXCEPT ![p] = "login"]
  /\ mu' = p
  /\ UNCHANGED <<callVars, ftlVars, sid, sessions, lost, closing>>

(* ensureAuth's write lock and double check. *)
Lock(p) ==
  /\ pc[p] = "lock" /\ mu = Nobody
  /\ IF sid # NoSid
     THEN Carry(p, sid) /\ UNCHANGED mu
     ELSE pc' = [pc EXCEPT ![p] = "login"] /\ mu' = p /\ UNCHANGED used
  /\ UNCHANGED <<kind, live, ended, attempt, replay, result, ftlVars, sid, sessions,
                 lost, closing>>

(* handleAuthRetry up to its login: take over what another goroutine has   *)
(* put there since, or clear the session that was refused.                  *)
Reauth(p) ==
  /\ pc[p] = "reauth" /\ mu = Nobody
  /\ replay' = [replay EXCEPT ![p] = TRUE]
  /\ IF sid # used[p]
     THEN Carry(p, sid) /\ UNCHANGED <<mu, sid>>
     ELSE /\ pc' = [pc EXCEPT ![p] = "login"] /\ mu' = p /\ sid' = NoSid
          /\ UNCHANGED used
  /\ UNCHANGED <<kind, live, ended, attempt, result, ftlVars, sessions, lost, closing>>

(* A session id is random: never one anybody still knows. *)
Fresh(s) == s \notin sessions /\ s # sid /\ \A p \in Procs : used[p] # s

(* A login is given a session, or none where none is needed. *)
Grants(s) == IF open THEN s = NoSid ELSE s # NoSid /\ Fresh(s)

(* With no session id kept, the next call logs in again. *)
LoginOK(p, s) ==
  /\ pc[p] = "login" /\ ~ended[p] /\ Grants(s)
  /\ sessions' = sessions \cup ({s} \ {NoSid})
  /\ sid' = s
  /\ mu' = Nobody
  /\ Carry(p, s)
  /\ UNCHANGED <<kind, live, ended, attempt, replay, result, ftlVars, lost, closing>>

(* Bug: login's error path leaves Client.mu locked. *)
LoginFailLocked(p, c) ==
  /\ pc[p] = "login" /\ (c = "ended" \/ ~ended[p])
  /\ \/ UNCHANGED <<sessions, lost>>
     \/ /\ c \in {"cut", "ended", "garbled"} /\ ~ended[p]
        /\ \E s \in Sids : Grants(s) /\ sessions' = sessions \cup {s} /\ lost' = lost \cup {s}
  /\ Fail(p, [at |-> "login", class |-> c])
  /\ UNCHANGED <<applied, late, sid, mu, closing>>

(* login failed, or its answer did not arrive and FTL has opened a session *)
(* all the same.                                                            *)
LoginFail(p, c) ==
  /\ pc[p] = "login" /\ (c = "ended" \/ ~ended[p])
  /\ \/ UNCHANGED <<sessions, lost>>
     \/ /\ c \in {"cut", "ended", "garbled"} /\ ~ended[p]
        /\ \E s \in Sids : Grants(s) /\ sessions' = sessions \cup {s} /\ lost' = lost \cup {s}
  /\ mu' = Nobody
  /\ Fail(p, [at |-> "login", class |-> c])
  /\ UNCHANGED <<applied, late, sid, closing>>

----------------------------------------------------------------------------
(* The request *)

(* doRequest, sendMultipart or sendRaw hands the request to the transport. *)
Send(p) ==
  /\ pc[p] = "send" /\ ~ended[p]
  /\ pc' = [pc EXCEPT ![p] = "wait"]
  /\ answer' = [answer EXCEPT ![p] = "none"]
  /\ UNCHANGED <<callVars, applied, late, seatVars, closing>>

(* The transport refuses a context that has ended, or cannot connect. *)
SendFail(p) ==
  /\ pc[p] = "send"
  /\ Fail(p, [at |-> "request", class |-> IF ended[p] THEN "ended" ELSE "refused"])
  /\ UNCHANGED <<applied, late, seatVars, closing>>

Accepted(p) == open \/ used[p] \in sessions

(* FTL answers: it refuses, or carries the request out. *)
Serve(p, a) ==
  /\ pc[p] = "wait" /\ answer[p] = "none"
  /\ \/ a \in Refusals /\ UNCHANGED applied
     \/ a = "auth" /\ ~Accepted(p) /\ UNCHANGED applied
     \/ /\ a \in {"ok", "garbled"} /\ Accepted(p)
        /\ applied' = [applied EXCEPT ![p] = IF kind[p] = "read" THEN @ ELSE @ + 1]
  /\ answer' = [answer EXCEPT ![p] = a]
  /\ UNCHANGED <<callVars, late, seatVars, pc, closing>>

(* FTL gets round to a change whose sender has given up, or never will. *)
ServeLate(p) ==
  /\ late[p] > 0
  /\ late' = [late EXCEPT ![p] = @ - 1]
  /\ applied' \in {applied, [applied EXCEPT ![p] = @ + 1]}
  /\ UNCHANGED <<callVars, answer, seatVars, pc, closing>>

Succeed(p) ==
  /\ pc[p] = "wait" /\ answer[p] = "ok"
  /\ Return(p, "ok")
  /\ UNCHANGED <<applied, late, seatVars, closing>>

(* The first 401 of an attempt. *)
Unauthorised(p) ==
  /\ pc[p] = "wait" /\ answer[p] = "auth" /\ ~replay[p]
  /\ pc' = [pc EXCEPT ![p] = "reauth"]
  /\ UNCHANGED <<callVars, ftlVars, seatVars, closing>>

Refused(p) ==
  /\ pc[p] = "wait" /\ answer[p] \notin {"none", "ok"}
  /\ answer[p] = "auth" => replay[p]
  /\ Fail(p, [at |-> "request", class |-> answer[p]])
  /\ UNCHANGED <<applied, late, seatVars, closing>>

(* No answer: the connection dropped, the context ended or the client timed *)
(* out.  FTL may have served the request, or may yet.                       *)
NoAnswer(p, c) ==
  /\ pc[p] = "wait"
  /\ late' = [late EXCEPT ![p] =
                IF answer[p] = "none" /\ kind[p] # "read" THEN @ + 1 ELSE @]
  /\ Fail(p, [at |-> "request", class |-> c])
  /\ UNCHANGED <<applied, seatVars, closing>>

----------------------------------------------------------------------------
(* The end of a session *)

(* FTL drops a session: it timed out, was revoked, or FTL restarted. *)
Expire(s) ==
  /\ s \in sessions
  /\ sessions' = sessions \ {s}
  /\ lost' = lost \ {s}
  /\ UNCHANGED <<callVars, ftlVars, sid, mu, pc, closing>>

(* The server stops taking tool calls. *)
Stop ==
  /\ closing = "off"
  /\ closing' = "stopping"
  /\ UNCHANGED <<callVars, ftlVars, seatVars, pc>>

(* Bug: Close forgets the session without logging out. *)
LogoutSkipped ==
  /\ closing = "stopping" /\ mu = Nobody
  /\ DrainWaits => \A p \in Procs : pc[p] = "idle"
  /\ closing' = IF sid = NoSid THEN "closed" ELSE "answered"
  /\ UNCHANGED <<callVars, ftlVars, seatVars, pc>>

(* Close reads sid and sends the logout; FTL drops the session. *)
Logout ==
  /\ closing = "stopping" /\ mu = Nobody
  /\ DrainWaits => \A p \in Procs : pc[p] = "idle"
  /\ closing' = IF sid = NoSid THEN "closed" ELSE "answered"
  /\ sessions' = sessions \ {sid}
  /\ lost' = lost \ {sid}
  /\ UNCHANGED <<callVars, ftlVars, sid, mu, pc>>

(* The logout gets no answer (Close returns), or one that refuses it (Close *)
(* does not look at the status).                                            *)
LogoutFail ==
  /\ closing = "stopping" /\ mu = Nobody /\ sid # NoSid
  /\ DrainWaits => \A p \in Procs : pc[p] = "idle"
  /\ closing' \in {"closed", "answered"}
  /\ lost' = lost \cup (sessions \cap {sid})
  /\ UNCHANGED <<callVars, ftlVars, sid, mu, sessions, pc>>

(* The last lines of Close. *)
Forget ==
  /\ closing = "answered" /\ mu = Nobody
  /\ sid' = NoSid
  /\ closing' = "closed"
  /\ UNCHANGED <<callVars, ftlVars, mu, sessions, lost, pc>>

----------------------------------------------------------------------------

(* What p does next on its own: FTL need not answer for it. *)
Proceed(p) ==
  \/ Ensure(p) \/ Lock(p) \/ Reauth(p) \/ Wake(p)
  \/ \E s \in Sids \cup {NoSid} : LoginOK(p, s)
  \/ \E c \in Classes : LoginFail(p, c)
  \/ Send(p) \/ SendFail(p)
  \/ Succeed(p) \/ Unauthorised(p) \/ Refused(p) \/ NoAnswer(p, "ended")

(* Nobody sets or removes the password meanwhile. *)
Next ==
  /\ UNCHANGED open
  /\ \/ \E p \in Procs :
          \/ \E k \in Kinds, dead \in BOOLEAN : Begin(p, k, dead)
          \/ EndContext(p) \/ GiveUp(p)
          \/ Proceed(p)
          \/ \E a \in Answers \ {"none"} : Serve(p, a)
          \/ ServeLate(p)
          \/ NoAnswer(p, "cut")
     \/ \E s \in Sids : Expire(s)
     \/ Stop \/ Logout \/ LogoutFail \/ Forget

Spec == Init /\ [][Next]_vars

(* Backoffs and HTTP requests end (30 s client timeout), so each goroutine *)
(* goes on; where it waits for Client.mu, a lock that is free again and     *)
(* again goes to each waiter in its turn.                                   *)
Fairness == \A p \in Procs : SF_vars(Proceed(p) /\ UNCHANGED open)

FairSpec == Spec /\ Fairness

----------------------------------------------------------------------------

TypeOK ==
  /\ sid \in Sids \cup {NoSid}
  /\ mu \in Procs \cup {Nobody}
  /\ pc \in [Procs -> Places]
  /\ kind \in [Procs -> Kinds]
  /\ live \in [Procs -> BOOLEAN]
  /\ ended \in [Procs -> BOOLEAN]
  /\ attempt \in [Procs -> 0..MaxRetries]
  /\ used \in [Procs -> Sids \cup {NoSid}]
  /\ replay \in [Procs -> BOOLEAN]
  /\ answer \in [Procs -> Answers]
  /\ result \in [Procs -> Results]
  /\ applied \in [Procs -> Nat]
  /\ late \in [Procs -> Nat]
  /\ sessions \in SUBSET Sids
  /\ lost \in SUBSET sessions
  /\ closing \in {"off", "stopping", "answered", "closed"} /\ open \in BOOLEAN

(* retry.go: "a mutating request is never replayed" unless it was refused  *)
(* before it was processed: whatever is retried, refreshed and cut off, FTL *)
(* carries a change out at most once, counting copies still on their way.   *)
AtMostOnce == \A p \in Procs : applied[p] + late[p] <= 1

(* A change through Do or PostMultipartReader is reported as it went: ok   *)
(* means FTL carried it out, an error that is not an UncertainError means   *)
(* FTL has not and will not (errors.go: "A refused connection or a failed   *)
(* login means nothing was sent").  The one exception is an answer that     *)
(* does not parse, which is an answer, not its absence.                     *)
OutcomeTruthful ==
  \A p \in Procs :
    pc[p] = "idle" /\ kind[p] = "write" =>
      /\ result[p] = "ok" => applied[p] = 1
      /\ result[p] = "error" => applied[p] + late[p] = 0

(* auth.go: "compare-and-swap to avoid thundering herd": the client holds  *)
(* one seat in FTL's session pool, the one its sid names, whatever number   *)
(* of goroutines meet the same 401; the others are beyond its knowledge.    *)
OneSeat == sessions \subseteq lost \cup {sid}

(* README: "pihole-mcp releases its seat on shutdown": when Close returns,  *)
(* and the process exits, FTL has no session of this client left that the   *)
(* client could have known of.                                              *)
SeatReleased ==
  [][closing # "closed" /\ closing' = "closed" => sessions' \subseteq lost']_vars

(* auth.go: "if another goroutine already refreshed, we use the new SID":  *)
(* a request is sent again after a 401 only with a session to send it with. *)
ReplayHasSession ==
  ~open => \A p \in Procs : pc[p] = "send" => used[p] # NoSid

(* Every call returns: no retry, refresh or lock keeps it forever. *)
CallReturns == \A p \in Procs : pc[p] # "idle" ~> pc[p] = "idle"

=============================================================================
