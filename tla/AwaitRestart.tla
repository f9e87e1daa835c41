---------------------------- MODULE AwaitRestart ----------------------------
(***************************************************************************)
(* internal/pihole/restart.go and its use by the write tools: a write to a *)
(* setting that makes FTL restart reports only once FTL is back, so the     *)
(* caller's next request cannot land in the restart window.                 *)
(*                                                                         *)
(* The writer notes the time, sends the write and, when it is answered,    *)
(* probes FTL's uptime until a process answers that must have started       *)
(* later.  It knows the time it sent a probe and the time the answer        *)
(* arrived, and how long the process had been up in between.                *)
(*                                                                         *)
(* FTL, outside src/, is a succession of processes.  One may stop and the  *)
(* next start at any time: other writers and the system restart it too.     *)
(* Its uptime is read off another clock than the writer's, and is off by    *)
(* at most Jitter.                                                          *)
(***************************************************************************)
EXTENDS Integers

CONSTANTS
  Jitter,         \* how far an uptime is off ("clock jitter")
  Margin,         \* processChangeMargin
  ProbeTimeout,   \* restartProbeTimeout
  MaxTime         \* bound of the clock

ASSUME TimeAssumption ==
  /\ Jitter \in Nat /\ Margin \in Nat /\ ProbeTimeout \in Nat /\ MaxTime \in Nat
  /\ 2 * Jitter <= Margin

VARIABLES
  now,        \* the time
  up,         \* an FTL process is running
  born,       \* when the running process, or the last one, started
  stage,      \* where the writer is
  sent,       \* the time noted before the write was sent
  servedBy,   \* the start of the process that carried out the write
  probed,     \* the time the current probe was sent
  uptime,     \* the uptime the probe's answer reports
  answerer,   \* the start of the process that answered the probe
  seen,       \* whether some answer was not good enough, and
  seenBy,     \* seenStartedBy: the earliest latest-possible start of those
  passedOver  \* the starts of the processes whose answers were not good enough

ftlVars   == <<up, born>>
probeVars == <<probed, uptime, answerer>>
seenVars  == <<seen, seenBy, passedOver>>
vars      == <<now, ftlVars, stage, sent, servedBy, probeVars, seenVars>>

Stages == {"idle", "sending", "replied", "waiting", "probing", "answered",
           "failed", "restarted", "unconfirmed"}

Init ==
  /\ now = 0 /\ up = TRUE /\ born = 0
  /\ stage = "idle" /\ sent = 0 /\ servedBy = 0
  /\ probed = 0 /\ uptime = 0 /\ answerer = 0
  /\ seen = FALSE /\ seenBy = 0 /\ passedOver = {}

----------------------------------------------------------------------------
(* Time and FTL *)

Tick ==
  /\ now < MaxTime
  /\ now' = now + 1
  /\ UNCHANGED <<ftlVars, stage, sent, servedBy, probeVars, seenVars>>

Die ==
  /\ up
  /\ up' = FALSE
  /\ UNCHANGED <<now, born, stage, sent, servedBy, probeVars, seenVars>>

Start ==
  /\ ~up /\ now > born
  /\ up' = TRUE /\ born' = now
  /\ UNCHANGED <<now, stage, sent, servedBy, probeVars, seenVars>>

----------------------------------------------------------------------------
(* The write *)

(* sent := time.Now(), then Put. *)
SendWrite ==
  /\ stage = "idle"
  /\ sent' = now
  /\ stage' = "sending"
  /\ UNCHANGED <<now, ftlVars, servedBy, probeVars, seenVars>>

(* The write reaches the FTL process running by then: a failed login may   *)
(* have held it up for several backoffs.                                    *)
ServeWrite ==
  /\ stage = "sending" /\ up
  /\ servedBy' = born
  /\ stage' = "replied"
  /\ UNCHANGED <<now, ftlVars, sent, probeVars, seenVars>>

WriteFails ==
  /\ stage \in {"sending", "replied"}
  /\ stage' = "failed"
  /\ UNCHANGED <<now, ftlVars, sent, servedBy, probeVars, seenVars>>

(* The reply arrives and the tool calls awaitRestartNote. *)
TakeReply ==
  /\ stage = "replied"
  /\ stage' = "waiting"
  /\ UNCHANGED <<now, ftlVars, sent, servedBy, probeVars, seenVars>>

----------------------------------------------------------------------------
(* AwaitRestart's loop *)

Probe ==
  /\ stage = "waiting"
  /\ probed' = now
  /\ stage' = "probing"
  /\ UNCHANGED <<now, ftlVars, sent, servedBy, uptime, answerer, seenVars>>

(* FTL reads its uptime and answers /info/ftl. *)
AnswerProbe(off) ==
  /\ stage = "probing" /\ up
  /\ uptime' = (now - born) + off
  /\ answerer' = born
  /\ stage' = "answered"
  /\ UNCHANGED <<now, ftlVars, sent, servedBy, probed, seenVars>>

(* The probe fails, its timeout included. *)
ProbeFails ==
  /\ stage \in {"probing", "answered"}
  /\ stage' = "waiting"
  /\ UNCHANGED <<now, ftlVars, sent, servedBy, probeVars, seenVars>>

startedFrom == probed - uptime
startedBy   == now - uptime

(* Bug: the process's start is reckoned from the answer's arrival. *)
ConfirmedByArrival == startedBy > sent \/ (seen /\ startedBy > seenBy + Margin)

(* Bug: the second test only, waiting to see two processes. *)
ConfirmedTwice == seen /\ startedFrom > seenBy + Margin

Confirmed == startedFrom > sent \/ (seen /\ startedFrom > seenBy + Margin)

(* The answer arrives within the probe's timeout: it confirms the restart, *)
(* or is remembered.                                                        *)
TakeAnswer ==
  /\ stage = "answered"
  /\ now - probed <= ProbeTimeout
  /\ IF Confirmed
     THEN stage' = "restarted" /\ UNCHANGED seenVars
     ELSE /\ stage' = "waiting"
          /\ seen' = TRUE
          /\ seenBy' = IF ~seen \/ startedBy < seenBy THEN startedBy ELSE seenBy
          /\ passedOver' = passedOver \cup {answerer}
  /\ UNCHANGED <<now, ftlVars, sent, servedBy, probeVars>>

(* restartWaitTimeout has passed, or the caller's context ended. *)
WaitEnds ==
  /\ stage = "waiting"
  /\ stage' = "unconfirmed"
  /\ UNCHANGED <<now, ftlVars, sent, servedBy, probeVars, seenVars>>

Next ==
  \/ Tick \/ Die \/ Start
  \/ SendWrite \/ ServeWrite \/ WriteFails \/ TakeReply
  \/ Probe \/ (\E off \in (-Jitter)..Jitter : AnswerProbe(off))
  \/ ProbeFails \/ TakeAnswer \/ WaitEnds

Spec == Init /\ [][Next]_vars

----------------------------------------------------------------------------

TypeOK ==
  /\ now \in Nat /\ up \in BOOLEAN /\ born \in 0..now
  /\ stage \in Stages
  /\ sent \in 0..now /\ servedBy \in 0..born
  /\ probed \in 0..now /\ uptime \in Int /\ answerer \in 0..born
  /\ seen = (passedOver # {}) /\ seenBy \in Int /\ passedOver \in SUBSET (0..born)

(* tools/restart.go: "A write reports only once FTL is answering again, so *)
(* the caller's next request cannot land in the restart window": FTL stops  *)
(* the process that carried the write out, so the process that made the     *)
(* wait end must be a later one.                                            *)
RestartOver == stage = "restarted" => answerer > servedBy

(* The same for a write that was carried out by a process already running  *)
(* when it was sent (and longer than clocks may be off): neither a slow     *)
(* answer, nor a failed probe, nor jitter makes that process look new.      *)
RestartOverIfPrompt == servedBy + Jitter <= sent => RestartOver

(* restart.go: "A process whose earliest possible start is after the       *)
(* request has restarted.  So has one whose earliest possible start is      *)
(* after the latest possible start of a process seen": the answer of a      *)
(* process is not passed over if it started later than one probe can take   *)
(* after the request, nor if it started later than two can take after       *)
(* another process passed over.  No restart is slept through for longer.    *)
RestartNoticed ==
  /\ \A b \in passedOver : b <= sent + ProbeTimeout + Jitter
  /\ \A a, b \in passedOver : b - a <= 2 * (ProbeTimeout + Jitter) + Margin
=============================================================================
