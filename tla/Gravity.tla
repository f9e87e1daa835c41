------------------------------ MODULE Gravity ------------------------------
(***************************************************************************)
(* internal/tools/actions.go, actionGravityHandler: rebuilding the gravity  *)
(* database, which takes minutes, and reading the stream of lines about it.  *)
(*                                                                         *)
(* Pi-hole runs the rebuild on its own, whether or not anyone reads.  It     *)
(* says how it went only at the end, FTL before v6.8 never says it failed.   *)
(* The handler stops when the stream ends, when it breaks, when it has been  *)
(* silent for gravityIdleTimeout, or when the caller is gone; the last two   *)
(* cancel the context of the stream, which the reader notices some time      *)
(* later, possibly after the last line.  A broken stream is an error to the  *)
(* reader, and not an end.                                                  *)
(***************************************************************************)
EXTENDS Integers, Sequences, SequencesExt

CONSTANTS
  Calls,
  Pis,        \* the Pi-holes, by number
  MaxLines    \* bound of the lines of a rebuild

ASSUME GravityAssumption == Pis \subseteq Nat /\ MaxLines \in Nat

VARIABLES
  modern,    \* FTL is v6.8 or later
  job,       \* the rebuild a call started: where, and how far
  pipe,      \* what a call's rebuild has said and the call not read
  reader     \* the handler of a call

gravityVars == <<modern, job, pipe, reader>>

NoJob    == [at |-> -1, state |-> "none", lines |-> 0]
NoReader == [pc |-> "none", cancelled |-> FALSE, last |-> "nothing", report |-> "none"]

GravityInit ==
  /\ modern \in BOOLEAN
  /\ job = [c \in Calls |-> NoJob]
  /\ pipe = [c \in Calls |-> <<>>]
  /\ reader = [c \in Calls |-> NoReader]

Running(pi) == \E c \in Calls : job[c].at = pi /\ job[c].state = "running"

Report(c, what) == reader' = [reader EXCEPT ![c] = [NoReader EXCEPT !.pc = "done", !.report = what]]

(* The POST: FTL starts a rebuild and the stream of it (one the same slot      *)
(* started earlier is of no more concern before v6.8), *)
GravityStarts(c, pi) ==
  /\ reader[c].pc = "none"
  /\ ~(modern /\ Running(pi))
  /\ job' = [job EXCEPT ![c] = [at |-> pi, state |-> "running", lines |-> 0]]
  /\ pipe' = [pipe EXCEPT ![c] = <<>>]
  /\ reader' = [reader EXCEPT ![c] = [NoReader EXCEPT !.pc = "reading"]]
  /\ UNCHANGED modern

(* or refuses a second one, *)
GravityRefused(c, pi) ==
  /\ reader[c].pc = "none"
  /\ modern /\ Running(pi)
  /\ Report(c, "running")
  /\ UNCHANGED <<modern, job, pipe>>

(* or there is no answer, whether it has started one or not. *)
GravityUnanswered(c, pi) ==
  /\ reader[c].pc = "none"
  /\ job' \in {job} \cup (IF modern /\ Running(pi) THEN {}
                         ELSE {[job EXCEPT ![c] = [at |-> pi, state |-> "running", lines |-> MaxLines]]})
  /\ pipe' = [pipe EXCEPT ![c] = <<>>]
  /\ Report(c, "error")
  /\ UNCHANGED modern

----------------------------------------------------------------------------
(* The Pi-hole *)

JobPrints(c) ==
  /\ job[c].state = "running" /\ job[c].lines < MaxLines
  /\ job' = [job EXCEPT ![c].lines = @ + 1]
  /\ pipe' = [pipe EXCEPT ![c] = IF reader[c].pc = "reading" THEN Append(@, "line") ELSE @]
  /\ UNCHANGED <<modern, reader>>

JobEnds(c, state) ==
  /\ job[c].state = "running"
  /\ job' = [job EXCEPT ![c].state = state]
  /\ pipe' = [pipe EXCEPT ![c] =
                IF reader[c].pc # "reading" THEN @
                ELSE @ \o (IF modern /\ state = "failed" THEN <<"gravityFailedLine">> ELSE <<>>)
                       \o <<"end">>]
  /\ UNCHANGED <<modern, reader>>

(* The connection is lost, and with it what was not read yet; or a line is    *)
(* too long for the scanner.                                                *)
PipeBreaks(c) ==
  /\ reader[c].pc = "reading" /\ ~Contains(pipe[c], "broken")
  /\ pipe' = [pipe EXCEPT ![c] = <<"broken">>]
  /\ UNCHANGED <<modern, job, reader>>

----------------------------------------------------------------------------
(* The handler *)

(* The idle timer fires; no line came for long, but one may come now. *)
IdleFires(c) ==
  /\ reader[c].pc = "reading" /\ ~reader[c].cancelled
  /\ reader' = [reader EXCEPT ![c].cancelled = TRUE]
  /\ UNCHANGED <<modern, job, pipe>>

ReadLine(c) ==
  /\ reader[c].pc = "reading" /\ pipe[c] # <<>>
  /\ Head(pipe[c]) \in {"line", "gravityFailedLine"}
  /\ reader' = [reader EXCEPT ![c].last = Head(pipe[c])]
  /\ pipe' = [pipe EXCEPT ![c] = Tail(@)]
  /\ UNCHANGED <<modern, job>>

ReadEnd(c) ==
  /\ reader[c].pc = "reading" /\ pipe[c] # <<>> /\ Head(pipe[c]) = "end"
  /\ Report(c, IF reader[c].last = "gravityFailedLine" THEN "failed" ELSE "complete")
  /\ pipe' = [pipe EXCEPT ![c] = <<>>]
  /\ UNCHANGED <<modern, job>>

(* Bug: a stream that stopped is taken for one that ended. *)
StoppedAsEnd(c) == IF reader[c].last = "gravityFailedLine" THEN "failed" ELSE "complete"

(* scanner.Err() says so. *)
Stopped(c) == "unknown"

ReadFails(c) ==
  /\ reader[c].pc = "reading"
  /\ reader[c].cancelled \/ (pipe[c] # <<>> /\ Head(pipe[c]) = "broken")
  /\ Report(c, Stopped(c))
  /\ pipe' = [pipe EXCEPT ![c] = <<>>]
  /\ UNCHANGED <<modern, job>>

GravityHandler(c, pi) ==
  \/ GravityStarts(c, pi) \/ GravityRefused(c, pi) \/ GravityUnanswered(c, pi)
  \/ IdleFires(c) \/ ReadLine(c) \/ ReadEnd(c) \/ ReadFails(c)

GravityWorld ==
  \E c \in Calls :
    JobPrints(c) \/ PipeBreaks(c) \/ \E state \in {"done", "failed"} : JobEnds(c, state)

----------------------------------------------------------------------------

(* actions.go: "the stream goes quiet" and "a broken stream says nothing about *)
(* how it ends": a rebuild reported as complete is over, and from v6.8 on did  *)
(* not fail; one reported as failed has failed.                              *)
GravityTruthful ==
  \A c \in Calls :
    /\ reader[c].report = "complete" => job[c].state \in (IF modern THEN {"done"} ELSE {"done", "failed"})
    /\ reader[c].report = "failed" => job[c].state = "failed"
=============================================================================
