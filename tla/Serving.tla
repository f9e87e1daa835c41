------------------------------ MODULE Serving ------------------------------
(***************************************************************************)
(* The process: cmd/pihole-mcp/main.go (run, serveHTTPContext, drain), the   *)
(* HTTP connections of its clients, and the calls they make, which          *)
(* internal/tools/instance.go runs on one Pi-hole, or on all at a time.     *)
(*                                                                         *)
(* A connection carries one thing at a time: a call, or the stream by which  *)
(* a session's messages go to the client, which ends only when the session   *)
(* is closed.  With stdio there are only calls.                             *)
(*                                                                         *)
(* What a call does at a Pi-hole takes a step that may fail, see ApiClient;  *)
(* the gravity update is module Gravity's.                                  *)
(***************************************************************************)
EXTENDS Surface, Gravity, FiniteSetsExt

CONSTANTS
  gravity,     \* the tool of that name
  Asks,        \* the calls, tool and instance, a client may send
  Streams,     \* the connections on which a client may open a stream
  MaxFanout

ASSUME ServingAssumption ==
  /\ gravity \in Tools \ ReadTools
  /\ DOMAIN Asks = Calls /\ Streams \subseteq Calls
  /\ MaxFanout \in Nat \ {0}

VARIABLES
  env,        \* the environment
  main,       \* where run is
  drain,      \* where the goroutine is that waits for the signal
  shutting,   \* http.Server.Shutdown has begun
  graceOver,  \* the grace period ran out
  conn,       \* the connections, each opened once
  call        \* the call of each connection, the last one if it is over

processVars == <<env, main, drain, shutting, graceOver, conn, call>>
servingVars == <<processVars, gravityVars>>

NoCall == [tool |-> Unset, arg |-> Unset, targets |-> <<>>, branch |-> <<>>, report |-> "none"]

ServingInit ==
  /\ env \in Environments
  /\ main = "load" /\ drain = "parked" /\ shutting = FALSE /\ graceOver = FALSE
  /\ conn = [c \in Calls |-> "none"]
  /\ call = [c \in Calls |-> NoCall]
  /\ GravityInit

----------------------------------------------------------------------------
(* run *)

Load ==
  /\ main = "load"
  /\ main' = IF ~Loads(env) THEN "gone" ELSE IF env.http THEN "listen" ELSE "stdio"
  /\ UNCHANGED <<env, drain, shutting, graceOver, conn, call, gravityVars>>

(* ListenAndServe has the listener, *)
ListenUp ==
  /\ main = "listen" /\ ~shutting
  /\ main' = "serve"
  /\ UNCHANGED <<env, drain, shutting, graceOver, conn, call, gravityVars>>

(* or an error: run returns it, and does not wait for the goroutine. *)
ListenFails ==
  /\ main = "listen" /\ ~shutting
  /\ main' = "close"
  /\ UNCHANGED <<env, drain, shutting, graceOver, conn, call, gravityVars>>

(* Bug: run returns as ListenAndServe does. *)
NextOfServeAtOnce == "close"

NextOfServe == "wait"

(* ErrServerClosed, as soon as Shutdown has begun. *)
ServeReturns ==
  /\ main \in {"listen", "serve"} /\ shutting
  /\ main' = NextOfServe
  /\ UNCHANGED <<env, drain, shutting, graceOver, conn, call, gravityVars>>

Drained ==
  /\ main = "wait" /\ drain = "over"
  /\ main' = "close"
  /\ UNCHANGED <<env, drain, shutting, graceOver, conn, call, gravityVars>>

(* stdin ends, or a signal comes. *)
StdioEnds ==
  /\ main = "stdio"
  /\ main' = "close"
  /\ UNCHANGED <<env, drain, shutting, graceOver, conn, call, gravityVars>>

(* registry.Close, and the process is over. *)
Leave ==
  /\ main = "close"
  /\ main' = "gone"
  /\ UNCHANGED <<env, drain, shutting, graceOver, conn, call, gravityVars>>

----------------------------------------------------------------------------
(* The drain *)

Signal ==
  /\ main \in {"listen", "serve"} /\ drain = "parked"
  /\ drain' = "sweep"
  /\ UNCHANGED <<env, main, shutting, graceOver, conn, call, gravityVars>>

(* A connection whose request is over: the server closes it while it shuts    *)
(* down.                                                                    *)
Rest == IF shutting THEN "closed" ELSE "idle"

(* closeSessions. *)
Swept == [c \in Calls |-> IF conn[c] = "stream" THEN Rest ELSE conn[c]]

FirstSweep ==
  /\ drain = "sweep"
  /\ drain' = "loop" /\ conn' = Swept
  /\ UNCHANGED <<env, main, shutting, graceOver, call, gravityVars>>

(* The listener is closed: no connection comes any more. *)
ShutdownBegins ==
  /\ drain = "loop" /\ ~shutting
  /\ shutting' = TRUE
  /\ UNCHANGED <<env, main, drain, graceOver, conn, call, gravityVars>>

(* Bug: sessions are closed once. *)
TickSweepsNone == conn

TickSweeps == Swept

Tick ==
  /\ drain = "loop"
  /\ conn' = TickSweeps
  /\ UNCHANGED <<env, main, drain, shutting, graceOver, call, gravityVars>>

(* Shutdown closes what is idle, and what has sent nothing, and returns when  *)
(* nothing is left,                                                         *)
ClosesIdle(c) ==
  /\ drain = "loop" /\ shutting /\ conn[c] \in {"new", "idle"}
  /\ conn' = [conn EXCEPT ![c] = "closed"]
  /\ UNCHANGED <<env, main, drain, shutting, graceOver, call, gravityVars>>

ShutdownReturns ==
  /\ drain = "loop" /\ shutting /\ \A c \in Calls : conn[c] \in {"none", "closed"}
  /\ drain' = "over"
  /\ UNCHANGED <<env, main, shutting, graceOver, conn, call, gravityVars>>

(* or when the grace period is over. *)
GraceEnds ==
  /\ drain = "loop" /\ shutting
  /\ drain' = "over" /\ graceOver' = TRUE
  /\ UNCHANGED <<env, main, shutting, conn, call, gravityVars>>

----------------------------------------------------------------------------
(* The clients *)

Up == main \in {"stdio", "serve", "wait", "close"}

Connect(c) ==
  /\ main \in {"serve", "stdio"} /\ ~shutting /\ conn[c] = "none"
  /\ conn' = [conn EXCEPT ![c] = "new"]
  /\ UNCHANGED <<env, main, drain, shutting, graceOver, call, gravityVars>>

(* A client sends something on a connection that is not closed yet. *)
Sends(c) == Up /\ (conn[c] = "new" \/ (conn[c] = "idle" /\ ~shutting))

OpenStream(c) ==
  /\ Sends(c) /\ env.http /\ c \in Streams
  /\ conn' = [conn EXCEPT ![c] = "stream"]
  /\ UNCHANGED <<env, main, drain, shutting, graceOver, call, gravityVars>>

(* A call that is not refused, by the filters or by instanceAware. *)
StartCall(c, tool, arg) ==
  LET targets == Targets(env, tool, arg) IN
  /\ Sends(c) /\ tool \in Exposed(env) /\ targets # <<>>
  /\ conn' = [conn EXCEPT ![c] = "call"]
  /\ call' = [call EXCEPT ![c] =
       [tool |-> tool, arg |-> arg, targets |-> targets,
        branch |-> [i \in DOMAIN targets |-> "waiting"], report |-> "none"]]
  /\ reader' = [reader EXCEPT ![c] = NoReader]
  /\ UNCHANGED <<env, main, drain, shutting, graceOver, modern, job, pipe>>

(* The client goes away, or the server closes what was idle for long.  What    *)
(* runs is cancelled, and ends on its own.                                   *)
Disconnect(c) ==
  /\ Up /\ conn[c] \notin {"none", "closed"}
  /\ conn' = [conn EXCEPT ![c] = IF @ = "call" THEN @ ELSE "closed"]
  /\ reader' = [reader EXCEPT ![c].cancelled = (reader[c].pc = "reading")]
  /\ UNCHANGED <<env, main, drain, shutting, graceOver, call, modern, job, pipe>>

----------------------------------------------------------------------------
(* A call *)

InBranch(c, what) == {i \in DOMAIN call[c].branch : call[c].branch[i] = what}

Calling(c) == Up /\ conn[c] = "call"

(* aggregateAll: a place in the semaphore, and the handler runs. *)
BranchRuns(c, i) ==
  /\ Calling(c) /\ i \in InBranch(c, "waiting")
  /\ Cardinality(InBranch(c, "running")) < MaxFanout
  /\ call' = [call EXCEPT ![c].branch[i] = "running"]
  /\ UNCHANGED <<env, main, drain, shutting, graceOver, conn, gravityVars>>

(* It is over, with a result too large to send or not, or an error. *)
BranchEnds(c, i, outcome) ==
  /\ Calling(c) /\ i \in InBranch(c, "running") /\ call[c].tool # gravity
  /\ call' = [call EXCEPT ![c].branch[i] = outcome]
  /\ UNCHANGED <<env, main, drain, shutting, graceOver, conn, gravityVars>>

(* The handler of the gravity update. *)
GravityStep(c, i) ==
  /\ Calling(c) /\ i \in InBranch(c, "running") /\ call[c].tool = gravity
  /\ GravityHandler(c, Client(env, call[c].targets[i]))
  /\ call' = [call EXCEPT ![c].branch[i] =
                IF reader'[c].pc # "done" THEN "running"
                ELSE IF reader'[c].report = "complete" THEN "ok" ELSE "failed"]
  /\ UNCHANGED <<env, main, drain, shutting, graceOver, conn>>

(* Bug: an error of a handler is a result like another. *)
FailedIgnored(c) == FALSE

(* One failed call fails, of several all. *)
Failed(c) == InBranch(c, "failed") = DOMAIN call[c].branch

(* resultSizeLimit. *)
Measured(c) == call[c].tool \in ReadTools

CallEnds(c) ==
  /\ Calling(c)
  /\ InBranch(c, "waiting") \cup InBranch(c, "running") = {}
  /\ conn' = [conn EXCEPT ![c] = Rest]
  /\ call' = [call EXCEPT ![c].report =
                IF Failed(c) THEN "error"
                ELSE IF Measured(c) /\ InBranch(c, "large") # {} THEN "too large" ELSE "result"]
  /\ UNCHANGED <<env, main, drain, shutting, graceOver, gravityVars>>

----------------------------------------------------------------------------

CallStep(c) ==
  \/ \E i \in DOMAIN call[c].branch :
       \/ BranchRuns(c, i) \/ GravityStep(c, i)
       \/ \E outcome \in {"ok", "large", "failed"} : BranchEnds(c, i, outcome)
  \/ CallEnds(c)

Run   == Load \/ ListenUp \/ ListenFails \/ ServeReturns \/ Drained \/ Leave
Drain ==
  \/ FirstSweep \/ ShutdownBegins \/ ShutdownReturns
  \/ \E c \in Calls : ClosesIdle(c)

Clients ==
  \E c \in Calls :
    \/ Connect(c) \/ OpenStream(c) \/ Disconnect(c)
    \/ \E ask \in Asks[c] : StartCall(c, ask[1], ask[2])

ServingNext ==
  \/ Run \/ Drain \/ Tick \/ Signal \/ GraceEnds \/ StdioEnds
  \/ Clients
  \/ \E c \in Calls : CallStep(c)
  \/ GravityWorld /\ UNCHANGED processVars

ServingSpec == ServingInit /\ [][ServingNext]_servingVars

(* Goroutines run, the ticker ticks, requests to a Pi-hole are answered or     *)
(* time out, a silent stream is given up.  Nobody need signal, call, go away,  *)
(* or print a line, and the grace period may be as long as it likes.         *)
ServingFairSpec ==
  /\ ServingSpec
  /\ WF_servingVars(Run) /\ WF_servingVars(Drain) /\ WF_servingVars(Tick)
  /\ \A c \in Calls : WF_servingVars(CallStep(c))

----------------------------------------------------------------------------

(* In particular at most maxFanout handlers of a call run at a time.          *)
ServingTypeOK ==
  /\ env \in Environments
  /\ main \in {"load", "listen", "serve", "stdio", "wait", "close", "gone"}
  /\ drain \in {"parked", "sweep", "loop", "over"}
  /\ shutting \in BOOLEAN /\ graceOver \in BOOLEAN
  /\ conn \in [Calls -> {"none", "new", "idle", "stream", "call", "closed"}]
  /\ \A c \in Calls : Cardinality(InBranch(c, "running")) <= MaxFanout

(* What an environment says, without the registry and the filters. *)
Wanted(arg) ==
  IF arg # Unset THEN {n \in ToSet(Declared(env)) : NameOf(env, n) = arg}
  ELSE IF env.single THEN {0} ELSE {1}

Allowed(tool) ==
  /\ env.readOnly => tool \in ReadTools
  /\ env.toolsets = {} \/ All \in env.toolsets \/ ToolsetOf[tool] \in env.toolsets

(* config.go, "Read-only and toolsets intersect: neither can restore a tool    *)
(* the other removed", and instance.go: a tool runs only where it is allowed,  *)
(* and one that changes something on the one Pi-hole that its caller named,   *)
(* on the first if it named none.                                            *)
ReachesNamed ==
  \A c \in Calls : conn[c] = "call" =>
    /\ Allowed(call[c].tool)
    /\ call[c].tool \notin ReadTools =>
         {{Client(env, call[c].targets[i])} : i \in DOMAIN call[c].targets} = {Wanted(call[c].arg)}

(* instance.go: "the call only fails wholesale when every instance fails";     *)
(* resultsize.go: replacing the result of a write "would hide what changed".   *)
ReportTruthful ==
  \A c \in Calls : call[c].report # "none" =>
    /\ call[c].report = "error" <=> \A i \in DOMAIN call[c].branch : call[c].branch[i] = "failed"
    /\ call[c].report = "too large" => call[c].tool \in ReadTools

(* main.go: without waiting "the process exited while the drain was still      *)
(* running and the advertised grace period never actually applied to          *)
(* anything": a call is cut off only when the grace period is over.           *)
NotCutShort ==
  env.http /\ main \in {"close", "gone"} /\ ~graceOver =>
    \A c \in Calls : conn[c] \notin {"call", "stream"}

(* main.go, drain: "A session that registers between the first sweep and the   *)
(* listener closing would otherwise hold the shutdown open on its own": a      *)
(* shutdown ends, and not for the grace period.                              *)
ShutdownEnds == drain # "parked" ~> main = "gone"
=============================================================================
