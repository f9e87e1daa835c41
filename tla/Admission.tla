----------------------------- MODULE Admission -----------------------------
(***************************************************************************)
(* internal/middleware: which HTTP requests reach the MCP handler.          *)
(*                                                                         *)
(* A request passes OriginValidator, BearerAuth and RateLimiter, in this    *)
(* order.  The limiter has a bucket for each client address, the ceiling,   *)
(* and one for each of its sessions, its share.  It looks both up under its *)
(* lock and takes a token from each after giving the lock back, so an entry *)
(* may be dropped in between.  A request with a wrong bearer token is       *)
(* charged to a limiter of its own, under that one's lock.                  *)
(*                                                                         *)
(* Time goes in ticks.  A bucket gains Rate units a tick, up to Burst; the  *)
(* ceiling has Factor times both; a request costs Cost units.  Between the  *)
(* lookup and the charges nothing waits, so no tick passes.                 *)
(***************************************************************************)
EXTENDS Integers, Sequences, FiniteSets, FiniteSetsExt, TLC

CONSTANTS
  Addresses,    \* of hosts
  Trusted,      \* those of proxies
  KeyOf,        \* rateKey: the /64 of an IPv6 address
  Forged,       \* the X-Forwarded-For entries a client may send itself
  Routes,       \* the proxies a request comes through, in order
  Headers,      \* what the Host and Origin headers may name, and Absent
  HostOf,       \* the host named, apart from port, case and brackets
  Allowlist,    \* PIHOLE_ALLOWED_ORIGINS
  Credentials,  \* what a request may present as its bearer token, and Absent
  Token,        \* PIHOLE_HTTP_AUTH_TOKEN, Absent if there is none
  Absent,
  Sessions,     \* ids a client may name
  Requests,     \* requests at one time
  Ids,          \* names for buckets, natural numbers
  Rate, Burst, Cost, Factor,
  FailRate, FailBurst,       \* of the limiter of refused requests
  MaxTracked, MaxSessions,   \* addresses in a table, sessions of an address
  IdleTtl, WarnGap,
  MaxTime       \* bound of the time

Keys      == {KeyOf[a] : a \in Addresses}
NoSession == "none"
NoBucket  == 0

ASSUME AdmissionAssumption ==
  /\ Addresses # {} /\ IsFiniteSet(Addresses) /\ Trusted \subseteq Addresses /\ Routes \subseteq Seq(Trusted)
  /\ \A sent \in Forged : sent \in Seq({sent[n] : n \in 1..Len(sent)})
  /\ NoSession \notin Sessions
  /\ Absent \in Headers /\ Absent \in Credentials
  /\ HostOf \in [Headers \cup Allowlist -> Headers \cup Allowlist]
  /\ Ids \subseteq Nat \ {NoBucket}
  /\ {Rate, Burst, Cost, Factor, FailRate, FailBurst, MaxTracked, MaxSessions} \subseteq Nat \ {0}
  /\ {IdleTtl, WarnGap, MaxTime} \subseteq Nat
  /\ WarnGap <= IdleTtl

VARIABLES
  limited,    \* PIHOLE_RATE_LIMIT is not 0
  req,        \* each request: where it is, whose, and what it looked up
  table,      \* the main limiter: the entries of the tracked addresses
  ceiling,    \* the units in each ceiling bucket
  share,      \* the units in each session bucket
  failures,   \* the limiter of refused requests: its entries
  sweeping,   \* the sweeps run
  now,
  passed,     \* history: the requests with the token each ceiling let through
  shared,     \* history: those each session's bucket let through
  warned,     \* history: when an address was last complained about
  displaced,  \* history: the addresses ever dropped for want of room
  heard       \* history: when each limiter last had a request of an address

limiterVars == <<table, ceiling, share>>
historyVars == <<passed, shared, warned, displaced, heard>>
vars == <<limited, req, limiterVars, failures, sweeping, now, historyVars>>

Gone     == [pc |-> "gone", key |-> CHOOSE k \in Keys : TRUE, owner |-> CHOOSE k \in Keys : TRUE,
             token |-> TRUE, sid |-> NoSession, ceiling |-> NoBucket, share |-> NoBucket]
Never    == -(WarnGap + 1)

Init ==
  /\ limited \in BOOLEAN
  /\ req = [r \in Requests |-> Gone]
  /\ table = <<>> /\ failures = <<>>
  /\ ceiling = [i \in Ids |-> Factor * Burst] /\ share = [i \in Ids |-> Burst]
  /\ sweeping = TRUE /\ now = 0
  /\ passed = [k \in Keys |-> 0] /\ shared = [k \in Keys |-> [s \in Sessions |-> 0]]
  /\ warned = [k \in Keys |-> Never] /\ displaced = {}
  /\ heard = [main |-> [k \in Keys |-> Never], failures |-> [k \in Keys |-> Never]]

----------------------------------------------------------------------------
(* Whom a request is charged to *)

(* Bug: the entry next to the client is believed, whoever wrote it. *)
ClientIPLeftmost(peer, chain) ==
  LET untrusted == {i \in 1..Len(chain) : chain[i] \notin Trusted} IN
  IF peer \notin Trusted \/ untrusted = {} THEN peer
  ELSE IF chain[Min(untrusted)] \in Addresses THEN chain[Min(untrusted)] ELSE peer

(* The last entry of X-Forwarded-For that is no trusted proxy's; the peer if *)
(* it is no trusted proxy, or that entry is no address.                      *)
ClientIP(peer, chain) ==
  LET untrusted == {i \in 1..Len(chain) : chain[i] \notin Trusted} IN
  IF peer \notin Trusted \/ untrusted = {} THEN peer
  ELSE IF chain[Max(untrusted)] \in Addresses THEN chain[Max(untrusted)] ELSE peer

(* A client's request by a route: each proxy appends the peer it saw. *)
ChargedKey(client, sent, route) ==
  IF route = <<>> THEN KeyOf[ClientIP(client, sent)]
  ELSE KeyOf[ClientIP(route[Len(route)],
                      sent \o <<client>> \o SubSeq(route, 1, Len(route) - 1))]

(* The key a request may be charged to, with that of its client. *)
Charges ==
  {<<ChargedKey(client, sent, route), KeyOf[client]>> :
     client \in Addresses \ Trusted, sent \in Forged, route \in Routes}

----------------------------------------------------------------------------
(* The tables *)

Without(tab, k) == [j \in DOMAIN tab \ {k} |-> tab[j]]
With(tab, k, e) == [j \in DOMAIN tab \cup {k} |-> IF j = k THEN e ELSE tab[j]]

Oldest(tab) == {k \in DOMAIN tab : \A j \in DOMAIN tab : tab[k].lastSeen <= tab[j].lastSeen}

(* The table with room for k: evictOldestLocked, if it is full. *)
Room(tab, k) ==
  IF k \in DOMAIN tab \/ Cardinality(DOMAIN tab) < MaxTracked THEN {tab}
  ELSE {Without(tab, j) : j \in Oldest(tab)}

(* Bug: an entry is as old as its first request. *)
EntryForUntouched(tab, k, new) == IF k \in DOMAIN tab THEN tab ELSE With(tab, k, new)

(* entryForLocked, once there is room. *)
EntryFor(tab, k, new) ==
  IF k \in DOMAIN tab THEN [tab EXCEPT ![k].lastSeen = now] ELSE With(tab, k, new)

InUse == {r \in Requests : req[r].pc \in {"ceiling", "share"}}

UsedCeilings == {table[k].limiter : k \in DOMAIN table} \cup {req[r].ceiling : r \in InUse}
UsedShares   ==
  (UNION {{table[k].sessions[s].limiter : s \in DOMAIN table[k].sessions} : k \in DOMAIN table})
    \cup {req[r].share : r \in InUse}

(* A new bucket has a name of its own; that there is one left is a bound.     *)
NewCeiling == CHOOSE i \in Ids : i \notin UsedCeilings
NewShare   == CHOOSE i \in Ids : i \notin UsedShares
NamesLeft  == ~(Ids \subseteq UsedCeilings) /\ ~(Ids \subseteq UsedShares)

Idle(seen) == now - seen > IdleTtl

----------------------------------------------------------------------------
(* A request *)

(* Bug: the limiter comes before the authentication. *)
AdmitsLimited(allowed, token) ==
  IF allowed /\ limited THEN "lookup" ELSE IF allowed /\ ~token THEN "penalise" ELSE "gone"

(* hostAllowed. *)
HostAllowed(name) == \E a \in Allowlist : HostOf[a] = HostOf[name]

(* A request need not have an Origin. *)
OriginPasses(host, origin) ==
  \/ Allowlist = {} \/ "*" \in Allowlist
  \/ (origin # Absent => HostAllowed(origin)) /\ HostAllowed(host)

(* bearerToken and matches: the token is compared as a whole. *)
Authentic(credential) == Token = Absent \/ credential = Token

(* What the two find of a request. *)
Presented == {<<OriginPasses(h, o), Authentic(c)>> : h \in Headers, o \in Headers, c \in Credentials}

(* The Host and the Origin are allowed, then the token is right, then the     *)
(* limiter.  A request is gone when it is refused, or handed to the server.   *)
Admits(allowed, token) ==
  IF ~allowed THEN "gone"
  ELSE IF ~token THEN "penalise"
  ELSE IF limited THEN "lookup" ELSE "gone"

Arrive(r, allowed, token, s) ==
  /\ req[r].pc = "gone" /\ Admits(allowed, token) # "gone"
  /\ \E c \in Charges :
       req' = [req EXCEPT ![r] = [Gone EXCEPT !.pc = Admits(allowed, token),
                                    !.key = c[1], !.owner = c[2],
                                    !.token = token, !.sid = s]]
  /\ UNCHANGED <<limited, limiterVars, failures, sweeping, now, historyVars>>

(* Bug: the complaint is not noted. *)
NotedNever(tab, k) == tab

Noted(tab, k) == [tab EXCEPT ![k].lastWarn = now]

Displaced(old, new) == displaced' = displaced \cup (DOMAIN old \ DOMAIN new)

(* reject, with Penalise: one locked step. *)
Penalise(r) ==
  LET k == req[r].key IN
  /\ req[r].pc = "penalise"
  /\ \E tab \in Room(failures, k) :
       LET new == [units |-> Factor * FailBurst, lastSeen |-> now, lastWarn |-> Never]
           f   == EntryFor(tab, k, new) IN
       /\ Displaced(failures, tab)
       /\ IF f[k].units >= Cost
          THEN /\ failures' = [f EXCEPT ![k].units = @ - Cost]
               /\ UNCHANGED warned
          ELSE IF now - f[k].lastWarn > WarnGap
          THEN failures' = Noted(f, k) /\ warned' = [warned EXCEPT ![k] = now]
          ELSE failures' = f /\ UNCHANGED warned
  /\ req' = [req EXCEPT ![r] = Gone] /\ heard' = [heard EXCEPT !.failures[k] = now]
  /\ UNCHANGED <<limited, limiterVars, sweeping, now, passed, shared>>

(* limitersFor. *)
Lookup(r) ==
  LET k == req[r].key
      s == req[r].sid IN
  /\ req[r].pc = "lookup" /\ NamesLeft
  /\ \E tab \in Room(table, k) :
       LET new == [limiter |-> NewCeiling, lastSeen |-> now, sessions |-> <<>>]
           t   == EntryFor(tab, k, new)
           own == t[k].sessions
           has == s \in DOMAIN own
           add == s # NoSession /\ ~has /\ Cardinality(DOMAIN own) < MaxSessions IN
       /\ Displaced(table, tab)
       /\ table' = [t EXCEPT ![k].sessions =
                      IF has THEN [own EXCEPT ![s].lastSeen = now]
                      ELSE IF add THEN With(own, s, [limiter |-> NewShare, lastSeen |-> now])
                      ELSE own]
       /\ ceiling' = IF k \in DOMAIN tab THEN ceiling
                     ELSE [ceiling EXCEPT ![NewCeiling] = Factor * Burst]
       /\ share' = IF add THEN [share EXCEPT ![NewShare] = Burst] ELSE share
       /\ req' = [req EXCEPT ![r].pc = "ceiling", ![r].ceiling = t[k].limiter,
                    ![r].share = IF has \/ add THEN table'[k].sessions[s].limiter ELSE NoBucket]
  /\ heard' = [heard EXCEPT !.main[k] = now]
  /\ UNCHANGED <<limited, failures, sweeping, now, passed, shared, warned>>

(* Allow takes a token or leaves the bucket as it is. *)
ChargeCeiling(r) ==
  LET i == req[r].ceiling IN
  /\ req[r].pc = "ceiling"
  /\ IF ceiling[i] >= Cost
     THEN /\ ceiling' = [ceiling EXCEPT ![i] = @ - Cost]
          /\ req' = [req EXCEPT ![r] =
                       IF @.share = NoBucket THEN Gone ELSE [@ EXCEPT !.pc = "share"]]
          /\ passed' = IF req[r].token THEN [passed EXCEPT ![req[r].key] = @ + 1] ELSE passed
     ELSE /\ req' = [req EXCEPT ![r] = Gone]
          /\ UNCHANGED <<ceiling, passed>>
  /\ UNCHANGED <<limited, table, share, failures, sweeping, now, shared, warned, displaced, heard>>

ChargeShare(r) ==
  LET i == req[r].share IN
  /\ req[r].pc = "share"
  /\ IF share[i] >= Cost
     THEN /\ share' = [share EXCEPT ![i] = @ - Cost]
          /\ shared' = [shared EXCEPT ![req[r].key][req[r].sid] = @ + 1]
     ELSE UNCHANGED <<share, shared>>
  /\ req' = [req EXCEPT ![r] = Gone]
  /\ UNCHANGED <<limited, table, ceiling, failures, sweeping, now, passed, warned, displaced, heard>>

----------------------------------------------------------------------------
(* Time *)

Refilled(units, rate, burst) == IF units + rate > burst THEN burst ELSE units + rate

Tick ==
  /\ now < MaxTime /\ InUse = {}
  /\ now' = now + 1
  /\ ceiling' = [i \in Ids |-> Refilled(ceiling[i], Factor * Rate, Factor * Burst)]
  /\ share' = [i \in Ids |-> Refilled(share[i], Rate, Burst)]
  /\ failures' = [k \in DOMAIN failures |->
                   [failures[k] EXCEPT !.units = Refilled(@, Factor * FailRate, Factor * FailBurst)]]
  /\ UNCHANGED <<limited, req, table, sweeping, historyVars>>

(* evictIdle of the main limiter, *)
Sweep ==
  /\ sweeping
  /\ table' = [k \in {j \in DOMAIN table : ~Idle(table[j].lastSeen)} |->
                 LET own == table[k].sessions IN
                 [table[k] EXCEPT !.sessions =
                    [s \in {u \in DOMAIN own : ~Idle(own[u].lastSeen)} |-> own[s]]]]
  /\ UNCHANGED <<limited, req, ceiling, share, failures, sweeping, now, historyVars>>

(* and of the other. *)
SweepFailures ==
  /\ sweeping
  /\ failures' = [k \in {j \in DOMAIN failures : ~Idle(failures[j].lastSeen)} |-> failures[k]]
  /\ UNCHANGED <<limited, req, limiterVars, sweeping, now, historyVars>>

(* The server shuts down: BindShutdown. *)
Stop ==
  /\ sweeping
  /\ sweeping' = FALSE
  /\ UNCHANGED <<limited, req, limiterVars, failures, now, historyVars>>

Next ==
  \/ \E r \in Requests :
       \/ \E x \in Presented, s \in Sessions \cup {NoSession} : Arrive(r, x[1], x[2], s)
       \/ Penalise(r) \/ Lookup(r) \/ ChargeCeiling(r) \/ ChargeShare(r)
  \/ Tick \/ Sweep \/ SweepFailures \/ Stop

Spec == Init /\ [][Next]_vars

----------------------------------------------------------------------------

(* ratelimit.go: "a flood of source addresses costs a bounded amount of       *)
(* memory", and so does one of session ids: neither table outgrows its bound, *)
(* nor do the sessions of an address, and no bucket holds more than a burst.  *)
TablesBounded ==
  /\ Cardinality(DOMAIN table) <= MaxTracked /\ Cardinality(DOMAIN failures) <= MaxTracked
  /\ \A k \in DOMAIN table : Cardinality(DOMAIN table[k].sessions) <= MaxSessions
  /\ ceiling \in [Ids -> 0..Factor * Burst] /\ share \in [Ids -> 0..Burst]

(* ratelimit.go, ClientIP: a request is charged to the address it came from,  *)
(* whatever proxies it came through and whatever entries its client sent.     *)
ChargedToOwner == \A r \in Requests : req[r].key = req[r].owner

(* What was not used for Turnover ticks may be dropped, and be made anew, and  *)
(* full: at a low rate that is more than it would have gained by then.        *)
Turnover == IdleTtl + 1
Renewed  == IF Turnover * Rate >= Burst THEN Turnover * Rate ELSE Burst

(* ratelimit.go: over any time from the start an address with the token is    *)
(* let through no more than its burst and, in every Turnover ticks, what its  *)
(* rate allows then, or another burst if that is more; and so is each of its  *)
(* sessions, however their buckets are dropped and made anew.  Dropped for    *)
(* want of room, an address may start again.                                 *)
BudgetsHold ==
  \A k \in Keys \ displaced :
    /\ Turnover * (passed[k] * Cost) <= Factor * (Turnover * Burst + Renewed * now)
    /\ \A s \in Sessions : Turnover * (shared[k][s] * Cost) <= Turnover * Burst + Renewed * now

(* README: PIHOLE_RATE_LIMIT is "requests per minute per MCP session", "under  *)
(* a per-address ceiling of four times that", with a burst: an address is let *)
(* through no more than its burst and its rate, and so is each session.       *)
RateKept ==
  \A k \in Keys \ displaced :
    /\ passed[k] * Cost <= Factor * (Burst + Rate * now)
    /\ \A s \in Sessions : shared[k][s] * Cost <= Burst + Rate * now

(* A limiter has heard nothing of k for long, or, since it last did, of as    *)
(* many others as it has room for.                                           *)
MayForget(said, k) ==
  Idle(said[k]) \/ Cardinality({j \in Keys \ {k} : said[j] >= said[k]}) >= MaxTracked

(* ratelimit.go, maxTrackedAddresses: a flood of addresses "evicts nothing but *)
(* idle strangers": while its requests come more often than a table's worth   *)
(* of others do, an address keeps its bucket, however full the table is.      *)
ForgetsStrangers ==
  [][/\ \A k \in DOMAIN table \ DOMAIN table' : MayForget(heard'.main, k)
     /\ \A k \in DOMAIN failures \ DOMAIN failures' : MayForget(heard'.failures, k)]_vars

(* main.go: "a caller with no token must not be able to spend the budget of   *)
(* one that has it": what is missing from an address's ceiling went to        *)
(* requests that had the token.                                              *)
BudgetsKept ==
  \A k \in DOMAIN table :
    ceiling[table[k].limiter] + passed[k] * Cost >= Factor * Burst

(* ratelimit.go, Penalise: without authWarnInterval "the log line an operator *)
(* needs to see would itself be the flood": two complaints about one address  *)
(* are further apart, unless the address was dropped for want of room.        *)
ComplaintsApart ==
  [][\A k \in Keys \ displaced' :
       warned'[k] # warned[k] => warned'[k] - warned[k] > WarnGap]_vars
=============================================================================
