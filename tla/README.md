# A formal model of pihole-mcp

TLA+ modules, TLC runs and TLAPS proofs for `pihole-mcp`, an MCP server in Go
that manages one or several Pi-holes through the REST API of FTL (Pi-hole's
server process). Everything the modules define is translated from the code
under `src/`; FTL is not part of that code, and is modelled only as far as the
code depends on it.

Contents

1. [The system](#1-the-system)
2. [Plan](#2-plan)
3. [Modules](#3-modules)
4. [Runs, bounds and fairness](#4-runs-bounds-and-fairness)
5. [Disagreements with docs and comments](#5-disagreements-with-docs-and-comments)
6. [Theorems](#6-theorems)
7. [What is not modelled](#7-what-is-not-modelled)
8. [Running it](#8-running-it)

## 1. The system

An MCP client calls a tool. The server (stdio or HTTP) admits the call through
its middleware, a goroutine runs the tool's handler, the handler picks a
Pi-hole from the registry and talks to it through that Pi-hole's one `Client`.
The goroutines of parallel calls share the `Client`: its session, its locks and
its HTTP connections. Nothing is persisted but backup archives. FTL has other
users: its web interface, other API clients, and processes on the Pi-hole.

```
  MCP client --> middleware --> tool handler --> Registry --> Client --> FTL
                 rate limit,    one goroutine    instances    session    entries,
                 token, origin  per call         by name      locks      settings,
                                                              retries    restarts
```

Inventory. "Correct" is what has to hold of the component.

| Component | State | Operations | Talks to | Hard behaviour | Correct |
|---|---|---|---|---|---|
| Locks (`internal/pihole/locks.go`) | map of keyed mutexes with reference counts | `LockEntry`, `LockSettings`, the unlock they return | every update tool, sync | a key's mutex is dropped and allocated anew while others look it up; several keys at once | one caller at a time per key, nothing leaked, no deadlock, everybody served |
| API client (`client.go`, `auth.go`, `retry.go`, `errors.go`) | session id under `mu`, retry policy | `Do`, `PostMultipartReader`, `DoRaw`, `DoStream`, `Close`, login and refresh | FTL over HTTP | many goroutines meet one 401; lost replies; retries; deadlines; a login that hangs under a lock; shutdown | a change is made at most once, its outcome reported truthfully, one seat held and given back, calls return |
| Restart wait (`restart.go` in `pihole` and `tools`) | local: earliest known start of a process | `RestartsFor`, `AwaitRestart` | FTL's `/info/ftl` | clocks that jitter, answers of the old process that arrive late | reports when, and only when, a later process answers |
| Entry tools (`tools/domains.go`, `lists.go`, `groups.go`, `clients.go`, `groups_assign.go`, `shared.go`) | none | add, update, delete, batch | locks, client | read-modify-write against FTL's replacing PUT; spelling of clients; renames; unlocked deletes | concurrent updates compose, an update never creates |
| Settings tools (`tools/localdns.go`, `config.go`, `config_risky.go`) | none | add and remove items, set values, rewrite local records | locks, client, restart wait | read-modify-write of arrays; restart after each write | no item of another writer is lost |
| Sync (`pihole/sync.go`, `tools/sync.go`) | plan and its token, held by the caller | `ComputeDiff`, `PruneWipes`, `Token`, `ApplyPlan` | two clients, locks | plan confirmed later than computed; many writes, some fail; order between groups and their members | the target ends as planned or the report says what is missing |
| Rate limiter (`middleware/ratelimit.go`) | buckets per address and session | `Middleware`, `Penalise`, eviction | HTTP | eviction against use, table full, penalties | a client cannot exceed its rate, and loses its bucket only to others heard from since, as many as the table holds |
| HTTP admission (`middleware/auth.go`, `origin.go`) | none | token and origin tests | rate limiter | none of its own | pure predicates |
| Backups, Teleporter (`tools/backups.go`, `teleporter.go`) | archive files | export, import with snapshot, list, reap | client, file system | reaping against import, name collisions, snapshot fails | an import has its snapshot, an archive in use stays |
| Actions, blocking (`tools/actions.go`, `dns.go`) | none | gravity stream, restart, flush, blocking timer | client, stream | idle timer against last line; the outcome of a broken stream | the outcome is reported truthfully, a timer does not end in the state it was to prevent |
| Session tools (`tools/auth.go`) | none | list, revoke | client | revoking the own session | own session spared |
| Fan-out (`tools/instance.go`, `pihole/registry.go`) | none (registry is constant) | `instance=all` | clients | some instances fail | each instance's result once, in order |
| Lifecycle (`cmd/pihole-mcp/main.go`) | HTTP server, sessions | start, drain, close | clients | sessions that register during the drain, grace period | ends in bounded time, sessions logged out |
| Server assembly, toolsets (`internal/server`, `toolsets`) | constant after start | registration, filters, size limit | all tools | none of its own | a tool filtered out is never run |
| Read-only tools | none | queries, statistics, logs, three plain deletions | client | none beyond the client's | pure rendering |
| Prompts, resources, format, telemetry | none | rendering, spans | | none | pure |
| Configuration (`internal/config`) | none | environment parsing | registry | names given and names by default | each name means one Pi-hole |
| API types, advisories, escaping | none | decoding | | none | pure |
| Test doubles, `toolsdoc` | | | | | not part of the server |

The hazards of this code are listed one by one, at the line where each bites,
in `PROJECT.json` under `hazards`, with the property that covers each or the
reason none does yet.

## 2. Plan

Modules are ordered by how much of the server rests on them, and written to be
proved about: constants with named assumptions, one action per operation,
invariants in named parts, and no recursive operators.

| | Modules | Covers | Builds on | State |
|---|---|---|---|---|
| 1 | `TakingTurns`, `KeyedMutex` | locks | `TakingTurns` is what a lock promises; `KeyedMutex` implements it | checked, proved |
| 2 | `ApiClient` | sessions, retries, outcomes, `Close` | | checked, proved |
| 3 | `AwaitRestart` | restart wait | | checked, proved |
| 4 | `EntryWriters` | entry tools | `TakingTurns` for its locks | checked, proved |
| 5 | `SettingWriters`, `ConfigPayload`, `ConfigSet` | local DNS, config values, payloads, risky settings | `TakingTurns` for its locks; `ConfigSet` puts `ConfigPayload` in front of `SettingWriters` | checked, proved |
| 6 | `PiholeFake`, `Sync` | diff, plan, token, apply, snapshot | `PiholeFake`: what a request does to a Pi-hole | checked, proved |
| 7 | `Admission` | allowlist, token, rate limiters | | checked, proved |
| 8 | `Backups`, `ImportPlan` | archive files, import and its plan | `ImportPlan` as an instance | checked, proved |
| 9 | `Surface`, `Gravity`, `Serving` | environment, registry, filters, fan-out, gravity stream, shutdown | `Serving` composes the other two | checked, proved |

Every invariant and action property that a passing run checks is a theorem as
well; what TLC alone shows is liveness (section 6). What could be added is the
rest of the components modelled in part (section 7).

## 3. Modules

### TakingTurns, KeyedMutex (locks.go)

`TakingTurns` is the promise: a goroutine asks for a set of keys (`Ask`), is
given them one at a time while nobody else holds them (`Grant`), and gives them
back (`GiveBack`). `KeyedMutex` is the code: the map `held`, the reference
counts `refs`, the owner of each mutex object, and for each goroutine the
objects its closures captured (`got`).

| Definition | Code |
|---|---|
| `Call` | `LockEntry`, or `LockSettings` up to its loop; a set of names, because it sorts and compacts them |
| `Lookup` (`Find`, `Allocate`) | `lock` under `keyedMutex.mu`: find or allocate, count |
| `Acquire` | `l.mu.Lock()` |
| `Unlock` | the closure's `l.mu.Unlock()` |
| `Drop` | the rest of the closure under `keyedMutex.mu`: uncount, delete |

What makes it hard is that one key can be in several objects over time. Objects
are allocated from a finite heap, and any object nothing refers to may be
handed out again (`Garbage`), so a stale pointer is caught.

### ApiClient (client.go, auth.go, retry.go, errors.go)

One client, a set of goroutines. `pc[p]` is the place of p's call: `ensure` (the
read-locked test of `ensureAuth`), `lock` (its write lock), `login`, `send`,
`wait` (the request is out), `reauth` (`handleAuthRetry`), `backoff`.

| Definition | Code |
|---|---|
| `Begin`, `EndContext` | a tool handler calls `Do`, `PostMultipartReader` or `DoRaw`; its context ends |
| `Ensure`, `Lock`, `LoginOK`, `LoginFail` | `ensureAuth` and `login`, which keeps `Client.mu` through its own request |
| `Reauth` | `handleAuthRetry`: compare the session refused with the one there now |
| `Send`, `SendFail`, `Succeed`, `Unauthorised`, `Refused`, `NoAnswer` | `doRequest`, `sendMultipart`, `sendRaw` and what comes back |
| `Fail`, `BackOff`, `Wake`, `GiveUp`, `Return` | `withRetry`, `sleepBackoff` |
| `retryable`, `mayHaveApplied`, `Label` | the functions of those names, `UncertainError` |
| `Stop`, `Logout`, `LogoutFail`, `Forget` | `Close` |
| `Serve`, `ServeLate`, `Expire` | FTL: external |

FTL's side is what the client can be faced with. `Serve` refuses (429, 5xx,
other 4xx) before anything is done, answers 401 exactly to sessions it does not
know, or carries the request out, its answer then being readable or `garbled`.
A request whose sender gave up becomes `late` and is carried out or not
(`ServeLate`). A login may open a session whose id never arrives: `lost`, which
no client can give back. That a refusal is made before the change is what
`retry.go` itself relies on for 429 (5xx of a change is not retried).

`open` is whether the Pi-hole has no password. One without accepts every
request, and its logins succeed with an empty id (`Grants`, `auth.go:72`), so that
`ensureAuth` finds no session and every call logs in again, under `Client.mu`.

### AwaitRestart (restart.go)

A clock `now`, FTL as a succession of processes (`up`, `born`), and one writer:
`SendWrite` (`sent := time.Now()` and the PUT), `ServeWrite`, `TakeReply`, then
the loop `Probe`, `AnswerProbe`, `TakeAnswer` with the code's two tests
(`Confirmed`) and its memory (`seen`, `seenBy`). A ghost, `answerer`, records
which process answered, `servedBy` which one carried out the write and
`passedOver` which ones were not good enough. An uptime is off by at most
`Jitter`. Ticks, deaths and starts interleave freely, so another writer's
restart can fall anywhere.

### EntryWriters (tools/domains.go, lists.go, groups.go, clients.go)

The collection is `table`; a goroutine updates (`Update`, `TakeLock`,
`ReadEntry`, `ResolveGroups`, `Put`, ...), or an entry is added or deleted
by a tool or by FTL's other users without a lock, as the tools do. A PUT
replaces the fields in `Replaced` (comment and enabled flag) and keeps those in
`Kept` when they are left out (groups), and creates an entry that is not there.
Three collections share the tables: `Clients`, whose update gives the lock back,
looks the name up ignoring case and takes the lock of the spelling it finds
(`FindCase`, `FindNoCase`); `Groups`, whose PUT may rename; and the others, rules
and lists. `AddRules`, `AddGroup`, `AddClient`, `DeleteRuleOrList`, `DeleteGroup`,
`DeleteClient` and `BatchDelete` are the other tools, and FTL's other users. A PUT
without an answer may be carried out later (`late`, at most `MaxLate`). The locks
are those of `TakingTurns`, instantiated on the goroutines and names: what
`KeyedMutex` shows is what this module builds on.

`touched[p]` is a ghost: something that holds no lock changed the entry since p
read it. No lock can help against that, so `UpdatesCompose` speaks of the
updates for which it is false.

### SettingWriters (tools/localdns.go, config.go; import from teleporter.go)

`config` is FTL's value of each setting: a set of lines, a line being the set of
names it lists. In `dns.hosts` ("IP NAME [NAME ...]") a name stands for one
address and host name, in `dns.cnameRecords` ("ALIAS[,ALIAS ...],TARGET") for one
alias; `Aliases` are the settings where dnsmasq refuses a name on two lines.

| Definition | Code |
|---|---|
| `Begin`, `TakeLock`, `Unlock` | the handlers up to `configLock` or `LockSettings`; their deferred unlock. The locks are those of `TakingTurns` |
| calls `add`, `remove` | `local_dns_add`, `local_cname_add`, `config_add_value`; `config_remove_value`: one PUT or DELETE of a line, nothing read |
| calls `drop` | `local_dns_delete`, `local_cname_delete`: `Read` (`readLocalRecords`), `Resolved` (`resolveOne`), `DropRequest` (delete the line, or `replaceLocalRecord`) |
| calls `set` | `config_set`: `Read` or `SetUnread` (a read that failed), one PATCH, `Changed` (`compareConfigWrite`) |
| `WaitPlaces`, `Restarted` | `restartsFor`, `restartNoteIf`, `awaitRestartNote` |
| `Serve`, `WriteFails` | the write's answer, or its error: refused, not sent, or uncertain (`late`) |
| `Import` | what `teleporterImportHandler`'s POST does to the settings: no lock |
| `Elsewhere`, `ServeLate`, `Valid`, `Accepted` | FTL and its other users: external |

`touched[p]` is a ghost: something without the lock, an import of this server
included, has changed a setting of p's call since p read it. `DropsOneName`,
`ReportsOwnChange` and `RiskyStays` speak of the calls for which it is false. An
import that comes between a removal's read and its write is overwritten by it.

### ConfigPayload, ConfigSet (tools/config.go, config_risky.go)

`ConfigPayload` is what `config_set` makes of its JSON argument. A payload is the
sequence of its leaves, in the order `mergeConfigKeys` meets them (objects are
walked with their keys sorted).

| Definition | Code |
|---|---|
| `Along`, `Merged`, `Added`, `Clashes`, `Expanded` | `expandConfigKeys`, `mergeConfigKeys`, `configSection`, `ConfigChild`: dotted keys nested, names found in any case, a setting given twice refused |
| `Unwrapped` | the loop that takes off `config` envelopes |
| `CredentialIn`, `WellFormed`, `Acceptable` | the refusals before anything is read |
| `LeavesOf` | `configLeaves` |
| `ConfigSet!Asked`, `SetCall` | the handler's `LockSettings` and PATCH, as a call of `SettingWriters` |
| `NamesUnknown`, `ChangesRisky`, `RefuseSet` | `unknownSettings`, `riskyChange`: refusals after the read |

`ConfigSet` runs `SettingWriters` with these calls in place of arbitrary ones, so
its steps are those of `SettingWriters` with some refused: `PayloadsOnly` proves
it, and with it what `SettingWritersProofs` shows of `SettingWriters` holds with
real payloads (`PayloadsKeepPromises`). Values with line breaks and an object
without keys given for a setting are left out.

`SetsWhatWasNamed` compares the call with what the payload's leaves name by
themselves (`Means`), without the tree. `Envelopes` says which segments are
envelopes: those every leaf that deep has, as FTL reads names, spelled `config`
where the key is first met, since the handler looks for that spelling in the
merged object. So `{"config": {}, "config.config.dns.hosts": []}` has two, and
`{"Config": {"dns": ...}}` none; the former is among the run's payloads.

### PiholeFake, Sync (pihole/sync.go, tools/sync.go)

`PiholeFake` is what a Pi-hole holds after a request, translated from
`internal/pihole/piholefake`, the simulator of the tests: POST, PUT and DELETE
of entries, PUT, DELETE and PATCH of array lines, and what restarts FTL. One fact
about dnsmasq that the simulator does not know is added (`Takes`: no alias on two
lines, `sync.go:628`).

`Sync` is one call of `pihole_instance_diff` or `pihole_instance_sync` after the other on two such Pi-holes.

| Definition | Code |
|---|---|
| `Begin`, `ReadSide`, `ReadFails` | the handler and `ComputeDiff`, which reads category by category, source first |
| `Differing`, `Plan`, `Token`, `PruneWipes` | the diff, its steps, `Token`, `PruneWipes` |
| `ShowDiff` | `pihole_instance_diff` |
| `Refuse`, `Show`, `Decline`, `Confirm` | plan mode, and the tests of apply mode |
| `Snapshot`, `SnapshotFails` | `exportSnapshot`, as far as the sync cares |
| `IsNext`, `RunStep`, `Abandon` | `ApplyPlan` with `runLocked`; a step without an answer counts as failed |
| `LockCNAMEs`, `ReadCNAMEs`, `NextRecords`, `NothingToWrite`, `WriteCNAMEs`, `CNAMEsRefused`, `CNAMEsUncertain` | `applyCNAMEs`: all records in one PATCH |
| `Restarted`, `WaitFails`, `NoRestartSeen`, `AskRestart` | its wait, and `restartAfterSync` when nobody knows whether FTL saved |
| `ToolLock` ... `ToolWrite` | another tool of this server, under the same locks |
| `Elsewhere`, `FtlRestarts` | users and FTL: external |

`dirty` and `stale` are ghosts: what others changed since the sync read it, and
what was changed without a lock since its holder read it. The properties about
writes exempt the CNAME records in `stale` (`Overtaken`): the PATCH of the whole
array undoes what somebody without the lock wrote after the read, as it does for
every tool. The write of the CNAME records and the noting of its time are one
step; what can fall between them is `AwaitRestart`'s subject. That a sync ignores
which groups an entry is in, as the code says it does, is part of `Values`.

### Admission (internal/middleware)

A request passes `Admits` (`OriginPasses`, `Authentic`: `OriginValidator` and
`BearerAuth`), is charged to the key of `ClientIP`, and goes through `Lookup`
(`limitersFor`, under the limiter's lock) and `ChargeCeiling`, `ChargeShare`
(`Allow` of each bucket, after the lock is given back). `Penalise` is the second
limiter, of requests without the token. `Sweep` and `SweepFailures` are
`evictIdle`, at any time where the code's ticker goes every five minutes; `Stop` is
`BindShutdown`. A bucket is a number in `Ids`: one that
nobody refers to may be used again, so a stale reference is caught.

Time is in ticks, a bucket gains `Rate` a tick. A bucket idle for longer than
`IdleTtl` may be dropped, and its successor is full. At ten requests a minute and
more it would have been full by then (`idleSessionTTL` is three minutes, the burst
at least 30); at less it would not, and the pause is worth more than the rate. So
`BudgetsHold`, which every rate keeps, counts for each `Turnover` (`IdleTtl + 1`
ticks) what the rate allows then or another burst, whichever is more (`Renewed`);
from ten requests a minute up that is the rate itself. `RateKept` is what the
README promises, the burst and the rate (section 5).

`ForgetsStrangers` says whom a full table gives up. `heard` is a history of when
each limiter last had a request of an address, told apart from the entry's own
`lastSeen`, which is lost with it: an entry goes only if nothing was heard of its
address for longer than `IdleTtl`, or at least `MaxTracked` others were heard of
since (or in the same tick). Such a crowd does displace a client in use, as the
code accepts ("nothing worse than a fresh bucket").

`NamesLeft` says that a new entry can have buckets of its own, as the heap always
has. No tick falls between a lookup and its charges: nothing waits there. What an
address was let through before it was displaced for want of room is not held
against it (`displaced`): the code accepts that.

### Backups, ImportPlan (tools/backups.go, teleporter.go)

`Backups` is a set of calls on one directory tree; a file keeps its identity
whatever names it.

| Definition | Code |
|---|---|
| `Export`, `Open`, `Import` | the handlers up to their first look at the directory; `openBackupForImport` |
| `Pass`, `Look`, `Remove` | `reapStaleBackups`, entry by entry; `Kept` is its `os.SameFile` |
| `Fetch`, `Create`, `CopyDone`, `CopyFails`, `CleanUp` | `openBackupStream`, `createBackupFile` (`O_EXCL`), the copy, the removal of a partial file |
| `Upload`, `Abort` | the POST of an import; every early return |
| `UserDeletes`, `UserAdds`, `Reconfigure`, `NextDay` | everybody else |

Between the look at a stale file and its removal by name, another call may
have removed it and made another of the same name. No step of the file system
prevents that, and the properties exempt the file lost that way (`Lost`). The same
can befall a rollback point whose copy fails, since the partial file is removed
by its name, which may be another file's by then. Users
leave a file alone while it is written. A server killed in the middle of a copy
leaves a truncated file; `NoPartialLeft` is about a server that lives.

`ImportPlan` is the pure part: `Planned` is what `importPlan` tells of an archive,
`Imported` what FTL imports (external), and `Truthful` compares them for every
archive, location of the gravity database and choice of options; `Backups`
evaluates it where a call has an archive open. A plan that warns that it may
be wrong is exempt. An archive that names `pihole.toml` or `dhcp.leases` as its
gravity database is left out (`ImportAssumption`): the plan keeps the part that
has the name (`IsPart`), and what FTL would do is not told by `src/`.

### Surface, Gravity, Serving (config, registry, toolsets, server, instance.go, actions.go, main.go)

`Surface` is a set of pure operators on an environment: what `config.Load`
accepts (`Loads`), the names and clients of the registry (`Names`, `Client`), the
tools the filters leave (`Exposed`), and where a call goes (`Targets`).

`Gravity` is `actionGravityHandler` with the rebuild it starts, which goes on by
itself at the Pi-hole (`JobPrints`, `JobEnds`), the stream of its lines (`pipe`),
and the idle timer, which cancels the reader at some later moment and can race
the last line. A stream that breaks is an error to the reader, never an end:
that is what Go's HTTP client does with a chunked body that is cut.

`Serving` is the process around both: `run` (`Load`, `ListenUp`, `ServeReturns`,
`Drained`, `Leave`), the goroutine that drains (`Signal`, `FirstSweep`,
`ShutdownBegins`, `Tick`, `ShutdownReturns`, `GraceEnds`), the connections of
clients, and each call's fan-out (`BranchRuns`, `BranchEnds`, `CallEnds`), whose
gravity calls are steps of `Gravity`. What else a call does at a Pi-hole is one
step that may fail. A connection is opened once.

## 4. Runs, bounds and fairness

| Run | Instance | Shows |
|---|---|---|
| `locks` | 3 goroutines, 2 keys, 3 objects, fair | `MutualExclusion`, `DroppedWhenUnused`, `EveryCallerServed`; `TakesTurns`: KeyedMutex implements TakingTurns |
| `client_safety` | 2 goroutines, 3 sessions, 1 retry, all kinds of call, a password or none | `AtMostOnce`, `OutcomeTruthful`, `OneSeat`, `SeatReleased` |
| `client_live` | 2 goroutines, 2 sessions, 1 retry, a password or none, fair | `CallReturns` |
| `client_replay` | as `client_safety` | violation, section 5 |
| `restart_safety` | clock to 7, jitter 1, margin 2, probe timeout 1 | `RestartOverIfPrompt`, `RestartNoticed` |
| `entries` | 2 goroutines; two spellings of one client, or two groups, or one rule; 2 fields, 2 values, 1 late write | `LocksReturned`, `UpdatesCompose` |
| `entries_creates` | 2 goroutines, 1 entry | violation, section 5 |
| `settings` | 2 goroutines, `dns.hosts`, `dns.cnameRecords` and a risky setting, 16 payloads, 1 late write | `LocksReturned`, `SetsWhatWasNamed`, `DropsOneName`, `ReportsOwnChange`, `RiskyStays` |
| `sync` | a group, a rule, a DNS record, 3 CNAME records of 2 aliases, 1 tool, 1 change without a lock | `InSyncTruthful`, `ReadsHold`, `ServedOrSaid`, `OnlyConfirmed`, `NeverEmptied`, `AliasesStay` |
| `admission` | 2 requests at a time, 2 hosts of one /64 and 2 others, 2 proxies, tables of 2, 1 session, time to 5 | `ChargedToOwner`, `BudgetsHold`, `BudgetsKept`, `ComplaintsApart`, `ForgetsStrangers` |
| `backups` | 2 calls, 4 paths, 3 files, 2 days, archives of up to 3 entries | `NoPartialLeft`, `SavedLasts`, `RollbackFirst`, `PlanTruthful`, `NeverReplaced`, `SourceKept` |
| `serving` | 2 connections, 13 environments of up to 2 Pi-holes, both transports, fair | `ReachesNamed`, `ReportTruthful`, `GravityTruthful`, `NotCutShort`, `ShutdownEnds` |

Each module's `TypeOK` (`ServingTypeOK` in `Serving`) holds in its run as well, and
in `admission` the bound on its tables, `TablesBounded`. They are theorems, so no run
spends time on them.

Bounds. Two goroutines are enough for one to meet what another left half done;
the locks have three, so that one holds, one waits and one is about to drop or
allocate, and two keys, which are enough for a circle of waits. Three objects
are one for each key and one in the hands of a caller that has been overtaken.
Three sessions are the one refused, its successor and one that was lost. One
retry has every decision of `withRetry` taken both ways, as the first and as the
last attempt. The clock's seven ticks hold a write, an old answer, a restart and
a second answer, with a jitter that is not 0 and the smallest margin the
assumption allows. Two values tell a field that was kept from one that was
overwritten. Two names make every case of a removal: the line lists the name
alone, or with another whose own line is there already or not. The payloads of
`settings` have a leaf for each way of nesting, spelling and refusal. Tables of
two addresses and one session are soon full, and leave a choice of whom to displace
for a third; a burst is one request for a session and two for an address, and five
ticks see a bucket empty, be dropped half full and be made anew.
Three archive entries hold a `pihole.toml` between two databases.

Constraints. Some runs leave out combinations that multiply states without
bringing actors together: the things left out do not share state. They are named
in the MC modules:

- `OneCollection` (entries): what goes on is about one of the collections, as the
  handlers of two collections share no entry and no lock.
- `OneAxis` (settings): either one setting with lines of several names, or two
  settings with one name.
- `InScope` of `MCSync`: the calls are about the rule, about the DNS record, about
  the group and the rule, or about the CNAME records; with two categories or two
  aliases nobody else is at work.
- `InScope` of `MCBackups`: at most two files and one report of a backup at a time;
  two calls run at once on the last day only, and one of them is an export.
- `InScope` of `MCAdmission`: either limiter by itself; for the main one, sessions
  of one address, or up to three addresses without; with two addresses time goes to
  2, with three to 1, which is enough to come back before, or after, the others.

A constraint cuts off behaviours beyond it, so none is used with a liveness
property. `VIEW` hides what nobody refers to: the files without a name or a
reader, and the units of a free bucket.

`CHECK_DEADLOCK FALSE` stands where the program ends: in `ApiClient` after
`Close`, in `AwaitRestart` after the one write and at the end of the clock, in
`Serving` when the process is gone. Symmetry is used in safety runs only.

Fairness. `KeyedMutex`: the steps of a goroutine that nothing blocks are weakly
fair (the scheduler runs every goroutine); what a caller does while it holds the
keys ends, as each of its requests has a deadline and the unlock is deferred;
`Acquire` is strongly fair because a `sync.Mutex` is handed to a waiter that has
waited a millisecond. `ApiClient`: each goroutine's own step is strongly fair:
the HTTP client's 30 s timeout ends a request FTL never answers
(`NoAnswer(p, "ended")`, `LoginFail(p, "ended")`), backoffs are timers, and
`Client.mu` does not starve a waiter. FTL's steps, a caller's cancellation, and
cut connections are under no fairness at all: nothing in `CallReturns` depends on
FTL being well. `Serving`: `Run`, `Drain`, `Tick` and each call's own steps are
weakly fair (goroutines run, the ticker ticks, a request ends by its timeout and
a silent stream by the idle timer). There is none for the signal, the clients, the
lines of a rebuild, nor for the end of the grace period: `ShutdownEnds` does not
rest on it. The other modules check safety only.

## 5. Disagreements with docs and comments

Two runs check what a comment says, and TLC finds the code doing otherwise. Each
is an entry under `findings`.

- `client_replay`, `ReplayHasSession` (`auth.go:105`: "if another goroutine
  already refreshed, we use the new SID without re-authenticating"). Two calls
  meet the same 401. The first clears the session and its login fails, so `sid`
  is empty; the second finds it different from the one it used, takes that for a
  refresh and sends its request again with no session. FTL refuses with a second
  401, and the call fails although it never tried to log in.
- `entries_creates`, `UpdateNeverCreates` (`tools/shared.go:187`: "an update of a
  misspelt name used to add a new one [...] Every update now reads the entry first
  and stops here"). A delete takes no lock, so an entry deleted between the
  update's read and its PUT is created again.

Three more come out where the premise of a property that holds is dropped. They are
no runs of the project; the configurations named show them.

- `ApiClient_close.cfg` (`tlc -config ApiClient_close.cfg MCApiClient`),
  `SeatReleased` (`README.md:751`: "pihole-mcp releases its seat on
  shutdown", which it contrasts with a process that was killed). When the grace
  period runs out while a call is still running (`DrainWaits = FALSE`), `Close`
  logs out one session and forgets whatever `sid` holds by then; a call that
  refreshes in between, or logs in after, leaves a seat taken. Where the drain
  waits, the property holds (`client_safety`).
- `AwaitRestart_held.cfg` (of `MCAwaitRestart`), `RestartOver`
  (`tools/restart.go:12`: "A write reports only once FTL is answering again, so the
  caller's next request cannot land in the restart window"). `sent` is taken before the PUT. If the PUT is held up (a login with
  backoffs) and FTL restarts meanwhile for another reason, the process that
  carries the write out has itself started after `sent`: the first probe it
  answers, before it stops, confirms the restart. For a write carried out by a
  process that was up when it was sent the property holds (`restart_safety`).
- `Admission_slow.cfg` (of `MCAdmission`), `RateKept` (`README.md:163`, of
  `PIHOLE_RATE_LIMIT`: "Requests per minute per MCP session on the HTTP/SSE
  transports, under a per-address ceiling of four times that"). `config.go:183` accepts 1 to 9, where a burst of 30
  takes longer than three minutes to refill. `evictIdle` drops the bucket after
  three idle minutes and the next request gets a full one: a client that is silent
  for the three minutes before a sweep has 30 requests again, where its rate allows
  3 to 27 in that time. `RateKeptIfRefilled` proves that from ten up the limit is
  kept; `BudgetsHold` is what every rate keeps.

## 6. Theorems

Proved for every value of the constants under the modules' assumptions.

| Module | Theorems | Argument |
|---|---|---|
| `KeyedMutexProofs` | type correctness, `MutualExclusion`, `DroppedWhenUnused`, `NoDeadlock` (no run lists it: TLC's own deadlock check stands for it), `TakesTurns` (KeyedMutex implements TakingTurns) | The count of an object is the number of callers that captured it, and all callers of a key captured the object the map shows. With both, the last user is alone, so an object that is dropped is in nobody's hands and one that is reused is nobody's old one. Every caller waits for a key beyond all it has, so the one with the greatest key can go on. `Lookup` and `Drop` are stutters of `TakingTurns`; `Call`, `Acquire` and `Unlock` are its three actions. |
| `ServerProofs`, on `ApiClient` | type correctness, `AtMostOnce`, `OutcomeTruthful`, `OneSeat`, `SeatReleased` | `TypeOK` with what a call in each place can have done so far: before its request is out nothing has been applied and no copy is late; a backoff of a change follows an error that says it was not processed. For the seat: the sessions FTL accepts are `sid` or lost, and only the holder of `mu` changes `sid`. `OneSeat` and `SeatReleased` are proved where the drain waits for the calls (`DrainWaits`); where it does not, TLC refutes the latter (`ApiClient_close.cfg`). |
| `ServerProofs`, on `Serving` | type correctness with the bound on handlers, `NotCutShort`, `GravityTruthful`, `ReportTruthful`, `ReachesNamed` | The drain is over when every connection is closed or the grace period is, and `run` goes on only then, or if there never was a connection (`ShutInv`). What is left of a rebuild's stream, with the last line read, tells of its end what the rebuild's state is, or breaks off first (`Tells`); so the report a handler has still to make will be right (`GravityInv`). A call in progress has a handler for each of its targets, which are what `instanceAware` made of the environment, and a report is of all its handlers (`DeedInv`). `OneTarget`, on `Surface` alone: names are used once and the scan of the numbers stops at a finite one, so the client of a name is that of the one Pi-hole called so. The handlers that run are a finite set, and each step adds one below the limit or none (`FanInv`). |
| `AwaitRestartProofs` | type correctness, `RestartOverIfPrompt`, `RestartNoticed` | Every answer brackets its process's start: `startedFrom - Jitter <= answerer <= startedBy + Jitter`, and `seenBy` is that of some process passed over and not later than any of theirs. Needs `2 * Jitter <= Margin`. |
| `EntryWritersProofs` | type correctness, `LocksReturned`, `UpdatesCompose` | Places and locks go together; locks exclude; so between an update's read and its PUT only something without the lock changes the entry, and then `touched` says so. |
| `SettingWritersProofs` | type correctness, `LocksReturned`, `DropsOneName`, `ReportsOwnChange`, `RiskyStays`, `SetsWhatWasNamed` | A call in its write place holds all its settings (`Orderly`), two calls hold none in common (`Exclusive`), so what it read of them is still so unless `touched` (`Current`). Then the one line `resolveOne` found is the only one with the name, and deleting it or writing the array back without the name comes to the same. `PayloadsOnly`: a step of `ConfigSet` is one of `SettingWriters`, because what the payload operators build is a call in `Calls`. `PayloadsKeepPromises` follows. `RiskyStays`: no call but a `config_set` is about a risky setting (`KeepsOff`), and a `config_set` is refused that would change one from what it read, which is still so (`Current`). `SetsNamed`: a payload that does not clash is expanded into one node for each section and each leaf, made by the first leaf that asks for it (`ExpandedNode`, `NodeExpanded`); so each envelope the handler finds is one the leaves agree on (`OneEnvelope`), by induction as many come off (`EnvelopesOff`), and the values left are those the leaves name, one at most for a setting (`ValuesNamed`, `OneValueNamed`). |
| `AdmissionProofs` | `TablesBounded`, `ChargedToOwner`, `BudgetsHold`, `BudgetsKept`, `ComplaintsApart`, `ForgetsStrangers`; `RateKept` if `Turnover * Rate >= Burst` | A bucket belongs to one address, or to one session (`OwnCeilings`, `OwnShares`). A request in flight holds the buckets of its own address and session, seen in this very moment, or ones nobody has any more, and then its address was displaced (`InFlight`). An address spends only when it is seen, so all it spent was due by then (`SpentWhenSeen`); by the time its bucket may be dropped another burst is due, so a new one in its place, full, gives nothing away, at any rate (`Budgets`, with `Due`). The complaint about an address is remembered while it matters (`Complaints`), which needs `WarnGap <= IdleTtl`. For `ForgetsStrangers`: an entry was last seen when its limiter last heard of its address (`Hears`), so all that a full table keeps were heard of since the oldest was, and with the newcomer they are as many as the table holds (`OldestIsStranger`). |
| `BackupsProofs` | type correctness, `NoPartialLeft`, `SavedLasts`, `RollbackFirst`, `NeverReplaced`, `SourceKept`, `PlanTruthful` | No file has two names, one call writes a file, and what is not whole is being written. What a call in `reap` or `remove` has found stale is older than any file being written, reported within its time or kept for an import, so removing by name hits either what was found or a file that took its name meanwhile (`Lost`). `PlansAreRight` is about `ImportPlan` alone: by induction on the length of the archive, the draft after i entries knows the database's place before entry i + 1, unless it warns. |
| `SyncProofs` | type correctness, `InSyncTruthful`, `ReadsHold`, `ServedOrSaid`, `OnlyConfirmed`, `NeverEmptied`, `AliasesStay` | What is left, done and failed is the plan the caller saw, and it wipes nothing (`PlanKept`). What nobody else has changed is as it was read, or as a step left it (`AsRead`); that rests on the locks (`Locked`) and on what a request about one item leaves alone, which is shown of each request of `PiholeFake`. Of the CNAME records, all are left or none is, as one PATCH writes them. Records that wait for a restart are the sync's concern until it has said so (`Waiting`). Types include that no array lists a record twice and no alias is on two CNAME records. |

Assumptions worth naming: names and keys are integers, so that they are ordered
as `slices.Sort` orders them; the heap has one cell more than there are keys;
`2 * Jitter <= Margin` is what the comment at `processChangeMargin` says the
margin is for; `WarnGap <= IdleTtl` is met by the two constants of `ratelimit.go`,
and addresses are finitely many, since the counting of `ForgetsStrangers` needs
it; a proxy chain
is a sequence of trusted proxies (`Routes \subseteq Seq(Trusted)`), of any length;
the items of a sync are finitely many (`IsFiniteSet(Items)`), so that an array can
list them; an archive is a sequence of entries, of any length; the numbers of an
environment are finitely many positive ones, which is all the scan of
`PIHOLE_<n>_URL` needs.

Induction. The library's induction theorems take an operator as a parameter and
cannot be used here. `BackupsProofs` and `SettingWritersProofs` instead derive
induction over sets of numbers (`Induction`: a set of naturals with 0 that has
n + 1 with n is all of them) from the well-foundedness of `<`, and with it show
what the recursive function in `Planned` computes (`PlannedIs`, `PlanUpTo`) and
how many envelopes come off (`EnvelopesOff`).

Only model-checked: the liveness properties (`EveryCallerServed`, `CallReturns`,
`ShutdownEnds`), which are out of the prover's reach.
The violations are counterexamples and need no proof.

## 7. What is not modelled

- Blocking with its timer (`tools/dns.go`): one look and one write with nothing
  held in between. Blocking may be switched by another between the two, and the
  timer then ends in the state the look was to prevent; nothing in the code says
  otherwise, and a model would only repeat that. A flush is one POST; the restart
  tool takes the steps of `AwaitRestart` with its POST as the write.
- Session tools: a list and a revocation. Whether an id can come to mean
  another session in between depends on how FTL draws ids.
- A panic in a goroutine of the fan-out, which ends the process.
- In the settings tools, the order of the lines of an array, TTLs, an array that
  holds one line twice, settings that are no arrays, and the one setting that
  restarts FTL though `restart=false` was passed.
- In the entry tools, the look-up of group ids by name, per-item results of a
  batch, and the case-insensitive choice among several groups: only that the ids
  are resolved by a request of its own before the PUT.
- In a sync, which groups an entry is in, ids, and late writes: a step without an
  answer is carried out at once or never.
- In an archive, other contents than the names of its entries and the one setting
  of `pihole.toml` that changes what the rest means. The plan reads a bounded part
  of that file (`io.LimitReader`): that the setting may lie beyond is left out.
- A password that is set or removed while the server runs (no step changes `open`).
- The parsing of variables other than those that name Pi-holes and choose tools.
- Response bodies, redirects, and the parsing of error bodies.
- Wording of results, logging, spans, JSON shapes, result sizes.
- Registration of tools, prompts, resources and read-only tools: no state of their
  own; what they ask of the client is a read, or one plain deletion.
- A change answered with a body that does not parse (`garbled`) is exempt from
  `OutcomeTruthful`: the code reports an error of its own kind, neither `ok` nor
  uncertain.
- Time, except in `AwaitRestart`, `Admission` and, in days, `Backups`: deadlines and
  backoffs end nondeterministically.

## 8. Running it

```
tlc -config KeyedMutex.cfg MCKeyedMutex.tla
tlapm KeyedMutexProofs.tla
```

Each run's module and configuration, and the mutation of the code each property
is known to catch, are in `PROJECT.json` (`runs`, `mutants`).
