--------------------------- MODULE SettingWriters ---------------------------
(***************************************************************************)
(* internal/tools/localdns.go and config.go: the tools that write Pi-hole's *)
(* settings, called in parallel by MCP clients.                             *)
(*                                                                         *)
(* A setting here is an array of lines, and a line lists names: "IP NAME    *)
(* [NAME ...]" in dns.hosts, "ALIAS[,ALIAS ...],TARGET" in dns.cnameRecords. *)
(* FTL adds and deletes lines as a whole, so removing one name of several   *)
(* reads the array and writes all of it back.  Every tool takes the lock    *)
(* of each setting it writes and keeps it until FTL has restarted; but an   *)
(* import (teleporter.go) takes none, nor do FTL's other users.             *)
(*                                                                         *)
(* Locks are used as TakingTurns promises them, requests as ApiClient       *)
(* reports them: done, not done, or uncertain.  FTL is outside src/.        *)
(***************************************************************************)
EXTENDS Integers, FiniteSets

CONSTANTS
  Procs,       \* goroutines that handle tool calls
  Settings,    \* the settings, in the order LockSettings locks them in
  Names,       \* the names lines are about
  Aliases,     \* the settings in which dnsmasq refuses a name on two lines
  Restarting,  \* the settings whose change makes FTL restart
  Given,       \* the arrays callers of config_set give: a bound
  MaxLate      \* bound of the writes that FTL may still carry out

Lines   == (SUBSET Names) \ {{}}
Arrays  == SUBSET Lines
NoArray == {{}}   \* what was not read

ASSUME SettingAssumption ==
  /\ Settings \subseteq Int /\ IsFiniteSet(Settings)
  /\ Aliases \subseteq Settings /\ Restarting \subseteq Settings
  /\ Given \subseteq Arrays
  /\ MaxLate \in Nat

VARIABLES
  config,   \* the array of each setting
  asked,    \* TakingTurns: the locks a goroutine waits for,
  holds,    \* and those it has
  pc,       \* where each call is in its handler
  call,     \* what the call is to do
  read,     \* the arrays as the handler read them
  late,     \* writes given up on that FTL may still carry out
  touched   \* whether anything without its lock has changed a setting of the
            \* call since it was read

lockVars == <<asked, holds>>
vars     == <<config, lockVars, pc, call, read, late, touched>>

Lock == INSTANCE TakingTurns WITH Keys <- Settings

Places == {"idle", "lock", "read", "write", "waiting", "unlock"}

NoArrays == [s \in Settings |-> {}]
Unread   == [s \in Settings |-> NoArray]

(* A call: the settings it names, the line or the name it is about, the     *)
(* arrays config_set's caller gave, and whether FTL is to restart.          *)
LineCall(o, s, l, r) ==
  [op |-> o, on |-> {s}, line |-> l, arrays |-> NoArrays, restart |-> r]

LineCalls ==
  {LineCall(o, s, l, r) : o \in {"add", "remove"}, s \in Settings, l \in Lines,
                          r \in BOOLEAN}
DropCalls ==
  {LineCall("drop", s, {n}, r) : s \in Settings, n \in Names, r \in BOOLEAN}
SetCalls ==
  {c \in [op : {"set"}, on : SUBSET Settings, line : {{}},
          arrays : [Settings -> Given \cup {{}}], restart : BOOLEAN] :
     \A s \in Settings \ c.on : c.arrays[s] = {}}

Calls == LineCalls \cup DropCalls \cup SetCalls

NoCall == [op |-> "set", on |-> {}, line |-> {}, arrays |-> NoArrays, restart |-> FALSE]

(* dnsmasq takes the array. *)
Valid(s, v) == s \in Aliases => \A l, m \in v : l # m => l \cap m = {}

Init ==
  /\ config \in {c \in [Settings -> Arrays] : \A s \in Settings : Valid(s, c[s])}
  /\ asked = [p \in Procs |-> {}]
  /\ holds = [p \in Procs |-> {}]
  /\ pc = [p \in Procs |-> "idle"]
  /\ call = [p \in Procs |-> NoCall]
  /\ read = [p \in Procs |-> Unread]
  /\ late = {}
  /\ touched = [p \in Procs |-> FALSE]

----------------------------------------------------------------------------
(* What FTL does with a write *)

(* A write: of each setting in on, the lines in less go, those in more come. *)
(* A PUT of a line that is there and a DELETE of one that is not are refused. *)
Write(on, less, more, whole) == [on |-> on, less |-> less, more |-> more, whole |-> whole]

Put(s, l)    == Write({s}, NoArrays, [NoArrays EXCEPT ![s] = {l}], FALSE)
Delete(s, l) == Write({s}, [NoArrays EXCEPT ![s] = {l}], NoArrays, FALSE)
Patch(S, f)  == Write(S, NoArrays, f, TRUE)

After(w) ==
  [s \in Settings |->
     IF s \notin w.on THEN config[s]
     ELSE IF w.whole THEN w.more[s]
     ELSE (config[s] \ w.less[s]) \cup w.more[s]]

Accepted(w) ==
  /\ \A s \in w.on : Valid(s, After(w)[s])
  /\ ~w.whole => \A s \in w.on : w.less[s] \subseteq config[s]
                                  /\ w.more[s] \cap config[s] = {}

----------------------------------------------------------------------------
(* The tools *)

(* local_dns_add, local_cname_add, config_add_value (add),                  *)
(* config_remove_value (remove), local_dns_delete and local_cname_delete    *)
(* (drop), config_set (set).                                                *)
Begin(p, c) ==
  /\ pc[p] = "idle" /\ c.on # {}
  /\ call' = [call EXCEPT ![p] = c]
  /\ Lock!Ask(p, c.on)
  /\ pc' = [pc EXCEPT ![p] = "lock"]
  /\ UNCHANGED <<config, read, late, touched>>

Reads(p) == call[p].op \in {"drop", "set"}

(* Bug: a tool that adds or sets does not take its turn. *)
TakeLockDropOnly(p) ==
  /\ pc[p] = "lock"
  /\ \E k \in Settings :
       /\ k \in asked[p] /\ \A j \in asked[p] : k <= j
       /\ call[p].op = "drop" => \A q \in Procs : k \notin holds[q]
       /\ asked' = [asked EXCEPT ![p] = @ \ {k}]
       /\ holds' = [holds EXCEPT ![p] = @ \cup {k}]
       /\ pc' = [pc EXCEPT ![p] = IF asked[p] # {k} THEN "lock"
                                  ELSE IF Reads(p) THEN "read" ELSE "write"]
  /\ UNCHANGED <<config, call, read, late, touched>>

(* LockSettings, one setting after the other. *)
TakeLock(p) ==
  /\ pc[p] = "lock"
  /\ \E k \in Settings :
       /\ Lock!Grant(p, k)
       /\ pc' = [pc EXCEPT ![p] = IF asked[p] # {k} THEN "lock"
                                  ELSE IF Reads(p) THEN "read" ELSE "write"]
  /\ UNCHANGED <<config, call, read, late, touched>>

(* readLocalRecords, or config_set's detailed read. *)
Read(p) ==
  /\ pc[p] = "read"
  /\ read' = [read EXCEPT ![p] =
                [s \in Settings |-> IF s \in call[p].on THEN config[s] ELSE NoArray]]
  /\ touched' = [touched EXCEPT ![p] = FALSE]
  /\ pc' = [pc EXCEPT ![p] = "write"]
  /\ UNCHANGED <<config, lockVars, call, late>>

(* config_set goes on without having read, and reports that it has not. *)
SetUnread(p) ==
  /\ pc[p] = "read" /\ call[p].op = "set"
  /\ pc' = [pc EXCEPT ![p] = "write"]
  /\ UNCHANGED <<config, lockVars, call, read, late, touched>>

(* The handler returns: its locals end, its deferred unlock is to run. *)
Leave(p, place) ==
  /\ pc' = [pc EXCEPT ![p] = place]
  /\ read' = [read EXCEPT ![p] = Unread]
  /\ touched' = [touched EXCEPT ![p] = FALSE]

(* The lines read that list the name a drop is about. *)
Matches(p, s) == {l \in read[p][s] : call[p].line \subseteq l}

(* resolveOne: the one such line. *)
Resolved(p, s) == {l \in Lines : Matches(p, s) = {l}}

(* The read failed; or resolveOne did not find the one record, or config_set *)
(* refuses what it was given.                                               *)
Refuse(p) ==
  /\ \/ pc[p] = "read" /\ call[p].op = "drop"
     \/ pc[p] = "write" /\ call[p].op = "set"
     \/ /\ pc[p] = "write" /\ call[p].op = "drop"
        /\ \A s \in call[p].on : Resolved(p, s) = {}
  /\ Leave(p, "unlock")
  /\ UNCHANGED <<config, lockVars, call, late>>

(* The line goes if it lists no other name; else the array is written back  *)
(* as it was read, without the name (replaceLocalRecord).                   *)
DropRequest(p, s, l) ==
  IF l = call[p].line THEN Delete(s, l)
  ELSE Patch({s}, [NoArrays EXCEPT ![s] =
                     (read[p][s] \ {l}) \cup {l \ call[p].line}])

Requests(p) ==
  CASE call[p].op = "add"    -> {Put(s, call[p].line) : s \in call[p].on}
    [] call[p].op = "remove" -> {Delete(s, call[p].line) : s \in call[p].on}
    [] call[p].op = "set"    -> {Patch(call[p].on, call[p].arrays)}
    [] call[p].op = "drop"   ->
         UNION {{DropRequest(p, s, l) : l \in Resolved(p, s)} : s \in call[p].on}

(* Bug: every setting the caller named counts as changed. *)
ChangedAll(p, after) == call[p].on

(* compareConfigWrite: what config_set reports as changed. *)
Changed(p, after) == {s \in call[p].on : read[p][s] # NoArray /\ read[p][s] # after[s]}

(* Whether the tool goes on to wait for a restart: config_set by what        *)
(* changed, the others by restartsFor, whose look-up may fail.              *)
WaitPlaces(p, after) ==
  LET counted == IF call[p].op = "set" THEN Changed(p, after) ELSE call[p].on IN
  IF ~call[p].restart \/ counted \cap Restarting = {} THEN {"unlock"}
  ELSE IF call[p].op = "set" THEN {"waiting"} ELSE {"waiting", "unlock"}

(* FTL carries the write out and answers. *)
Serve(p) ==
  /\ pc[p] = "write"
  /\ \E w \in Requests(p) :
       /\ Accepted(w)
       /\ config' = After(w)
       /\ \E place \in WaitPlaces(p, After(w)) : Leave(p, place)
  /\ UNCHANGED <<lockVars, call, late>>

(* FTL refuses the write, or it was never sent, or no reply came and FTL may *)
(* still carry it out.                                                      *)
WriteFails(p) ==
  /\ pc[p] = "write" /\ Requests(p) # {}
  /\ \/ UNCHANGED late
     \/ Cardinality(late) < MaxLate /\ \E w \in Requests(p) : late' = late \cup {w}
  /\ Leave(p, "unlock")
  /\ UNCHANGED <<config, lockVars, call>>

(* AwaitRestart came to an end. *)
Restarted(p) ==
  /\ pc[p] = "waiting"
  /\ pc' = [pc EXCEPT ![p] = "unlock"]
  /\ UNCHANGED <<config, lockVars, call, read, late, touched>>

(* Bug: the unlock runs for the last setting only. *)
UnlockOne(p) ==
  /\ pc[p] = "unlock"
  /\ \E k \in holds[p] : (\A j \in holds[p] : j <= k) /\ Lock!GiveBack(p, k)
  /\ pc' = [pc EXCEPT ![p] = "idle"]
  /\ call' = [call EXCEPT ![p] = NoCall]
  /\ UNCHANGED <<config, read, late, touched>>

(* The unlock LockSettings returned: from the last setting to the first. *)
Unlock(p) ==
  /\ pc[p] = "unlock"
  /\ \E k \in holds[p] :
       /\ \A j \in holds[p] : j <= k
       /\ Lock!GiveBack(p, k)
       /\ IF holds[p] = {k}
          THEN /\ pc' = [pc EXCEPT ![p] = "idle"]
               /\ call' = [call EXCEPT ![p] = NoCall]
          ELSE UNCHANGED <<pc, call>>
  /\ UNCHANGED <<config, read, late, touched>>

----------------------------------------------------------------------------
(* Writers without a lock *)

(* They change the settings of S: a call that has read one is out of date. *)
Touch(S) ==
  touched' = [p \in Procs |->
    touched[p] \/ (pc[p] = "write" /\ call[p].on \cap S # {})]

Differ(c) == {s \in Settings : c[s] # config[s]}

(* teleporterImportHandler: the archive's configuration replaces FTL's. *)
Import(c) ==
  /\ \A s \in Settings : Valid(s, c[s])
  /\ config' = c
  /\ Touch(Differ(c))
  /\ UNCHANGED <<lockVars, pc, call, read, late>>

(* Pi-hole's web interface, another API client, another server. *)
Elsewhere(s, v) ==
  /\ Valid(s, v)
  /\ config' = [config EXCEPT ![s] = v]
  /\ Touch(Differ(config'))
  /\ UNCHANGED <<lockVars, pc, call, read, late>>

(* FTL gets round to a write whose sender has given up, or never will. *)
ServeLate(w) ==
  /\ w \in late
  /\ late' = late \ {w}
  /\ \/ Accepted(w) /\ config' = After(w) /\ Touch(Differ(config'))
     \/ UNCHANGED <<config, touched>>
  /\ UNCHANGED <<lockVars, pc, call, read>>

Next ==
  \/ \E p \in Procs :
       \/ \E c \in Calls : Begin(p, c)
       \/ TakeLock(p) \/ Read(p) \/ SetUnread(p) \/ Refuse(p)
       \/ Serve(p) \/ WriteFails(p) \/ Restarted(p) \/ Unlock(p)
  \/ \E c \in [Settings -> Given] : Import(c)
  \/ \E s \in Settings, v \in Given : Elsewhere(s, v)
  \/ \E w \in late : ServeLate(w)

Spec == Init /\ [][Next]_vars

----------------------------------------------------------------------------

Writes == [on : SUBSET Settings, less : [Settings -> Arrays],
           more : [Settings -> Arrays], whole : BOOLEAN]

TypeOK ==
  /\ config \in [Settings -> Arrays]
  /\ asked \in [Procs -> SUBSET Settings]
  /\ holds \in [Procs -> SUBSET Settings]
  /\ pc \in [Procs -> Places]
  /\ call \in [Procs -> Calls]
  /\ read \in [Procs -> [Settings -> Arrays \cup {NoArray}]]
  /\ late \in SUBSET Writes
  /\ touched \in [Procs -> BOOLEAN]

(* A handler that has returned holds no lock and waits for none. *)
LocksReturned ==
  \A p \in Procs : pc[p] = "idle" => asked[p] = {} /\ holds[p] = {}

(* p's step is FTL carrying out p's write. *)
Served(p) == pc[p] = "write" /\ pc'[p] # "write" /\ config' # config

(* What is left of the array v without the name of a drop. *)
Without(n, v) == UNION {{l \ n} \ {{}} : l \in v}

(* localdns.go: "Held from the read to the write, so a concurrent change to *)
(* the same setting cannot be lost between them", and "Only the requested   *)
(* alias goes; the rest stay": removing a name leaves every line without it *)
(* and every other name of its own line as they are when FTL writes, with   *)
(* whatever the server's other writers added or removed since the read, if  *)
(* nothing but writers that take the lock did.                              *)
DropsOneName ==
  [][\A p \in Procs :
       Served(p) /\ call[p].op = "drop" /\ ~touched[p] =>
         \A s \in Settings :
           config'[s] = IF s \in call[p].on THEN Without(call[p].line, config[s])
                        ELSE config[s]]_vars

(* config.go: what config_set reports as changed, and waits for, is what its *)
(* own write changed: not what another writer did between its read and it.  *)
ReportsOwnChange ==
  [][\A p \in Procs :
       Served(p) /\ call[p].op = "set" /\ ~touched[p] /\ read[p] # Unread =>
         /\ Changed(p, config') = Differ(config')
         /\ pc'[p] = "waiting" <=>
              call[p].restart /\ Differ(config') \cap Restarting # {}]_vars
=============================================================================
