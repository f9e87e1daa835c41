------------------------------ MODULE Backups ------------------------------
(***************************************************************************)
(* internal/tools/backups.go and teleporter.go: archives of a Pi-hole's     *)
(* configuration, as files on the server's host.                           *)
(*                                                                         *)
(* An export, an import that keeps a rollback point, and a sync that does   *)
(* (exportSnapshot) first remove the stale archives this server has named,  *)
(* then ask for an archive, and only then create the file for it, which may *)
(* fail half way.  Each is a sequence of steps on the file system, and      *)
(* several run at a time, beside users who delete and add files.            *)
(*                                                                         *)
(* A path names a file; a file keeps its identity and contents however it   *)
(* is named, and a call that opened one reads it though it was removed.     *)
(* Time goes in steps of at most staleBackupAge, and a call takes less.     *)
(***************************************************************************)
EXTENDS Integers, FiniteSets, Sequences, TLC

CONSTANTS
  Calls,
  Paths,
  Temp,        \* those in the system temp directory,
  Dir,         \* and those in PIHOLE_BACKUP_DIR
  Generated,   \* those of the form the server generates
  MaxFiles, MaxConfig, MaxDay,  \* bounds
  Toml, Leases, Databases, Usual, Others, Unset, Unread,   \* see ImportPlan
  Archives,    \* what an archive may hold
  GravityAt    \* the gravity database's location in each configuration

Plan == INSTANCE ImportPlan

StaleAge == 1
NoFile   == 0
NoPath   == "none"
Files    == 1..MaxFiles

ASSUME BackupsAssumption ==
  /\ Temp \cup Dir \cup Generated \subseteq Paths /\ Temp \cap Dir = {} /\ NoPath \notin Paths
  /\ MaxFiles \in Nat /\ MaxConfig \in Nat /\ MaxDay \in Nat
  /\ Plan!ImportAssumption /\ Archives \subseteq Seq(Plan!Entries)
  /\ GravityAt \in [0..MaxConfig -> Databases]

VARIABLES
  confined,  \* PIHOLE_BACKUP_DIR is set
  at,        \* the file at each path
  file,      \* each file: the configuration it holds, whether it is whole, its age
  made,      \* how many files were ever made
  call,      \* the calls
  config,    \* the configuration of the Pi-hole
  day,
  saved      \* history: the backups reported as saved, and when

vars == <<confined, at, file, made, call, config, day, saved>>

Idle == [pc |-> "idle", path |-> NoPath, began |-> 0, keep |-> NoFile,
         todo |-> {}, look |-> NoPath, looked |-> NoFile, out |-> NoPath, writes |-> NoFile,
         reads |-> NoFile, holds |-> 0, had |-> {}, backed |-> FALSE]
Blank == [config |-> 0, whole |-> FALSE, mtime |-> 0]

Init ==
  /\ confined \in BOOLEAN
  /\ at = [p \in Paths |-> NoFile] /\ file = [f \in Files |-> Blank] /\ made = 0
  /\ call = [c \in Calls |-> Idle]
  /\ config = 0 /\ day = 0 /\ saved = {}

----------------------------------------------------------------------------

Exists(p) == p # NoPath /\ at[p] # NoFile

(* reapedBackup, and which files reapStaleBackups may remove at all. *)
Reaped(p) == ~confined /\ p \in Temp \cap Generated

(* Bug: an archive is stale as soon as the day is over. *)
StaleSooner(f) == day - file[f].mtime >= StaleAge

Stale(f) == day - file[f].mtime > StaleAge

(* relInBackupDir. *)
Allowed(p) == confined => p \in Dir

(* The names os.CreateTemp may choose. *)
FreshPaths == {p \in (IF confined THEN Dir ELSE Temp) \cap Generated : ~Exists(p)}

(* reapStaleBackups lists the directory, and notes the file to keep. *)
Listed(c, path) ==
  [call[c] EXCEPT !.pc = "reap", !.began = day,
                  !.keep = IF Exists(path) THEN at[path] ELSE NoFile,
                  !.todo = {p \in Paths : Exists(p) /\ Reaped(p)}]

(* An export to a path, which passes checkOutputPath, or to none; or the      *)
(* rollback point of a sync, which is one to none.                           *)
Export(c, path) ==
  /\ call[c].pc = "idle"
  /\ path # NoPath => Allowed(path) /\ ~Exists(path)
  /\ call' = [call EXCEPT ![c] = [Listed(c, path) EXCEPT !.path = path]]
  /\ UNCHANGED <<confined, at, file, made, config, day, saved>>

(* openBackupForImport.  In plan mode a plan of the file is given, and that   *)
(* is all.                                                                   *)
Open(c, path) ==
  /\ call[c].pc = "idle"
  /\ Exists(path) /\ Allowed(path)
  /\ call' = [call EXCEPT ![c] = [@ EXCEPT !.pc = "opened", !.path = path,
                                     !.began = day, !.reads = at[path]]]
  /\ UNCHANGED <<confined, at, file, made, config, day, saved>>

Import(c, snapshot) ==
  /\ call[c].pc = "opened"
  /\ call' = [call EXCEPT ![c] =
                IF snapshot THEN [Listed(c, @.path) EXCEPT !.path = NoPath, !.had = {config}]
                ELSE [@ EXCEPT !.pc = "upload", !.path = NoPath]]
  /\ UNCHANGED <<confined, at, file, made, config, day, saved>>

(* The file at p is gone, and no call is to blame. *)
NotSaved(p) == {b \in saved : b.path # p}
Lost(p)     ==
  [c \in Calls |-> IF call[c].out = p THEN [call[c] EXCEPT !.backed = FALSE] ELSE call[c]]

(* Bug: the file a call is about is not kept. *)
KeptNone(c, p) == FALSE

Kept(c, p) == at[p] = call[c].keep

Found(c, p) == Exists(p) /\ Stale(at[p]) /\ ~Kept(c, p)

(* One entry of the listing: passed over, *)
Pass(c, p) ==
  /\ call[c].pc = "reap" /\ p \in call[c].todo
  /\ ~Found(c, p)
  /\ call' = [call EXCEPT ![c].todo = @ \ {p}]
  /\ UNCHANGED <<confined, at, file, made, config, day, saved>>

(* or found stale, *)
Look(c, p) ==
  /\ call[c].pc = "reap" /\ p \in call[c].todo
  /\ Found(c, p)
  /\ call' = [call EXCEPT ![c].pc = "remove", ![c].todo = @ \ {p},
                            ![c].look = p, ![c].looked = at[p]]
  /\ UNCHANGED <<confined, at, file, made, config, day, saved>>

(* and removed, by its name, if the system lets it.  In the moment since the  *)
(* look another call may have removed it and made a file of that name: Lost,  *)
(* and no concern of the properties.                                         *)
Remove(c) ==
  LET p == call[c].look IN
  /\ call[c].pc = "remove"
  /\ at' \in {at, [at EXCEPT ![p] = NoFile]}
  /\ LET next == IF at[p] = call[c].looked THEN call ELSE Lost(p) IN
     call' = [next EXCEPT ![c].pc = "reap", ![c].look = NoPath, ![c].looked = NoFile]
  /\ saved' = IF at[p] = call[c].looked THEN saved ELSE NotSaved(p)
  /\ UNCHANGED <<confined, file, made, config, day>>

(* openBackupStream: Pi-hole makes an archive of what it holds. *)
Fetch(c) ==
  /\ call[c].pc = "reap" /\ call[c].todo = {}
  /\ call' = [call EXCEPT ![c].pc = "create", ![c].holds = config, ![c].keep = NoFile]
  /\ UNCHANGED <<confined, at, file, made, config, day, saved>>

(* Bug: an existing file is opened, and truncated. *)
MayCreateAny(p) == TRUE

(* O_EXCL. *)
MayCreate(p) == ~Exists(p)

(* createBackupFile. *)
Create(c) ==
  /\ call[c].pc = "create" /\ made < MaxFiles
  /\ \E p \in IF call[c].path # NoPath THEN {call[c].path} ELSE FreshPaths :
       /\ MayCreate(p)
       /\ at' = [at EXCEPT ![p] = made + 1]
       /\ call' = [call EXCEPT ![c].pc = "copy", ![c].path = NoPath,
                               ![c].out = p, ![c].writes = made + 1]
  /\ file' = [file EXCEPT ![made + 1] = [config |-> call[c].holds, whole |-> FALSE, mtime |-> day]]
  /\ made' = made + 1
  /\ UNCHANGED <<confined, config, day, saved>>

(* The archive arrives whole, and the file can be closed. *)
CopyDone(c) ==
  LET f == call[c].writes IN
  /\ call[c].pc = "copy"
  /\ file' = [file EXCEPT ![f].whole = TRUE, ![f].mtime = day]
  /\ saved' = IF at[call[c].out] # f THEN saved
              ELSE saved \cup {[path |-> call[c].out, file |-> f, day |-> day]}
  /\ call' = [call EXCEPT ![c] = IF @.reads # NoFile
                                 THEN [@ EXCEPT !.pc = "upload", !.backed = (at[call[c].out] = f)]
                                 ELSE Idle]
  /\ UNCHANGED <<confined, at, made, config, day>>

(* Bug: the partial file stays. *)
CleanUpNone(c) == UNCHANGED at

CleanUp(c) == at' = [at EXCEPT ![call[c].out] = NoFile]

(* It does not: the partial file is removed, by its name, and the call is     *)
(* over.  If it was removed before, what has its name now is lost as well.    *)
CopyFails(c) ==
  LET ours == at[call[c].out] = call[c].writes IN
  /\ call[c].pc = "copy"
  /\ CleanUp(c)
  /\ saved' = IF ours THEN saved ELSE NotSaved(call[c].out)
  /\ call' = [IF ours THEN call ELSE Lost(call[c].out) EXCEPT ![c] = Idle]
  /\ UNCHANGED <<confined, file, made, config, day>>

(* Bug: an import goes on without the rollback point it could not save. *)
AbortGoesOn(c) ==
  /\ call[c].pc \in {"opened", "reap", "create"}
  /\ call' = [call EXCEPT ![c] = IF @.reads # NoFile THEN [@ EXCEPT !.pc = "upload"] ELSE Idle]
  /\ UNCHANGED <<confined, at, file, made, config, day, saved>>

(* The call ends early: in plan mode, refused, or for want of an archive or a *)
(* file to write it to.                                                      *)
Abort(c) ==
  /\ call[c].pc \in {"opened", "reap", "create"}
  /\ call' = [call EXCEPT ![c] = Idle]
  /\ UNCHANGED <<confined, at, file, made, config, day, saved>>

(* A call that keeps a rollback point sees the configuration change. *)
Sees(c, new) == IF call[c].had = {} THEN call[c] ELSE [call[c] EXCEPT !.had = @ \cup {new}]

(* The import replaces the configuration by that of the file, or is refused;  *)
(* a reply that was lost says neither.                                       *)
Upload(c) ==
  /\ call[c].pc = "upload"
  /\ config' \in {config} \cup (IF file[call[c].reads].whole THEN {file[call[c].reads].config} ELSE {})
  /\ call' = [d \in Calls |-> IF d = c THEN Idle ELSE Sees(d, config')]
  /\ UNCHANGED <<confined, at, file, made, day, saved>>

----------------------------------------------------------------------------
(* Users, and time *)

Reconfigure ==
  /\ config' \in 0..MaxConfig \ {config}
  /\ call' = [c \in Calls |-> Sees(c, config')]
  /\ UNCHANGED <<confined, at, file, made, day, saved>>

(* Users leave a file alone while it is written. *)
UserDeletes(p) ==
  /\ Exists(p) /\ file[at[p]].whole
  /\ at' = [at EXCEPT ![p] = NoFile]
  /\ saved' = NotSaved(p) /\ call' = Lost(p)
  /\ UNCHANGED <<confined, file, made, config, day>>

UserAdds(p) ==
  /\ ~Exists(p) /\ made < MaxFiles
  /\ at' = [at EXCEPT ![p] = made + 1]
  /\ file' = [file EXCEPT ![made + 1] = [config |-> config, whole |-> TRUE, mtime |-> day]]
  /\ made' = made + 1
  /\ UNCHANGED <<confined, call, config, day, saved>>

NextDay ==
  /\ day < MaxDay /\ \A c \in Calls : call[c].pc = "idle" \/ call[c].began = day
  /\ day' = day + 1
  /\ UNCHANGED <<confined, at, file, made, call, config, saved>>

Step(c) ==
  \/ \E p \in Paths : Export(c, p) \/ Open(c, p) \/ Pass(c, p) \/ Look(c, p)
  \/ Export(c, NoPath)
  \/ \E snapshot \in BOOLEAN : Import(c, snapshot)
  \/ Remove(c) \/ Fetch(c) \/ Create(c) \/ CopyDone(c) \/ CopyFails(c) \/ Abort(c) \/ Upload(c)

Next ==
  \/ \E c \in Calls : Step(c)
  \/ \E p \in Paths : UserDeletes(p) \/ UserAdds(p)
  \/ Reconfigure \/ NextDay

Spec == Init /\ [][Next]_vars

----------------------------------------------------------------------------

(* backups.go: with PIHOLE_BACKUP_DIR every file the server writes is there. *)
TypeOK ==
  /\ confined \in BOOLEAN /\ made \in 0..MaxFiles
  /\ at \in [Paths -> Files \cup {NoFile}]
  /\ config \in 0..MaxConfig /\ day \in 0..MaxDay
  /\ \A c \in Calls :
       /\ call[c].todo \subseteq Paths /\ call[c].reads \in Files \cup {NoFile}
       /\ confined => call[c].out \in Dir \cup {NoPath}

(* teleporter.go: "A truncated archive is worse than none: it looks like a    *)
(* backup until the day it is needed": a file that is not whole is being      *)
(* written.                                                                  *)
NoPartialLeft ==
  \A p \in Paths : Exists(p) /\ ~file[at[p]].whole =>
    \E c \in Calls : call[c].pc = "copy" /\ call[c].out = p

(* teleporter.go: a backup reported as saved is there, whole, for as long as  *)
(* the report says: "it removes after a day", or "The file persists on disk", *)
(* whatever the other calls do.                                              *)
SavedLasts ==
  \A b \in saved : ~Reaped(b.path) \/ day - b.day <= StaleAge =>
    at[b.path] = b.file /\ file[b.file].whole

(* backups.go: "a backup can never replace a file that is already there",     *)
(* even one that came to be while the archive was fetched.                   *)
NeverReplaced ==
  [][\A p \in Paths : at[p] # NoFile => at'[p] \in {at[p], NoFile}]_vars

(* backups.go: "the archive an import is about to read may be an old export,  *)
(* and the backup taken before that import used to delete it first": an       *)
(* import does not remove the file it reads.                                 *)
SourceKept ==
  [][\A c \in Calls : \A p \in Paths :
       call[c].pc = "remove" /\ call'[c].pc = "reap" /\ at[p] = call[c].reads =>
         at'[p] = at[p]]_vars

Backed(c) ==
  LET f == at[call[c].out] IN
  Exists(call[c].out) /\ file[f].whole /\ file[f].config \in call[c].had

(* teleporter.go: "An import replaces whole parts of the configuration and    *)
(* cannot be undone through the API, so the current state is kept first": an  *)
(* import that was to keep a rollback point uploads only with a whole file    *)
(* in place of a configuration the Pi-hole had since it began, unless that    *)
(* file was taken away.                                                      *)
RollbackFirst ==
  \A c \in Calls :
    call[c].pc = "upload" /\ call[c].had # {} =>
      call[c].writes # NoFile /\ (call[c].backed => Backed(c))

(* Whether every plan is right, of a Pi-hole with its database at g. *)
PlansRight ==
  [g \in Databases |->
     \A archive \in Archives, on \in SUBSET Plan!Options, answered \in BOOLEAN :
       Plan!Truthful(archive, g, answered, on)]

(* teleporter.go: the plan "lists what an archive holds and what an import    *)
(* with the given options would replace": unless it warns, it names the       *)
(* entries that an import now would replace parts of the Pi-hole by, though   *)
(* one of them changes which the next ones are.                              *)
PlanTruthful ==
  \A c \in Calls :
    call[c].pc = "opened" /\ file[call[c].reads].whole => PlansRight[GravityAt[config]]
=============================================================================
