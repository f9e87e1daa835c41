---------------------------- MODULE BackupsProofs ----------------------------
(***************************************************************************)
(* A backup reported as saved stays, whole, for as long as it was said to,  *)
(* and an import that was to keep a rollback point has it: for any number   *)
(* of calls, files and users.  What it rests on is that a file that is      *)
(* found stale is older than any call that is at work.                      *)
(***************************************************************************)
EXTENDS Backups, WellFoundedInduction, TLAPS

MaybeFile == Files \cup {NoFile}
MaybePath == Paths \cup {NoPath}

Places == {"idle", "opened", "reap", "remove", "create", "copy", "upload"}

CallRecords ==
  [pc : Places, path : MaybePath, began : 0..MaxDay, keep : MaybeFile,
   todo : SUBSET Paths, look : MaybePath, looked : MaybeFile, out : MaybePath,
   writes : MaybeFile, reads : MaybeFile, holds : 0..MaxConfig,
   had : SUBSET (0..MaxConfig), backed : BOOLEAN]

FileRecords == [config : 0..MaxConfig, whole : BOOLEAN, mtime : 0..MaxDay]

Typed ==
  /\ confined \in BOOLEAN /\ made \in 0..MaxFiles
  /\ at \in [Paths -> MaybeFile]
  /\ file \in [Files -> FileRecords]
  /\ call \in [Calls -> CallRecords]
  /\ config \in 0..MaxConfig /\ day \in 0..MaxDay
  /\ saved \in SUBSET [path : Paths, file : Files, day : 0..MaxDay]

(* With PIHOLE_BACKUP_DIR set, what a call names is in it. *)
Confined ==
  \A c \in Calls : confined =>
    call[c].path \in Dir \cup {NoPath} /\ call[c].out \in Dir \cup {NoPath}

(* No file has two names, and none has one before it was made. *)
OneName ==
  \A p, q \in Paths : at[p] # NoFile =>
    at[p] <= made /\ (at[p] = at[q] => p = q)

(* What is not whole is being written, by one call. *)
Writing(c, f) == call[c].pc = "copy" /\ call[c].writes = f

PartialsWritten ==
  \A p \in Paths : at[p] # NoFile /\ ~file[at[p]].whole =>
    \E c \in Calls : Writing(c, at[p]) /\ call[c].out = p

OneWriter == \A c, d \in Calls, f \in Files : Writing(c, f) /\ Writing(d, f) => c = d

(* The report of a backup says when it was written. *)
SavedWhole ==
  \A b \in saved : b.file <= made /\ file[b.file].whole /\ file[b.file].mtime = b.day

(* A call takes less than a day, *)
InTime(c) ==
  /\ call[c].pc = "idle" => call[c].reads = NoFile /\ call[c].had = {}
  /\ call[c].pc # "idle" => call[c].began <= day /\ day <= call[c].began + 1

(* so what it found stale nobody is writing; and it is not what it reads. *)
Sources(c) ==
  LET r == call[c].reads IN
  /\ r <= made
  /\ call[c].pc \in {"opened", "upload"} => r # NoFile
  /\ call[c].pc = "opened" =>
       call[c].had = {} /\ \A p \in Paths : at[p] = r => p = call[c].path
  /\ call[c].pc \in {"reap", "remove"} /\ r # NoFile =>
       call[c].keep = r \/ \A p \in Paths : at[p] # r
  /\ call[c].pc \in {"reap", "remove"} => \A p \in call[c].todo : Reaped(p)
  /\ call[c].pc = "remove" =>
       /\ call[c].look \in Paths /\ Reaped(call[c].look)
       /\ call[c].looked \in Files /\ Stale(call[c].looked) /\ call[c].looked <= made
       /\ r # NoFile => at[call[c].look] # r

(* Where a rollback point comes from. *)
Rollback(c) ==
  LET f == call[c].writes IN
  /\ call[c].pc \in {"reap", "remove"} /\ call[c].had # {} => config \in call[c].had
  /\ call[c].pc = "create" /\ call[c].had # {} => call[c].holds \in call[c].had
  /\ call[c].pc = "copy" =>
       /\ call[c].out \in Paths /\ f \in Files /\ f <= made
       /\ ~file[f].whole /\ file[f].mtime >= call[c].began
       /\ call[c].had # {} => file[f].config \in call[c].had
  /\ call[c].pc = "upload" /\ call[c].had # {} =>
       /\ f \in Files /\ f <= made /\ file[f].mtime >= call[c].began
       /\ call[c].backed =>
            /\ call[c].out \in Paths /\ at[call[c].out] = f
            /\ file[f].whole /\ file[f].config \in call[c].had

FilesInv == OneName /\ PartialsWritten /\ OneWriter /\ SavedWhole /\ SavedLasts
CallsInv == \A c \in Calls : InTime(c) /\ Sources(c) /\ Rollback(c)

IInv == Typed /\ Confined /\ FilesInv /\ CallsInv

----------------------------------------------------------------------------
(* Types *)

LEMMA Numbers == NoFile = 0 /\ NoFile \notin Files /\ Files \subseteq Nat /\ MaxFiles \in Nat
                 /\ MaxConfig \in Nat /\ MaxDay \in Nat
                 /\ (\A f \in MaybeFile : f \in Int) /\ (\A d \in 0..MaxDay : d \in Int)
  BY BackupsAssumption DEF NoFile, Files, MaybeFile

LEMMA Locations ==
  Temp \subseteq Paths /\ Dir \subseteq Paths /\ Generated \subseteq Paths /\ NoPath \notin Paths
  BY BackupsAssumption

LEMMA IdleType == Idle \in CallRecords /\ Blank \in FileRecords
  BY Numbers DEF Idle, Blank, CallRecords, FileRecords, Places, MaybePath, MaybeFile

(* What a call's own steps make of its record. *)
LEMMA RecordType ==
  ASSUME NEW r \in CallRecords
  PROVE  /\ [r EXCEPT !.pc = "upload", !.path = NoPath] \in CallRecords
         /\ [r EXCEPT !.pc = "reap", !.look = NoPath, !.looked = NoFile] \in CallRecords
         /\ \A p \in Paths : [r EXCEPT !.todo = r.todo \ {p}] \in CallRecords
         /\ \A g \in 0..MaxConfig :
              [r EXCEPT !.pc = "create", !.holds = g, !.keep = NoFile] \in CallRecords
         /\ \A b \in BOOLEAN : [r EXCEPT !.pc = "upload", !.backed = b] \in CallRecords
<1>1. /\ {"upload", "reap", "create"} \subseteq Places
      /\ NoPath \in MaybePath /\ NoFile \in MaybeFile
  BY DEF Places, MaybePath, MaybeFile
<1>2. \A p \in Paths : r.todo \ {p} \in SUBSET Paths
  BY DEF CallRecords
<1> QED
  BY <1>1, <1>2 DEF CallRecords

LEMMA FileRecordType ==
  ASSUME NEW r \in CallRecords, NEW p \in Paths, NEW f \in MaybeFile, NEW d \in 0..MaxDay
  PROVE  /\ [r EXCEPT !.pc = "opened", !.path = p, !.began = d, !.reads = f] \in CallRecords
         /\ [r EXCEPT !.pc = "remove", !.todo = r.todo \ {p}, !.look = p, !.looked = f]
              \in CallRecords
         /\ [r EXCEPT !.pc = "copy", !.path = NoPath, !.out = p, !.writes = f] \in CallRecords
<1>1. /\ {"opened", "remove", "copy"} \subseteq Places
      /\ NoPath \in MaybePath /\ p \in MaybePath /\ r.todo \ {p} \in SUBSET Paths
  BY DEF Places, MaybePath, CallRecords
<1> QED
  BY <1>1 DEF CallRecords

LEMMA ListedType ==
  ASSUME Typed, NEW c \in Calls, NEW path \in MaybePath
  PROVE  /\ Listed(c, path) \in CallRecords
         /\ [Listed(c, path) EXCEPT !.path = path] \in CallRecords
         /\ [Listed(c, path) EXCEPT !.path = NoPath, !.had = {config}] \in CallRecords
<1>1. (IF Exists(path) THEN at[path] ELSE NoFile) \in MaybeFile
  BY DEF Typed, Exists, MaybeFile, MaybePath
<1>2. {p \in Paths : Exists(p) /\ Reaped(p)} \in SUBSET Paths
  OBVIOUS
<1>3. call[c] \in CallRecords /\ day \in 0..MaxDay /\ {config} \in SUBSET (0..MaxConfig)
  BY DEF Typed
<1>4. "reap" \in Places /\ NoPath \in MaybePath
  BY DEF Places, MaybePath
<1>5. Listed(c, path) \in CallRecords
  BY <1>1, <1>2, <1>3, <1>4 DEF Listed, CallRecords
<1>6. ASSUME NEW r \in CallRecords
      PROVE  /\ [r EXCEPT !.path = path] \in CallRecords
             /\ [r EXCEPT !.path = NoPath, !.had = {config}] \in CallRecords
  BY <1>3, <1>4 DEF CallRecords
<1> QED
  BY <1>5, <1>6

(* What others do to a call's record keeps its type. *)
LEMMA LostType ==
  ASSUME Typed, NEW p
  PROVE  Lost(p) \in [Calls -> CallRecords]
<1>1. ASSUME NEW c \in Calls
      PROVE  call[c] \in CallRecords /\ [call[c] EXCEPT !.backed = FALSE] \in CallRecords
  <2>1. call[c] \in CallRecords
    BY DEF Typed
  <2> QED
    BY <2>1 DEF CallRecords
<1> QED
  BY <1>1 DEF Lost

LEMMA SeesType ==
  ASSUME Typed, NEW c \in Calls, NEW new \in 0..MaxConfig
  PROVE  Sees(c, new) \in CallRecords
<1>1. [call[c] EXCEPT !.had = @ \cup {new}] \in CallRecords
  BY DEF Typed, CallRecords
<1> QED
  BY <1>1 DEF Sees, Typed

(* The file a call creates has a path, where there was none. *)
CreatedAt(c, p) ==
  /\ at[p] = NoFile
  /\ at' = [at EXCEPT ![p] = made + 1]
  /\ call' = [call EXCEPT ![c].pc = "copy", ![c].path = NoPath,
                          ![c].out = p, ![c].writes = made + 1]
  /\ confined => p \in Dir \/ p = call[c].path

LEMMA CreatesAPath ==
  ASSUME Typed, NEW c \in Calls, Create(c)
  PROVE  \E p \in Paths : CreatedAt(c, p)
<1>1. call[c].path \in Paths \cup {NoPath}
  BY DEF Typed, CallRecords, MaybePath
<1>2. PICK p \in IF call[c].path # NoPath THEN {call[c].path} ELSE FreshPaths :
        /\ MayCreate(p)
        /\ at' = [at EXCEPT ![p] = made + 1]
        /\ call' = [call EXCEPT ![c].pc = "copy", ![c].path = NoPath,
                                ![c].out = p, ![c].writes = made + 1]
  BY DEF Create
<1>3. p \in Paths /\ (confined => p \in Dir \/ p = call[c].path)
  BY <1>1, <1>2, Locations DEF FreshPaths
<1>4. p # NoPath
  BY <1>3, Locations
<1> QED
  BY <1>2, <1>3, <1>4 DEF CreatedAt, MayCreate, Exists

LEMMA TypeStep == IInv /\ [Next]_vars => Typed'
<1> SUFFICES ASSUME Typed, CallsInv, [Next]_vars PROVE Typed'
  BY DEF IInv
<1> USE DEF Typed
<1>1. ASSUME NEW c \in Calls, NEW path \in MaybePath, Export(c, path) PROVE Typed'
  BY <1>1, ListedType DEF Export
<1>2. ASSUME NEW c \in Calls, NEW p \in Paths, Open(c, p) PROVE Typed'
  <2>1. [call[c] EXCEPT !.pc = "opened", !.path = p, !.began = day, !.reads = at[p]] \in CallRecords
    <3>1. at[p] \in MaybeFile /\ call[c] \in CallRecords /\ day \in 0..MaxDay
      OBVIOUS
    <3> HIDE DEF Typed
    <3> QED
      BY <3>1, FileRecordType
  <2> QED
    BY <1>2, <2>1 DEF Open
<1>3. ASSUME NEW c \in Calls, NEW snapshot \in BOOLEAN, Import(c, snapshot) PROVE Typed'
  <2>1. [Listed(c, call[c].path) EXCEPT !.path = NoPath, !.had = {config}] \in CallRecords
    <3>1. call[c].path \in MaybePath
      BY DEF CallRecords
    <3> QED
      BY <3>1, ListedType
  <2>2. [call[c] EXCEPT !.pc = "upload", !.path = NoPath] \in CallRecords
    BY RecordType
  <2> QED
    BY <1>3, <2>1, <2>2 DEF Import
<1>4. ASSUME NEW c \in Calls, NEW p \in Paths, Pass(c, p) PROVE Typed'
  <2>1. [call[c] EXCEPT !.todo = @ \ {p}] \in CallRecords
    <3>1. call[c] \in CallRecords
      OBVIOUS
    <3> HIDE DEF Typed
    <3> QED
      BY <3>1, RecordType
  <2> QED
    BY <1>4, <2>1 DEF Pass
<1>5. ASSUME NEW c \in Calls, NEW p \in Paths, Look(c, p) PROVE Typed'
  <2>1. [call[c] EXCEPT !.pc = "remove", !.todo = @ \ {p}, !.look = p, !.looked = at[p]]
          \in CallRecords
    <3>1. at[p] \in MaybeFile /\ call[c] \in CallRecords /\ day \in 0..MaxDay
      OBVIOUS
    <3> HIDE DEF Typed
    <3> QED
      BY <3>1, FileRecordType
  <2> QED
    BY <1>5, <2>1 DEF Look
<1>6. ASSUME NEW c \in Calls, Remove(c) PROVE Typed'
  <2>1. at' \in [Paths -> MaybeFile]
    BY <1>6 DEF Remove, MaybeFile
  <2>2. ASSUME NEW next \in [Calls -> CallRecords]
        PROVE  [next EXCEPT ![c].pc = "reap", ![c].look = NoPath, ![c].looked = NoFile]
                 \in [Calls -> CallRecords]
    <3>1. [next[c] EXCEPT !.pc = "reap", !.look = NoPath, !.looked = NoFile] \in CallRecords
      BY RecordType
    <3> QED
      BY <3>1
  <2>3. Lost(call[c].look) \in [Calls -> CallRecords]
    BY LostType
  <2>4. saved' \subseteq saved
    BY <1>6 DEF Remove, NotSaved
  <2> QED
    BY <1>6, <2>1, <2>2, <2>3, <2>4 DEF Remove
<1>7. ASSUME NEW c \in Calls, Fetch(c) PROVE Typed'
  <2>1. [call[c] EXCEPT !.pc = "create", !.holds = config, !.keep = NoFile] \in CallRecords
    BY RecordType
  <2> QED
    BY <1>7, <2>1 DEF Fetch
<1>8. ASSUME NEW c \in Calls, Create(c) PROVE Typed'
  <2>1. made + 1 \in Files /\ made' = made + 1
    BY <1>8, Numbers DEF Create, Files
  <2>2. PICK p \in Paths : CreatedAt(c, p)
    BY <1>8, CreatesAPath
  <2>3. [call[c] EXCEPT !.pc = "copy", !.path = NoPath, !.out = p, !.writes = made + 1] \in CallRecords
    <3>1. made + 1 \in MaybeFile /\ call[c] \in CallRecords /\ 0 \in 0..MaxDay
      BY <2>1, Numbers DEF MaybeFile
    <3> HIDE DEF Typed
    <3> QED
      BY <2>2, <3>1, FileRecordType
  <2>4. [config |-> call[c].holds, whole |-> FALSE, mtime |-> day] \in FileRecords
    BY DEF CallRecords, FileRecords
  <2>5. made' \in 0..MaxFiles
    BY <2>1, Numbers DEF Files
  <2> QED
    BY <1>8, <2>1, <2>2, <2>3, <2>4, <2>5 DEF Create, CreatedAt, MaybeFile
<1>9. ASSUME NEW c \in Calls, CopyDone(c) PROVE Typed'
  <2>1. call[c].writes \in Files /\ call[c].out \in Paths
    BY <1>9 DEF CopyDone, CallsInv, Rollback
  <2>2. [file[call[c].writes] EXCEPT !.whole = TRUE, !.mtime = day] \in FileRecords
    BY <2>1 DEF FileRecords
  <2>3. [call[c] EXCEPT !.pc = "upload", !.backed = (at[call[c].out] = call[c].writes)] \in CallRecords
    <3>1. call[c] \in CallRecords /\ (at[call[c].out] = call[c].writes) \in BOOLEAN
      OBVIOUS
    <3> HIDE DEF Typed
    <3> QED
      BY <3>1, RecordType
  <2>4. saved' \subseteq saved \cup {[path |-> call[c].out, file |-> call[c].writes, day |-> day]}
    BY <1>9 DEF CopyDone
  <2>5. call' \in [Calls -> CallRecords]
    BY <1>9, <2>3, IdleType DEF CopyDone
  <2>6. file' \in [Files -> FileRecords]
    BY <1>9, <2>1, <2>2 DEF CopyDone
  <2> QED
    BY <1>9, <2>1, <2>4, <2>5, <2>6 DEF CopyDone
<1>10. ASSUME NEW c \in Calls, CopyFails(c) PROVE Typed'
  <2>1. at' \in [Paths -> MaybeFile]
    BY <1>10 DEF CopyFails, CleanUp, MaybeFile
  <2>2. call' \in [Calls -> CallRecords]
    BY <1>10, IdleType, LostType DEF CopyFails
  <2>3. saved' \subseteq saved
    BY <1>10 DEF CopyFails, NotSaved
  <2> QED
    BY <1>10, <2>1, <2>2, <2>3 DEF CopyFails
<1>11. ASSUME NEW c \in Calls, Abort(c) PROVE Typed'
  BY <1>11, IdleType DEF Abort
<1>12. ASSUME NEW c \in Calls, Upload(c) PROVE Typed'
  <2>1. config' \in 0..MaxConfig
    <3>1. call[c].reads \in Files
      BY <1>12 DEF Upload, CallsInv, Sources, CallRecords, MaybeFile
    <3> QED
      BY <1>12, <3>1 DEF Upload, FileRecords
  <2>2. call' \in [Calls -> CallRecords]
    BY <1>12, <2>1, SeesType, IdleType DEF Upload
  <2> QED
    BY <1>12, <2>1, <2>2 DEF Upload
<1>13. ASSUME Reconfigure PROVE Typed'
  BY <1>13, SeesType DEF Reconfigure
<1>14. ASSUME NEW p \in Paths, UserDeletes(p) PROVE Typed'
  BY <1>14, LostType DEF UserDeletes, NotSaved, MaybeFile
<1>15. ASSUME NEW p \in Paths, UserAdds(p) PROVE Typed'
  <2>1. made + 1 \in Files /\ made' = made + 1 /\ made' \in 0..MaxFiles
    BY <1>15, Numbers DEF UserAdds, Files
  <2> QED
    BY <1>15, <2>1 DEF UserAdds, FileRecords, MaybeFile
<1>16. ASSUME NextDay PROVE Typed'
  BY <1>16, Numbers DEF NextDay
<1>17. CASE UNCHANGED vars
  BY <1>17 DEF vars
<1> QED
  BY <1>1, <1>2, <1>3, <1>4, <1>5, <1>6, <1>7, <1>8, <1>9, <1>10, <1>11, <1>12,
     <1>13, <1>14, <1>15, <1>16, <1>17 DEF Next, Step, MaybePath

----------------------------------------------------------------------------
(* What a step may do to the files, and to the calls of others *)

(* A path loses its file, or gets a new one where it had none. *)
AtStep ==
  \/ at' = at /\ made' = made
  \/ \E p \in Paths : at' = [at EXCEPT ![p] = NoFile] /\ made' = made
  \/ \E p \in Paths : /\ at[p] = NoFile /\ made + 1 \in Files /\ made' = made + 1
                      /\ at' = [at EXCEPT ![p] = made + 1]

(* A file that was made stays as it is, unless the call that writes it ends. *)
Finished(f) ==
  /\ file'[f].config = file[f].config /\ file'[f].whole /\ file'[f].mtime = day
  /\ \E e \in Calls : Writing(e, f) /\ call'[e].pc # "copy"

FileStep == \A f \in Files : f <= made => file'[f] = file[f] \/ Finished(f)

LEMMA FilesStep ==
  ASSUME IInv, Next
  PROVE  AtStep /\ FileStep
<1> USE DEF IInv, Typed
<1>1. ASSUME NEW c \in Calls, NEW path \in MaybePath, Export(c, path) PROVE AtStep /\ FileStep
  BY <1>1 DEF Export, AtStep, FileStep
<1>2. ASSUME NEW c \in Calls, NEW p \in Paths, Open(c, p) \/ Pass(c, p) \/ Look(c, p)
      PROVE  AtStep /\ FileStep
  BY <1>2 DEF Open, Pass, Look, AtStep, FileStep
<1>3. ASSUME NEW c \in Calls, \/ \E snapshot \in BOOLEAN : Import(c, snapshot)
                              \/ Fetch(c) \/ Abort(c) \/ Upload(c)
      PROVE  AtStep /\ FileStep
  BY <1>3 DEF Import, Fetch, Abort, Upload, AtStep, FileStep
<1>4. ASSUME NEW c \in Calls, Remove(c) PROVE AtStep /\ FileStep
  BY <1>4 DEF Remove, AtStep, FileStep, CallsInv, Sources
<1>5. ASSUME NEW c \in Calls, Create(c) PROVE AtStep /\ FileStep
  <2>1. made + 1 \in Files /\ made' = made + 1
    BY <1>5, Numbers DEF Create, Files
  <2>2. PICK p \in Paths : CreatedAt(c, p)
    BY <1>5, CreatesAPath
  <2>3. \A f \in Files : f <= made => file'[f] = file[f]
    BY <1>5, <2>1, Numbers DEF Create
  <2> QED
    BY <2>1, <2>2, <2>3 DEF AtStep, FileStep, CreatedAt
<1>6. ASSUME NEW c \in Calls, CopyDone(c) PROVE AtStep /\ FileStep
  <2>1. call[c].writes \in Files
    BY <1>6 DEF CopyDone, CallsInv, Rollback
  <2>2. call'[c].pc # "copy" /\ Writing(c, call[c].writes)
    <3>1. call'[c].pc \in {"upload", "idle"}
      BY <1>6 DEF CopyDone, Idle, CallRecords
    <3> QED
      BY <1>6, <3>1 DEF CopyDone, Writing
  <2>3. /\ file'[call[c].writes].config = file[call[c].writes].config
        /\ file'[call[c].writes].whole /\ file'[call[c].writes].mtime = day
    BY <1>6, <2>1 DEF CopyDone, FileRecords
  <2>4. \A f \in Files : f # call[c].writes => file'[f] = file[f]
    BY <1>6, <2>1 DEF CopyDone
  <2>5. at' = at /\ made' = made
    BY <1>6 DEF CopyDone
  <2> QED
    BY <2>2, <2>3, <2>4, <2>5 DEF AtStep, FileStep, Finished
<1>7. ASSUME NEW c \in Calls, CopyFails(c) PROVE AtStep /\ FileStep
  BY <1>7 DEF CopyFails, CleanUp, AtStep, FileStep, CallsInv, Rollback
<1>8. ASSUME Reconfigure \/ NextDay PROVE AtStep /\ FileStep
  BY <1>8 DEF Reconfigure, NextDay, AtStep, FileStep
<1>9. ASSUME NEW p \in Paths, UserDeletes(p) PROVE AtStep /\ FileStep
  BY <1>9 DEF UserDeletes, AtStep, FileStep
<1>10. ASSUME NEW p \in Paths, UserAdds(p) PROVE AtStep /\ FileStep
  <2>1. made + 1 \in Files /\ made' = made + 1 /\ NoPath # p
    BY <1>10, Numbers, Locations DEF UserAdds, Files
  <2>2. at[p] = NoFile /\ at' = [at EXCEPT ![p] = made + 1]
    BY <1>10, <2>1 DEF UserAdds, Exists
  <2>3. \A f \in Files : f <= made => file'[f] = file[f]
    BY <1>10, <2>1, Numbers DEF UserAdds
  <2> QED
    BY <2>1, <2>2, <2>3 DEF AtStep, FileStep
<1> QED
  BY <1>1, <1>2, <1>3, <1>4, <1>5, <1>6, <1>7, <1>8, <1>9, <1>10 DEF Next, Step, MaybePath

(* Of a call another step leaves alone only the configurations it saw grow,   *)
(* and its rollback point may be lost.                                       *)
Alone(d) ==
  /\ call'[d].pc = call[d].pc /\ call'[d].path = call[d].path
  /\ call'[d].began = call[d].began /\ call'[d].keep = call[d].keep
  /\ call'[d].todo = call[d].todo /\ call'[d].look = call[d].look
  /\ call'[d].looked = call[d].looked /\ call'[d].out = call[d].out
  /\ call'[d].writes = call[d].writes /\ call'[d].reads = call[d].reads
  /\ call'[d].holds = call[d].holds
  /\ call'[d].backed => call[d].backed
  /\ call[d].had \subseteq call'[d].had /\ (call[d].had = {} => call'[d].had = {})
  /\ call[d].had # {} => config' = config \/ config' \in call'[d].had

LEMMA LostAlone ==
  ASSUME Typed, config' = config, NEW p, NEW d \in Calls, call'[d] = Lost(p)[d]
  PROVE  Alone(d)
<1>1. call[d] \in CallRecords
  BY DEF Typed
<1>2. CASE call[d].out = p
  <2>1. call'[d] = [call[d] EXCEPT !.backed = FALSE]
    BY <1>2 DEF Lost
  <2> QED
    BY <1>1, <2>1 DEF Alone, CallRecords
<1>3. CASE call[d].out # p
  BY <1>3 DEF Lost, Alone
<1> QED
  BY <1>2, <1>3

LEMMA SeesAlone ==
  ASSUME Typed, NEW d \in Calls, call'[d] = Sees(d, config')
  PROVE  Alone(d)
<1>1. call[d] \in CallRecords
  BY DEF Typed
<1>2. CASE call[d].had = {}
  BY <1>2 DEF Sees, Alone
<1>3. CASE call[d].had # {}
  <2>1. call'[d] = [call[d] EXCEPT !.had = @ \cup {config'}]
    BY <1>3 DEF Sees
  <2> QED
    BY <1>1, <1>3, <2>1 DEF Alone, CallRecords
<1> QED
  BY <1>2, <1>3

(* The calls a step is not of are left alone by it. *)
LEMMA OthersAlone ==
  ASSUME IInv, NEW c \in Calls, Step(c), NEW d \in Calls, d # c
  PROVE  Alone(d) /\ day' = day
<1> USE DEF IInv
<1>1. call \in [Calls -> CallRecords]
  BY DEF Typed
<1>2. ASSUME call'[d] = call[d], config' = config PROVE Alone(d)
  BY <1>2 DEF Alone
<1>3. ASSUME NEW path \in MaybePath, Export(c, path) PROVE Alone(d) /\ day' = day
  BY <1>1, <1>2, <1>3 DEF Export
<1>4. ASSUME NEW p \in Paths, Open(c, p) \/ Pass(c, p) \/ Look(c, p) PROVE Alone(d) /\ day' = day
  BY <1>1, <1>2, <1>4 DEF Open, Pass, Look
<1>5. ASSUME \/ \E snapshot \in BOOLEAN : Import(c, snapshot)
             \/ Fetch(c) \/ Abort(c) \/ CopyDone(c)
      PROVE  Alone(d) /\ day' = day
  BY <1>1, <1>2, <1>5 DEF Import, Fetch, Abort, CopyDone
<1>6. ASSUME Create(c) PROVE Alone(d) /\ day' = day
  <2>1. PICK p \in Paths : CreatedAt(c, p)
    BY <1>6, CreatesAPath
  <2> QED
    BY <1>1, <1>2, <1>6, <2>1 DEF Create, CreatedAt
<1>7. ASSUME Remove(c) PROVE Alone(d) /\ day' = day
  <2>1. call'[d] = call[d] \/ call'[d] = Lost(call[c].look)[d]
    BY <1>1, <1>7, LostType DEF Remove
  <2> QED
    BY <1>2, <1>7, <2>1, LostAlone DEF Remove
<1>8. ASSUME CopyFails(c) PROVE Alone(d) /\ day' = day
  <2>1. call'[d] = call[d] \/ call'[d] = Lost(call[c].out)[d]
    BY <1>1, <1>8, LostType DEF CopyFails
  <2> QED
    BY <1>2, <1>8, <2>1, LostAlone DEF CopyFails
<1>9. ASSUME Upload(c) PROVE Alone(d) /\ day' = day
  <2>1. call'[d] = Sees(d, config')
    BY <1>9 DEF Upload
  <2> QED
    BY <1>9, <2>1, SeesAlone DEF Upload
<1> QED
  BY <1>3, <1>4, <1>5, <1>6, <1>7, <1>8, <1>9 DEF Step, MaybePath

(* So are all, by what users do. *)
LEMMA UsersLeaveAlone ==
  ASSUME IInv, NEW d \in Calls,
         Reconfigure \/ \E p \in Paths : UserDeletes(p) \/ UserAdds(p)
  PROVE  Alone(d) /\ day' = day
<1> USE DEF IInv
<1>1. ASSUME Reconfigure PROVE Alone(d) /\ day' = day
  BY <1>1, SeesAlone DEF Reconfigure
<1>2. ASSUME NEW p \in Paths, UserDeletes(p) PROVE Alone(d) /\ day' = day
  BY <1>2, LostAlone DEF UserDeletes
<1>3. ASSUME NEW p \in Paths, UserAdds(p) PROVE Alone(d) /\ day' = day
  BY <1>3 DEF UserAdds, Alone
<1> QED
  BY <1>1, <1>2, <1>3

(* A file a call at work wrote is not stale, *)
LEMMA NotStale ==
  ASSUME IInv, NEW d \in Calls, call[d].writes \in Files,
         \/ call[d].pc = "copy"
         \/ call[d].pc = "upload" /\ call[d].had # {}
  PROVE  ~Stale(call[d].writes)
<1>1. /\ call[d].began \in Int /\ day \in Int /\ file[call[d].writes].mtime \in Int
  <2>1. call[d] \in CallRecords /\ day \in 0..MaxDay /\ file[call[d].writes] \in FileRecords
    BY DEF IInv, Typed
  <2> QED
    BY <2>1, Numbers DEF CallRecords, FileRecords
<1>2. file[call[d].writes].mtime >= call[d].began /\ day <= call[d].began + 1
  BY DEF IInv, CallsInv, InTime, Rollback
<1> QED
  BY <1>1, <1>2 DEF Stale, StaleAge

(* and a rollback point no user took away is in its place after the step.     *)
BackedStays(d) ==
  call'[d].backed /\ call[d].pc = "upload" /\ call[d].had # {} =>
    at'[call[d].out] = at[call[d].out]

LEMMA OthersBacked ==
  ASSUME IInv, NEW c \in Calls, Step(c), NEW d \in Calls, d # c
  PROVE  BackedStays(d)
<1> SUFFICES ASSUME call'[d].backed, call[d].pc = "upload", call[d].had # {}
             PROVE  at'[call[d].out] = at[call[d].out]
  BY DEF BackedStays
<1> DEFINE f == call[d].writes
<1>1. call[d].backed
  BY OthersAlone DEF Alone
<1>2. f \in Files /\ at[call[d].out] = f /\ call[d].out \in Paths /\ file[f].whole
  BY <1>1 DEF IInv, CallsInv, Rollback
<1>3. at \in [Paths -> MaybeFile] /\ call \in [Calls -> CallRecords]
  BY DEF IInv, Typed
<1>4. CASE at' = at
  BY <1>4
<1>5. CASE Create(c)
  <2>1. PICK p \in Paths : CreatedAt(c, p)
    BY <1>5, CreatesAPath DEF IInv
  <2>2. p # call[d].out
    BY <1>2, <2>1, Numbers DEF CreatedAt
  <2> QED
    BY <1>2, <1>3, <2>1, <2>2 DEF CreatedAt
<1>6. CASE Remove(c)
  <2>1. /\ call[c].look \in Paths /\ Stale(call[c].looked)
    BY <1>6 DEF Remove, IInv, CallsInv, Sources
  <2>2. CASE call[c].look # call[d].out
    BY <1>2, <1>3, <1>6, <2>2 DEF Remove
  <2>3. CASE call[c].look = call[d].out /\ f = call[c].looked
    BY <1>2, <2>1, <2>3, NotStale
  <2>4. CASE call[c].look = call[d].out /\ f # call[c].looked
    <3>1. call'[d] = Lost(call[d].out)[d]
      BY <1>2, <1>3, <1>6, <2>4, LostType DEF Remove, IInv
    <3>2. call'[d] = [call[d] EXCEPT !.backed = FALSE]
      BY <3>1 DEF Lost
    <3> QED
      BY <1>3, <3>2 DEF CallRecords
  <2> QED
    BY <2>2, <2>3, <2>4
<1>7. CASE CopyFails(c)
  <2>1. call[c].out \in Paths /\ ~file[call[c].writes].whole
    BY <1>7 DEF CopyFails, IInv, CallsInv, Rollback
  <2>2. CASE call[c].out # call[d].out
    BY <1>2, <1>3, <1>7, <2>2 DEF CopyFails, CleanUp
  <2>3. CASE call[c].out = call[d].out
    <3>1. call'[d] = Lost(call[d].out)[d]
      BY <1>2, <1>3, <1>7, <2>1, <2>3, LostType DEF CopyFails, IInv
    <3>2. call'[d] = [call[d] EXCEPT !.backed = FALSE]
      BY <3>1 DEF Lost
    <3> QED
      BY <1>3, <3>2 DEF CallRecords
  <2> QED
    BY <2>2, <2>3
<1> QED
  BY <1>4, <1>5, <1>6, <1>7
     DEF Step, Export, Open, Import, Pass, Look, Fetch, CopyDone, Abort, Upload

LEMMA UsersBacked ==
  ASSUME IInv, NEW d \in Calls,
         Reconfigure \/ \E p \in Paths : UserDeletes(p) \/ UserAdds(p)
  PROVE  BackedStays(d)
<1> SUFFICES ASSUME call'[d].backed, call[d].pc = "upload", call[d].had # {}
             PROVE  at'[call[d].out] = at[call[d].out]
  BY DEF BackedStays
<1>1. call[d].backed
  BY UsersLeaveAlone DEF Alone
<1>2. call[d].out \in Paths /\ at[call[d].out] \in Files
  BY <1>1 DEF IInv, CallsInv, Rollback
<1>3. at \in [Paths -> MaybeFile] /\ call \in [Calls -> CallRecords]
  BY DEF IInv, Typed
<1>4. CASE Reconfigure
  BY <1>4 DEF Reconfigure
<1>5. ASSUME NEW p \in Paths, UserDeletes(p) PROVE at'[call[d].out] = at[call[d].out]
  <2>1. CASE p # call[d].out
    BY <1>2, <1>3, <1>5, <2>1 DEF UserDeletes
  <2>2. CASE p = call[d].out
    <3>1. call'[d] = [call[d] EXCEPT !.backed = FALSE]
      BY <1>5, <2>2 DEF UserDeletes, Lost
    <3> QED
      BY <1>3, <3>1 DEF CallRecords
  <2> QED
    BY <2>1, <2>2
<1>6. ASSUME NEW p \in Paths, UserAdds(p) PROVE at'[call[d].out] = at[call[d].out]
  <2>1. p # NoPath
    BY Locations
  <2>2. p # call[d].out
    BY <1>2, <1>6, <2>1, Numbers DEF UserAdds, Exists
  <2> QED
    BY <1>2, <1>3, <1>6, <2>2 DEF UserAdds
<1> QED
  BY <1>4, <1>5, <1>6

(* A call left alone is as it should be after the step. *)
LEMMA AloneKept ==
  ASSUME IInv, Typed', AtStep, FileStep, day' = day, confined' = confined,
         NEW d \in Calls, Alone(d), BackedStays(d)
  PROVE  InTime(d)' /\ Sources(d)' /\ Rollback(d)'
<1>1. /\ at \in [Paths -> MaybeFile] /\ call[d] \in CallRecords /\ made \in 0..MaxFiles
      /\ file \in [Files -> FileRecords] /\ day \in 0..MaxDay
  BY DEF IInv, Typed
<1>2. InTime(d) /\ Sources(d) /\ Rollback(d)
  BY DEF IInv, CallsInv
<1>3. made \in Int /\ day \in Int /\ made' \in Int /\ made <= made'
  BY <1>1, Numbers DEF AtStep
<1>4. InTime(d)'
  BY <1>2 DEF InTime, Alone
<1>5. \A p \in Paths : at'[p] = at[p] \/ at'[p] = NoFile \/ at'[p] = made + 1
  BY <1>1 DEF AtStep
<1>6. call[d].reads \in Int /\ call[d].began \in Int
  <2>1. call[d].reads \in MaybeFile /\ call[d].began \in 0..MaxDay
    BY <1>1 DEF CallRecords
  <2> QED
    BY <2>1, Numbers
<1>7. Sources(d)'
  <2>1. \A p \in Paths : call[d].reads # NoFile /\ at'[p] = call[d].reads => at[p] = call[d].reads
    BY <1>2, <1>3, <1>5, <1>6 DEF Sources
  <2>2. ASSUME call[d].pc = "remove"
        PROVE  Stale(call[d].looked)' /\ call[d].looked <= made'
    <3> DEFINE f == call[d].looked
    <3>1. f \in Files /\ Stale(f) /\ f <= made
      BY <1>2, <2>2 DEF Sources
    <3>2. ~Finished(f)
      <4> SUFFICES ASSUME NEW e \in Calls, Writing(e, f) PROVE FALSE
        BY DEF Finished
      <4> QED
        BY <3>1, NotStale DEF Writing
    <3>3. file'[f] = file[f]
      BY <3>1, <3>2 DEF FileStep
    <3> QED
      <4>1. Stale(f)'
        BY <3>1, <3>3 DEF Stale, Alone
      <4>2. f \in Int
        BY <3>1, Numbers DEF MaybeFile
      <4> QED
        BY <1>3, <3>1, <4>1, <4>2
  <2>3. call[d].reads <= made'
    BY <1>2, <1>3, <1>6 DEF Sources, AtStep
  <2>4. \A p : Reaped(p)' = Reaped(p)
    BY DEF Reaped
  <2> QED
    BY <1>2, <2>1, <2>2, <2>3, <2>4 DEF Sources, Alone
<1>8. Rollback(d)'
  <2> DEFINE f == call[d].writes
  <2>1. call[d].had # {} => (config \in call[d].had => config' \in call'[d].had)
    BY DEF Alone
  <2>2. ASSUME f \in Files, f <= made
        PROVE  /\ f <= made'
               /\ file'[f] = file[f] \/ Finished(f)
               /\ file[f].mtime \in Int
    <3>1. f \in Int /\ file[f].mtime \in 0..MaxDay
      BY <1>1, <2>2, Numbers DEF FileRecords, MaybeFile
    <3> QED
      BY <1>3, <2>2, <3>1, Numbers DEF FileStep
  <2>3. ASSUME call[d].pc = "copy", f \in Files
        PROVE  ~Finished(f)
    <3> SUFFICES ASSUME NEW e \in Calls, Writing(e, f), call'[e].pc # "copy" PROVE FALSE
      BY DEF Finished
    <3>1. e = d
      BY <2>3 DEF Writing, IInv, FilesInv, OneWriter
    <3> QED
      BY <2>3, <3>1 DEF Alone
  <2>4. ASSUME call[d].pc = "copy"
        PROVE  /\ call[d].out \in Paths /\ f \in Files /\ f <= made'
               /\ ~file'[f].whole /\ file'[f].mtime >= call[d].began
               /\ call[d].had # {} => file'[f].config \in call[d].had
    BY <1>2, <2>2, <2>3, <2>4 DEF Rollback
  <2>5. ASSUME call[d].pc = "upload", call[d].had # {}
        PROVE  /\ f \in Files /\ f <= made' /\ file'[f].mtime >= call[d].began
               /\ call'[d].backed =>
                    /\ call[d].out \in Paths /\ at'[call[d].out] = f
                    /\ file'[f].whole /\ file'[f].config \in call[d].had
    <3>1. f \in Files /\ f <= made /\ file[f].mtime >= call[d].began /\ call[d].began <= day
      BY <1>2, <2>5 DEF Rollback, InTime
    <3>2. call'[d].backed =>
                    /\ call[d].out \in Paths /\ at'[call[d].out] = f
                    /\ file[f].whole /\ file[f].config \in call[d].had
      BY <1>2, <2>5 DEF Rollback, Alone, BackedStays
    <3> QED
      BY <2>2, <3>1, <3>2 DEF Finished
  <2>6. ASSUME call[d].pc = "create", call[d].had # {} PROVE call[d].holds \in call[d].had
    BY <1>2, <2>6 DEF Rollback
  <2>7. ASSUME call[d].pc \in {"reap", "remove"}, call[d].had # {} PROVE config' \in call'[d].had
    BY <1>2, <2>1, <2>7 DEF Rollback
  <2> HIDE DEF f
  <2> QED
    BY <2>4, <2>5, <2>6, <2>7 DEF Rollback, Alone, f
<1> QED
  BY <1>4, <1>7, <1>8

----------------------------------------------------------------------------
(* What a step does to the call it is of *)

WellKept(c) == InTime(c) /\ Sources(c) /\ Rollback(c)

LEMMA OwnKept ==
  ASSUME IInv, Typed', AtStep, FileStep, NEW c \in Calls, Step(c)
  PROVE  WellKept(c)'
<1>1. /\ at \in [Paths -> MaybeFile] /\ call \in [Calls -> CallRecords] /\ call[c] \in CallRecords
      /\ file \in [Files -> FileRecords] /\ day \in Int /\ made \in Int
  BY Numbers DEF IInv, Typed
<1>2. InTime(c) /\ Sources(c) /\ Rollback(c)
  BY DEF IInv, CallsInv
<1>3. OneName
  BY DEF IInv, FilesInv
<1>4. call[c].began \in Int /\ call[c].reads \in Int /\ call[c].writes \in Int
  <2>1. call[c].reads \in MaybeFile /\ call[c].writes \in MaybeFile /\ call[c].began \in 0..MaxDay
    BY <1>1 DEF CallRecords
  <2> QED
    BY <2>1, Numbers
<1>5. 0 <= made
  BY DEF IInv, Typed
<1>6. ASSUME NEW path \in MaybePath, Export(c, path) PROVE WellKept(c)'
  <2>1. /\ call'[c].pc = "reap" /\ call'[c].began = day /\ call'[c].reads = NoFile
        /\ call'[c].had = {} /\ call'[c].todo = {p \in Paths : Exists(p) /\ Reaped(p)}
    BY <1>1, <1>2, <1>6 DEF Export, Listed, CallRecords, InTime
  <2>2. day' = day /\ made' = made /\ confined' = confined
    BY <1>6 DEF Export
  <2> QED
    BY <1>1, <1>5, <2>1, <2>2 DEF WellKept, InTime, Sources, Rollback, NoFile, Reaped
<1>7. ASSUME NEW p \in Paths, Open(c, p) PROVE WellKept(c)'
  <2>1. /\ call'[c].pc = "opened" /\ call'[c].began = day /\ call'[c].reads = at[p]
        /\ call'[c].had = {} /\ call'[c].path = p
    BY <1>1, <1>2, <1>7 DEF Open, CallRecords, InTime
  <2>2. day' = day /\ made' = made /\ at' = at /\ at[p] # NoFile /\ at[p] <= made
    BY <1>3, <1>7 DEF Open, Exists, OneName
  <2>3. \A q \in Paths : at[q] = at[p] => q = p
    BY <1>3, <2>2 DEF OneName
  <2> QED
    BY <1>1, <2>1, <2>2, <2>3 DEF WellKept, InTime, Sources, Rollback
<1>8. ASSUME Import(c, TRUE) PROVE WellKept(c)'
  <2>1. /\ call'[c].pc = "reap" /\ call'[c].began = day /\ call'[c].reads = call[c].reads
        /\ call'[c].had = {config} /\ call'[c].todo = {p \in Paths : Exists(p) /\ Reaped(p)}
        /\ call'[c].keep = IF Exists(call[c].path) THEN at[call[c].path] ELSE NoFile
    BY <1>1, <1>8 DEF Import, Listed, CallRecords
  <2>2. /\ day' = day /\ made' = made /\ at' = at /\ config' = config /\ confined' = confined
        /\ call[c].pc = "opened"
    BY <1>8 DEF Import
  <2>3. call'[c].keep = call[c].reads \/ \A p \in Paths : at'[p] # call[c].reads
    BY <1>2, <2>1, <2>2, Locations DEF Sources, Exists
  <2>4. \A p \in call'[c].todo : Reaped(p)'
    BY <2>1, <2>2 DEF Reaped
  <2> QED
    BY <1>1, <1>2, <2>1, <2>2, <2>3, <2>4 DEF WellKept, InTime, Sources, Rollback
<1>9. ASSUME Import(c, FALSE) PROVE WellKept(c)'
  <2>1. /\ call'[c].pc = "upload" /\ call'[c].began = call[c].began
        /\ call'[c].reads = call[c].reads /\ call'[c].had = call[c].had
    BY <1>1, <1>9 DEF Import, CallRecords
  <2>2. day' = day /\ made' = made /\ call[c].pc = "opened"
    BY <1>9 DEF Import
  <2> QED
    BY <1>2, <2>1, <2>2 DEF WellKept, InTime, Sources, Rollback
<1>10. ASSUME NEW p \in Paths, Pass(c, p) PROVE WellKept(c)'
  <2>1. /\ call'[c].pc = "reap" /\ call'[c].began = call[c].began
        /\ call'[c].reads = call[c].reads /\ call'[c].had = call[c].had
        /\ call'[c].todo = call[c].todo \ {p} /\ call'[c].keep = call[c].keep
    BY <1>1, <1>10 DEF Pass, CallRecords
  <2>2. /\ day' = day /\ made' = made /\ at' = at /\ config' = config /\ confined' = confined
        /\ call[c].pc = "reap"
    BY <1>10 DEF Pass
  <2> QED
    BY <1>2, <2>1, <2>2 DEF WellKept, InTime, Sources, Rollback, Reaped
<1>11. ASSUME NEW p \in Paths, Look(c, p) PROVE WellKept(c)'
  <2>1. /\ call'[c].pc = "remove" /\ call'[c].began = call[c].began
        /\ call'[c].reads = call[c].reads /\ call'[c].had = call[c].had
        /\ call'[c].todo = call[c].todo \ {p} /\ call'[c].keep = call[c].keep
        /\ call'[c].look = p /\ call'[c].looked = at[p]
    BY <1>1, <1>11 DEF Look, CallRecords
  <2>2. /\ day' = day /\ made' = made /\ at' = at /\ config' = config /\ confined' = confined
        /\ file' = file /\ call[c].pc = "reap" /\ p \in call[c].todo /\ Found(c, p)
    BY <1>11 DEF Look
  <2>3. at[p] \in Files /\ at[p] <= made /\ Stale(at[p]) /\ at[p] # call[c].keep
    BY <1>1, <1>3, <2>2 DEF OneName, Found, Exists, Kept, MaybeFile
  <2>4. Stale(at[p])'
    BY <2>2, <2>3 DEF Stale
  <2>5. call[c].reads # NoFile => at[p] # call[c].reads
    BY <1>2, <2>2, <2>3 DEF Sources
  <2>6. Reaped(p) /\ \A q \in call[c].todo : Reaped(q)'
    BY <1>2, <2>2 DEF Sources, Reaped
  <2>7. Sources(c)'
    BY <1>2, <2>1, <2>2, <2>3, <2>4, <2>5, <2>6 DEF Sources
  <2> QED
    BY <1>2, <2>1, <2>2, <2>7 DEF WellKept, InTime, Rollback
<1>12. ASSUME Remove(c) PROVE WellKept(c)'
  <2> DEFINE Reaping == /\ call'[c].pc = "reap" /\ call'[c].began = call[c].began
                        /\ call'[c].reads = call[c].reads /\ call'[c].had = call[c].had
                        /\ call'[c].todo = call[c].todo /\ call'[c].keep = call[c].keep
  <2>1. Reaping
    <3>1. ASSUME NEW next \in [Calls -> CallRecords], next[c].began = call[c].began,
                 next[c].reads = call[c].reads, next[c].had = call[c].had,
                 next[c].todo = call[c].todo, next[c].keep = call[c].keep,
                 call' = [next EXCEPT ![c].pc = "reap", ![c].look = NoPath, ![c].looked = NoFile]
          PROVE  Reaping
      <4>1. next[c] \in CallRecords
        OBVIOUS
      <4> QED
        BY <3>1, <4>1 DEF CallRecords
    <3>2. Lost(call[c].look) \in [Calls -> CallRecords]
      BY LostType DEF IInv
    <3>3. LET next == Lost(call[c].look)[c] IN
          /\ next.began = call[c].began /\ next.reads = call[c].reads /\ next.had = call[c].had
          /\ next.todo = call[c].todo /\ next.keep = call[c].keep
      BY <1>1 DEF Lost, CallRecords
    <3> QED
      BY <1>1, <1>12, <3>1, <3>2, <3>3 DEF Remove
  <2>2. /\ day' = day /\ made' = made /\ config' = config /\ confined' = confined
        /\ call[c].pc = "remove" /\ call[c].look \in Paths
    BY <1>2, <1>12 DEF Remove, Sources
  <2>3. \A p \in Paths : at'[p] \in {at[p], NoFile}
    BY <1>1, <1>12, <2>2 DEF Remove
  <2> QED
    BY <1>2, <2>1, <2>2, <2>3 DEF WellKept, InTime, Sources, Rollback, Reaped
<1>13. ASSUME Fetch(c) PROVE WellKept(c)'
  <2>1. /\ call'[c].pc = "create" /\ call'[c].began = call[c].began
        /\ call'[c].reads = call[c].reads /\ call'[c].had = call[c].had
        /\ call'[c].holds = config
    BY <1>1, <1>13 DEF Fetch, CallRecords
  <2>2. day' = day /\ made' = made /\ config' = config /\ call[c].pc = "reap"
    BY <1>13 DEF Fetch
  <2> QED
    BY <1>2, <2>1, <2>2 DEF WellKept, InTime, Sources, Rollback
<1>14. ASSUME Create(c) PROVE WellKept(c)'
  <2>1. PICK p \in Paths : CreatedAt(c, p)
    BY <1>14, CreatesAPath DEF IInv
  <2>2. /\ call'[c].pc = "copy" /\ call'[c].began = call[c].began
        /\ call'[c].reads = call[c].reads /\ call'[c].had = call[c].had
        /\ call'[c].out = p /\ call'[c].writes = made + 1
    BY <1>1, <2>1 DEF CreatedAt, CallRecords
  <2>3. /\ day' = day /\ made' = made + 1 /\ call[c].pc = "create" /\ made + 1 \in Files
        /\ file'[made + 1] = [config |-> call[c].holds, whole |-> FALSE, mtime |-> day]
    BY <1>1, <1>5, <1>14, Numbers DEF Create, Files
  <2> QED
    BY <1>1, <1>2, <1>4, <2>2, <2>3 DEF WellKept, InTime, Sources, Rollback
<1>15. ASSUME CopyDone(c), call[c].reads # NoFile PROVE WellKept(c)'
  <2> DEFINE f == call[c].writes
  <2>1. /\ call'[c].pc = "upload" /\ call'[c].began = call[c].began
        /\ call'[c].reads = call[c].reads /\ call'[c].had = call[c].had
        /\ call'[c].out = call[c].out /\ call'[c].writes = f
        /\ call'[c].backed = (at[call[c].out] = f)
    BY <1>1, <1>15 DEF CopyDone, CallRecords
  <2>2. day' = day /\ made' = made /\ at' = at /\ call[c].pc = "copy"
    BY <1>15 DEF CopyDone
  <2>3. /\ f \in Files /\ f <= made /\ call[c].out \in Paths
        /\ call[c].had # {} => file[f].config \in call[c].had
    BY <1>2, <2>2 DEF Rollback
  <2>4. file'[f].config = file[f].config /\ file'[f].whole /\ file'[f].mtime = day
    BY <1>1, <1>15, <2>3 DEF CopyDone, FileRecords
  <2> HIDE DEF f
  <2>5. InTime(c)' /\ Sources(c)'
    BY <1>2, <1>15, <2>1, <2>2 DEF InTime, Sources
  <2>6. Rollback(c)'
    BY <1>2, <2>1, <2>2, <2>3, <2>4 DEF InTime, Rollback
  <2> QED
    BY <2>5, <2>6 DEF WellKept
<1>16. ASSUME call'[c] = Idle, made' = made PROVE WellKept(c)'
  BY <1>1, <1>5, <1>16 DEF WellKept, InTime, Sources, Rollback, Idle, NoFile
<1>17. ASSUME CopyDone(c), call[c].reads = NoFile PROVE WellKept(c)'
  BY <1>1, <1>16, <1>17 DEF CopyDone
<1>18. ASSUME CopyFails(c) PROVE WellKept(c)'
  <2>1. call'[c] = Idle
    BY <1>1, <1>18, LostType DEF CopyFails, IInv
  <2> QED
    BY <1>16, <1>18, <2>1 DEF CopyFails
<1>19. ASSUME Abort(c) PROVE WellKept(c)'
  BY <1>1, <1>16, <1>19 DEF Abort
<1>20. ASSUME Upload(c) PROVE WellKept(c)'
  BY <1>1, <1>16, <1>20 DEF Upload
<1> QED
  BY <1>6, <1>7, <1>8, <1>9, <1>10, <1>11, <1>12, <1>13, <1>14, <1>15, <1>17, <1>18, <1>19, <1>20
     DEF Step, MaybePath

(* A day ends once the calls that began before it are over. *)
LEMMA DaysKeep ==
  ASSUME IInv, NextDay, NEW d \in Calls
  PROVE  WellKept(d)'
<1>1. /\ call[d] \in CallRecords /\ day \in Int /\ day' = day + 1
      /\ UNCHANGED <<confined, at, file, made, call, config>>
      /\ call[d].pc = "idle" \/ call[d].began = day
  BY Numbers DEF NextDay, IInv, Typed
<1>2. InTime(d) /\ Sources(d) /\ Rollback(d)
  BY DEF IInv, CallsInv
<1>3. InTime(d)' /\ Rollback(d)'
  BY <1>1, <1>2 DEF InTime, Rollback
<1>4. ASSUME NEW f \in Files, Stale(f) PROVE Stale(f)'
  <2>1. file[f].mtime \in Int
    BY Numbers DEF IInv, Typed, FileRecords
  <2> QED
    BY <1>1, <1>4, <2>1 DEF Stale, StaleAge
<1>5. Sources(d)'
  BY <1>1, <1>2, <1>4 DEF Sources, Reaped
<1> QED
  BY <1>3, <1>5 DEF WellKept

LEMMA CallsStep == IInv /\ [Next]_vars => CallsInv'
<1> SUFFICES ASSUME IInv, [Next]_vars, NEW d \in Calls PROVE WellKept(d)'
  BY DEF CallsInv, WellKept
<1>1. Typed'
  BY TypeStep
<1>2. ASSUME AtStep, FileStep, day' = day, confined' = confined, Alone(d), BackedStays(d)
      PROVE  WellKept(d)'
  BY <1>1, <1>2, AloneKept DEF WellKept
<1>3. ASSUME NEW c \in Calls, Step(c), d # c PROVE WellKept(d)'
  <2>1. confined' = confined
    BY <1>3 DEF Step, Export, Open, Import, Pass, Look, Remove, Fetch, Create, CopyDone,
       CopyFails, Abort, Upload
  <2>2. AtStep /\ FileStep
    BY <1>3, FilesStep DEF Next
  <2> QED
    BY <1>2, <1>3, <2>1, <2>2, OthersAlone, OthersBacked
<1>4. ASSUME Step(d) PROVE WellKept(d)'
  <2>1. AtStep /\ FileStep
    BY <1>4, FilesStep DEF Next
  <2> QED
    BY <1>1, <1>4, <2>1, OwnKept
<1>5. ASSUME Reconfigure \/ \E p \in Paths : UserDeletes(p) \/ UserAdds(p) PROVE WellKept(d)'
  <2>1. confined' = confined
    BY <1>5 DEF Reconfigure, UserDeletes, UserAdds
  <2>2. AtStep /\ FileStep
    BY <1>5, FilesStep DEF Next
  <2> QED
    BY <1>2, <1>5, <2>1, <2>2, UsersLeaveAlone, UsersBacked
<1>6. ASSUME NextDay PROVE WellKept(d)'
  BY <1>6, DaysKeep
<1>7. CASE UNCHANGED vars
  BY <1>7 DEF vars, IInv, CallsInv, WellKept, InTime, Sources, Rollback, Stale, Reaped
<1> QED
  BY <1>3, <1>4, <1>5, <1>6, <1>7 DEF Next

----------------------------------------------------------------------------
(* The files *)

LEMMA Steady == Next => confined' = confined /\ (day' = day \/ day' = day + 1)
<1> SUFFICES ASSUME Next PROVE confined' = confined /\ (day' = day \/ day' = day + 1)
  OBVIOUS
<1>1. ASSUME NEW c \in Calls, Step(c) PROVE confined' = confined /\ day' = day
  BY <1>1 DEF Step, Export, Open, Import, Pass, Look, Remove, Fetch, Create, CopyDone,
     CopyFails, Abort, Upload
<1>2. ASSUME Reconfigure \/ \E p \in Paths : UserDeletes(p) \/ UserAdds(p)
      PROVE  confined' = confined /\ day' = day
  BY <1>2 DEF Reconfigure, UserDeletes, UserAdds
<1>3. ASSUME NextDay PROVE confined' = confined /\ day' = day + 1
  BY <1>3 DEF NextDay
<1> QED
  BY <1>1, <1>2, <1>3 DEF Next

LEMMA NamesStep == IInv /\ Next => OneName'
<1> SUFFICES ASSUME IInv, Next PROVE OneName'
  OBVIOUS
<1>1. at \in [Paths -> MaybeFile] /\ made \in Int /\ made >= 0 /\ OneName
  BY Numbers DEF IInv, Typed, FilesInv
<1>2. \A p \in Paths : at[p] \in Int
  BY <1>1, Numbers
<1>3. CASE at' = at /\ made' = made
  BY <1>1, <1>3 DEF OneName
<1>4. ASSUME NEW p \in Paths, at' = [at EXCEPT ![p] = NoFile], made' = made PROVE OneName'
  BY <1>1, <1>2, <1>4 DEF OneName
<1>5. ASSUME NEW p \in Paths, at' = [at EXCEPT ![p] = made + 1], made' = made + 1 PROVE OneName'
  BY <1>1, <1>2, <1>5, Numbers DEF OneName
<1> QED
  BY <1>3, <1>4, <1>5, FilesStep DEF AtStep

(* The partial file of a call that goes on stays its own, and others' are kept *)
(* by the calls that write them.                                              *)
LEMMA PartialsStep == IInv /\ Next => PartialsWritten'
<1> SUFFICES ASSUME IInv, Next, NEW p \in Paths, at'[p] # NoFile, ~file'[at'[p]].whole
             PROVE  \E c \in Calls : call'[c].pc = "copy" /\ call'[c].writes = at'[p] /\ call'[c].out = p
  BY DEF PartialsWritten, Writing
<1> DEFINE Writes(c) == call'[c].pc = "copy" /\ call'[c].writes = at'[p] /\ call'[c].out = p
<1>1. /\ at \in [Paths -> MaybeFile] /\ made \in Int /\ call \in [Calls -> CallRecords]
      /\ PartialsWritten /\ OneName /\ OneWriter
  BY Numbers DEF IInv, Typed, FilesInv
<1>2. ASSUME at'[p] = at[p]
      PROVE  \E c \in Calls : Writes(c)
  <2>1. at[p] \in Files /\ at[p] <= made
    BY <1>1, <1>2 DEF MaybeFile, OneName
  <2>2. file'[at[p]] = file[at[p]]
    <3>1. ~Finished(at[p])
      BY <1>2 DEF Finished
    <3> QED
      BY <2>1, <3>1, FilesStep DEF FileStep
  <2>3. PICK c \in Calls : Writing(c, at[p]) /\ call[c].out = p
    BY <1>1, <1>2, <2>2 DEF PartialsWritten
  <2>4. ASSUME Alone(c) PROVE Writes(c)
    BY <1>2, <2>3, <2>4 DEF Writing, Alone
  <2>5. ~CopyDone(c)
    BY <1>2, <2>1, <2>3, Numbers DEF CopyDone, Writing, IInv, Typed, FileRecords
  <2>6. ~CopyFails(c)
    BY <1>1, <1>2, <2>3 DEF CopyFails, CleanUp
  <2>7. ~Step(c)
    BY <2>3, <2>5, <2>6 DEF Writing, Step, Export, Open, Import, Pass, Look, Remove, Fetch, Create,
       Abort, Upload
  <2>8. CASE \E d \in Calls : Step(d)
    BY <2>4, <2>7, <2>8, OthersAlone
  <2>9. CASE Reconfigure \/ \E q \in Paths : UserDeletes(q) \/ UserAdds(q)
    BY <2>4, <2>9, UsersLeaveAlone
  <2>10. CASE NextDay
    BY <1>2, <2>3, <2>10 DEF NextDay, Writing
  <2> QED
    BY <2>8, <2>9, <2>10 DEF Next
<1>3. ASSUME at[p] = NoFile, at'[p] = made + 1
      PROVE  \E c \in Calls : Writes(c)
  <2>1. \A q \in Paths : at[q] # made + 1
    <3>1. \A q \in Paths : at[q] \in Int
      BY <1>1, Numbers
    <3> QED
      BY <1>1, <3>1, Numbers DEF OneName, IInv, Typed
  <2>2. CASE \E c \in Calls : Create(c)
    <3>1. PICK c \in Calls : Create(c)
      BY <2>2
    <3>2. PICK q \in Paths : CreatedAt(c, q)
      BY <3>1, CreatesAPath DEF IInv
    <3>3. p = q
      BY <1>1, <1>3, <3>2, Numbers DEF CreatedAt
    <3>4. call'[c].pc = "copy" /\ call'[c].out = p /\ call'[c].writes = made + 1
      BY <1>1, <3>2, <3>3 DEF CreatedAt, CallRecords
    <3> QED
      BY <1>3, <3>4 DEF Writing
  <2>3. CASE \E q \in Paths : UserAdds(q)
    <3>1. PICK q \in Paths : UserAdds(q)
      BY <2>3
    <3>2. made + 1 \in Files /\ file'[made + 1].whole
      BY <3>1, <1>1, Numbers DEF UserAdds, Files, IInv, Typed
    <3> QED
      BY <1>3, <3>2
  <2>4. CASE \E q \in Paths : at' = [at EXCEPT ![q] = NoFile]
    BY <1>1, <1>3, <2>4
  <2>5. CASE at' = at
    BY <1>3, <2>1, <2>5
  <2>6. ASSUME NEW c \in Calls, Remove(c) \/ CopyFails(c)
        PROVE  at' = at \/ \E q \in Paths : at' = [at EXCEPT ![q] = NoFile]
    BY <2>6 DEF Remove, CopyFails, CleanUp, IInv, CallsInv, Sources, Rollback
  <2>7. ASSUME NEW c \in Calls, Step(c)
        PROVE  at' = at \/ Remove(c) \/ CopyFails(c) \/ Create(c)
    BY <2>7 DEF Step, Export, Open, Import, Pass, Look, Fetch, CopyDone, Abort, Upload
  <2>8. ASSUME Reconfigure \/ NextDay PROVE at' = at
    BY <2>8 DEF Reconfigure, NextDay
  <2>9. ASSUME NEW q \in Paths, UserDeletes(q) PROVE at' = [at EXCEPT ![q] = NoFile]
    BY <2>9 DEF UserDeletes
  <2> HIDE DEF Writes
  <2> QED
    BY <2>2, <2>3, <2>4, <2>5, <2>6, <2>7, <2>8, <2>9 DEF Next
<1>4. \/ at'[p] = at[p]
      \/ at[p] = NoFile /\ at'[p] = made + 1
  BY <1>1, FilesStep DEF AtStep
<1> QED
  BY <1>2, <1>3, <1>4

LEMMA WritersStep == IInv /\ Next => OneWriter'
<1> SUFFICES ASSUME IInv, Next PROVE OneWriter'
  OBVIOUS
<1>1. /\ call \in [Calls -> CallRecords] /\ made \in Int /\ OneWriter
  BY Numbers DEF IInv, Typed, FilesInv
<1>2. \A c \in Calls : call[c].pc = "copy" => call[c].writes <= made /\ call[c].writes \in Int
  BY Numbers DEF IInv, CallsInv, Rollback, MaybeFile
<1>3. ASSUME NEW c \in Calls, Create(c) PROVE OneWriter'
  <2>1. PICK p \in Paths : CreatedAt(c, p)
    BY <1>3, CreatesAPath DEF IInv
  <2>2. call'[c].writes = made + 1 /\ \A d \in Calls : d # c => call'[d] = call[d]
    BY <1>1, <2>1 DEF CreatedAt, CallRecords
  <2>3. \A d \in Calls : d # c /\ call'[d].pc = "copy" => call'[d].writes # made + 1
    BY <1>1, <1>2, <2>2
  <2> QED
    BY <1>1, <2>2, <2>3 DEF OneWriter, Writing
<1>4. ASSUME \A d \in Calls : Alone(d) \/ call'[d].pc # "copy" PROVE OneWriter'
  BY <1>1, <1>4 DEF OneWriter, Writing, Alone
<1>5. ASSUME NEW c \in Calls, Step(c), ~Create(c) PROVE call'[c].pc # "copy"
  <2>1. call[c] \in CallRecords
    BY <1>1
  <2>2. ASSUME NEW path \in MaybePath, Export(c, path) PROVE call'[c].pc = "reap"
    BY <1>1, <2>1, <2>2 DEF Export, Listed, CallRecords
  <2>3. ASSUME NEW p \in Paths, Open(c, p) PROVE call'[c].pc = "opened"
    BY <1>1, <2>1, <2>3 DEF Open, CallRecords
  <2>4. ASSUME NEW p \in Paths, Pass(c, p) PROVE call'[c].pc = "reap"
    BY <1>1, <2>1, <2>4 DEF Pass, CallRecords
  <2>5. ASSUME NEW p \in Paths, Look(c, p) PROVE call'[c].pc = "remove"
    BY <1>1, <2>1, <2>5 DEF Look, CallRecords
  <2>6. ASSUME NEW snapshot \in BOOLEAN, Import(c, snapshot) PROVE call'[c].pc \in {"reap", "upload"}
    BY <1>1, <2>1, <2>6 DEF Import, Listed, CallRecords
  <2>7. ASSUME Remove(c) PROVE call'[c].pc = "reap"
    <3>1. Lost(call[c].look) \in [Calls -> CallRecords]
      BY LostType DEF IInv
    <3>2. ASSUME NEW next \in [Calls -> CallRecords]
          PROVE  [next EXCEPT ![c].pc = "reap", ![c].look = NoPath, ![c].looked = NoFile][c].pc = "reap"
      <4>1. next[c] \in CallRecords
        OBVIOUS
      <4> QED
        BY <4>1 DEF CallRecords
    <3> QED
      BY <1>1, <2>7, <3>1, <3>2 DEF Remove
  <2>8. ASSUME Fetch(c) PROVE call'[c].pc = "create"
    BY <1>1, <2>1, <2>8 DEF Fetch, CallRecords
  <2>9. ASSUME CopyDone(c) PROVE call'[c].pc \in {"upload", "idle"}
    BY <1>1, <2>1, <2>9 DEF CopyDone, Idle, CallRecords
  <2>10. ASSUME CopyFails(c) PROVE call'[c].pc = "idle"
    BY <1>1, <2>10, LostType DEF CopyFails, Idle, IInv
  <2>11. ASSUME Abort(c) \/ Upload(c) PROVE call'[c].pc = "idle"
    BY <1>1, <2>11 DEF Abort, Upload, Idle
  <2> QED
    BY <1>5, <2>2, <2>3, <2>4, <2>5, <2>6, <2>7, <2>8, <2>9, <2>10, <2>11 DEF Step, MaybePath
<1>6. ASSUME NEW c \in Calls, Step(c) PROVE OneWriter'
  BY <1>3, <1>4, <1>5, <1>6, OthersAlone
<1>7. CASE Reconfigure \/ \E p \in Paths : UserDeletes(p) \/ UserAdds(p)
  BY <1>4, <1>7, UsersLeaveAlone
<1>8. CASE NextDay
  BY <1>1, <1>8 DEF NextDay, OneWriter, Writing
<1> QED
  BY <1>6, <1>7, <1>8 DEF Next

LEMMA WholeStep == IInv /\ Next => SavedWhole'
<1> SUFFICES ASSUME IInv, Next, NEW b \in saved'
             PROVE  b.file <= made' /\ file'[b.file].whole /\ file'[b.file].mtime = b.day
  BY DEF SavedWhole
<1>1. /\ made \in Int /\ SavedWhole /\ saved \subseteq [path : Paths, file : Files, day : 0..MaxDay]
  BY Numbers DEF IInv, Typed, FilesInv
<1>2. CASE b \in saved
  <2>1. b.file \in Files /\ b.file <= made /\ file[b.file].whole /\ file[b.file].mtime = b.day
    BY <1>1, <1>2 DEF SavedWhole
  <2>2. ~Finished(b.file)
    BY <2>1 DEF Finished, Writing, IInv, CallsInv, Rollback
  <2>3. file'[b.file] = file[b.file] /\ made <= made'
    BY <1>1, <2>1, <2>2, FilesStep DEF FileStep, AtStep
  <2>4. b.file \in Int /\ made' \in Int
    BY <1>1, <2>1, Numbers, FilesStep DEF MaybeFile, AtStep
  <2> QED
    BY <1>1, <2>1, <2>3, <2>4
<1>3. CASE b \notin saved
  <2>1. PICK c \in Calls : CopyDone(c)
    <3>1. ASSUME NEW c \in Calls, Step(c), ~CopyDone(c) PROVE saved' \subseteq saved
      BY <3>1 DEF Step, Export, Open, Import, Pass, Look, Remove, Fetch, Create, CopyFails,
         Abort, Upload, NotSaved
    <3>2. ASSUME Reconfigure \/ NextDay \/ \E p \in Paths : UserDeletes(p) \/ UserAdds(p)
          PROVE  saved' \subseteq saved
      BY <3>2 DEF Reconfigure, NextDay, UserDeletes, UserAdds, NotSaved
    <3> QED
      BY <1>3, <3>1, <3>2 DEF Next
  <2>2. b.file = call[c].writes /\ b.day = day /\ made' = made
    BY <1>3, <2>1 DEF CopyDone
  <2>3. call[c].writes \in Files /\ call[c].writes <= made
    BY <2>1 DEF CopyDone, IInv, CallsInv, Rollback
  <2>4. file'[b.file].whole /\ file'[b.file].mtime = day
    BY <2>1, <2>2, <2>3 DEF CopyDone, IInv, Typed, FileRecords
  <2> QED
    BY <2>2, <2>3, <2>4
<1> QED
  BY <1>2, <1>3

(* Nothing but a user takes away the file of a backup while it should last.   *)
LEMMA LastsStep == IInv /\ Next => SavedLasts'
<1> SUFFICES ASSUME IInv, Next, NEW b \in saved',
                    ~Reaped(b.path)' \/ day' - b.day <= StaleAge
             PROVE  at'[b.path] = b.file
  BY WholeStep DEF SavedLasts, SavedWhole, Reaped, StaleAge
<1>1. /\ at \in [Paths -> MaybeFile] /\ call \in [Calls -> CallRecords] /\ day \in Int
      /\ SavedWhole /\ saved \subseteq [path : Paths, file : Files, day : 0..MaxDay]
  BY Numbers DEF IInv, Typed, FilesInv
<1>2. confined' = confined
  BY Steady
<1>3. b \in saved => /\ b.path \in Paths /\ b.file \in Files /\ b.day \in Int
                     /\ file[b.file].whole /\ file[b.file].mtime = b.day
  BY <1>1, Numbers DEF SavedWhole
<1>4. day' = day \/ day' = day + 1
  BY Steady
<1>5. b \in saved => (~Reaped(b.path) \/ day - b.day <= StaleAge) /\ at[b.path] = b.file
  <2>1. b \in saved => ~Reaped(b.path) \/ day - b.day <= StaleAge
    BY <1>1, <1>2, <1>3, <1>4 DEF Reaped, StaleAge
  <2> QED
    BY <2>1 DEF IInv, FilesInv, SavedLasts
<1>6. ASSUME b \in saved, at' = at PROVE at'[b.path] = b.file
  BY <1>5, <1>6
<1>7. ASSUME b \in saved, NEW p \in Paths, at[p] = NoFile, at' = [at EXCEPT ![p] = made + 1]
      PROVE  at'[b.path] = b.file
  BY <1>1, <1>3, <1>5, <1>7, Numbers
<1>8. ASSUME NEW c \in Calls, Remove(c) PROVE at'[b.path] = b.file
  <2>1. /\ call[c].look \in Paths /\ Reaped(call[c].look) /\ Stale(call[c].looked)
    BY <1>8 DEF Remove, IInv, CallsInv, Sources
  <2>2. b \in saved
    BY <1>8 DEF Remove, NotSaved
  <2>3. CASE b.path # call[c].look
    BY <1>1, <1>3, <1>5, <1>8, <2>2, <2>3 DEF Remove
  <2>4. CASE b.path = call[c].look /\ at[b.path] # call[c].looked
    BY <1>8, <2>4 DEF Remove, NotSaved
  <2>5. CASE b.path = call[c].look /\ at[b.path] = call[c].looked
    <3>1. day - b.day > StaleAge
      BY <1>3, <1>5, <2>1, <2>2, <2>5 DEF Stale
    <3> QED
      BY <1>1, <1>3, <1>5, <2>1, <2>2, <2>5, <3>1 DEF StaleAge
  <2> QED
    BY <2>3, <2>4, <2>5
<1>9. ASSUME NEW c \in Calls, CopyFails(c) PROVE at'[b.path] = b.file
  <2>1. call[c].out \in Paths /\ ~file[call[c].writes].whole
    BY <1>9 DEF CopyFails, IInv, CallsInv, Rollback
  <2>2. b \in saved
    BY <1>9 DEF CopyFails, NotSaved
  <2>3. b.path # call[c].out
    BY <1>3, <1>5, <1>9, <2>1, <2>2 DEF CopyFails, NotSaved
  <2> QED
    BY <1>1, <1>3, <1>5, <1>9, <2>1, <2>2, <2>3 DEF CopyFails, CleanUp
<1>10. ASSUME NEW c \in Calls, CopyDone(c) PROVE at'[b.path] = b.file
  <2>1. at' = at
    BY <1>10 DEF CopyDone
  <2>2. CASE b \notin saved
    BY <1>10, <2>1, <2>2 DEF CopyDone
  <2> QED
    BY <1>6, <2>1, <2>2
<1>11. ASSUME NEW c \in Calls, Create(c) PROVE at'[b.path] = b.file
  <2>1. b \in saved
    BY <1>11 DEF Create
  <2> QED
    BY <1>7, <1>11, <2>1, CreatesAPath DEF CreatedAt, IInv
<1>12. ASSUME NEW p \in Paths, UserDeletes(p) PROVE at'[b.path] = b.file
  <2>1. b \in saved /\ b.path # p
    BY <1>12 DEF UserDeletes, NotSaved
  <2> QED
    BY <1>1, <1>3, <1>5, <1>12, <2>1 DEF UserDeletes
<1>13. ASSUME NEW p \in Paths, UserAdds(p) PROVE at'[b.path] = b.file
  <2>1. b \in saved /\ at[p] = NoFile /\ at' = [at EXCEPT ![p] = made + 1]
    BY <1>13, Locations DEF UserAdds, Exists
  <2> QED
    BY <1>7, <2>1
<1>14. ASSUME NEW c \in Calls, Step(c) PROVE at'[b.path] = b.file
  <2>1. CASE at' = at /\ saved' = saved
    BY <1>6, <2>1
  <2> QED
    BY <1>8, <1>9, <1>10, <1>11, <1>14, <2>1
       DEF Step, Export, Open, Import, Pass, Look, Fetch, Abort, Upload
<1>15. ASSUME Reconfigure \/ NextDay PROVE at'[b.path] = b.file
  BY <1>6, <1>15 DEF Reconfigure, NextDay
<1> QED
  BY <1>12, <1>13, <1>14, <1>15 DEF Next

LEMMA ConfinedStep == IInv /\ Next => Confined'
<1> SUFFICES ASSUME IInv, Next, NEW d \in Calls, confined
             PROVE  call'[d].path \in Dir \cup {NoPath} /\ call'[d].out \in Dir \cup {NoPath}
  BY Steady DEF Confined
<1> DEFINE Within == call'[d].path \in Dir \cup {NoPath} /\ call'[d].out \in Dir \cup {NoPath}
<1>1. /\ call \in [Calls -> CallRecords] /\ call[d] \in CallRecords
      /\ call[d].path \in Dir \cup {NoPath} /\ call[d].out \in Dir \cup {NoPath}
  BY DEF IInv, Typed, Confined
<1>2. ASSUME Alone(d) PROVE Within
  BY <1>1, <1>2 DEF Alone
<1>3. ASSUME NEW path \in MaybePath, Export(d, path) PROVE Within
  BY <1>1, <1>3 DEF Export, Listed, Allowed, CallRecords
<1>4. ASSUME NEW p \in Paths, Open(d, p) PROVE Within
  BY <1>1, <1>4 DEF Open, Allowed, CallRecords
<1>5. ASSUME NEW p \in Paths, Pass(d, p) \/ Look(d, p) PROVE Within
  <2>1. ASSUME Pass(d, p) PROVE Within
    BY <1>1, <2>1 DEF Pass, CallRecords
  <2>2. ASSUME Look(d, p) PROVE Within
    BY <1>1, <2>2 DEF Look, CallRecords
  <2> QED
    BY <1>5, <2>1, <2>2
<1>6. ASSUME NEW snapshot \in BOOLEAN, Import(d, snapshot) PROVE Within
  BY <1>1, <1>6 DEF Import, Listed, CallRecords
<1>7. ASSUME Remove(d) PROVE Within
  <2>1. ASSUME NEW next \in [Calls -> CallRecords], next[d].path = call[d].path,
               next[d].out = call[d].out,
               call' = [next EXCEPT ![d].pc = "reap", ![d].look = NoPath, ![d].looked = NoFile]
        PROVE  Within
    <3>1. next[d] \in CallRecords
      OBVIOUS
    <3> QED
      BY <1>1, <2>1, <3>1 DEF CallRecords
  <2>2. Lost(call[d].look) \in [Calls -> CallRecords]
    BY LostType DEF IInv
  <2>3. LET next == Lost(call[d].look)[d] IN next.path = call[d].path /\ next.out = call[d].out
    BY <1>1 DEF Lost, CallRecords
  <2> QED
    BY <1>1, <1>7, <2>1, <2>2, <2>3 DEF Remove
<1>8. ASSUME Fetch(d) PROVE Within
  BY <1>1, <1>8 DEF Fetch, CallRecords
<1>9. ASSUME Create(d) PROVE Within
  <2>1. PICK p \in Paths : CreatedAt(d, p)
    BY <1>9, CreatesAPath DEF IInv
  <2> QED
    BY <1>1, <2>1, Locations DEF CreatedAt, CallRecords
<1>10. ASSUME call'[d] = Idle PROVE Within
  BY <1>10 DEF Idle
<1>11. ASSUME CopyDone(d) PROVE Within
  BY <1>1, <1>10, <1>11 DEF CopyDone, CallRecords
<1>12. ASSUME CopyFails(d) PROVE Within
  BY <1>1, <1>10, <1>12, LostType DEF CopyFails, IInv
<1>13. ASSUME Abort(d) \/ Upload(d) PROVE Within
  BY <1>1, <1>10, <1>13 DEF Abort, Upload
<1>14. ASSUME Step(d) PROVE Within
  BY <1>3, <1>4, <1>5, <1>6, <1>7, <1>8, <1>9, <1>11, <1>12, <1>13, <1>14 DEF Step, MaybePath
<1>15. CASE NextDay
  BY <1>1, <1>15 DEF NextDay
<1> QED
  BY <1>2, <1>14, <1>15, OthersAlone, UsersLeaveAlone DEF Next

----------------------------------------------------------------------------

LEMMA Inductive == IInv /\ [Next]_vars => IInv'
<1> SUFFICES ASSUME IInv, [Next]_vars PROVE IInv'
  OBVIOUS
<1>1. Typed' /\ CallsInv'
  BY TypeStep, CallsStep
<1>2. CASE Next
  BY <1>1, <1>2, NamesStep, PartialsStep, WritersStep, WholeStep, LastsStep, ConfinedStep
     DEF IInv, FilesInv
<1>3. CASE UNCHANGED vars
  BY <1>1, <1>3 DEF vars, IInv, FilesInv, Confined, OneName, PartialsWritten, Writing, OneWriter,
     SavedWhole, SavedLasts, Reaped
<1> QED
  BY <1>2, <1>3

LEMMA Initially == Init => IInv
<1> SUFFICES ASSUME Init PROVE IInv
  OBVIOUS
<1>1. Typed
  BY IdleType, Numbers DEF Init, Typed, MaybeFile
<1>2. Confined /\ FilesInv
  BY Numbers DEF Init, Idle, Confined, FilesInv, OneName, PartialsWritten, Writing, OneWriter,
     SavedWhole, SavedLasts
<1>3. CallsInv
  BY Numbers DEF Init, Idle, CallsInv, InTime, Sources, Rollback
<1> QED
  BY <1>1, <1>2, <1>3 DEF IInv

(* What holds of the calls, the files and the reports at every moment: a file *)
(* found stale is older than any call at work, so that none loses what it      *)
(* writes, reads or has saved to it (teleporter.go, backups.go).              *)
THEOREM Invariance == Spec => []IInv
  BY Initially, Inductive, PTL DEF Spec

(* With PIHOLE_BACKUP_DIR set, the server writes in it only.                  *)
THEOREM TypeCorrect == Spec => []TypeOK
<1>1. IInv => TypeOK
  <2> SUFFICES ASSUME IInv PROVE TypeOK
    OBVIOUS
  <2>1. \A c \in Calls : call[c] \in CallRecords
    BY DEF IInv, Typed
  <2>2. \A c \in Calls : call[c].todo \subseteq Paths /\ call[c].reads \in Files \cup {NoFile}
    BY <2>1 DEF CallRecords, MaybeFile
  <2> QED
    BY <2>2 DEF IInv, Typed, Confined, TypeOK, MaybeFile
<1> QED
  BY <1>1, Invariance, PTL

(* A file that is not whole is being written: a copy that fails leaves none.  *)
THEOREM PartialsGo == Spec => []NoPartialLeft
<1>1. IInv => NoPartialLeft
  BY DEF IInv, FilesInv, PartialsWritten, Writing, NoPartialLeft, Exists
<1> QED
  BY <1>1, Invariance, PTL

(* A backup reported as saved is there, whole, for as long as the report says. *)
THEOREM BackupsLast == Spec => []SavedLasts
<1>1. IInv => SavedLasts
  BY DEF IInv, FilesInv
<1> QED
  BY <1>1, Invariance, PTL

(* An import that was to keep a rollback point uploads only with one in place. *)
THEOREM ImportsCanBeUndone == Spec => []RollbackFirst
<1>1. IInv => RollbackFirst
  <2> SUFFICES ASSUME IInv, NEW c \in Calls, call[c].pc = "upload", call[c].had # {}
               PROVE  call[c].writes # NoFile /\ (call[c].backed => Backed(c))
    BY DEF RollbackFirst
  <2> QED
    BY Numbers, Locations DEF IInv, CallsInv, Rollback, Backed, Exists
<1> QED
  BY <1>1, Invariance, PTL

(* A file in the way of a backup is never replaced. *)
THEOREM NothingReplaced == Spec => NeverReplaced
<1>1. IInv /\ [Next]_vars =>
        [\A p \in Paths : at[p] # NoFile => at'[p] \in {at[p], NoFile}]_vars
  <2>1. ASSUME IInv, Next, NEW p \in Paths, at[p] # NoFile PROVE at'[p] \in {at[p], NoFile}
    <3>1. at \in [Paths -> MaybeFile]
      BY <2>1 DEF IInv, Typed
    <3> QED
      BY <2>1, <3>1, FilesStep DEF AtStep
  <2> QED
    BY <2>1
<1> QED
  BY <1>1, Invariance, PTL DEF Spec, NeverReplaced

(* An import does not remove the file it reads. *)
THEOREM SourcesKept == Spec => SourceKept
<1> DEFINE Stays ==
      \A c \in Calls : \A p \in Paths :
        call[c].pc = "remove" /\ call'[c].pc = "reap" /\ at[p] = call[c].reads => at'[p] = at[p]
<1>1. IInv /\ [Next]_vars => [Stays]_vars
  <2> SUFFICES ASSUME IInv, Next, NEW c \in Calls, NEW p \in Paths, call[c].pc = "remove",
                      call'[c].pc = "reap", at[p] = call[c].reads
               PROVE  at'[p] = at[p]
    OBVIOUS
  <2>1. ~Alone(c)
    BY DEF Alone
  <2>2. ~NextDay
    BY DEF NextDay
  <2>3. Step(c)
    BY <2>1, <2>2, OthersAlone, UsersLeaveAlone DEF Next
  <2>4. Remove(c)
    BY <2>3 DEF Step, Export, Open, Import, Pass, Look, Remove, Fetch, Create, CopyDone,
       CopyFails, Abort, Upload
  <2>5. at \in [Paths -> MaybeFile] /\ call[c].look \in Paths
    BY DEF IInv, Typed, CallsInv, Sources
  <2>6. call[c].reads # NoFile => p # call[c].look
    BY DEF IInv, CallsInv, Sources
  <2> QED
    BY <2>4, <2>5, <2>6 DEF Remove
<1> QED
  BY <1>1, Invariance, PTL DEF Spec, SourceKept

----------------------------------------------------------------------------
(* The plan of an import *)

(* Some number is the least of a set of them. *)
LEMMA Least ==
  ASSUME NEW T \in SUBSET Nat, T # {}
  PROVE  \E n \in T : \A m \in T : n <= m
<1> DEFINE R == OpToRel(<, Nat)
<1>1. IsWellFoundedOn(R, Nat)
  BY NatLessThanWellFounded
<1>2. \A x, y \in Nat : y < x => <<y, x>> \in R
  BY DEF OpToRel
<1> HIDE DEF R
<1>3. PICK x \in T : \A y \in T : ~ (<<y, x>> \in R)
  BY <1>1, WFMin
<1>4. ASSUME NEW y \in T PROVE x <= y
  <2>1. ~(y < x)
    BY <1>2, <1>3
  <2> QED
    BY <2>1
<1> QED
  BY <1>4

(* Induction, on the set of the numbers for which it holds. *)
LEMMA Induction ==
  ASSUME NEW T \in SUBSET Nat, 0 \in T, \A n \in T : n + 1 \in T
  PROVE  Nat = T
<1> SUFFICES ASSUME Nat # T PROVE FALSE
  OBVIOUS
<1>1. PICK n \in Nat \ T : \A m \in Nat \ T : n <= m
  <2>1. Nat \ T \in SUBSET Nat /\ Nat \ T # {}
    OBVIOUS
  <2> QED
    BY <2>1, Least
<1>2. n # 0 /\ n - 1 \in Nat /\ n - 1 \notin Nat \ T
  BY <1>1
<1>3. n - 1 \in T /\ n = (n - 1) + 1
  BY <1>1, <1>2
<1> QED
  BY <1>1, <1>3

(* The plan is worked out entry by entry: there is a plan of the empty        *)
(* archive, and one of each part of the archive from that of the part before. *)
LEMMA PlannedIs ==
  ASSUME NEW archive \in Seq(Plan!Entries), NEW location, NEW on
  PROVE  \E upTo : /\ Plan!Planned(archive, location, on) = upTo[Len(archive)]
                   /\ upTo[0] = Plan!Blank(location)
                   /\ \A i \in 1..Len(archive) :
                        upTo[i] = Plan!Listed(upTo[i - 1], i, archive[i], on)
<1> DEFINE N == Len(archive)
           One(g, i) == IF i = 0 THEN Plan!Blank(location)
                        ELSE Plan!Listed(g[i - 1], i, archive[i], on)
           Up(g, n) == g = [i \in 0..n |-> One(g, i)]
           T == {n \in Nat : \E g : Up(g, n)}
<1>1. N \in Nat
  OBVIOUS
<1>2. 0 \in T
  <2>1. Up([i \in 0..0 |-> Plan!Blank(location)], 0)
    OBVIOUS
  <2> QED
    BY <2>1
<1>3. ASSUME NEW n \in T PROVE n + 1 \in T
  <2>1. PICK g : Up(g, n)
    OBVIOUS
  <2> DEFINE last == Plan!Listed(g[n], n + 1, archive[n + 1], on)
             h == [i \in 0..(n + 1) |-> IF i = n + 1 THEN last ELSE g[i]]
  <2> HIDE DEF last
  <2>2. \A i \in 0..n : g[i] = One(g, i) /\ h[i] = g[i]
    BY <2>1
  <2>3. h[n + 1] = last /\ h[n] = g[n]
    BY <2>2
  <2> HIDE DEF h
  <2>4. ASSUME NEW i \in 0..(n + 1) PROVE h[i] = One(h, i)
    <3>1. CASE i = n + 1
      <4>1. i # 0 /\ i - 1 = n
        BY <3>1
      <4> QED
        BY <2>3, <3>1, <4>1 DEF last
    <3>2. CASE i = 0
      BY <2>2, <3>2
    <3>3. CASE i # 0 /\ i # n + 1
      <4>1. i \in 0..n /\ i - 1 \in 0..n
        BY <3>3
      <4>2. h[i] = Plan!Listed(g[i - 1], i, archive[i], on)
        BY <2>2, <3>3, <4>1
      <4>3. h[i - 1] = g[i - 1]
        BY <2>2, <4>1
      <4> QED
        BY <3>3, <4>2, <4>3
    <3> QED
      BY <3>1, <3>2, <3>3
  <2>5. h = [i \in 0..(n + 1) |-> h[i]]
    BY DEF h
  <2>6. Up(h, n + 1)
    BY <2>4, <2>5
  <2> QED
    BY <2>6
<1>4. \E g : Up(g, N)
  <2>1. T \in SUBSET Nat
    OBVIOUS
  <2> HIDE DEF T
  <2>2. Nat = T
    BY <1>2, <1>3, <2>1, Induction
  <2> QED
    BY <1>1, <2>2 DEF T
<1> DEFINE upTo == CHOOSE g : Up(g, N)
<1>5. Up(upTo, N)
  BY <1>4
<1>6. Plan!Planned(archive, location, on) = upTo[N]
  BY DEF Plan!Planned
<1> HIDE DEF upTo
<1>7. \A i \in 0..N : upTo[i] = One(upTo, i)
  BY <1>5
<1>8. upTo[0] = Plan!Blank(location)
  BY <1>1, <1>7
<1>9. ASSUME NEW i \in 1..N PROVE upTo[i] = Plan!Listed(upTo[i - 1], i, archive[i], on)
  BY <1>7
<1> QED
  BY <1>6, <1>8, <1>9

(* Plans of more and more of an archive, and the shape they have. *)
Grows(upTo, archive, on) ==
  \A i \in 1..Len(archive) : upTo[i] = Plan!Listed(upTo[i - 1], i, archive[i], on)

Drafts(n, on) == [gravity : Databases, assumed : BOOLEAN, unread : BOOLEAN,
                  replaces : SUBSET ((1..n) \X on)]

(* What one more entry does to a plan (teleporter.go, importPlan).            *)
LEMMA OneMore ==
  ASSUME Plan!ImportAssumption, NEW n \in Nat, NEW i \in 1..n, NEW e \in Plan!Entries,
         NEW on \in SUBSET Plan!Options, NEW r \in Drafts(n, on), NEW next,
         next = Plan!Listed(r, i, e, on), NEW part, part = Plan!PartOf(r.gravity, e.name)
  PROVE  /\ next \in Drafts(n, on)
         /\ next = [gravity  |-> IF e.name = Toml /\ "config" \in on /\ e.plain /\ e.gravity # Unset
                                 THEN e.gravity ELSE r.gravity,
                    assumed  |-> r.assumed,
                    unread   |-> r.unread \/ (e.name = Toml /\ "config" \in on /\ ~e.plain),
                    replaces |-> IF part \in on THEN r.replaces \cup {<<i, part>>} ELSE r.replaces]
<1> DEFINE more == IF part \in on THEN r.replaces \cup {<<i, part>>} ELSE r.replaces
           s == [r EXCEPT !.replaces = more]
           toml == e.name = Toml /\ "config" \in on
           to == IF e.plain /\ e.gravity # Unset THEN e.gravity ELSE r.gravity
<1>1. next = Plan!Follows(s, e, on)
  BY DEF Plan!Listed
<1>2. more \in SUBSET ((1..n) \X on)
  BY DEF Drafts
<1> HIDE DEF more
<1>3. /\ r.gravity \in Databases /\ r.assumed \in BOOLEAN /\ r.unread \in BOOLEAN
      /\ s = [gravity |-> r.gravity, assumed |-> r.assumed, unread |-> r.unread, replaces |-> more]
  BY DEF Drafts
<1> HIDE DEF s
<1>4. e.plain \in BOOLEAN /\ e.gravity \in Databases \cup {Unset}
  BY DEF Plan!Entries
<1>5. to \in Databases
  BY <1>3, <1>4
<1>6. CASE toml
  <2>1. next = [s EXCEPT !.unread = @ \/ ~e.plain,
                         !.gravity = IF Plan!Set(e) /\ ~Plan!IsPart(@, e.gravity) THEN e.gravity ELSE @]
    BY <1>1, <1>6 DEF Plan!Follows, Plan!Unreadable
  <2>4. to = IF Plan!Set(e) /\ ~Plan!IsPart(r.gravity, e.gravity) THEN e.gravity ELSE r.gravity
    <3>1. CASE e.gravity \in Databases
      <4>1. e.gravity # Toml /\ e.gravity # Leases /\ e.gravity # Unset
        BY <3>1 DEF Plan!ImportAssumption
      <4>2. Plan!IsPart(r.gravity, e.gravity) <=> e.gravity = r.gravity
        BY <4>1 DEF Plan!IsPart, Plan!PartOf
      <4> QED
        BY <4>1, <4>2 DEF Plan!Set
    <3>2. CASE e.gravity = Unset
      BY <3>2 DEF Plan!Set
    <3> QED
      BY <1>4, <3>1, <3>2
  <2>2. next = [gravity |-> to, assumed |-> r.assumed, unread |-> r.unread \/ ~e.plain, replaces |-> more]
    <3> HIDE DEF to, more
    <3> QED
      BY <1>3, <2>1, <2>4
  <2> HIDE DEF to
  <2>3. next \in Drafts(n, on)
    BY <1>2, <1>3, <1>4, <1>5, <2>2 DEF Drafts
  <2> QED
    BY <1>3, <1>6, <2>2, <2>3 DEF to, more
<1>7. CASE ~toml
  <2>1. next = s
    BY <1>1, <1>7 DEF Plan!Follows
  <2>2. next \in Drafts(n, on)
    BY <1>2, <1>3, <2>1 DEF Drafts
  <2> QED
    BY <1>3, <1>7, <2>1, <2>2 DEF more
<1> HIDE DEF more
<1> QED
  BY <1>6, <1>7

(* Once it has had to assume where the database is, it says so to the end.    *)
LEMMA StillAssumed ==
  ASSUME Plan!ImportAssumption, NEW n \in Nat, NEW i \in 1..n, NEW e \in Plan!Entries, NEW on \in SUBSET Plan!Options,
         NEW r \in Drafts(n, on), NEW next, next = Plan!Listed(r, i, e, on)
  PROVE  next \in Drafts(n, on) /\ next.assumed = r.assumed
<1> DEFINE part == Plan!PartOf(r.gravity, e.name)
           more == IF part \in on THEN r.replaces \cup {<<i, part>>} ELSE r.replaces
<1>1. /\ part = Plan!PartOf(r.gravity, e.name)
      /\ more = IF part \in on THEN r.replaces \cup {<<i, part>>} ELSE r.replaces
  OBVIOUS
<1> HIDE DEF more, part
<1>2. next = [gravity  |-> IF e.name = Toml /\ "config" \in on /\ e.plain /\ e.gravity # Unset
                           THEN e.gravity ELSE r.gravity,
              assumed  |-> r.assumed,
              unread   |-> r.unread \/ (e.name = Toml /\ "config" \in on /\ ~e.plain),
              replaces |-> more]
  BY <1>1, OneMore
<1>3. next \in Drafts(n, on)
  BY <1>1, OneMore
<1> QED
  BY <1>2, <1>3

(* As long as there is nothing to warn of, the plan of the first i entries    *)
(* knows where the database is then, and what of them is imported.            *)
LEMMA PlanUpTo ==
  ASSUME Plan!ImportAssumption, NEW archive \in Seq(Plan!Entries), NEW inForce \in Databases,
         NEW on \in SUBSET Plan!Options, NEW upTo, upTo[0] = Plan!Blank(inForce),
         Grows(upTo, archive, on)
  PROVE  Plan!Warns(upTo[Len(archive)])
           \/ upTo[Len(archive)].replaces = Plan!Imported(archive, inForce, on)
<1> DEFINE N == Len(archive)
           At(i) == Plan!InForce(archive, i, inForce, on)
           Taken(i) == {ip \in (1..i) \X on : Plan!PartOf(At(ip[1]), archive[ip[1]].name) = ip[2]}
           Right(i) == /\ upTo[i] \in Drafts(N, on)
                       /\ ~upTo[i].unread => upTo[i].gravity = At(i + 1) /\ upTo[i].replaces = Taken(i)
           T == {n \in Nat : n <= N => Right(n)}
<1>1. N \in Nat /\ \A i \in 1..N : archive[i] \in Plan!Entries
  OBVIOUS
<1>2. 0 \in T
  <2>1. upTo[0] = [gravity |-> inForce, assumed |-> FALSE, unread |-> FALSE, replaces |-> {}]
    BY DEF Plan!Blank, Plan!ImportAssumption
  <2>2. Plan!Moves(archive, 1, on) = {}
    BY DEF Plan!Moves
  <2>3. At(1) = inForce
    BY <2>2 DEF Plan!InForce
  <2>4. Taken(0) = {}
    OBVIOUS
  <2> HIDE DEF At, Taken
  <2>5. Right(0)
    BY <2>1, <2>3, <2>4 DEF Drafts
  <2> QED
    BY <2>5
<1>3. ASSUME NEW n \in T PROVE n + 1 \in T
  <2> SUFFICES ASSUME n + 1 <= N PROVE Right(n + 1)
    OBVIOUS
  <2> DEFINE i == n + 1
             e == archive[i]
             r == upTo[n]
             part == Plan!PartOf(r.gravity, e.name)
             more == IF part \in on THEN r.replaces \cup {<<i, part>>} ELSE r.replaces
  <2>1. n \in Nat /\ i \in 1..N /\ i - 1 = n /\ e \in Plan!Entries /\ Right(n)
    BY <1>1
  <2> DEFINE toml == e.name = Toml /\ "config" \in on
             moves == toml /\ e.gravity # Unset
  <2>7. /\ upTo[i] \in Drafts(N, on) /\ upTo[i].replaces = more
        /\ upTo[i].unread = (r.unread \/ (toml /\ ~e.plain))
        /\ upTo[i].gravity = IF moves /\ e.plain THEN e.gravity ELSE r.gravity
    <3>1. N \in Nat /\ i \in 1..N /\ e \in Plan!Entries /\ r \in Drafts(N, on)
      BY <1>1, <2>1
    <3>2. upTo[i] = Plan!Listed(r, i, e, on)
      BY <2>1 DEF Grows
    <3> HIDE DEF T, Right, Taken, At, N, i, e, r
    <3>3. /\ part = Plan!PartOf(r.gravity, e.name)
          /\ more = IF part \in on THEN r.replaces \cup {<<i, part>>} ELSE r.replaces
      OBVIOUS
    <3> HIDE DEF more, part
    <3>4. /\ upTo[i] \in Drafts(N, on)
          /\ upTo[i] = [gravity  |-> IF e.name = Toml /\ "config" \in on /\ e.plain /\ e.gravity # Unset
                                     THEN e.gravity ELSE r.gravity,
                        assumed  |-> r.assumed,
                        unread   |-> r.unread \/ (e.name = Toml /\ "config" \in on /\ ~e.plain),
                        replaces |-> more]
      BY <3>1, <3>2, <3>3, OneMore
    <3>5. upTo[i].replaces = more /\ upTo[i].unread = (r.unread \/ (toml /\ ~e.plain))
      BY <3>4
    <3>6. upTo[i].gravity = IF moves /\ e.plain THEN e.gravity ELSE r.gravity
      BY <3>4
    <3> HIDE DEF moves, toml
    <3> QED
      BY <3>4, <3>5, <3>6
  <2> HIDE DEF more
  <2> SUFFICES ASSUME ~upTo[i].unread PROVE upTo[i].gravity = At(i + 1) /\ more = Taken(i)
    BY <2>7
  <2>8. ~r.unread /\ (toml => e.plain)
    BY <2>7
  <2>9. r.gravity = At(i) /\ r.replaces = Taken(n)
    BY <2>1, <2>8
  <2>10. upTo[i].gravity = At(i + 1)
    <3>1. Plan!Moves(archive, i + 1, on) =
            Plan!Moves(archive, i, on) \cup (IF moves THEN {i} ELSE {})
      BY <2>1 DEF Plan!Moves
    <3>2. CASE moves
      <4> DEFINE M == Plan!Moves(archive, i + 1, on)
      <4>1. i \in M /\ \A k \in M : k \in Int /\ k <= i
        BY <2>1, <3>1, <3>2 DEF Plan!Moves
      <4> HIDE DEF M
      <4>2. (CHOOSE j \in M : \A k \in M : k <= j) = i
        <5>1. \A j \in M : (\A k \in M : k <= j) => j = i
          BY <2>1, <4>1
        <5> QED
          BY <4>1, <5>1
      <4>3. At(i + 1) = e.gravity
        BY <4>1, <4>2 DEF Plan!InForce, M
      <4> QED
        BY <2>7, <2>8, <3>2, <4>3
    <3>3. CASE ~moves
      <4>1. Plan!Moves(archive, i + 1, on) = Plan!Moves(archive, i, on)
        BY <3>1, <3>3
      <4> DEFINE After(M) == IF M = {} THEN inForce
                             ELSE archive[CHOOSE j \in M : \A k \in M : k <= j].gravity
      <4>2. /\ At(i + 1) = After(Plan!Moves(archive, i + 1, on))
            /\ At(i) = After(Plan!Moves(archive, i, on))
        BY DEF Plan!InForce
      <4> HIDE DEF After, At
      <4>3. At(i + 1) = At(i)
        BY <4>1, <4>2
      <4> QED
        BY <2>7, <2>9, <3>3, <4>3
    <3> QED
      BY <3>2, <3>3
  <2>11. more = Taken(i)
    <3>1. part = Plan!PartOf(At(i), archive[i].name)
      BY <2>9
    <3> HIDE DEF At, part
    <3>2. ASSUME NEW ip \in (1..i) \X on
          PROVE  ip \in Taken(i) <=> (ip \in Taken(n) \/ (ip = <<i, part>> /\ part \in on))
      <4>1. ip = <<ip[1], ip[2]>> /\ ip[1] \in 1..i /\ ip[2] \in on
        OBVIOUS
      <4>2. CASE ip[1] = i
        BY <2>1, <3>1, <4>1, <4>2
      <4>3. CASE ip[1] # i
        <5>1. ip \in (1..n) \X on /\ ip # <<i, part>>
          BY <2>1, <4>1, <4>3
        <5> QED
          BY <5>1
      <4> QED
        BY <4>2, <4>3
    <3>3. Taken(n) \subseteq (1..i) \X on
      BY <2>1
    <3>4. part \in on => <<i, part>> \in (1..i) \X on
      BY <2>1
    <3> HIDE DEF Taken
    <3>5. Taken(i) \subseteq (1..i) \X on
      BY DEF Taken
    <3> QED
      BY <2>9, <3>2, <3>3, <3>4, <3>5 DEF more
  <2> QED
    BY <2>10, <2>11
<1>4. Right(N)
  <2>1. T \in SUBSET Nat
    OBVIOUS
  <2> HIDE DEF T
  <2>2. Nat = T
    BY <1>2, <1>3, <2>1, Induction
  <2> QED
    BY <1>1, <2>2 DEF T
<1>5. Taken(N) = Plan!Imported(archive, inForce, on)
  BY DEF Plan!Imported
<1> QED
  BY <1>4, <1>5 DEF Plan!Warns

(* What is planned of an archive is what is imported of it, for an archive of *)
(* any length (teleporter.go, importPlan).                                    *)
THEOREM PlansAreRight ==
  ASSUME Plan!ImportAssumption, NEW archive \in Seq(Plan!Entries), NEW inForce \in Databases,
         NEW answered \in BOOLEAN, NEW on \in SUBSET Plan!Options
  PROVE  Plan!Truthful(archive, inForce, answered, on)
<1> DEFINE location == Plan!Location(inForce, answered)
<1>1. PICK upTo : /\ Plan!Planned(archive, location, on) = upTo[Len(archive)]
                  /\ upTo[0] = Plan!Blank(location)
                  /\ Grows(upTo, archive, on)
  BY PlannedIs DEF Grows
<1>2. CASE answered
  <2>1. location = inForce
    BY <1>2 DEF Plan!Location
  <2>2. Plan!Warns(upTo[Len(archive)])
          \/ upTo[Len(archive)].replaces = Plan!Imported(archive, inForce, on)
    BY <1>1, <2>1, PlanUpTo
  <2> QED
    BY <1>1, <2>2 DEF Plan!Truthful
<1>3. CASE ~answered
  <2> DEFINE N == Len(archive)
             Right(n) == upTo[n] \in Drafts(N, on) /\ upTo[n].assumed = TRUE
             T == {n \in Nat : n <= N => Right(n)}
  <2>1. N \in Nat /\ location = Unread /\ \A i \in 1..N : archive[i] \in Plan!Entries
    BY <1>3 DEF Plan!Location
  <2>2. 0 \in T
    <3>1. upTo[0] = [gravity |-> Usual, assumed |-> TRUE, unread |-> FALSE, replaces |-> {}]
      BY <1>1, <2>1 DEF Plan!Blank
    <3>2. Right(0)
      BY <3>1 DEF Plan!ImportAssumption, Drafts
    <3> QED
      BY <3>2
  <2>3. ASSUME NEW n \in T PROVE n + 1 \in T
    <3>1. n \in Nat /\ n + 1 \in Nat /\ (n + 1) - 1 = n
      OBVIOUS
    <3>2. CASE n + 1 <= N
      <4>1. n + 1 \in 1..N /\ upTo[n] \in Drafts(N, on) /\ upTo[n].assumed = TRUE
        BY <2>1, <3>1, <3>2
      <4>2. upTo[n + 1] = Plan!Listed(upTo[n], n + 1, archive[n + 1], on)
        BY <1>1, <3>1, <4>1 DEF Grows
      <4>3. N \in Nat /\ archive[n + 1] \in Plan!Entries
        BY <2>1, <4>1
      <4> HIDE DEF T, Right, N
      <4>4. upTo[n + 1] \in Drafts(N, on) /\ upTo[n + 1].assumed = upTo[n].assumed
        BY <4>1, <4>2, <4>3, StillAssumed
      <4> QED
        BY <3>1, <4>1, <4>4 DEF T, Right
    <3> QED
      BY <3>1, <3>2
  <2>4. T \in SUBSET Nat
    OBVIOUS
  <2> HIDE DEF T
  <2>5. Nat = T
    BY <2>2, <2>3, <2>4, Induction
  <2>6. Plan!Warns(upTo[Len(archive)])
    BY <2>1, <2>5 DEF T, Plan!Warns
  <2> QED
    BY <1>1, <2>6 DEF Plan!Truthful
<1> QED
  BY <1>2, <1>3

(* In plan mode teleporter_import names the entries that the import would     *)
(* replace parts of the configuration by, or warns: whatever the archive, the *)
(* options and the place of the gravity database, which the archive may move. *)
THEOREM PlansTruthful == Spec => []PlanTruthful
<1>1. IInv => PlanTruthful
  <2> SUFFICES ASSUME IInv PROVE PlansRight[GravityAt[config]]
    BY DEF PlanTruthful
  <2>1. GravityAt[config] \in Databases
    BY BackupsAssumption DEF IInv, Typed
  <2>2. ASSUME NEW archive \in Archives, NEW on \in SUBSET Plan!Options, NEW answered \in BOOLEAN
        PROVE  Plan!Truthful(archive, GravityAt[config], answered, on)
    <3>1. archive \in Seq(Plan!Entries) /\ Plan!ImportAssumption
      BY BackupsAssumption
    <3> QED
      BY <2>1, <3>1, PlansAreRight
  <2> QED
    BY <2>1, <2>2 DEF PlansRight
<1> QED
  BY <1>1, Invariance, PTL

=============================================================================
