------------------------ MODULE SettingWritersProofs ------------------------
(***************************************************************************)
(* What is read of a setting under its lock is current when the handler    *)
(* writes, whatever the other tools do: so removing one name loses nothing  *)
(* of theirs, and config_set reports what it changed itself.  The same of    *)
(* these tools with the payloads of config_set (ConfigSet), which change no  *)
(* risky setting either; and a payload is made into what its leaves name.    *)
(***************************************************************************)
EXTENDS ConfigSet, WellFoundedInduction, TLAPS

(* Which locks a handler has, from where it is. *)
Orderly ==
  \A p \in Procs :
    /\ pc[p] = "idle" => asked[p] = {} /\ holds[p] = {}
    /\ pc[p] = "lock" => asked[p] \cup holds[p] = call[p].on
    /\ pc[p] \in {"read", "write", "waiting"} => asked[p] = {} /\ holds[p] = call[p].on
    /\ pc[p] = "unlock" => asked[p] = {}

Exclusive == \A p, q \in Procs : p # q => holds[p] \cap holds[q] = {}

LockInv == Orderly /\ Exclusive

(* What a handler has read is what the settings still are. *)
Current ==
  \A p \in Procs :
    /\ pc[p] # "write" => read[p] = Unread
    /\ pc[p] = "write" /\ call[p].op = "drop" => read[p] # Unread
    /\ pc[p] = "write" /\ read[p] # Unread /\ ~touched[p] =>
         \A s \in call[p].on : read[p][s] = config[s]

----------------------------------------------------------------------------
(* Types *)

LEMMA CallsType ==
  ASSUME NEW c \in Calls
  PROVE  /\ c.on \in SUBSET Settings
         /\ c.arrays \in [Settings -> Arrays]
         /\ c.op \in {"add", "remove", "drop", "set"}
         /\ c.restart \in BOOLEAN
         /\ c.op # "set" => c.line \in Lines
         /\ c.op = "drop" => \E s \in Settings : c.on = {s}
         /\ c.op = "drop" => \E n \in Names : c.line = {n}
<1>1. CASE c \in LineCalls
  BY <1>1 DEF LineCalls, LineCall, NoArrays, Arrays
<1>2. CASE c \in DropCalls
  BY <1>2 DEF DropCalls, LineCall, NoArrays, Arrays, Lines
<1>3. CASE c \in SetCalls
  BY <1>3, SettingAssumption DEF SetCalls, Arrays
<1> QED
  BY <1>1, <1>2, <1>3 DEF Calls

LEMMA NoCallIsCall == NoCall \in Calls
  BY DEF NoCall, Calls, SetCalls, NoArrays

LEMMA PutIsWrite ==
  ASSUME NEW s \in Settings, NEW l \in Lines
  PROVE  Put(s, l) \in Writes /\ Delete(s, l) \in Writes
  BY DEF Put, Delete, Write, Writes, NoArrays, Arrays

LEMMA PatchIsWrite ==
  ASSUME NEW S \in SUBSET Settings, NEW f \in [Settings -> Arrays]
  PROVE  Patch(S, f) \in Writes
  BY DEF Patch, Write, Writes, NoArrays, Arrays

(* The line a drop is about, as it was read: a line of the array, with the *)
(* name in it.                                                              *)
LEMMA ResolvedLine ==
  ASSUME TypeOK, NEW p \in Procs, NEW s \in Settings, NEW l \in Resolved(p, s)
  PROVE  /\ l \in Lines /\ l \in read[p][s] /\ call[p].line \subseteq l
         /\ read[p][s] \in Arrays
         /\ \A m \in read[p][s] : call[p].line \subseteq m => m = l
<1>1. l \in Lines /\ Matches(p, s) = {l}
  BY DEF Resolved
<1>2. l \in Matches(p, s) /\ \A m \in Matches(p, s) : m = l
  BY <1>1
<1>3. l \in read[p][s] /\ call[p].line \subseteq l
  BY <1>2 DEF Matches
<1>4. \A m \in read[p][s] : call[p].line \subseteq m => m = l
  BY <1>2 DEF Matches
<1>5. read[p][s] \in Arrays
  BY <1>1, <1>3 DEF TypeOK, NoArray, Lines
<1> QED
  BY <1>1, <1>3, <1>4, <1>5

LEMMA DropIsWrite ==
  ASSUME TypeOK, NEW p \in Procs, NEW s \in Settings, NEW l \in Resolved(p, s)
  PROVE  DropRequest(p, s, l) \in Writes
<1>1. /\ l \in Lines /\ call[p].line \subseteq l /\ read[p][s] \in Arrays
  BY ResolvedLine
<1>2. CASE l = call[p].line
  BY <1>1, <1>2, PutIsWrite DEF DropRequest
<1>3. CASE l # call[p].line
  <2>1. l \ call[p].line \in Lines
    BY <1>1, <1>3 DEF Lines
  <2>2. (read[p][s] \ {l}) \cup {l \ call[p].line} \in Arrays
    BY <1>1, <2>1 DEF Arrays
  <2>3. [NoArrays EXCEPT ![s] = (read[p][s] \ {l}) \cup {l \ call[p].line}]
          \in [Settings -> Arrays]
    BY <2>2 DEF NoArrays, Arrays
  <2> QED
    BY <1>3, <2>3, PatchIsWrite DEF DropRequest
<1> QED
  BY <1>2, <1>3

LEMMA RequestsAreWrites ==
  ASSUME TypeOK, NEW p \in Procs, NEW w \in Requests(p)
  PROVE  w \in Writes /\ w.on \subseteq call[p].on
<1>1. /\ call[p].on \in SUBSET Settings /\ call[p].arrays \in [Settings -> Arrays]
      /\ call[p].op \in {"add", "remove", "drop", "set"}
      /\ call[p].op # "set" => call[p].line \in Lines
  BY CallsType DEF TypeOK
<1>2. CASE call[p].op = "add"
  <2>1. PICK s \in call[p].on : w = Put(s, call[p].line)
    BY <1>2 DEF Requests
  <2> QED
    BY <1>1, <1>2, <2>1, PutIsWrite DEF Put, Write
<1>3. CASE call[p].op = "remove"
  <2>1. PICK s \in call[p].on : w = Delete(s, call[p].line)
    BY <1>3 DEF Requests
  <2> QED
    BY <1>1, <1>3, <2>1, PutIsWrite DEF Delete, Write
<1>4. CASE call[p].op = "set"
  <2>1. w = Patch(call[p].on, call[p].arrays)
    BY <1>4 DEF Requests
  <2> QED
    BY <1>1, <2>1, PatchIsWrite DEF Patch, Write
<1>5. CASE call[p].op = "drop"
  <2>1. PICK s \in call[p].on : \E l \in Resolved(p, s) : w = DropRequest(p, s, l)
    BY <1>5 DEF Requests
  <2>2. PICK l \in Resolved(p, s) : w = DropRequest(p, s, l)
    BY <2>1
  <2>3. w.on = {s}
    BY <2>2 DEF DropRequest, Delete, Patch, Write
  <2> QED
    BY <1>1, <2>2, <2>3, DropIsWrite
<1> QED
  BY <1>1, <1>2, <1>3, <1>4, <1>5

LEMMA AfterType ==
  ASSUME TypeOK, NEW w \in Writes
  PROVE  After(w) \in [Settings -> Arrays]
<1>1. ASSUME NEW s \in Settings
      PROVE  (IF s \notin w.on THEN config[s]
              ELSE IF w.whole THEN w.more[s]
              ELSE (config[s] \ w.less[s]) \cup w.more[s]) \in Arrays
  BY DEF TypeOK, Writes, Arrays
<1> QED
  BY <1>1 DEF After

LEMMA LeaveType ==
  ASSUME TypeOK, NEW p \in Procs, NEW place \in Places, Leave(p, place)
  PROVE  /\ pc' \in [Procs -> Places]
         /\ read' \in [Procs -> [Settings -> Arrays \cup {NoArray}]]
         /\ touched' \in [Procs -> BOOLEAN]
<1>1. Unread \in [Settings -> Arrays \cup {NoArray}]
  BY DEF Unread
<1> QED
  BY <1>1 DEF Leave, TypeOK

LEMMA ServeWrites ==
  ASSUME NEW p \in Procs, Serve(p)
  PROVE  \E w \in Requests(p) :
           config' = After(w) /\ \E place \in WaitPlaces(p, config') : Leave(p, place)
<1>1. PICK w \in Requests(p) :
        /\ Accepted(w)
        /\ config' = After(w)
        /\ \E place \in WaitPlaces(p, After(w)) : Leave(p, place)
  BY DEF Serve
<1>2. \E place \in WaitPlaces(p, config') : Leave(p, place)
  BY <1>1
<1> QED
  BY <1>1, <1>2

LEMMA ServeLeaves ==
  ASSUME NEW p \in Procs, Serve(p)
  PROVE  \E place \in {"waiting", "unlock"} : Leave(p, place)
<1>1. PICK place \in WaitPlaces(p, config') : Leave(p, place)
  BY ServeWrites
<1>2. place \in {"waiting", "unlock"}
  BY DEF WaitPlaces
<1> QED
  BY <1>1, <1>2

LEMMA TouchType ==
  ASSUME TypeOK, NEW S, Touch(S)
  PROVE  touched' \in [Procs -> BOOLEAN]
BY DEF Touch, TypeOK

LEMMA TypeStep == TypeOK /\ [Next]_vars => TypeOK'
<1> SUFFICES ASSUME TypeOK, [Next]_vars PROVE TypeOK'
  OBVIOUS
<1>1. ASSUME NEW p \in Procs, NEW c \in Calls, Begin(p, c) PROVE TypeOK'
  BY <1>1, CallsType DEF Begin, Lock!Ask, TypeOK, Places
<1>2. ASSUME NEW p \in Procs, TakeLock(p) PROVE TypeOK'
  BY <1>2 DEF TakeLock, Lock!Grant, TypeOK, Places
<1>3. ASSUME NEW p \in Procs, Read(p) PROVE TypeOK'
  <2>1. [s \in Settings |-> IF s \in call[p].on THEN config[s] ELSE NoArray]
          \in [Settings -> Arrays \cup {NoArray}]
    BY DEF TypeOK
  <2> QED
    BY <1>3, <2>1 DEF Read, TypeOK, Places, lockVars
<1>4. ASSUME NEW p \in Procs, SetUnread(p) PROVE TypeOK'
  BY <1>4 DEF SetUnread, TypeOK, Places, lockVars
<1>5. ASSUME NEW p \in Procs, Refuse(p) PROVE TypeOK'
  BY <1>5, LeaveType DEF Refuse, TypeOK, Places, lockVars
<1>6. ASSUME NEW p \in Procs, Serve(p) PROVE TypeOK'
  <2>1. PICK w \in Requests(p) : config' = After(w)
    BY <1>6 DEF Serve
  <2>2. PICK place \in {"waiting", "unlock"} : Leave(p, place)
    BY <1>6, ServeLeaves
  <2>3. After(w) \in [Settings -> Arrays]
    BY RequestsAreWrites, AfterType
  <2> QED
    BY <1>6, <2>1, <2>2, <2>3, LeaveType DEF Serve, TypeOK, Places, lockVars
<1>7. ASSUME NEW p \in Procs, WriteFails(p) PROVE TypeOK'
  <2>1. late' \in SUBSET Writes
    BY <1>7, RequestsAreWrites DEF WriteFails, TypeOK
  <2> QED
    BY <1>7, <2>1, LeaveType DEF WriteFails, TypeOK, Places, lockVars
<1>8. ASSUME NEW p \in Procs, Restarted(p) PROVE TypeOK'
  BY <1>8 DEF Restarted, TypeOK, Places, lockVars
<1>9. ASSUME NEW p \in Procs, Unlock(p) PROVE TypeOK'
  <2>1. holds' \in [Procs -> SUBSET Settings]
    BY <1>9 DEF Unlock, Lock!GiveBack, TypeOK
  <2>2. pc' \in [Procs -> Places] /\ call' \in [Procs -> Calls]
    BY <1>9, NoCallIsCall DEF Unlock, TypeOK, Places
  <2> QED
    BY <1>9, <2>1, <2>2 DEF Unlock, Lock!GiveBack, TypeOK
<1>10. ASSUME NEW c \in [Settings -> Given], Import(c) PROVE TypeOK'
  BY <1>10, TouchType, SettingAssumption DEF Import, TypeOK, lockVars
<1>11. ASSUME NEW s \in Settings, NEW v \in Given, Elsewhere(s, v) PROVE TypeOK'
  BY <1>11, TouchType, SettingAssumption DEF Elsewhere, TypeOK, lockVars
<1>12. ASSUME NEW w \in late, ServeLate(w) PROVE TypeOK'
  <2>1. After(w) \in [Settings -> Arrays]
    BY AfterType DEF TypeOK
  <2>2. touched' \in [Procs -> BOOLEAN]
    BY <1>12, TouchType DEF ServeLate, TypeOK
  <2> QED
    BY <1>12, <2>1, <2>2 DEF ServeLate, TypeOK, lockVars
<1>13. CASE UNCHANGED vars
  BY <1>13 DEF vars, lockVars, TypeOK
<1> QED
  BY <1>1, <1>2, <1>3, <1>4, <1>5, <1>6, <1>7, <1>8, <1>9, <1>10, <1>11, <1>12,
     <1>13 DEF Next

(* The tools' variables keep their types: no array ever holds a line        *)
(* without a name, however many names are removed.                          *)
THEOREM TypeCorrect == Spec => []TypeOK
<1>1. Init => TypeOK
  <2>1. Unread \in [Settings -> Arrays \cup {NoArray}]
    BY DEF Unread
  <2> QED
    BY <2>1, NoCallIsCall DEF Init, TypeOK, Places
<1> QED
  BY <1>1, TypeStep, PTL DEF Spec

----------------------------------------------------------------------------
(* Locks *)

(* A step that leaves the locks alone and moves p between places where they *)
(* are the same.                                                            *)
LEMMA SameLocks ==
  ASSUME TypeOK, LockInv, NEW p \in Procs, NEW place,
         pc[p] \in {"read", "write", "waiting"},
         place \in {"write", "waiting", "unlock"},
         pc' = [pc EXCEPT ![p] = place],
         asked' = asked, holds' = holds, call' = call
  PROVE  LockInv'
BY DEF LockInv, Orderly, Exclusive, TypeOK

LEMMA LockStep == TypeOK /\ LockInv /\ [Next]_vars => LockInv'
<1> SUFFICES ASSUME TypeOK, LockInv, [Next]_vars PROVE LockInv'
  OBVIOUS
<1>1. ASSUME NEW p \in Procs, NEW c \in Calls, Begin(p, c) PROVE LockInv'
  BY <1>1 DEF Begin, Lock!Ask, LockInv, Orderly, Exclusive, TypeOK
<1>2. ASSUME NEW p \in Procs, TakeLock(p) PROVE LockInv'
  <2>1. PICK k \in Settings :
          /\ k \in asked[p] /\ \A q \in Procs : k \notin holds[q]
          /\ asked' = [asked EXCEPT ![p] = asked[p] \ {k}]
          /\ holds' = [holds EXCEPT ![p] = holds[p] \cup {k}]
          /\ \E place \in IF asked[p] # {k} THEN {"lock"} ELSE {"read", "write"} :
               pc' = [pc EXCEPT ![p] = place]
    BY <1>2 DEF TakeLock, Lock!Grant
  <2>2. pc[p] = "lock" /\ call' = call
    BY <1>2 DEF TakeLock
  <2>3. Orderly'
    <3>1. /\ asked'[p] = asked[p] \ {k}
          /\ holds'[p] = holds[p] \cup {k}
          /\ pc'[p] \in IF asked[p] # {k} THEN {"lock"} ELSE {"read", "write"}
          /\ call'[p] = call[p]
      BY <2>1, <2>2 DEF TypeOK
    <3>2. \A q \in Procs \ {p} :
            /\ asked'[q] = asked[q] /\ holds'[q] = holds[q]
            /\ pc'[q] = pc[q] /\ call'[q] = call[q]
      BY <2>1, <2>2 DEF TypeOK
    <3>3. asked[p] \cup holds[p] = call[p].on
      BY <2>2 DEF LockInv, Orderly
    <3>4. asked'[p] \cup holds'[p] = call'[p].on
      BY <2>1, <3>1, <3>3
    <3>5. pc'[p] # "lock" => asked'[p] = {}
      BY <3>1
    <3>6. Orderly
      BY DEF LockInv
    <3> SUFFICES ASSUME NEW q \in Procs
                 PROVE  /\ pc'[q] = "idle" => asked'[q] = {} /\ holds'[q] = {}
                        /\ pc'[q] = "lock" => asked'[q] \cup holds'[q] = call'[q].on
                        /\ pc'[q] \in {"read", "write", "waiting"} =>
                             asked'[q] = {} /\ holds'[q] = call'[q].on
                        /\ pc'[q] = "unlock" => asked'[q] = {}
      BY DEF Orderly
    <3>7. CASE q = p
      <4>1. pc'[p] \in {"lock", "read", "write"}
        BY <3>1
      <4>2. pc'[p] # "lock" => holds'[p] = call'[p].on
        BY <3>4, <3>5
      <4> QED
        BY <3>7, <3>4, <3>5, <4>1, <4>2
    <3>8. CASE q # p
      <4>1. /\ asked'[q] = asked[q] /\ holds'[q] = holds[q]
            /\ pc'[q] = pc[q] /\ call'[q] = call[q]
        BY <3>2, <3>8
      <4> QED
        BY <3>6, <4>1 DEF Orderly
    <3> QED
      BY <3>7, <3>8
  <2>4. Exclusive'
    BY <2>1 DEF LockInv, Exclusive, TypeOK
  <2> QED
    BY <2>3, <2>4 DEF LockInv
<1>3. ASSUME NEW p \in Procs, Read(p) \/ SetUnread(p) PROVE LockInv'
  BY <1>3, SameLocks DEF Read, SetUnread, lockVars
<1>4. ASSUME NEW p \in Procs, Refuse(p) \/ WriteFails(p) PROVE LockInv'
  BY <1>4, SameLocks DEF Refuse, WriteFails, Leave, lockVars
<1>5. ASSUME NEW p \in Procs, Serve(p) PROVE LockInv'
  <2>1. PICK place \in {"waiting", "unlock"} : Leave(p, place)
    BY <1>5, ServeLeaves
  <2>2. pc[p] = "write" /\ UNCHANGED <<lockVars, call>>
    BY <1>5 DEF Serve
  <2> QED
    BY <2>1, <2>2 DEF Leave, lockVars, LockInv, Orderly, Exclusive, TypeOK
<1>6. ASSUME NEW p \in Procs, Restarted(p) PROVE LockInv'
  BY <1>6 DEF Restarted, lockVars, LockInv, Orderly, Exclusive, TypeOK
<1>7. ASSUME NEW p \in Procs, Unlock(p) PROVE LockInv'
  <2>1. PICK k \in holds[p] :
          /\ pc[p] = "unlock" /\ asked' = asked
          /\ holds' = [holds EXCEPT ![p] = holds[p] \ {k}]
          /\ IF holds[p] = {k}
             THEN /\ pc' = [pc EXCEPT ![p] = "idle"]
                  /\ call' = [call EXCEPT ![p] = NoCall]
             ELSE UNCHANGED <<pc, call>>
    BY <1>7 DEF Unlock, Lock!GiveBack
  <2>2. Orderly'
    BY <2>1 DEF LockInv, Orderly, TypeOK
  <2>3. Exclusive'
    BY <2>1 DEF LockInv, Exclusive, TypeOK
  <2> QED
    BY <2>2, <2>3 DEF LockInv
<1>8. ASSUME UNCHANGED <<lockVars, pc, call>> PROVE LockInv'
  BY <1>8 DEF LockInv, Orderly, Exclusive, lockVars
<1>9. ASSUME NEW c \in [Settings -> Given], Import(c) PROVE LockInv'
  BY <1>8, <1>9 DEF Import
<1>10. ASSUME NEW s \in Settings, NEW v \in Given, Elsewhere(s, v) PROVE LockInv'
  BY <1>8, <1>10 DEF Elsewhere
<1>11. ASSUME NEW w \in late, ServeLate(w) PROVE LockInv'
  BY <1>8, <1>11 DEF ServeLate
<1>12. CASE UNCHANGED vars
  BY <1>8, <1>12 DEF vars
<1> QED
  BY <1>1, <1>2, <1>3, <1>4, <1>5, <1>6, <1>7, <1>9, <1>10, <1>11, <1>12 DEF Next

THEOREM LocksInductive == Spec => []LockInv
<1>1. Init => LockInv
  BY DEF Init, LockInv, Orderly, Exclusive
<1> QED
  BY <1>1, TypeCorrect, LockStep, PTL DEF Spec

(* Every way out of a handler gives all its locks back. *)
THEOREM ReturnsLocks == Spec => []LocksReturned
<1>1. LockInv => LocksReturned
  BY DEF LockInv, Orderly, LocksReturned
<1> QED
  BY <1>1, LocksInductive, PTL

----------------------------------------------------------------------------
(* What was read stays current *)

(* p leaves its work, and no setting changes. *)
LEMMA LeaveQuiet ==
  ASSUME TypeOK, Current, NEW p \in Procs, NEW place \in {"waiting", "unlock"},
         Leave(p, place), UNCHANGED <<config, call>>
  PROVE  Current'
BY DEF Leave, Current, TypeOK

(* A step that moves nobody, and touches who has read what it changes. *)
LEMMA TouchStep ==
  ASSUME TypeOK, Current, UNCHANGED <<pc, call, read>>, NEW S,
         Touch(S),
         \A s \in Settings \ S : config'[s] = config[s]
  PROVE  Current'
<1>1. \A p \in Procs : call[p].on \subseteq Settings
  BY CallsType DEF TypeOK
<1>2. ASSUME NEW p \in Procs, pc[p] = "write", ~touched'[p]
      PROVE  ~touched[p] /\ call[p].on \cap S = {}
  BY <1>2 DEF Touch
<1> QED
  BY <1>1, <1>2 DEF Current, TypeOK

(* A write changes no setting another handler has read: that one has its   *)
(* lock.                                                                    *)
LEMMA ServeStep ==
  ASSUME TypeOK, LockInv, Current, NEW p \in Procs, Serve(p)
  PROVE  Current'
<1>1. PICK w \in Requests(p) : config' = After(w)
  BY DEF Serve
<1>2. PICK place \in {"waiting", "unlock"} : Leave(p, place)
  BY ServeLeaves
<1>3. pc[p] = "write" /\ call' = call
  BY DEF Serve
<1>4. \A q \in Procs : call[q].on \subseteq Settings
  BY CallsType DEF TypeOK
<1>5. ASSUME NEW q \in Procs, q # p, pc[q] = "write"
      PROVE  \A s \in call[q].on : config'[s] = config[s]
  <2>1. holds[p] = call[p].on /\ holds[q] = call[q].on
    BY <1>3, <1>5 DEF LockInv, Orderly
  <2>2. call[p].on \cap call[q].on = {}
    BY <1>5, <2>1 DEF LockInv, Exclusive
  <2>3. w.on \subseteq call[p].on
    BY RequestsAreWrites
  <2> QED
    BY <1>1, <1>4, <2>2, <2>3 DEF After
<1> QED
  BY <1>2, <1>3, <1>5 DEF Leave, Current, TypeOK

LEMMA CurrentStep == TypeOK /\ LockInv /\ Current /\ [Next]_vars => Current'
<1> SUFFICES ASSUME TypeOK, LockInv, Current, [Next]_vars PROVE Current'
  OBVIOUS
<1>1. ASSUME NEW p \in Procs, NEW c \in Calls, Begin(p, c) PROVE Current'
  BY <1>1 DEF Begin, Current, TypeOK
<1>2. ASSUME NEW p \in Procs, TakeLock(p) PROVE Current'
  <2>1. PICK place \in {"lock", "read", "write"} :
          pc' = [pc EXCEPT ![p] = place] /\ (place = "write" => ~Reads(p))
    BY <1>2 DEF TakeLock
  <2>2. pc[p] = "lock" /\ UNCHANGED <<config, call, read, touched>>
    BY <1>2 DEF TakeLock
  <2> QED
    BY <2>1, <2>2 DEF Current, TypeOK, Reads
<1>3. ASSUME NEW p \in Procs, Read(p) PROVE Current'
  <2>1. call[p].op = "drop" => \E s \in Settings : call[p].on = {s}
    BY CallsType DEF TypeOK
  <2>2. /\ pc' = [pc EXCEPT ![p] = "write"] /\ UNCHANGED <<config, call>>
        /\ \A q \in Procs : q # p => read'[q] = read[q] /\ touched'[q] = touched[q]
        /\ read'[p] = [s \in Settings |-> IF s \in call[p].on THEN config[s] ELSE NoArray]
    BY <1>3 DEF Read, TypeOK
  <2>3. \A s \in Settings : config[s] # NoArray
    BY DEF TypeOK, Arrays, Lines, NoArray
  <2>4. call[p].op = "drop" => read'[p] # Unread
    BY <2>1, <2>2, <2>3 DEF Unread
  <2>5. \A s \in call[p].on : read'[p][s] = config[s]
    BY <2>2, CallsType DEF TypeOK
  <2> QED
    BY <2>2, <2>4, <2>5 DEF Current, TypeOK
<1>4. ASSUME NEW p \in Procs, SetUnread(p) PROVE Current'
  BY <1>4 DEF SetUnread, Current, TypeOK
<1>5. ASSUME NEW p \in Procs, Refuse(p) \/ WriteFails(p) PROVE Current'
  BY <1>5, LeaveQuiet DEF Refuse, WriteFails
<1>6. ASSUME NEW p \in Procs, Serve(p) PROVE Current'
  BY <1>6, ServeStep
<1>7. ASSUME NEW p \in Procs, Restarted(p) PROVE Current'
  BY <1>7 DEF Restarted, Current, TypeOK
<1>8. ASSUME NEW p \in Procs, Unlock(p) PROVE Current'
  <2>1. PICK c \in {call[p], NoCall} : call' = [call EXCEPT ![p] = c]
    BY <1>8 DEF Unlock, TypeOK
  <2>2. \E place \in {"idle", "unlock"} : pc' = [pc EXCEPT ![p] = place]
    BY <1>8 DEF Unlock, TypeOK
  <2> QED
    BY <1>8, <2>1, <2>2 DEF Unlock, Current, TypeOK
<1>9. ASSUME NEW c \in [Settings -> Given], Import(c) PROVE Current'
  BY <1>9, TouchStep DEF Import, Differ
<1>10. ASSUME NEW s \in Settings, NEW v \in Given, Elsewhere(s, v) PROVE Current'
  BY <1>10, TouchStep DEF Elsewhere, Differ
<1>11. ASSUME NEW w \in late, ServeLate(w) PROVE Current'
  <2>1. CASE UNCHANGED <<config, touched>>
    BY <1>11, <2>1 DEF ServeLate, Current
  <2>2. CASE Touch(Differ(config'))
    BY <1>11, <2>2, TouchStep DEF ServeLate, Differ
  <2> QED
    BY <1>11, <2>1, <2>2 DEF ServeLate
<1>12. CASE UNCHANGED vars
  BY <1>12 DEF vars, Current
<1> QED
  BY <1>1, <1>2, <1>3, <1>4, <1>5, <1>6, <1>7, <1>8, <1>9, <1>10, <1>11, <1>12 DEF Next

THEOREM StaysCurrent == Spec => []Current
<1>1. Init => Current
  BY DEF Init, Current
<1> QED
  BY <1>1, TypeCorrect, LocksInductive, CurrentStep, PTL DEF Spec

----------------------------------------------------------------------------
(* Removing a name *)

LEMMA InWithout ==
  ASSUME NEW n, NEW v, NEW m
  PROVE  m \in Without(n, v) <=> m # {} /\ \E l \in v : m = l \ n
BY DEF Without

(* The array a drop writes is the array without the name. *)
LEMMA DropEffect ==
  ASSUME TypeOK, NEW p \in Procs, NEW s \in Settings, NEW l \in Resolved(p, s),
         call[p].op = "drop", read[p][s] = config[s],
         NEW r \in Settings
  PROVE  After(DropRequest(p, s, l))[r] =
           IF r = s THEN Without(call[p].line, config[s]) ELSE config[r]
<1>1. PICK n \in Names : call[p].line = {n}
  BY CallsType DEF TypeOK
<1>2. /\ l \in Lines /\ l \in config[s] /\ n \in l
      /\ \A m \in config[s] : n \in m => m = l
  BY <1>1, ResolvedLine
<1>3. \A m \in config[s] : m \in Lines /\ (m # l => m \ {n} = m)
  BY <1>2 DEF TypeOK, Arrays
<1>4. CASE l = {n}
  <2>1. Without({n}, config[s]) = config[s] \ {l}
    <3>1. l \ {n} = {}
      BY <1>4
    <3>2. {} \notin config[s]
      BY <1>3 DEF Lines
    <3>3. ASSUME NEW m, m \in Without({n}, config[s])
          PROVE  m \in config[s] \ {l}
      <4>1. PICK k \in config[s] : m # {} /\ m = k \ {n}
        BY <3>3, InWithout
      <4>2. k # l
        BY <3>1, <4>1
      <4> QED
        BY <1>3, <4>1, <4>2
    <3>4. ASSUME NEW m, m \in config[s], m # l
          PROVE  m \in Without({n}, config[s])
      <4>1. m = m \ {n} /\ m # {}
        BY <1>3, <3>2, <3>4
      <4> QED
        BY <3>4, <4>1, InWithout
    <3> QED
      BY <3>3, <3>4
  <2> QED
    BY <1>1, <1>4, <2>1 DEF DropRequest, Delete, Write, After, NoArrays, TypeOK
<1>5. CASE l # {n}
  <2>1. l \ {n} \in Lines
    BY <1>2, <1>5 DEF Lines
  <2>2. Without({n}, config[s]) = (config[s] \ {l}) \cup {l \ {n}}
    <3>1. {} \notin config[s] /\ l \ {n} # {}
      BY <1>3, <2>1 DEF Lines
    <3>2. ASSUME NEW m, m \in Without({n}, config[s])
          PROVE  m \in (config[s] \ {l}) \cup {l \ {n}}
      <4>1. PICK k \in config[s] : m = k \ {n}
        BY <3>2, InWithout
      <4> QED
        BY <1>3, <4>1
    <3>3. ASSUME NEW m, m \in config[s], m # l
          PROVE  m \in Without({n}, config[s])
      <4>1. m = m \ {n} /\ m # {}
        BY <1>3, <3>1, <3>3
      <4> QED
        BY <3>3, <4>1, InWithout
    <3>4. l \ {n} \in Without({n}, config[s])
      BY <1>2, <3>1, InWithout
    <3> QED
      BY <3>2, <3>3, <3>4
  <2>3. DropRequest(p, s, l) =
          Patch({s}, [NoArrays EXCEPT ![s] = (config[s] \ {l}) \cup {l \ {n}}])
    BY <1>1, <1>5 DEF DropRequest
  <2> QED
    <3>1. After(DropRequest(p, s, l))[r] =
            IF r = s THEN (config[s] \ {l}) \cup {l \ {n}} ELSE config[r]
      BY <2>3 DEF Patch, Write, After, NoArrays
    <3> QED
      BY <1>1, <2>2, <3>1
<1> QED
  BY <1>4, <1>5

(* A step in which p's write is carried out is Serve of p. *)
LEMMA OnlyServe ==
  ASSUME TypeOK, [Next]_vars, NEW p \in Procs, Served(p)
  PROVE  Serve(p)
BY DEF Next, Served, TypeOK, vars, lockVars, Begin, TakeLock, Read, SetUnread, Refuse,
   Leave, Serve, WriteFails, Restarted, Unlock, Import, Elsewhere, ServeLate

(* Removing a name loses nothing of the other writers, for any goroutines, *)
(* settings and names.                                                      *)
THEOREM LosesNothing == Spec => DropsOneName
<1>1. ASSUME TypeOK, LockInv, Current, [Next]_vars, NEW p \in Procs, Served(p),
             call[p].op = "drop", ~touched[p], NEW r \in Settings
      PROVE  config'[r] = IF r \in call[p].on THEN Without(call[p].line, config[r])
                          ELSE config[r]
  <2>1. Serve(p)
    BY <1>1, OnlyServe
  <2>2. PICK w \in Requests(p) : config' = After(w)
    BY <2>1 DEF Serve
  <2>3. PICK s \in Settings : call[p].on = {s}
    BY <1>1, CallsType DEF TypeOK
  <2>4. PICK l \in Resolved(p, s) : w = DropRequest(p, s, l)
    BY <1>1, <2>2, <2>3 DEF Requests
  <2>5. read[p][s] = config[s]
    BY <1>1, <2>1, <2>3 DEF Current, Serve
  <2> QED
    BY <1>1, <2>2, <2>3, <2>4, <2>5, DropEffect
<1>2. TypeOK /\ LockInv /\ Current /\ [Next]_vars =>
        [\A p \in Procs :
           Served(p) /\ call[p].op = "drop" /\ ~touched[p] =>
             \A s \in Settings :
               config'[s] = IF s \in call[p].on THEN Without(call[p].line, config[s])
                            ELSE config[s]]_vars
  BY <1>1
<1> QED
  BY <1>2, TypeCorrect, LocksInductive, StaysCurrent, PTL DEF Spec, DropsOneName

(* config_set's report, and its wait, are about its own write. *)
THEOREM ReportsTruly == Spec => ReportsOwnChange
<1>1. ASSUME TypeOK, LockInv, Current, [Next]_vars, NEW p \in Procs, Served(p),
             call[p].op = "set", ~touched[p], read[p] # Unread
      PROVE  /\ Changed(p, config') = Differ(config')
             /\ pc'[p] = "waiting" <=>
                  call[p].restart /\ Differ(config') \cap Restarting # {}
  <2>1. Serve(p) /\ pc[p] = "write"
    BY <1>1, OnlyServe DEF Served
  <2>2. PICK w \in Requests(p) :
          config' = After(w) /\ \E place \in WaitPlaces(p, config') : Leave(p, place)
    BY <2>1, ServeWrites
  <2>3. call[p].on \subseteq Settings /\ w.on \subseteq call[p].on
    BY <1>1, RequestsAreWrites, CallsType DEF TypeOK
  <2>4. \A s \in call[p].on : read[p][s] = config[s]
    BY <1>1, <2>1 DEF Current
  <2>5. \A s \in Settings : config[s] # NoArray
    BY <1>1 DEF TypeOK, Arrays, Lines, NoArray
  <2>6. \A s \in Settings \ call[p].on : config'[s] = config[s]
    BY <2>2, <2>3 DEF After
  <2>7. Changed(p, config') = Differ(config')
    BY <2>3, <2>4, <2>5, <2>6 DEF Changed, Differ
  <2>8. PICK place \in WaitPlaces(p, config') : Leave(p, place)
    BY <2>2
  <2>9. pc'[p] = place
    BY <1>1, <2>8 DEF Leave, TypeOK
  <2>10. place = "waiting" <=>
           call[p].restart /\ Differ(config') \cap Restarting # {}
    BY <1>1, <2>7, <2>8 DEF WaitPlaces
  <2> QED
    BY <2>7, <2>9, <2>10
<1>2. TypeOK /\ LockInv /\ Current /\ [Next]_vars =>
        [\A p \in Procs :
           Served(p) /\ call[p].op = "set" /\ ~touched[p] /\ read[p] # Unread =>
             /\ Changed(p, config') = Differ(config')
             /\ pc'[p] = "waiting" <=>
                  call[p].restart /\ Differ(config') \cap Restarting # {}]_vars
  BY <1>1
<1> QED
  BY <1>2, TypeCorrect, LocksInductive, StaysCurrent, PTL DEF Spec, ReportsOwnChange

----------------------------------------------------------------------------
(* Payloads *)

(* The values in a payload are those its caller gave. *)
LEMMA NodesType ==
  ASSUME NEW payload \in Payloads, NEW node \in Expanded(payload)
  PROVE  /\ node \in [path : Seq(STRING), isValue : BOOLEAN, value : Given \cup {{}}]
         /\ node.isValue => \E i \in DOMAIN payload : node = payload[i]
<1> DEFINE Node == [path : Seq(STRING), isValue : BOOLEAN, value : Given \cup {{}}]
<1>1. payload \in Seq(Node)
  BY ConfigSetAssumption
<1>2. PICK i \in DOMAIN payload : node \in Added(payload, i)
  BY DEF Expanded
<1>3. payload[i] \in Node
  <2> HIDE DEF Node
  <2> QED
    BY <1>1, <1>2
<1>4. CASE node = payload[i]
  BY <1>3, <1>4
<1>5. CASE node \in Along(payload[i])
  <2>1. PICK n \in 1..(Len(payload[i].path) - 1) :
          node = [path |-> SubSeq(payload[i].path, 1, n), isValue |-> FALSE, value |-> {}]
    BY <1>5 DEF Along
  <2>2. payload[i].path \in Seq(STRING)
    BY <1>3
  <2>3. SubSeq(payload[i].path, 1, n) \in Seq(STRING)
    <3>1. Len(payload[i].path) \in Nat
      BY <2>2
    <3> QED
      BY <2>1, <2>2, <3>1
  <2>4. node \in Node /\ ~node.isValue
    BY <2>1, <2>3
  <2> QED
    BY <2>4
<1> QED
  BY <1>2, <1>4, <1>5 DEF Added

(* So a call of config_set is one that SettingWriters has. *)
LEMMA SetCallIsCall ==
  ASSUME NEW ask \in Asked
  PROVE  ask.call \in SetCalls
<1>1. PICK given \in AcceptedPayloads, restart \in BOOLEAN :
        ask.call = SetCall(LeavesOf(Payload(given)), restart)
  BY DEF Asked
<1> DEFINE leaves == LeavesOf(Payload(given))
           on     == {s \in Settings : At(s, leaves) # {}}
           arrays == [s \in Settings |->
                        IF s \in on THEN (CHOOSE leaf \in At(s, leaves) : TRUE).value ELSE {}]
<1>2. ASSUME NEW leaf \in leaves PROVE leaf.value \in Given \cup {{}}
  <2>1. PICK n : leaf \in Inner(Expanded(given), n)
    BY DEF LeavesOf, Payload, Unwrapped
  <2>2. PICK node \in Expanded(given) : leaf = [node EXCEPT !.path = SubSeq(@, n + 1, Len(@))]
    BY <2>1 DEF Inner
  <2>3. given \in Payloads
    BY DEF AcceptedPayloads
  <2>4. node \in [path : Seq(STRING), isValue : BOOLEAN, value : Given \cup {{}}]
    BY <2>2, <2>3, NodesType
  <2> QED
    BY <2>2, <2>4
<1>3. ASSUME NEW s \in on PROVE (CHOOSE leaf \in At(s, leaves) : TRUE).value \in Given \cup {{}}
  BY <1>2 DEF At
<1>4. arrays \in [Settings -> Given \cup {{}}]
  BY <1>3
<1>5. \A s \in Settings \ on : arrays[s] = {}
  OBVIOUS
<1>6. ask.call = [op |-> "set", on |-> on, line |-> {}, restart |-> restart, arrays |-> arrays]
  BY <1>1 DEF SetCall
<1> HIDE DEF on, arrays
<1>7. on \in SUBSET Settings
  BY DEF on
<1> QED
  BY <1>4, <1>5, <1>6, <1>7 DEF SetCalls

(* The tools with their payloads are tools as SettingWriters has them: what  *)
(* is proved of those holds of them.                                        *)
THEOREM PayloadsOnly == SetSpec => Spec
<1>1. SetInit => Init
  BY DEF SetInit
<1>2. [SetNext]_setVars => [Next]_vars
  <2> SUFFICES ASSUME [SetNext]_setVars PROVE [Next]_vars
    OBVIOUS
  <2>1. ASSUME NEW p \in Procs, NEW ask \in Asked, BeginSet(p, ask) PROVE Next
    BY <2>1, SetCallIsCall DEF BeginSet, Next, Calls
  <2>2. ASSUME NEW p \in Procs, NEW c \in LineCalls \cup DropCalls, BeginOther(p, c) PROVE Next
    BY <2>2 DEF BeginOther, Next, Calls
  <2>3. ASSUME NEW p \in Procs,
               \/ TakeLock(p) \/ Read(p) \/ SetUnread(p) \/ RefuseSet(p)
               \/ Serve(p) \/ WriteFails(p) \/ Restarted(p) \/ Unlock(p)
        PROVE  Next
    BY <2>3 DEF RefuseSet, Next
  <2>4. ASSUME NEW c \in Archives, Import(c) PROVE Next
    BY <2>4, ConfigSetAssumption DEF Next
  <2>5. ASSUME NEW s \in Settings, NEW v \in Given, Elsewhere(s, v) PROVE Next
    BY <2>5 DEF Next
  <2>6. ASSUME NEW w \in late, ServeLate(w) PROVE Next
    BY <2>6 DEF Next
  <2>7. CASE UNCHANGED setVars
    BY <2>7 DEF setVars
  <2> QED
    BY <2>1, <2>2, <2>3, <2>4, <2>5, <2>6, <2>7 DEF SetNext
<1> QED
  BY <1>1, <1>2, PTL DEF SetSpec, Spec

(* All a caller of config_set, or of the tools beside it, is promised of     *)
(* locks, removals and reports.                                             *)
THEOREM PayloadsKeepPromises ==
  SetSpec => []LocksReturned /\ DropsOneName /\ ReportsOwnChange
BY PayloadsOnly, ReturnsLocks, LosesNothing, ReportsTruly

----------------------------------------------------------------------------
(* Risky settings *)

(* The tools that name one setting were refused a risky one. *)
KeepsOff ==
  \A p \in Procs : pc[p] # "idle" /\ call[p].op # "set" => call[p].on \cap Risky = {}

(* Only the beginning of a call sets what it is about. *)
LEMMA KeepsOffStep == TypeOK /\ KeepsOff /\ [SetNext]_setVars => KeepsOff'
<1> SUFFICES ASSUME TypeOK, KeepsOff, [SetNext]_setVars PROVE KeepsOff'
  OBVIOUS
<1>1. ASSUME NEW p \in Procs, NEW c \in Calls, Begin(p, c),
             c.op # "set" => c.on \cap Risky = {}
      PROVE  KeepsOff'
  BY <1>1 DEF Begin, KeepsOff, TypeOK
<1>2. ASSUME NEW p \in Procs, NEW ask \in Asked, BeginSet(p, ask) PROVE KeepsOff'
  <2>1. ask.call \in Calls /\ ask.call.op = "set"
    BY SetCallIsCall DEF Calls, SetCalls
  <2> QED
    BY <1>1, <1>2, <2>1 DEF BeginSet
<1>3. ASSUME NEW p \in Procs, NEW c \in LineCalls \cup DropCalls, BeginOther(p, c)
      PROVE  KeepsOff'
  BY <1>1, <1>3 DEF BeginOther, Calls
<1>4. ASSUME call' = call, \A q \in Procs : pc[q] = "idle" => pc'[q] = "idle"
      PROVE  KeepsOff'
  BY <1>4 DEF KeepsOff
<1>5. ASSUME NEW p \in Procs, NEW place, call' = call, pc[p] # "idle",
             pc' = [pc EXCEPT ![p] = place]
      PROVE  KeepsOff'
  BY <1>4, <1>5 DEF TypeOK
<1>6. ASSUME NEW p \in Procs, TakeLock(p) PROVE KeepsOff'
  BY <1>5, <1>6 DEF TakeLock
<1>7. ASSUME NEW p \in Procs, Read(p) \/ SetUnread(p) \/ Restarted(p) PROVE KeepsOff'
  BY <1>5, <1>7 DEF Read, SetUnread, Restarted
<1>8. ASSUME NEW p \in Procs, Refuse(p) \/ WriteFails(p) PROVE KeepsOff'
  BY <1>5, <1>8 DEF Refuse, WriteFails, Leave
<1>9. ASSUME NEW p \in Procs, Serve(p) PROVE KeepsOff'
  BY <1>5, <1>9 DEF Serve, Leave
<1>10. ASSUME NEW p \in Procs, Unlock(p) PROVE KeepsOff'
  <2>1. \/ UNCHANGED <<pc, call>>
        \/ /\ pc' = [pc EXCEPT ![p] = "idle"]
           /\ call' = [call EXCEPT ![p] = NoCall]
    BY <1>10 DEF Unlock
  <2> QED
    BY <2>1 DEF KeepsOff, TypeOK
<1>11. ASSUME UNCHANGED <<pc, call>> PROVE KeepsOff'
  BY <1>11 DEF KeepsOff
<1>12. ASSUME NEW c, Import(c) PROVE KeepsOff'
  BY <1>11, <1>12 DEF Import
<1>13. ASSUME NEW s \in Settings, NEW v \in Given, Elsewhere(s, v) PROVE KeepsOff'
  BY <1>11, <1>13 DEF Elsewhere
<1>14. ASSUME NEW w \in late, ServeLate(w) PROVE KeepsOff'
  BY <1>11, <1>14 DEF ServeLate
<1>15. CASE UNCHANGED setVars
  BY <1>11, <1>15 DEF setVars, vars
<1> QED
  BY <1>2, <1>3, <1>6, <1>7, <1>8, <1>9, <1>10, <1>12, <1>13, <1>14, <1>15
     DEF SetNext, RefuseSet

(* In SetNext too, only the step of p that sends its write is one that FTL   *)
(* serves, and the tool has not refused the payload.                        *)
LEMMA OnlyServeUnrefused ==
  ASSUME TypeOK, [SetNext]_setVars, NEW p \in Procs, Served(p), [Next]_vars
  PROVE  Serve(p) /\ ~Refuses(p)
<1>1. Serve(p) /\ pc[p] = "write" /\ pc'[p] # "write" /\ config' # config
  BY OnlyServe DEF Served
<1>2. \A q \in Procs : Serve(q) => q = p
  BY <1>1 DEF Serve, Leave, TypeOK
<1>3. ASSUME NEW q \in Procs,
             \/ \E ask \in Asked : BeginSet(q, ask)
             \/ \E c \in LineCalls \cup DropCalls : BeginOther(q, c)
             \/ TakeLock(q) \/ Read(q) \/ SetUnread(q) \/ RefuseSet(q)
             \/ WriteFails(q) \/ Restarted(q) \/ Unlock(q)
      PROVE  FALSE
  BY <1>1, <1>3 DEF BeginSet, BeginOther, Begin, TakeLock, Read, SetUnread, RefuseSet,
     Refuse, WriteFails, Restarted, Unlock
<1>4. pc' # pc
  BY <1>1
<1>5. ASSUME NEW c, Import(c) PROVE FALSE
  BY <1>4, <1>5 DEF Import
<1>6. ASSUME NEW s \in Settings, NEW v \in Given, Elsewhere(s, v) PROVE FALSE
  BY <1>4, <1>6 DEF Elsewhere
<1>7. ASSUME NEW w \in late, ServeLate(w) PROVE FALSE
  BY <1>4, <1>7 DEF ServeLate
<1>8. ~UNCHANGED setVars
  BY <1>4 DEF setVars, vars
<1>9. PICK q \in Procs : Serve(q) /\ ~Refuses(q)
  BY <1>3, <1>5, <1>6, <1>7, <1>8 DEF SetNext
<1> QED
  BY <1>1, <1>2, <1>9

(* No tool's write changes a risky setting, but for what others changed.     *)
THEOREM RiskyKept == SetSpec => RiskyStays
<1>1. SetSpec => []KeepsOff
  <2>1. SetInit => KeepsOff
    BY DEF SetInit, Init, KeepsOff
  <2> QED
    BY <2>1, KeepsOffStep, PayloadsOnly, TypeCorrect, PTL DEF SetSpec
<1>2. ASSUME TypeOK, KeepsOff, Current, [Next]_vars, [SetNext]_setVars,
             NEW p \in Procs, Served(p), ~touched[p], NEW s \in Risky
      PROVE  config'[s] = config[s]
  <2>1. Serve(p) /\ ~Refuses(p) /\ pc[p] = "write"
    BY <1>2, OnlyServeUnrefused DEF Served
  <2>2. PICK w \in Requests(p) : config' = After(w)
    BY <2>1 DEF Serve
  <2>3. w.on \subseteq call[p].on /\ s \in Settings
    BY <1>2, RequestsAreWrites, ConfigSetAssumption
  <2>4. CASE s \notin call[p].on
    BY <2>2, <2>3, <2>4 DEF After
  <2>5. CASE s \in call[p].on
    <3>1. call[p].op = "set"
      BY <1>2, <2>1, <2>5 DEF KeepsOff
    <3>2. read[p][s] = call[p].arrays[s]
      BY <2>1, <2>5, <3>1 DEF Refuses, ChangesRisky
    <3>3. call[p].arrays[s] \in Arrays
      BY <1>2, <2>3, CallsType DEF TypeOK
    <3>4. read[p] # Unread
      BY <2>3, <3>2, <3>3 DEF Unread, NoArray, Arrays, Lines
    <3>5. read[p][s] = config[s]
      BY <1>2, <2>1, <2>5, <3>4 DEF Current
    <3>6. w = Patch(call[p].on, call[p].arrays)
      BY <3>1, <2>2 DEF Requests
    <3>7. config'[s] = call[p].arrays[s]
      BY <2>2, <2>3, <2>5, <3>6 DEF After, Patch, Write
    <3> QED
      BY <3>2, <3>5, <3>7
  <2> QED
    BY <2>4, <2>5
<1>3. TypeOK /\ KeepsOff /\ Current /\ [Next]_vars /\ [SetNext]_setVars =>
        [\A p \in Procs : Served(p) /\ ~touched[p] =>
           \A s \in Risky : config'[s] = config[s]]_setVars
  BY <1>2
<1> QED
  BY <1>1, <1>3, PayloadsOnly, TypeCorrect, StaysCurrent, PTL DEF SetSpec, Spec, RiskyStays

----------------------------------------------------------------------------
(* What a payload says *)

LEMMA Least ==
  ASSUME NEW T \in SUBSET Nat, T # {}
  PROVE  \E n \in T : \A m \in T : n <= m
<1> DEFINE R == OpToRel(<, Nat)
<1>1. IsWellFoundedOn(R, Nat)
  BY NatLessThanWellFounded
<1>2. \A x, y \in Nat : y < x => <<y, x>> \in R
  BY DEF OpToRel
<1> HIDE DEF R
<1>3. PICK x \in T : \A y \in T : ~ (<<y, x>> \in R)
  BY <1>1, WFMin
<1>4. ASSUME NEW y \in T PROVE x <= y
  <2>1. ~(y < x)
    BY <1>2, <1>3
  <2> QED
    BY <2>1
<1> QED
  BY <1>4

Node == [path : Seq(STRING), isValue : BOOLEAN, value : Given \cup {{}}]

(* The node of a leaf that is l segments deep: a section, or the leaf itself. *)
Cut(leaf, l) ==
  IF l = Len(leaf.path) THEN leaf
  ELSE [path |-> SubSeq(leaf.path, 1, l), isValue |-> FALSE, value |-> {}]

(* Two leaves are in one section, or are one setting, l segments deep.        *)
Agree(x, y, l) ==
  l <= Len(x.path) /\ l <= Len(y.path) /\ \A m \in 1..l : Fold[x.path[m]] = Fold[y.path[m]]

(* Leaf i is the first to ask for its node of that depth.                    *)
FirstMet(given, i, l) == \A j \in 1..(i - 1) : ~Agree(given[i], given[j], l)

LEMMA LeavesType ==
  ASSUME NEW given \in Payloads
  PROVE  /\ Len(given) \in Nat /\ DOMAIN given = 1..Len(given)
         /\ \A i \in DOMAIN given :
              /\ given[i] \in Node /\ given[i].path \in Seq(STRING)
              /\ Len(given[i].path) \in Nat /\ 1 <= Len(given[i].path)
              /\ Len(given[i].path) <= MaxDepth
<1>1. given \in Seq(Node)
  BY ConfigSetAssumption DEF Node
<1>2. \A i \in DOMAIN given : given[i] \in Node
  BY <1>1
<1>3. \A i \in DOMAIN given : Len(given[i].path) \in 1..MaxDepth
  BY PayloadAssumption
<1>4. \A i \in DOMAIN given : given[i].path \in Seq(STRING)
  BY <1>2 DEF Node
<1> QED
  BY <1>1, <1>2, <1>3, <1>4

LEMMA SamePath ==
  ASSUME NEW x \in Seq(STRING), NEW y \in Seq(STRING)
  PROVE  Folded(x) = Folded(y) <=>
           Len(x) = Len(y) /\ \A m \in 1..Len(x) : Fold[x[m]] = Fold[y[m]]
<1>1. DOMAIN Folded(x) = 1..Len(x) /\ DOMAIN Folded(y) = 1..Len(y) /\ Len(x) \in Nat /\ Len(y) \in Nat
  BY DEF Folded
<1>2. /\ \A m \in 1..Len(x) : Folded(x)[m] = Fold[x[m]]
      /\ \A m \in 1..Len(y) : Folded(y)[m] = Fold[y[m]]
  BY DEF Folded
<1>3. ASSUME Folded(x) = Folded(y)
      PROVE  Len(x) = Len(y) /\ \A m \in 1..Len(x) : Fold[x[m]] = Fold[y[m]]
  <2>1. 1..Len(x) = 1..Len(y)
    BY <1>1, <1>3
  <2>2. Len(x) = Len(y)
    BY <1>1, <2>1
  <2> QED
    BY <1>2, <1>3, <2>2
<1>4. ASSUME Len(x) = Len(y), \A m \in 1..Len(x) : Fold[x[m]] = Fold[y[m]]
      PROVE  Folded(x) = Folded(y)
  BY <1>4 DEF Folded
<1> QED
  BY <1>3, <1>4

LEMMA Cuts ==
  ASSUME NEW leaf \in Node, NEW l \in 1..Len(leaf.path), NEW node, node = Cut(leaf, l)
  PROVE  /\ node \in {leaf} \cup Along(leaf) /\ node \in Node
         /\ node.path \in Seq(STRING) /\ Len(node.path) = l
         /\ \A m \in 1..l : node.path[m] = leaf.path[m]
         /\ node.isValue <=> leaf.isValue /\ l = Len(leaf.path)
         /\ node.isValue => node = leaf
<1>1. leaf.path \in Seq(STRING) /\ Len(leaf.path) \in Nat /\ leaf.isValue \in BOOLEAN
  BY DEF Node
<1>2. CASE l = Len(leaf.path)
  BY <1>1, <1>2 DEF Cut
<1>3. CASE l # Len(leaf.path)
  <2> DEFINE path == SubSeq(leaf.path, 1, l)
  <2>1. node = [path |-> path, isValue |-> FALSE, value |-> {}]
    BY <1>3 DEF Cut
  <2>2. path \in Seq(STRING) /\ Len(path) = l /\ \A m \in 1..l : path[m] = leaf.path[m]
    BY <1>1
  <2>3. node \in Along(leaf)
    <3>1. l \in 1..(Len(leaf.path) - 1)
      BY <1>1, <1>3
    <3> QED
      BY <2>1, <3>1 DEF Along
  <2> HIDE DEF path
  <2>4. node \in Node
    BY <2>1, <2>2 DEF Node
  <2> QED
    BY <1>3, <2>1, <2>2, <2>3, <2>4
<1> QED
  BY <1>2, <1>3

LEMMA AllCuts ==
  ASSUME NEW leaf \in Node, NEW node \in {leaf} \cup Along(leaf), Len(leaf.path) >= 1
  PROVE  \E l \in 1..Len(leaf.path) : node = Cut(leaf, l) /\ (node \in Along(leaf) => l # Len(leaf.path))
<1>1. Len(leaf.path) \in Nat
  BY DEF Node
<1>2. CASE node \in Along(leaf)
  <2>1. PICK n \in 1..(Len(leaf.path) - 1) :
          node = [path |-> SubSeq(leaf.path, 1, n), isValue |-> FALSE, value |-> {}]
    BY <1>2 DEF Along
  <2>2. n \in 1..Len(leaf.path) /\ n # Len(leaf.path)
    BY <1>1, <2>1
  <2> QED
    BY <2>1, <2>2 DEF Cut
<1>3. CASE node = leaf /\ node \notin Along(leaf)
  <2>1. Len(leaf.path) \in 1..Len(leaf.path)
    BY <1>1
  <2> QED
    BY <1>3, <2>1 DEF Cut
<1> QED
  BY <1>2, <1>3

(* A node finds another leaf's if the leaves agree that far. *)
LEMMA FindsCut ==
  ASSUME NEW x \in Node, NEW y \in Node, NEW l \in 1..Len(x.path), NEW k \in 1..Len(y.path)
  PROVE  Finds(Cut(y, k), Cut(x, l).path) <=> k = l /\ Agree(x, y, l)
<1> DEFINE c == Cut(x, l)
           d == Cut(y, k)
<1>1. c.path \in Seq(STRING) /\ Len(c.path) = l /\ \A m \in 1..l : c.path[m] = x.path[m]
  BY Cuts
<1>2. d.path \in Seq(STRING) /\ Len(d.path) = k /\ \A m \in 1..k : d.path[m] = y.path[m]
  BY Cuts
<1> HIDE DEF c, d
<1>3. Folded(d.path) = Folded(c.path) <=>
        k = l /\ \A m \in 1..k : Fold[d.path[m]] = Fold[c.path[m]]
  BY <1>1, <1>2, SamePath
<1>4. Len(x.path) \in Nat /\ Len(y.path) \in Nat
  BY DEF Node
<1>5. ASSUME k = l
      PROVE  Agree(x, y, l) <=> \A m \in 1..k : Fold[d.path[m]] = Fold[c.path[m]]
  <2>1. \A m \in 1..l : d.path[m] = y.path[m] /\ c.path[m] = x.path[m]
    BY <1>1, <1>2, <1>5
  <2>2. l <= Len(x.path) /\ l <= Len(y.path)
    BY <1>4, <1>5
  <2> QED
    BY <1>5, <2>1, <2>2 DEF Agree
<1>6. Folded(d.path) = Folded(c.path) <=> k = l /\ Agree(x, y, l)
  BY <1>3, <1>5
<1> QED
  BY <1>6 DEF Finds, c, d

(* What the leaves before leaf i ask for has none of its nodes that it is the *)
(* first to ask for.                                                         *)
LEMMA MergedFinds ==
  ASSUME NEW given \in Payloads, NEW i \in DOMAIN given, NEW l \in 1..Len(given[i].path)
  PROVE  (\E node \in Merged(given, i - 1) : Finds(node, Cut(given[i], l).path))
           <=> ~FirstMet(given, i, l)
<1> USE LeavesType
<1>1. ASSUME NEW node \in Merged(given, i - 1), Finds(node, Cut(given[i], l).path)
      PROVE  ~FirstMet(given, i, l)
  <2>1. PICK j \in 1..(i - 1) : node \in {given[j]} \cup Along(given[j])
    BY DEF Merged
  <2>2. j \in DOMAIN given
    OBVIOUS
  <2>3. PICK k \in 1..Len(given[j].path) : node = Cut(given[j], k)
    BY <2>1, <2>2, AllCuts
  <2>4. Agree(given[i], given[j], l)
    BY <1>1, <2>2, <2>3, FindsCut
  <2> QED
    BY <2>4 DEF FirstMet
<1>2. ASSUME ~FirstMet(given, i, l)
      PROVE  \E node \in Merged(given, i - 1) : Finds(node, Cut(given[i], l).path)
  <2>1. PICK j \in 1..(i - 1) : Agree(given[i], given[j], l)
    BY <1>2 DEF FirstMet
  <2>2. j \in DOMAIN given /\ l \in 1..Len(given[j].path)
    BY <2>1 DEF Agree
  <2>3. Cut(given[j], l) \in {given[j]} \cup Along(given[j])
    BY <2>2, Cuts
  <2>4. Cut(given[j], l) \in Merged(given, i - 1)
    BY <2>3 DEF Merged
  <2>5. Finds(Cut(given[j], l), Cut(given[i], l).path)
    BY <2>1, <2>2, FindsCut
  <2> QED
    BY <2>4, <2>5
<1> QED
  BY <1>1, <1>2

(* A payload that does not clash is expanded into one node for each section   *)
(* and each leaf, made by the first that asks for it.                        *)
LEMMA WholeLeafFirst ==
  ASSUME NEW given \in Payloads, ~Clashes(given), NEW i \in DOMAIN given
  PROVE  FirstMet(given, i, Len(given[i].path))
<1>1. ~\E node \in Merged(given, i - 1) : Finds(node, given[i].path)
  BY DEF Clashes
<1>2. Cut(given[i], Len(given[i].path)) = given[i]
  BY DEF Cut
<1>3. Len(given[i].path) \in 1..Len(given[i].path)
  BY LeavesType
<1> QED
  BY <1>1, <1>2, <1>3, MergedFinds

LEMMA ExpandedNode ==
  ASSUME NEW given \in Payloads, ~Clashes(given), NEW node \in Expanded(given)
  PROVE  \E i \in DOMAIN given : \E l \in 1..Len(given[i].path) :
           node = Cut(given[i], l) /\ FirstMet(given, i, l)
<1>1. PICK i \in DOMAIN given : node \in Added(given, i)
  BY DEF Expanded
<1>2. given[i] \in Node /\ Len(given[i].path) \in Nat /\ Len(given[i].path) >= 1
  BY LeavesType
<1>3. CASE node = given[i]
  <2>1. node = Cut(given[i], Len(given[i].path)) /\ Len(given[i].path) \in 1..Len(given[i].path)
    BY <1>2, <1>3 DEF Cut
  <2> QED
    BY <2>1, WholeLeafFirst
<1>4. CASE node \in Along(given[i]) /\ \A other \in Merged(given, i - 1) : ~Finds(other, node.path)
  <2>1. PICK l \in 1..Len(given[i].path) : node = Cut(given[i], l)
    BY <1>2, <1>4, AllCuts
  <2>2. FirstMet(given, i, l)
    BY <1>4, <2>1, MergedFinds
  <2> QED
    BY <2>1, <2>2
<1> QED
  BY <1>1, <1>3, <1>4 DEF Added

LEMMA NodeExpanded ==
  ASSUME NEW given \in Payloads, NEW i \in DOMAIN given, NEW l \in 1..Len(given[i].path),
         l = Len(given[i].path) \/ FirstMet(given, i, l)
  PROVE  Cut(given[i], l) \in Expanded(given)
<1>1. given[i] \in Node
  BY LeavesType
<1>2. Cut(given[i], l) \in {given[i]} \cup Along(given[i])
  BY <1>1, Cuts
<1>3. CASE Cut(given[i], l) = given[i]
  BY <1>3 DEF Expanded, Added
<1>4. CASE Cut(given[i], l) # given[i]
  <2>1. l # Len(given[i].path)
    BY <1>4 DEF Cut
  <2>2. \A node \in Merged(given, i - 1) : ~Finds(node, Cut(given[i], l).path)
    BY <2>1, MergedFinds
  <2> QED
    BY <1>2, <1>4, <2>2 DEF Expanded, Added
<1> QED
  BY <1>3, <1>4

(* A node without the n segments that lead to it.                            *)
Stripped(node, n) == [node EXCEPT !.path = SubSeq(@, n + 1, Len(@))]

LEMMA StrippedType ==
  ASSUME NEW node \in Node, NEW n \in Nat, n < Len(node.path), NEW s, s = Stripped(node, n)
  PROVE  /\ s.path \in Seq(STRING) /\ Len(s.path) = Len(node.path) - n
         /\ \A m \in 1..(Len(node.path) - n) : s.path[m] = node.path[n + m]
         /\ s.isValue = node.isValue /\ s.value = node.value
         /\ s = [path |-> s.path, isValue |-> node.isValue, value |-> node.value]
<1> DEFINE path == SubSeq(node.path, n + 1, Len(node.path))
<1>1. node.path \in Seq(STRING) /\ Len(node.path) \in Nat
  BY DEF Node
<1>2. s = [path |-> path, isValue |-> node.isValue, value |-> node.value]
  BY DEF Stripped, Node
<1>3. /\ path \in Seq(STRING) /\ Len(path) = Len(node.path) - n
      /\ \A m \in 1..(Len(node.path) - n) : path[m] = node.path[n + m]
  BY <1>1
<1> HIDE DEF path
<1> QED
  BY <1>2, <1>3

LEMMA InnerNodes ==
  ASSUME NEW nodes \in SUBSET Node, NEW n \in Nat, NEW s
  PROVE  s \in Inner(nodes, n) <=>
           \E node \in nodes : n < Len(node.path) /\ s = Stripped(node, n)
<1>1. \A node \in nodes : Len(node.path) > n <=> n < Len(node.path)
  BY DEF Node
<1> QED
  BY <1>1 DEF Inner, Stripped

(* The nodes that are left when n envelopes are off. *)
LEMMA InnerCuts ==
  ASSUME NEW given \in Payloads, ~Clashes(given), NEW n \in Nat, NEW s
  PROVE  s \in Inner(Expanded(given), n) <=>
           \E i \in DOMAIN given : \E l \in 1..Len(given[i].path) :
             n < l /\ FirstMet(given, i, l) /\ s = Stripped(Cut(given[i], l), n)
<1>1. \A i \in DOMAIN given : \A l \in 1..Len(given[i].path) :
        Len(Cut(given[i], l).path) = l /\ Cut(given[i], l) \in Node
  BY LeavesType, Cuts
<1>2. Expanded(given) \in SUBSET Node
  BY <1>1, ExpandedNode
<1>3. s \in Inner(Expanded(given), n) <=>
        \E node \in Expanded(given) : n < Len(node.path) /\ s = Stripped(node, n)
  BY <1>2, InnerNodes
<1>4. ASSUME NEW node \in Expanded(given), n < Len(node.path), s = Stripped(node, n)
      PROVE  \E i \in DOMAIN given : \E l \in 1..Len(given[i].path) :
               n < l /\ FirstMet(given, i, l) /\ s = Stripped(Cut(given[i], l), n)
  <2>1. PICK i \in DOMAIN given : \E l \in 1..Len(given[i].path) :
          node = Cut(given[i], l) /\ FirstMet(given, i, l)
    BY ExpandedNode
  <2>2. PICK l \in 1..Len(given[i].path) : node = Cut(given[i], l) /\ FirstMet(given, i, l)
    BY <2>1
  <2> QED
    BY <1>1, <1>4, <2>2
<1>5. ASSUME NEW i \in DOMAIN given, NEW l \in 1..Len(given[i].path),
             n < l, FirstMet(given, i, l), s = Stripped(Cut(given[i], l), n)
      PROVE  \E node \in Expanded(given) : n < Len(node.path) /\ s = Stripped(node, n)
  BY <1>1, <1>5, NodeExpanded
<1> QED
  BY <1>3, <1>4, <1>5

(* The sections and settings at the top when n envelopes are off.            *)
LEMMA TopCuts ==
  ASSUME NEW given \in Payloads, ~Clashes(given), NEW n \in Nat, NEW s
  PROVE  s \in Tops(Inner(Expanded(given), n)) <=>
           \E i \in DOMAIN given :
             n + 1 <= Len(given[i].path) /\ FirstMet(given, i, n + 1)
               /\ s = Stripped(Cut(given[i], n + 1), n)
<1>1. \A i \in DOMAIN given : given[i] \in Node /\ Len(given[i].path) \in Nat
  BY LeavesType
<1>2. ASSUME NEW i \in DOMAIN given, NEW l \in 1..Len(given[i].path), n < l
      PROVE  Len(Stripped(Cut(given[i], l), n).path) = l - n
  <2>1. Cut(given[i], l) \in Node /\ Len(Cut(given[i], l).path) = l
    BY <1>1, Cuts
  <2> QED
    BY <1>2, <2>1, StrippedType
<1>3. ASSUME s \in Tops(Inner(Expanded(given), n))
      PROVE  \E i \in DOMAIN given :
               n + 1 <= Len(given[i].path) /\ FirstMet(given, i, n + 1)
                 /\ s = Stripped(Cut(given[i], n + 1), n)
  <2>1. s \in Inner(Expanded(given), n) /\ Len(s.path) = 1
    BY <1>3 DEF Tops
  <2>2. PICK i \in DOMAIN given : \E l \in 1..Len(given[i].path) :
          n < l /\ FirstMet(given, i, l) /\ s = Stripped(Cut(given[i], l), n)
    BY <2>1, InnerCuts
  <2>3. PICK l \in 1..Len(given[i].path) :
          n < l /\ FirstMet(given, i, l) /\ s = Stripped(Cut(given[i], l), n)
    BY <2>2
  <2>4. l - n = 1
    BY <1>2, <2>1, <2>3
  <2>5. l = n + 1 /\ n + 1 <= Len(given[i].path)
    BY <1>1, <2>4
  <2> QED
    BY <2>3, <2>5
<1>4. ASSUME NEW i \in DOMAIN given, n + 1 <= Len(given[i].path), FirstMet(given, i, n + 1),
             s = Stripped(Cut(given[i], n + 1), n)
      PROVE  s \in Tops(Inner(Expanded(given), n))
  <2>1. n + 1 \in 1..Len(given[i].path) /\ n < n + 1
    BY <1>1, <1>4
  <2>2. s \in Inner(Expanded(given), n)
    BY <1>4, <2>1, InnerCuts
  <2>3. Len(s.path) = (n + 1) - n
    BY <1>2, <1>4, <2>1
  <2> QED
    BY <2>2, <2>3, (n + 1) - n = 1 DEF Tops
<1> QED
  BY <1>3, <1>4

(* The one at the top that a leaf makes. *)
LEMMA TopOf ==
  ASSUME NEW given \in Payloads, NEW i \in DOMAIN given, NEW n \in Nat,
         n + 1 <= Len(given[i].path), NEW s, s = Stripped(Cut(given[i], n + 1), n)
  PROVE  /\ s.path = <<Envelope>> <=> given[i].path[n + 1] = Envelope
         /\ s.isValue <=> given[i].isValue /\ n + 1 = Len(given[i].path)
<1> DEFINE c == Cut(given[i], n + 1)
<1>1. given[i] \in Node /\ n + 1 \in 1..Len(given[i].path) /\ c = Cut(given[i], n + 1)
  BY LeavesType
<1> HIDE DEF c
<1>2. /\ c \in Node /\ Len(c.path) = n + 1 /\ \A m \in 1..(n + 1) : c.path[m] = given[i].path[m]
      /\ c.isValue <=> given[i].isValue /\ n + 1 = Len(given[i].path)
  BY <1>1, Cuts
<1>3. s.path \in Seq(STRING) /\ Len(s.path) = 1 /\ s.path[1] = c.path[n + 1] /\ s.isValue = c.isValue
  <2>1. n < Len(c.path) /\ Len(c.path) - n = 1 /\ s = Stripped(c, n)
    BY <1>1, <1>2
  <2>2. /\ s.path \in Seq(STRING) /\ Len(s.path) = Len(c.path) - n
        /\ \A m \in 1..(Len(c.path) - n) : s.path[m] = c.path[n + m]
    BY <1>2, <2>1, StrippedType
  <2>3. s.isValue = c.isValue
    BY <1>2, <2>1, StrippedType
  <2>4. 1 \in 1..(Len(c.path) - n)
    BY <2>1
  <2> QED
    BY <2>1, <2>2, <2>3, <2>4
<1>4. s.path = <<Envelope>> <=> s.path[1] = Envelope
  BY <1>3
<1> QED
  BY <1>2, <1>3, <1>4

(* A leaf that deep has the segment of the first with which it agrees. *)
LEMMA FirstAgrees ==
  ASSUME NEW given \in Payloads, NEW i \in DOMAIN given, NEW l \in 1..Len(given[i].path)
  PROVE  \E j \in DOMAIN given :
           FirstMet(given, j, l) /\ Agree(given[i], given[j], l) /\ l \in 1..Len(given[j].path)
<1> DEFINE T == {j \in DOMAIN given : j <= i /\ Agree(given[i], given[j], l)}
<1>1. Len(given) \in Nat /\ DOMAIN given = 1..Len(given)
      /\ \A j \in DOMAIN given : Len(given[j].path) \in Nat
  BY LeavesType
<1>2. i \in T
  BY <1>1 DEF Agree
<1>3. T \in SUBSET Nat /\ T # {}
  BY <1>1, <1>2
<1>4. PICK j \in T : \A k \in T : j <= k
  BY <1>3, Least
<1>5. j \in 1..Len(given) /\ j <= i /\ i \in 1..Len(given) /\ Agree(given[i], given[j], l)
  BY <1>1, <1>4
<1>6. ASSUME NEW k \in 1..(j - 1), Agree(given[j], given[k], l) PROVE FALSE
  <2>1. k \in DOMAIN given /\ k <= i /\ k < j
    BY <1>1, <1>5
  <2>2. Agree(given[i], given[k], l)
    BY <1>5, <1>6 DEF Agree
  <2> QED
    BY <1>4, <2>1, <2>2
<1>7. l \in 1..Len(given[j].path)
  BY <1>1, <1>5 DEF Agree
<1> QED
  BY <1>1, <1>5, <1>6, <1>7 DEF FirstMet

(* The m-th object with one key is an envelope exactly if the payload's keys  *)
(* say so, where those before it are.                                        *)
LEMMA OneEnvelope ==
  ASSUME NEW given \in Payloads, ~Clashes(given), NEW n \in Nat,
         \A m \in 1..n : Enveloped(given, m)
  PROVE  Wrapped(Inner(Expanded(given), n)) <=> Enveloped(given, n + 1)
<1> DEFINE X == Inner(Expanded(given), n)
           d == n + 1
           within == {i \in DOMAIN given : d <= Len(given[i].path)}
           Top(i) == Stripped(Cut(given[i], d), n)
<1>1. /\ Len(given) \in Nat /\ DOMAIN given = 1..Len(given) /\ d \in Nat
      /\ \A i \in DOMAIN given : Len(given[i].path) \in Nat
  BY LeavesType
<1>2. \A i \in within : d \in 1..Len(given[i].path)
  BY <1>1
<1>3. ASSUME NEW i \in within
      PROVE  /\ Top(i).path = <<Envelope>> <=> given[i].path[d] = Envelope
             /\ Top(i).isValue <=> given[i].isValue /\ d = Len(given[i].path)
  BY TopOf
<1>4. \A s : s \in Tops(X) <=> \E i \in within : FirstMet(given, i, d) /\ s = Top(i)
  BY TopCuts
<1>5. Enveloped(given, d) <=>
        /\ within # {}
        /\ \A i \in within :
             /\ Fold[given[i].path[d]] = Envelope
             /\ given[i].isValue => d < Len(given[i].path)
             /\ (\A j \in within : i <= j) => given[i].path[d] = Envelope
  BY DEF Enveloped
<1>6. Fold[Envelope] = Envelope
  BY PayloadAssumption
<1>7. ASSUME Wrapped(X) PROVE Enveloped(given, d)
  <2>1. PICK t \in X : Tops(X) = {t} /\ t.path = <<Envelope>> /\ ~t.isValue
    BY <1>7 DEF Wrapped
  <2> HIDE DEF Top, X, d, within
  <2>2. \A i \in within : FirstMet(given, i, d) => Top(i) = t
    BY <1>4, <2>1
  <2>3. \A i \in within : FirstMet(given, i, d) =>
          given[i].path[d] = Envelope /\ ~(given[i].isValue /\ d = Len(given[i].path))
    BY <1>3, <2>1, <2>2
  <2>4. within # {}
    BY <1>4, <2>1
  <2>5. ASSUME NEW i \in within
        PROVE  /\ Fold[given[i].path[d]] = Envelope
               /\ given[i].isValue => d < Len(given[i].path)
               /\ (\A j \in within : i <= j) => given[i].path[d] = Envelope
    <3>1. i \in DOMAIN given /\ d \in 1..Len(given[i].path)
      BY <1>2 DEF within
    <3>2. PICK j \in DOMAIN given :
            FirstMet(given, j, d) /\ Agree(given[i], given[j], d) /\ d \in 1..Len(given[j].path)
      BY <3>1, FirstAgrees
    <3>3. j \in within
      BY <3>2, <1>1 DEF within
    <3>4. Fold[given[i].path[d]] = Fold[given[j].path[d]]
      <4>1. d \in 1..d
        BY <3>1
      <4> QED
        BY <3>2, <4>1 DEF Agree
    <3>5. Fold[given[i].path[d]] = Envelope
      BY <1>6, <2>3, <3>2, <3>3, <3>4
    <3>6. given[i].isValue => d < Len(given[i].path)
      <4>1. d = Len(given[i].path) => FirstMet(given, i, d)
        BY <3>1, WholeLeafFirst
      <4> QED
        BY <1>1, <2>3, <3>1, <4>1
    <3>7. ASSUME \A k \in within : i <= k PROVE given[i].path[d] = Envelope
      <4>1. ASSUME NEW k \in 1..(i - 1) PROVE ~Agree(given[i], given[k], d)
        <5>1. k \in DOMAIN given /\ ~(i <= k)
          BY <1>1, <3>1
        <5>2. k \notin within
          BY <3>7, <5>1
        <5> QED
          BY <5>1, <5>2 DEF within, Agree
      <4>2. FirstMet(given, i, d)
        BY <4>1 DEF FirstMet
      <4> QED
        BY <2>3, <4>2
    <3> QED
      BY <3>5, <3>6, <3>7
  <2> QED
    BY <1>5, <2>4, <2>5
<1>8. ASSUME Enveloped(given, d) PROVE Wrapped(X)
  <2>1. within \in SUBSET Nat /\ within # {}
    BY <1>1, <1>5, <1>8
  <2> HIDE DEF Top, X, d
  <2>2. PICK i \in within : \A j \in within : i <= j
    BY <2>1, Least
  <2>3. i \in DOMAIN given /\ d \in 1..Len(given[i].path)
    BY <1>2, <2>2
  <2>4. ASSUME NEW k \in 1..(i - 1) PROVE ~Agree(given[i], given[k], d)
    <3>1. k \in DOMAIN given /\ ~(i <= k)
      BY <1>1, <2>3
    <3>2. k \notin within
      BY <2>2, <3>1
    <3> QED
      BY <3>1, <3>2 DEF Agree
  <2>5. FirstMet(given, i, d)
    BY <2>4 DEF FirstMet
  <2>6. given[i].path[d] = Envelope /\ (given[i].isValue => d < Len(given[i].path))
    BY <1>5, <1>8, <2>2
  <2>7. Top(i).path = <<Envelope>> /\ ~Top(i).isValue
    BY <1>1, <1>3, <2>3, <2>6
  <2>8. ASSUME NEW j \in within, FirstMet(given, j, d) PROVE j = i
    <3>1. i <= j /\ j \in DOMAIN given /\ d <= Len(given[j].path) /\ d <= Len(given[i].path)
      BY <1>1, <2>2, <2>3
    <3>2. \A m \in 1..n : Fold[given[j].path[m]] = Envelope /\ Fold[given[i].path[m]] = Envelope
      <4>1. ASSUME NEW m \in 1..n PROVE m <= Len(given[j].path) /\ m <= Len(given[i].path)
        BY <1>1, <3>1 DEF d
      <4> QED
        BY <2>3, <3>1, <4>1 DEF Enveloped
    <3>3. Fold[given[j].path[d]] = Envelope /\ Fold[given[i].path[d]] = Envelope
      BY <1>5, <1>8, <2>2
    <3>4. \A m \in 1..d : m \in 1..n \/ m = d
      BY DEF d
    <3>5. Agree(given[j], given[i], d)
      BY <3>1, <3>2, <3>3, <3>4 DEF Agree
    <3>6. ~(i \in 1..(j - 1))
      BY <2>8, <3>5 DEF FirstMet
    <3> QED
      BY <1>1, <2>3, <3>1, <3>6
  <2>9. Tops(X) = {Top(i)}
    BY <1>4, <2>5, <2>8
  <2>10. Top(i) \in X
    BY <2>9 DEF Tops
  <2> QED
    BY <2>7, <2>9, <2>10 DEF Wrapped
<1> QED
  BY <1>7, <1>8

LEMMA Induction ==
  ASSUME NEW T \in SUBSET Nat, 0 \in T, \A n \in T : n + 1 \in T
  PROVE  Nat = T
<1> SUFFICES ASSUME Nat # T PROVE FALSE
  OBVIOUS
<1>1. PICK n \in Nat \ T : \A m \in Nat \ T : n <= m
  <2>1. Nat \ T \in SUBSET Nat /\ Nat \ T # {}
    OBVIOUS
  <2> QED
    BY <2>1, Least
<1>2. n # 0 /\ n - 1 \in Nat /\ n - 1 \notin Nat \ T
  BY <1>1
<1>3. n - 1 \in T /\ n = (n - 1) + 1
  BY <1>1, <1>2
<1> QED
  BY <1>1, <1>3

(* As many envelopes come off as the caller supplied. *)
LEMMA EnvelopesOff ==
  ASSUME NEW given \in Payloads, ~Clashes(given)
  PROVE  /\ Payload(given) = Inner(Expanded(given), Envelopes(given))
         /\ Envelopes(given) \in Nat
         /\ \A m \in 1..Envelopes(given) : Enveloped(given, m)
<1> DEFINE W(n) == Wrapped(Inner(Expanded(given), n))
           E(n) == Enveloped(given, n)
           A(n) == ~W(n) /\ \A m \in 0..(n - 1) : W(m)
           B(n) == ~E(n + 1) /\ \A m \in 1..n : E(m)
           T    == {n \in Nat : (\A m \in 0..(n - 1) : W(m)) <=> (\A m \in 1..n : E(m))}
<1>1. \A n \in Nat : (\A m \in 1..n : E(m)) => (W(n) <=> E(n + 1))
  BY OneEnvelope
<1>2. MaxDepth \in Nat
  BY PayloadAssumption
<1>3. ~E(MaxDepth + 1)
  <2>1. \A i \in DOMAIN given : ~(MaxDepth + 1 <= Len(given[i].path))
    BY <1>2, LeavesType
  <2> QED
    BY <2>1 DEF Enveloped
<1> HIDE DEF W, E
<1>4. 0 \in T
  OBVIOUS
<1>5. ASSUME NEW n \in T PROVE n + 1 \in T
  <2>1. /\ n \in Nat /\ n + 1 \in Nat
        /\ \A m : m \in 0..((n + 1) - 1) <=> m \in 0..(n - 1) \/ m = n
        /\ \A m : m \in 1..(n + 1) <=> m \in 1..n \/ m = n + 1
    OBVIOUS
  <2>2. (\A m \in 0..(n - 1) : W(m)) <=> (\A m \in 1..n : E(m))
    OBVIOUS
  <2>3. (\A m \in 1..n : E(m)) => (W(n) <=> E(n + 1))
    BY <1>1, <2>1
  <2>4. (\A m \in 0..((n + 1) - 1) : W(m)) <=> (\A m \in 1..(n + 1) : E(m))
    BY <2>1, <2>2, <2>3
  <2> QED
    BY <2>1, <2>4
<1>6. T = Nat
  <2>1. T \in SUBSET Nat
    OBVIOUS
  <2> HIDE DEF T
  <2> QED
    BY <1>4, <1>5, <2>1, Induction
<1>7. \A n \in Nat : A(n) <=> B(n)
  <2> SUFFICES ASSUME NEW n \in Nat PROVE A(n) <=> B(n)
    OBVIOUS
  <2>1. (\A m \in 0..(n - 1) : W(m)) <=> (\A m \in 1..n : E(m))
    BY <1>6
  <2> QED
    BY <1>1, <2>1
<1>8. \E n \in 0..MaxDepth : B(n)
  <2> DEFINE S == {n \in Nat : ~E(n + 1)}
  <2>1. S \in SUBSET Nat /\ MaxDepth \in S
    BY <1>2, <1>3
  <2>2. PICK n \in S : \A m \in S : n <= m
    BY <2>1, Least
  <2>3. n \in Nat /\ ~E(n + 1) /\ n <= MaxDepth
    BY <2>1, <2>2
  <2>4. ASSUME NEW m \in 1..n PROVE E(m)
    <3>1. m - 1 \in Nat /\ ~(n <= m - 1) /\ (m - 1) + 1 = m
      BY <2>3
    <3>2. m - 1 \notin S
      BY <2>2, <3>1
    <3> QED
      BY <3>1, <3>2
  <2> QED
    BY <1>2, <2>3, <2>4
<1>9. ASSUME NEW n \in Nat, NEW k \in Nat, B(n), B(k), n < k PROVE FALSE
  <2>1. n + 1 \in 1..k
    BY <1>9
  <2> QED
    BY <1>9, <2>1
<1>10. \A n \in Nat, k \in Nat : B(n) /\ B(k) => n = k
  BY <1>9
<1> DEFINE x == CHOOSE n \in 0..MaxDepth : A(n)
           y == CHOOSE n \in 0..MaxDepth : B(n)
<1>11. x \in 0..MaxDepth /\ A(x)
  <2>1. \E n \in 0..MaxDepth : A(n)
    BY <1>2, <1>7, <1>8
  <2> HIDE DEF A
  <2> QED
    BY <2>1
<1>12. y \in 0..MaxDepth /\ B(y)
  <2> HIDE DEF B
  <2> QED
    BY <1>8
<1>13. Payload(given) = Inner(Expanded(given), x)
  BY DEF Payload, Unwrapped, W
<1>14. Envelopes(given) = y
  BY DEF Envelopes, E
<1> HIDE DEF x, y
<1>15. x \in Nat /\ y \in Nat /\ x = y
  <2>1. x \in Nat /\ y \in Nat
    BY <1>2, <1>11, <1>12
  <2> HIDE DEF A, B
  <2> QED
    BY <2>1, <1>7, <1>10, <1>11, <1>12
<1>16. \A m \in 1..y : Enveloped(given, m)
  BY <1>12 DEF E
<1> QED
  BY <1>13, <1>14, <1>15, <1>16

(* The values a payload has for a setting, when its envelopes are off, are    *)
(* those its leaves give it by their paths, and there is one at most.         *)
LEMMA ValuesNamed ==
  ASSUME NEW given \in AcceptedPayloads, NEW s \in Settings, NEW x
  PROVE  x \in At(s, LeavesOf(Payload(given))) <=>
           \E i \in DOMAIN given :
             Means(given, i, s) /\ x = Stripped(given[i], Envelopes(given))
<1> DEFINE n == Envelopes(given)
           N == Expanded(given)
<1>1. given \in Payloads /\ ~Clashes(given)
  BY DEF AcceptedPayloads, Acceptable
<1>2. Payload(given) = Inner(N, n) /\ n \in Nat /\ \A m \in 1..n : Enveloped(given, m)
  BY <1>1, EnvelopesOff
<1>3. \A i \in DOMAIN given :
        /\ given[i] \in Node /\ Len(given[i].path) \in Nat /\ 1 <= Len(given[i].path)
        /\ given[i].isValue \in BOOLEAN
  BY <1>1, LeavesType DEF Node
<1>4. ASSUME NEW i \in DOMAIN given, n < Len(given[i].path)
      PROVE  /\ Stripped(given[i], n).isValue = given[i].isValue
             /\ Stripped(given[i], n).path = SubSeq(given[i].path, n + 1, Len(given[i].path))
  BY <1>3 DEF Stripped, Node
<1>5. x \in At(s, LeavesOf(Payload(given))) <=>
        x \in Inner(N, n) /\ x.isValue /\ Folded(x.path) = PathOf[s]
  BY <1>2 DEF At, LeavesOf
<1> HIDE DEF n, N
<1>6. ASSUME x \in Inner(N, n), x.isValue, Folded(x.path) = PathOf[s]
      PROVE  \E i \in DOMAIN given : Means(given, i, s) /\ x = Stripped(given[i], n)
  <2>1. PICK i \in DOMAIN given : \E l \in 1..Len(given[i].path) :
          n < l /\ FirstMet(given, i, l) /\ x = Stripped(Cut(given[i], l), n)
    BY <1>1, <1>2, <1>6, InnerCuts DEF N
  <2>2. PICK l \in 1..Len(given[i].path) : n < l /\ x = Stripped(Cut(given[i], l), n)
    BY <2>1
  <2>3. PICK c : c = Cut(given[i], l)
    OBVIOUS
  <2>4. c \in Node /\ Len(c.path) = l /\ (c.isValue => c = given[i])
    BY <1>3, <2>2, <2>3, Cuts
  <2>5. x = Stripped(c, n)
    BY <2>2, <2>3
  <2>6. x.isValue = c.isValue
    BY <1>2, <2>2, <2>4, <2>5, StrippedType
  <2>7. c = given[i]
    BY <1>6, <2>4, <2>6
  <2>8. n < Len(given[i].path) /\ x = Stripped(given[i], n)
    BY <2>2, <2>4, <2>5, <2>7
  <2>9. given[i].isValue /\ PathOf[s] = Folded(SubSeq(given[i].path, n + 1, Len(given[i].path)))
    BY <1>4, <1>6, <2>8
  <2>10. Means(given, i, s)
    BY <2>9 DEF Means, n
  <2> QED
    BY <2>8, <2>10
<1>7. ASSUME NEW i \in DOMAIN given, Means(given, i, s), x = Stripped(given[i], n)
      PROVE  x \in Inner(N, n) /\ x.isValue /\ Folded(x.path) = PathOf[s]
  <2>1. given[i].isValue /\ PathOf[s] = Folded(SubSeq(given[i].path, n + 1, Len(given[i].path)))
    BY <1>7 DEF Means, n
  <2>2. n < Len(given[i].path)
    <3>1. SUFFICES ASSUME Len(given[i].path) <= n PROVE FALSE
      BY <1>2, <1>3
    <3>2. Enveloped(given, Len(given[i].path))
      BY <1>2, <1>3, <3>1
    <3>3. Len(given[i].path) < Len(given[i].path)
      BY <1>3, <2>1, <3>2 DEF Enveloped
    <3> QED
      BY <1>3, <3>3
  <2>3. x.isValue /\ Folded(x.path) = PathOf[s]
    BY <1>4, <1>7, <2>1, <2>2
  <2>4. given[i] = Cut(given[i], Len(given[i].path)) /\ Len(given[i].path) \in 1..Len(given[i].path)
    BY <1>3 DEF Cut
  <2>5. FirstMet(given, i, Len(given[i].path))
    BY <1>1, WholeLeafFirst
  <2>6. x \in Inner(N, n)
    BY <1>1, <1>2, <1>7, <2>2, <2>4, <2>5, InnerCuts DEF N
  <2> QED
    BY <2>3, <2>6
<1> QED
  BY <1>5, <1>6, <1>7 DEF n

LEMMA OneValueNamed ==
  ASSUME NEW given \in AcceptedPayloads, NEW s \in Settings,
         NEW i \in DOMAIN given, NEW j \in DOMAIN given, Means(given, i, s), Means(given, j, s)
  PROVE  i = j
<1> DEFINE n == Envelopes(given)
<1>1. given \in Payloads /\ ~Clashes(given)
  BY DEF AcceptedPayloads, Acceptable
<1>2. n \in Nat /\ \A m \in 1..n : Enveloped(given, m)
  BY <1>1, EnvelopesOff
<1> HIDE DEF n
<1>3. /\ DOMAIN given = 1..Len(given) /\ Len(given) \in Nat
      /\ \A k \in DOMAIN given :
           /\ given[k].path \in Seq(STRING) /\ Len(given[k].path) \in Nat
           /\ 1 <= Len(given[k].path)
  BY <1>1, LeavesType
<1>4. ASSUME NEW k \in DOMAIN given, given[k].isValue PROVE n < Len(given[k].path)
  <2>1. SUFFICES ASSUME Len(given[k].path) <= n PROVE FALSE
    BY <1>2, <1>3
  <2>2. Enveloped(given, Len(given[k].path))
    BY <1>2, <1>3, <2>1
  <2>3. Len(given[k].path) < Len(given[k].path)
    BY <1>3, <1>4, <2>2 DEF Enveloped
  <2> QED
    BY <1>3, <2>3
<1> DEFINE Rest(k) == SubSeq(given[k].path, n + 1, Len(given[k].path))
<1>5. ASSUME NEW k \in DOMAIN given, n < Len(given[k].path)
      PROVE  /\ Rest(k) \in Seq(STRING) /\ Len(Rest(k)) = Len(given[k].path) - n
             /\ \A m \in 1..(Len(given[k].path) - n) : Rest(k)[m] = given[k].path[n + m]
  BY <1>2, <1>3, <1>5
<1>6. ASSUME NEW a \in DOMAIN given, NEW b \in DOMAIN given, b < a,
             Means(given, a, s), Means(given, b, s)
      PROVE  FALSE
  <2>1. given[a].isValue /\ given[b].isValue /\ Folded(Rest(a)) = Folded(Rest(b))
    BY <1>6 DEF Means, n
  <2>2. n < Len(given[a].path) /\ n < Len(given[b].path)
    BY <1>4, <2>1
  <2>3. /\ Rest(a) \in Seq(STRING) /\ Rest(b) \in Seq(STRING)
        /\ Len(Rest(a)) = Len(given[a].path) - n /\ Len(Rest(b)) = Len(given[b].path) - n
        /\ \A m \in 1..(Len(given[a].path) - n) : Rest(a)[m] = given[a].path[n + m]
        /\ \A m \in 1..(Len(given[b].path) - n) : Rest(b)[m] = given[b].path[n + m]
    BY <1>5, <2>2
  <2> HIDE DEF Rest
  <2>4. Len(Rest(a)) = Len(Rest(b)) /\ \A m \in 1..Len(Rest(a)) : Fold[Rest(a)[m]] = Fold[Rest(b)[m]]
    BY <2>1, <2>3, SamePath
  <2>5. Len(given[a].path) = Len(given[b].path)
    BY <1>2, <1>3, <2>3, <2>4
  <2>6. ASSUME NEW m \in 1..Len(given[a].path)
        PROVE  Fold[given[a].path[m]] = Fold[given[b].path[m]]
    <3>1. CASE m <= n
      <4>1. Enveloped(given, m)
        BY <1>2, <3>1
      <4> QED
        BY <2>5, <2>6, <1>3, <4>1 DEF Enveloped
    <3>2. CASE n < m
      <4>1. m - n \in 1..(Len(given[a].path) - n) /\ n + (m - n) = m
        BY <1>2, <1>3, <3>2
      <4>2. Rest(a)[m - n] = given[a].path[m] /\ Rest(b)[m - n] = given[b].path[m]
        BY <2>3, <2>5, <4>1
      <4> QED
        BY <2>3, <2>4, <4>1, <4>2
    <3> QED
      BY <1>2, <1>3, <3>1, <3>2
  <2>7. Agree(given[a], given[b], Len(given[a].path))
    BY <1>3, <2>5, <2>6 DEF Agree
  <2>8. b \in 1..(a - 1)
    BY <1>3, <1>6
  <2>9. FirstMet(given, a, Len(given[a].path))
    BY <1>1, WholeLeafFirst
  <2> QED
    BY <2>7, <2>8, <2>9 DEF FirstMet
<1> QED
  BY <1>3, <1>6

(* What the call a payload is made into writes. *)
LEMMA CallSays ==
  ASSUME NEW given \in AcceptedPayloads, NEW restart, NEW s \in Settings,
         NEW c, c = SetCall(LeavesOf(Payload(given)), restart)
  PROVE  /\ s \in c.on <=> \E i \in DOMAIN given : Means(given, i, s)
         /\ \A i \in DOMAIN given : Means(given, i, s) => c.arrays[s] = given[i].value
<1> DEFINE leaves == LeavesOf(Payload(given))
           on     == {t \in Settings : At(t, leaves) # {}}
           arrays == [t \in Settings |->
                        IF t \in on THEN (CHOOSE leaf \in At(t, leaves) : TRUE).value ELSE {}]
<1>1. c.on = on /\ c.arrays = arrays
  BY DEF SetCall
<1>2. \A x : x \in At(s, leaves) <=>
        \E i \in DOMAIN given : Means(given, i, s) /\ x = Stripped(given[i], Envelopes(given))
  BY ValuesNamed
<1>3. s \in on <=> \E i \in DOMAIN given : Means(given, i, s)
  <2> HIDE DEF leaves
  <2> QED
    BY <1>2
<1>4. ASSUME NEW i \in DOMAIN given, Means(given, i, s)
      PROVE  arrays[s] = given[i].value
  <2> DEFINE x == CHOOSE leaf \in At(s, leaves) : TRUE
  <2>1. s \in on
    BY <1>3, <1>4
  <2>2. x \in At(s, leaves)
    <3> HIDE DEF leaves
    <3> QED
      BY <2>1
  <2>3. arrays[s] = x.value
    BY <2>1
  <2> HIDE DEF x, leaves, on, arrays
  <2>4. PICK j \in DOMAIN given : Means(given, j, s) /\ x = Stripped(given[j], Envelopes(given))
    BY <1>2, <2>2
  <2>5. j = i
    BY <1>4, <2>4, OneValueNamed
  <2>6. given[i] \in Node
    BY LeavesType DEF AcceptedPayloads
  <2>7. x.value = given[i].value
    BY <2>4, <2>5, <2>6 DEF Stripped, Node
  <2> QED
    BY <2>3, <2>7
<1> QED
  BY <1>1, <1>3, <1>4

(* What a caller gave is kept until the call is over, and the call is what     *)
(* was made of it.                                                          *)
Fits(given, c) ==
  /\ given \in AcceptedPayloads
  /\ \E restart \in BOOLEAN : c = SetCall(LeavesOf(Payload(given)), restart)

GaveInv ==
  /\ gave = [p \in Procs |-> gave[p]]
  /\ \A p \in Procs :
       /\ pc[p] = "idle" => gave[p] = <<>>
       /\ gave[p] # <<>> => Fits(gave[p], call[p])

LEMMA GaveStep == TypeOK /\ GaveInv /\ [SetNext]_setVars => GaveInv'
<1> SUFFICES ASSUME TypeOK, GaveInv, [SetNext]_setVars PROVE GaveInv'
  OBVIOUS
<1>1. pc \in [Procs -> Places] /\ call \in [Procs -> Calls]
  BY DEF TypeOK
<1>2. ASSUME gave' = gave, call' = call, \A p \in Procs : pc'[p] = "idle" => pc[p] = "idle"
      PROVE  GaveInv'
  BY <1>2 DEF GaveInv, Fits
<1>3. ASSUME NEW p \in Procs, NEW ask \in Asked, BeginSet(p, ask) PROVE GaveInv'
  <2>1. PICK given \in AcceptedPayloads, restart \in BOOLEAN :
          ask = [given |-> given, call |-> SetCall(LeavesOf(Payload(given)), restart)]
    BY DEF Asked
  <2>2. ask.given = given /\ Fits(ask.given, ask.call)
    BY <2>1 DEF Fits
  <2>3. /\ call' = [call EXCEPT ![p] = ask.call] /\ pc' = [pc EXCEPT ![p] = "lock"]
        /\ gave' = [gave EXCEPT ![p] = ask.given]
    BY <1>3 DEF BeginSet, Begin
  <2>4. /\ call'[p] = ask.call /\ pc'[p] = "lock" /\ gave'[p] = ask.given
        /\ gave' = [q \in Procs |-> gave'[q]]
        /\ \A q \in Procs \ {p} : call'[q] = call[q] /\ pc'[q] = pc[q] /\ gave'[q] = gave[q]
    BY <1>1, <2>3 DEF GaveInv
  <2>5. ASSUME NEW q \in Procs
        PROVE  /\ pc'[q] = "idle" => gave'[q] = <<>>
               /\ gave'[q] # <<>> => Fits(gave'[q], call'[q])
    <3>1. CASE q = p
      BY <2>2, <2>4, <3>1
    <3>2. CASE q # p
      BY <2>4, <3>2 DEF GaveInv
    <3> QED
      BY <3>1, <3>2
  <2> QED
    BY <2>4, <2>5 DEF GaveInv, Fits
<1>4. ASSUME NEW p \in Procs, NEW c, BeginOther(p, c) PROVE GaveInv'
  <2>1. /\ pc[p] = "idle" /\ call' = [call EXCEPT ![p] = c] /\ pc' = [pc EXCEPT ![p] = "lock"]
        /\ gave' = gave
    BY <1>4 DEF BeginOther, Begin
  <2>2. gave[p] = <<>>
    BY <2>1 DEF GaveInv
  <2>3. \A q \in Procs \ {p} : call'[q] = call[q] /\ pc'[q] = pc[q]
    BY <1>1, <2>1
  <2>4. pc'[p] = "lock"
    BY <1>1, <2>1
  <2> QED
    BY <2>1, <2>2, <2>3, <2>4 DEF GaveInv, Fits
<1>5. ASSUME NEW p \in Procs, NEW place \in Places \ {"idle"}, pc' = [pc EXCEPT ![p] = place],
             gave' = gave, call' = call
      PROVE  GaveInv'
  <2>1. \A q \in Procs : pc'[q] = "idle" => pc[q] = "idle"
    BY <1>1, <1>5
  <2> QED
    BY <1>2, <1>5, <2>1
<1>6. ASSUME NEW p \in Procs, gave' = gave,
             TakeLock(p) \/ Read(p) \/ SetUnread(p) \/ RefuseSet(p) \/ WriteFails(p) \/ Restarted(p)
      PROVE  GaveInv'
  <2>1. call' = call
    BY <1>6 DEF TakeLock, Read, SetUnread, RefuseSet, Refuse, WriteFails, Restarted
  <2>2. \E place \in Places \ {"idle"} : pc' = [pc EXCEPT ![p] = place]
    BY <1>6 DEF TakeLock, Read, SetUnread, RefuseSet, Refuse, WriteFails, Restarted, Leave, Places
  <2> QED
    BY <1>5, <1>6, <2>1, <2>2
<1>7. ASSUME NEW p \in Procs, gave' = gave, Serve(p) PROVE GaveInv'
  <2>1. call' = call
    BY <1>7 DEF Serve
  <2>2. PICK w \in Requests(p) : \E place \in WaitPlaces(p, After(w)) : Leave(p, place)
    BY <1>7 DEF Serve
  <2>3. PICK place \in WaitPlaces(p, After(w)) : Leave(p, place)
    BY <2>2
  <2>4. place \in Places \ {"idle"}
    BY <2>3 DEF WaitPlaces, Places
  <2>5. pc' = [pc EXCEPT ![p] = place]
    BY <2>3 DEF Leave
  <2> QED
    BY <1>5, <1>7, <2>1, <2>4, <2>5
<1>8. ASSUME NEW p \in Procs, Unlock(p), Ends(p) PROVE GaveInv'
  <2>1. \/ pc' = [pc EXCEPT ![p] = "idle"] /\ call' = [call EXCEPT ![p] = NoCall]
        \/ pc' = pc /\ call' = call
    BY <1>8 DEF Unlock
  <2>2. gave' = [gave EXCEPT ![p] = IF pc'[p] = "idle" THEN <<>> ELSE gave[p]]
    BY <1>8 DEF Ends
  <2>3. /\ gave' = [q \in Procs |-> gave'[q]]
        /\ gave'[p] = IF pc'[p] = "idle" THEN <<>> ELSE gave[p]
        /\ \A q \in Procs \ {p} : gave'[q] = gave[q] /\ call'[q] = call[q] /\ pc'[q] = pc[q]
        /\ pc'[p] # "idle" => call'[p] = call[p]
    BY <1>1, <2>1, <2>2 DEF GaveInv
  <2>4. ASSUME NEW q \in Procs
        PROVE  /\ pc'[q] = "idle" => gave'[q] = <<>>
               /\ gave'[q] # <<>> => Fits(gave'[q], call'[q])
    BY <2>3 DEF GaveInv
  <2> QED
    BY <2>3, <2>4 DEF GaveInv, Fits
<1>9. CASE \/ \E c \in Archives : Import(c) /\ UNCHANGED gave
           \/ \E s \in Settings, v \in Given : Elsewhere(s, v) /\ UNCHANGED gave
           \/ \E w \in late : ServeLate(w) /\ UNCHANGED gave
           \/ UNCHANGED setVars
  <2>1. UNCHANGED <<gave, pc, call>>
    BY <1>9 DEF Import, Elsewhere, ServeLate, setVars, vars
  <2> QED
    BY <1>2, <2>1
<1> QED
  BY <1>3, <1>4, <1>6, <1>7, <1>8, <1>9 DEF SetNext

(* config.go: whatever the payload, a config_set writes the settings it names, *)
(* each with the one value given for it, however they are spelled and however *)
(* many envelopes they came in, and no other.                                *)
THEOREM SetsNamed == SetSpec => []SetsWhatWasNamed
<1>1. SetInit => GaveInv
  BY DEF SetInit, GaveInv
<1>2. GaveInv => SetsWhatWasNamed
  <2> SUFFICES ASSUME GaveInv, NEW p \in Procs, gave[p] # <<>>, NEW s \in Settings
               PROVE  LET given == {i \in DOMAIN gave[p] : <<gave[p], i, s>> \in Meant} IN
                      /\ s \in call[p].on <=> given # {}
                      /\ \A i \in given : call[p].arrays[s] = gave[p][i].value
    BY DEF SetsWhatWasNamed
  <2> DEFINE g == gave[p]
  <2>1. g \in AcceptedPayloads
    BY DEF GaveInv, Fits
  <2>2. PICK restart \in BOOLEAN : call[p] = SetCall(LeavesOf(Payload(g)), restart)
    BY DEF GaveInv, Fits
  <2>3. /\ s \in call[p].on <=> \E i \in DOMAIN g : Means(g, i, s)
        /\ \A i \in DOMAIN g : Means(g, i, s) => call[p].arrays[s] = g[i].value
    BY <2>1, <2>2, CallSays
  <2>4. \A i \in DOMAIN g : <<g, i, s>> \in Meant <=> Means(g, i, s)
    BY <2>1 DEF Meant, Meanings
  <2> QED
    BY <2>3, <2>4
<1> QED
  BY <1>1, <1>2, GaveStep, PayloadsOnly, TypeCorrect, PTL DEF SetSpec
=============================================================================
