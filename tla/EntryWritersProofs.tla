------------------------- MODULE EntryWritersProofs -------------------------
(***************************************************************************)
(* Updates of one collection compose, for any goroutines, names, fields and *)
(* values: the lock a handler holds from its read to its write keeps what   *)
(* it read current, unless something that takes no lock changed the entry.  *)
(***************************************************************************)
EXTENDS EntryWriters, TLAPS

Waiting == {"lock", "relock"}
Locked  == {"read", "reread", "groups", "put"}
Holding == {"groups", "put"}

(* Which locks a handler has, from where it is. *)
Orderly ==
  \A p \in Procs :
    /\ asked[p] = IF pc[p] \in Waiting THEN {name[p]} ELSE {}
    /\ holds[p] = IF pc[p] \in Locked THEN {name[p]} ELSE {}

Exclusive ==
  \A p, q \in Procs : pc[p] \in Locked /\ pc[q] \in Locked /\ name[p] = name[q] => p = q

(* What an update has read is what the entry still is. *)
Current ==
  \A p \in Procs : pc[p] \in Holding /\ ~touched[p] => read[p] = table[name[p]]

USE DEF Waiting, Locked, Holding

----------------------------------------------------------------------------
(* What FTL's PUT leaves in the table *)

LEMMA PutType ==
  ASSUME TypeOK, NEW n \in Names, NEW m \in Names, NEW body \in Gifts
  PROVE  PutAt(n, m, body) \in [Names -> Entries \cup {Missing}]
<1>1. Replace(n, body) \in Entries
  <2>1. ASSUME NEW f \in Fields
        PROVE  (IF body[f] # Missing THEN body[f]
                ELSE IF Present(n) THEN table[n][f] ELSE Default) \in Values
    <3>1. Present(n) => table[n] \in Entries
      BY DEF TypeOK, Present
    <3> QED
      BY <3>1, EntryAssumption DEF Entries, Gifts
  <2> QED
    BY <2>1 DEF Replace, Entries
<1> QED
  BY <1>1 DEF PutAt, TypeOK

LEMMA BodyType ==
  ASSUME TypeOK, NEW p \in Procs, pc[p] = "put"
  PROVE  Body(p) \in Gifts
<1>1. read[p] \in Entries /\ given[p] \in Gifts
  BY DEF TypeOK
<1>2. ASSUME NEW f \in Fields
      PROVE  (IF given[p][f] # Missing THEN given[p][f]
              ELSE IF f \in Replaced THEN read[p][f] ELSE Missing)
                \in Values \cup {Missing}
  BY <1>1 DEF Entries, Gifts
<1> QED
  BY <1>2 DEF Body, Gifts

LEMMA NoGiftType == [f \in Fields |-> Missing] \in Gifts
  BY DEF Gifts

(* A PUT changes the entry it is about and, if it renames it, a name that  *)
(* is free.                                                                 *)
LEMMA PutElsewhere ==
  ASSUME TypeOK, NEW n \in Names, NEW m \in Names, NEW body,
         m = n \/ ~Present(m), NEW k \in Names, k # n, Present(k)
  PROVE  PutAt(n, m, body)[k] = table[k]
BY DEF PutAt, TypeOK, Present

(* What calls are about are names, and what they give fields. *)
LEMMA OfACollection ==
  ASSUME NEW C \in Collections
  PROVE  C \in SUBSET Names /\ GiftsFor(C) \in SUBSET Gifts
BY EntryAssumption DEF Collections, Others, GiftsFor

LEMMA Unlocked ==
  ASSUME \/ AddRules \/ AddList \/ AddGroup \/ AddClient
         \/ DeleteRuleOrList \/ DeleteGroup \/ DeleteClient \/ BatchDelete
  PROVE  \/ \E S \in SUBSET Names : Delete(S)
         \/ \E S \in SUBSET Names, g \in Gifts : Add(S, g)
<1>1. Others \in Collections /\ Groups \in Collections /\ Clients \in Collections
  BY DEF Collections
<1>2. CASE AddRules
  BY <1>1, <1>2, OfACollection DEF AddRules
<1>3. CASE AddList
  BY <1>1, <1>3, OfACollection DEF AddList
<1>4. CASE AddGroup
  BY <1>1, <1>4, OfACollection DEF AddGroup
<1>5. CASE AddClient
  BY <1>1, <1>5, OfACollection DEF AddClient
<1>6. CASE DeleteRuleOrList
  BY <1>1, <1>6, OfACollection DEF DeleteRuleOrList
<1>7. CASE DeleteGroup
  BY <1>1, <1>7, OfACollection DEF DeleteGroup
<1>8. CASE DeleteClient
  BY <1>1, <1>8, OfACollection DEF DeleteClient
<1>9. CASE BatchDelete
  BY <1>9, OfACollection DEF BatchDelete
<1> QED
  BY <1>2, <1>3, <1>4, <1>5, <1>6, <1>7, <1>8, <1>9

----------------------------------------------------------------------------
(* Types *)

LEMMA ReturnType ==
  ASSUME TypeOK, NEW p \in Procs, Return(p)
  PROVE  /\ pc' \in [Procs -> Places] /\ name' \in [Procs -> Names]
         /\ given' \in [Procs -> Gifts] /\ newName' \in [Procs -> Names]
         /\ read' \in [Procs -> Entries \cup {Missing}]
         /\ touched' \in [Procs -> BOOLEAN]
         /\ \A q \in Procs : pc'[q] \in {"groups", "put"} => read'[q] \in Entries
BY NoGiftType DEF Return, TypeOK, Places

LEMMA FinishType ==
  ASSUME TypeOK, NEW p \in Procs, Finish(p),
         table' \in [Names -> Entries \cup {Missing}],
         late' \in SUBSET [to : Names, as : Names, body : Gifts]
  PROVE  TypeOK'
<1>1. Return(p) /\ asked' = asked /\ holds' = [holds EXCEPT ![p] = holds[p] \ {name[p]}]
  BY DEF Finish, Lock!GiveBack
<1> QED
  BY <1>1, ReturnType DEF TypeOK

LEMMA TypeStep == TypeOK /\ [Next]_vars => TypeOK'
<1> SUFFICES ASSUME TypeOK, [Next]_vars PROVE TypeOK'
  OBVIOUS
<1>1. ASSUME NEW p \in Procs, NEW n \in Names, NEW m \in Names, NEW g \in Gifts,
             Update(p, n, g, m)
      PROVE  TypeOK'
  BY <1>1 DEF Update, Lock!Ask, TypeOK, Places
<1>2. ASSUME NEW p \in Procs, TakeLock(p) PROVE TypeOK'
  BY <1>2 DEF TakeLock, Lock!Grant, TypeOK, Places, callVars
<1>3. ASSUME NEW p \in Procs, ReadEntry(p) PROVE TypeOK'
  BY <1>3 DEF ReadEntry, Present, TypeOK, Places, lockVars
<1>4. ASSUME NEW p \in Procs, ReadNothing(p) \/ ReadFails(p) PROVE TypeOK'
  BY <1>4, FinishType DEF ReadNothing, ReadFails, TypeOK
<1>5. ASSUME NEW p \in Procs, ReadOtherCase(p) PROVE TypeOK'
  BY <1>5 DEF ReadOtherCase, Lock!GiveBack, TypeOK, Places, callVars
<1>6. ASSUME NEW p \in Procs, NEW m \in Names, FindCase(p, m) PROVE TypeOK'
  BY <1>6 DEF FindCase, Lock!Ask, TypeOK, Places
<1>7. ASSUME NEW p \in Procs, FindNoCase(p) PROVE TypeOK'
  BY <1>7, ReturnType DEF FindNoCase, TypeOK, lockVars
<1>8. ASSUME NEW p \in Procs, ResolveGroups(p) PROVE TypeOK'
  BY <1>8 DEF ResolveGroups, TypeOK, Places, lockVars, callVars
<1>9. ASSUME NEW p \in Procs, Put(p) PROVE TypeOK'
  <2>1. PutAt(name[p], newName[p], Body(p)) \in [Names -> Entries \cup {Missing}]
    BY <1>9, BodyType, PutType DEF Put, TypeOK
  <2> QED
    BY <1>9, <2>1, FinishType DEF Put, TypeOK
<1>10. ASSUME NEW p \in Procs, PutFails(p) PROVE TypeOK'
  <2>1. Request(p) \in [to : Names, as : Names, body : Gifts]
    BY <1>10, BodyType DEF PutFails, Request, TypeOK
  <2> QED
    BY <1>10, <2>1, FinishType DEF PutFails, TypeOK
<1>11. ASSUME NEW S \in SUBSET Names, Delete(S) PROVE TypeOK'
  BY <1>11 DEF Delete, Touch, TypeOK, lockVars, callVars
<1>12. ASSUME NEW S \in SUBSET Names, NEW g \in Gifts, Add(S, g) PROVE TypeOK'
  <2>1. [f \in Fields |-> IF g[f] = Missing THEN Default ELSE g[f]] \in Entries
    BY EntryAssumption DEF Gifts, Entries
  <2> QED
    BY <1>12, <2>1 DEF Add, NewEntry, Touch, TypeOK, lockVars, callVars
<1>13. ASSUME NEW r \in late, ServeLate(r) PROVE TypeOK'
  <2>1. r \in [to : Names, as : Names, body : Gifts]
    BY DEF TypeOK
  <2>2. PutAt(r.to, r.as, r.body) \in [Names -> Entries \cup {Missing}]
    BY <2>1, PutType
  <2> QED
    BY <1>13, <2>2 DEF ServeLate, Touch, TypeOK, lockVars, callVars
<1>14. CASE UNCHANGED vars
  BY <1>14 DEF vars, lockVars, callVars, TypeOK
<1> QED
  BY <1>1, <1>2, <1>3, <1>4, <1>5, <1>6, <1>7, <1>8, <1>9, <1>10, <1>11, <1>12,
     <1>13, <1>14, OfACollection, Unlocked DEF Next

THEOREM TypeCorrect == Spec => []TypeOK
<1>1. Init => TypeOK
  BY NoGiftType DEF Init, TypeOK, Places
<1> QED
  BY <1>1, TypeStep, PTL DEF Spec

----------------------------------------------------------------------------
(* Locks *)

LockInv == Orderly /\ Exclusive

(* A handler that goes from p's place to another in one step, without the  *)
(* others noticing.                                                         *)
Moves(p, place, n) ==
  /\ pc' = [pc EXCEPT ![p] = place]
  /\ name' = [name EXCEPT ![p] = n]
  /\ asked' = [asked EXCEPT ![p] = IF place \in Waiting THEN {n} ELSE {}]
  /\ holds' = [holds EXCEPT ![p] = IF place \in Locked THEN {n} ELSE {}]

(* A lock is kept only where it was held, and taken only if it is free. *)
LEMMA MoveKeepsLocks ==
  ASSUME TypeOK, LockInv, NEW p \in Procs, NEW place, NEW n \in Names,
         Moves(p, place, n),
         place \in Locked =>
           /\ n = name[p]
           /\ pc[p] \in Locked \/ \A q \in Procs : n \notin holds[q]
  PROVE  LockInv'
<1>1. Orderly'
  BY DEF Moves, LockInv, Orderly, TypeOK
<1>2. Exclusive'
  <2> SUFFICES ASSUME NEW q \in Procs, NEW r \in Procs, pc'[q] \in Locked,
                      pc'[r] \in Locked, name'[q] = name'[r], q # r
               PROVE  FALSE
    BY DEF Exclusive
  <2>1. ASSUME NEW s \in Procs, s # p, pc[s] \in Locked, place \in Locked, name[s] = n
        PROVE  FALSE
    BY <2>1 DEF LockInv, Orderly, Exclusive
  <2>2. CASE q # p /\ r # p
    BY <2>2 DEF Moves, LockInv, Exclusive, TypeOK
  <2>3. CASE q = p
    BY <2>1, <2>3 DEF Moves, TypeOK
  <2>4. CASE r = p
    BY <2>1, <2>4 DEF Moves, TypeOK
  <2> QED
    BY <2>2, <2>3, <2>4
<1> QED
  BY <1>1, <1>2 DEF LockInv

LEMMA FinishMoves ==
  ASSUME TypeOK, LockInv, NEW p \in Procs, pc[p] \in Locked, Finish(p)
  PROVE  Moves(p, "idle", name[p])
BY DEF Finish, Lock!GiveBack, Return, Moves, TypeOK, LockInv, Orderly

LEMMA LockStep == TypeOK /\ LockInv /\ [Next]_vars => LockInv'
<1> SUFFICES ASSUME TypeOK, LockInv, [Next]_vars PROVE LockInv'
  OBVIOUS
<1> USE DEF TypeOK, LockInv, Orderly
<1>1. ASSUME NEW p \in Procs, NEW n \in Names, NEW m \in Names, NEW g \in Gifts,
             Update(p, n, g, m)
      PROVE  LockInv'
  <2>1. Moves(p, "lock", n)
    BY <1>1 DEF Update, Lock!Ask, Moves
  <2> QED
    BY <2>1, MoveKeepsLocks
<1>2. ASSUME NEW p \in Procs, TakeLock(p) PROVE LockInv'
  <2>1. PICK place \in {"read", "reread"} : Moves(p, place, name[p])
    BY <1>2 DEF TakeLock, Lock!Grant, Moves, callVars
  <2>2. \A q \in Procs : name[p] \notin holds[q]
    BY <1>2 DEF TakeLock, Lock!Grant
  <2> QED
    BY <2>1, <2>2, MoveKeepsLocks
<1>3. ASSUME NEW p \in Procs, ReadEntry(p) PROVE LockInv'
  <2>1. PICK place \in {"groups", "put"} : Moves(p, place, name[p])
    BY <1>3 DEF ReadEntry, Moves, lockVars
  <2> QED
    BY <1>3, <2>1, MoveKeepsLocks DEF ReadEntry
<1>4. ASSUME NEW p \in Procs, ReadNothing(p) \/ ReadFails(p) \/ Put(p) \/ PutFails(p)
      PROVE  LockInv'
  <2>1. pc[p] \in Locked /\ Finish(p)
    BY <1>4 DEF ReadNothing, ReadFails, Put, PutFails
  <2> QED
    BY <2>1, FinishMoves, MoveKeepsLocks
<1>5. ASSUME NEW p \in Procs, ReadOtherCase(p) PROVE LockInv'
  <2>1. Moves(p, "find", name[p])
    BY <1>5 DEF ReadOtherCase, Lock!GiveBack, Moves, callVars
  <2> QED
    BY <2>1, MoveKeepsLocks
<1>6. ASSUME NEW p \in Procs, NEW m \in Names, FindCase(p, m) PROVE LockInv'
  <2>1. Moves(p, "relock", m)
    BY <1>6 DEF FindCase, Lock!Ask, Moves
  <2> QED
    BY <2>1, MoveKeepsLocks
<1>7. ASSUME NEW p \in Procs, FindNoCase(p) PROVE LockInv'
  <2>1. Moves(p, "idle", name[p])
    BY <1>7 DEF FindNoCase, Return, Moves, lockVars
  <2> QED
    BY <2>1, MoveKeepsLocks
<1>8. ASSUME NEW p \in Procs, ResolveGroups(p) PROVE LockInv'
  <2>1. Moves(p, "put", name[p]) /\ pc[p] \in Locked
    BY <1>8 DEF ResolveGroups, Moves, lockVars, callVars
  <2> QED
    BY <2>1, MoveKeepsLocks
<1>9. ASSUME UNCHANGED <<lockVars, pc, name>> PROVE LockInv'
  BY <1>9 DEF lockVars, Exclusive
<1>10. ASSUME NEW S \in SUBSET Names, Delete(S) \/ \E g \in Gifts : Add(S, g)
       PROVE  LockInv'
  BY <1>9, <1>10 DEF Delete, Add, callVars
<1>11. ASSUME NEW r \in late, ServeLate(r) PROVE LockInv'
  BY <1>9, <1>11 DEF ServeLate, callVars
<1>12. CASE UNCHANGED vars
  BY <1>9, <1>12 DEF vars, callVars
<1> QED
  BY <1>1, <1>2, <1>3, <1>4, <1>5, <1>6, <1>7, <1>8, <1>10, <1>11, <1>12,
     OfACollection, Unlocked DEF Next

THEOREM LocksInductive == Spec => []LockInv
<1>1. Init => LockInv
  BY DEF Init, LockInv, Orderly, Exclusive
<1> QED
  BY <1>1, TypeCorrect, LockStep, PTL DEF Spec

(* Every way out of a handler gives its lock back. *)
THEOREM ReturnsLocks == Spec => []LocksReturned
<1>1. LockInv => LocksReturned
  BY DEF LockInv, Orderly, LocksReturned
<1> QED
  BY <1>1, LocksInductive, PTL

----------------------------------------------------------------------------
(* What was read stays current *)

(* A step of p that does not touch the table, and p does not hold a read   *)
(* entry after it.                                                          *)
LEMMA QuietStep ==
  ASSUME TypeOK, Current, NEW p \in Procs, NEW place, place \notin Holding,
         pc' = [pc EXCEPT ![p] = place], table' = table,
         \A q \in Procs \ {p} :
           name'[q] = name[q] /\ read'[q] = read[q] /\ touched'[q] = touched[q]
  PROVE  Current'
BY DEF Current, TypeOK

LEMMA FinishQuiet ==
  ASSUME TypeOK, Current, NEW p \in Procs, Finish(p), table' = table
  PROVE  Current'
<1>1. /\ pc' = [pc EXCEPT ![p] = "idle"]
      /\ \A q \in Procs \ {p} :
           name'[q] = name[q] /\ read'[q] = read[q] /\ touched'[q] = touched[q]
  BY DEF Finish, Return, TypeOK
<1> QED
  BY <1>1, QuietStep

(* A step that moves nobody, and touches every entry it changes. *)
LEMMA TouchStep ==
  ASSUME TypeOK, Current, UNCHANGED <<pc, name, read>>, NEW S, Touch(S),
         \A k \in Names \ S : table'[k] = table[k]
  PROVE  Current'
BY DEF Current, Touch, TypeOK

(* A PUT changes no entry another update has read: the other holds the     *)
(* lock of an entry that is there.                                          *)
LEMMA PutStep ==
  ASSUME TypeOK, LockInv, Current, NEW p \in Procs, Put(p)
  PROVE  Current'
<1> SUFFICES ASSUME NEW q \in Procs, pc'[q] \in Holding, ~touched'[q]
             PROVE  read'[q] = table'[name'[q]]
  BY DEF Current
<1>1. /\ pc[p] = "put" /\ Return(p)
      /\ newName[p] = name[p] \/ ~Present(newName[p])
      /\ table' = PutAt(name[p], newName[p], Body(p))
  BY DEF Put, Finish
<1>2. q # p
  BY <1>1 DEF Return, TypeOK
<1>3. /\ pc[q] \in Holding /\ ~touched[q]
      /\ read'[q] = read[q] /\ name'[q] = name[q]
  BY <1>1, <1>2 DEF Return, TypeOK
<1>4. name[q] # name[p]
  BY <1>1, <1>2, <1>3 DEF LockInv, Exclusive
<1>5. read[q] = table[name[q]] /\ Present(name[q])
  BY <1>3, EntryAssumption DEF Current, TypeOK, Present
<1>6. table'[name[q]] = table[name[q]]
  BY <1>1, <1>4, <1>5, PutElsewhere DEF TypeOK
<1> QED
  BY <1>3, <1>5, <1>6

LEMMA CurrentStep == TypeOK /\ LockInv /\ Current /\ [Next]_vars => Current'
<1> SUFFICES ASSUME TypeOK, LockInv, Current, [Next]_vars PROVE Current'
  OBVIOUS
<1>1. ASSUME NEW p \in Procs, NEW n \in Names, NEW m \in Names, NEW g \in Gifts,
             Update(p, n, g, m)
      PROVE  Current'
  BY <1>1, QuietStep DEF Update, TypeOK
<1>2. ASSUME NEW p \in Procs, TakeLock(p) PROVE Current'
  BY <1>2, QuietStep DEF TakeLock, callVars
<1>3. ASSUME NEW p \in Procs, ReadEntry(p) PROVE Current'
  BY <1>3 DEF ReadEntry, Current, TypeOK
<1>4. ASSUME NEW p \in Procs, ReadNothing(p) \/ ReadFails(p) \/ PutFails(p)
      PROVE  Current'
  BY <1>4, FinishQuiet DEF ReadNothing, ReadFails, PutFails
<1>5. ASSUME NEW p \in Procs, ReadOtherCase(p) PROVE Current'
  BY <1>5, QuietStep DEF ReadOtherCase, callVars
<1>6. ASSUME NEW p \in Procs, NEW m \in Names, FindCase(p, m) PROVE Current'
  BY <1>6, QuietStep DEF FindCase, TypeOK
<1>7. ASSUME NEW p \in Procs, FindNoCase(p) PROVE Current'
  BY <1>7, QuietStep DEF FindNoCase, Return, TypeOK
<1>8. ASSUME NEW p \in Procs, ResolveGroups(p) PROVE Current'
  BY <1>8 DEF ResolveGroups, callVars, Current, TypeOK
<1>9. ASSUME NEW p \in Procs, Put(p) PROVE Current'
  BY <1>9, PutStep
<1>10. ASSUME NEW S \in SUBSET Names, Delete(S) PROVE Current'
  BY <1>10, TouchStep DEF Delete, callVars, TypeOK
<1>11. ASSUME NEW S \in SUBSET Names, NEW g \in Gifts, Add(S, g) PROVE Current'
  <2>1. \A k \in Names \ {n \in S : ~Present(n)} : table'[k] = table[k]
    BY <1>11 DEF Add
  <2> QED
    BY <1>11, <2>1, TouchStep DEF Add, callVars
<1>12. ASSUME NEW r \in late, ServeLate(r) PROVE Current'
  <2>1. CASE UNCHANGED <<table, touched>>
    BY <1>12, <2>1 DEF ServeLate, callVars, Current
  <2>2. CASE table' = PutAt(r.to, r.as, r.body) /\ Touch({r.to, r.as})
    <3>1. \A k \in Names \ {r.to, r.as} : table'[k] = table[k]
      BY <2>2 DEF PutAt, TypeOK
    <3> QED
      BY <1>12, <2>2, <3>1, TouchStep DEF ServeLate, callVars
  <2> QED
    BY <1>12, <2>1, <2>2 DEF ServeLate
<1>13. CASE UNCHANGED vars
  BY <1>13 DEF vars, callVars, Current
<1> QED
  BY <1>1, <1>2, <1>3, <1>4, <1>5, <1>6, <1>7, <1>8, <1>9, <1>10, <1>11, <1>12,
     <1>13, OfACollection, Unlocked DEF Next

THEOREM StaysCurrent == Spec => []Current
<1>1. Init => Current
  BY DEF Init, Current
<1> QED
  BY <1>1, TypeCorrect, LocksInductive, CurrentStep, PTL DEF Spec

(* Only Put changes the table and ends p's update in one step. *)
LEMMA OnlyPut ==
  ASSUME TypeOK, Next, NEW p \in Procs, pc[p] = "put", pc'[p] = "idle", table' # table
  PROVE  Put(p)
<1>1. ASSUME NEW q \in Procs,
             \/ \E C \in Collections : \E n, m \in C, g \in GiftsFor(C) : Update(q, n, g, m)
             \/ TakeLock(q) \/ ReadEntry(q) \/ ReadNothing(q) \/ ReadOtherCase(q)
             \/ ReadFails(q) \/ \E m \in Names : FindCase(q, m)
             \/ FindNoCase(q) \/ ResolveGroups(q) \/ PutFails(q)
      PROVE  FALSE
  BY <1>1 DEF Update, TakeLock, ReadEntry, ReadNothing, ReadOtherCase, ReadFails,
     FindCase, FindNoCase, ResolveGroups, PutFails, Finish, Return
<1>2. ASSUME NEW q \in Procs, Put(q) PROVE q = p
  <2>1. pc' = [pc EXCEPT ![q] = pc'[q]]
    BY <1>2 DEF Put, Finish, Return, TypeOK
  <2> QED
    BY <2>1 DEF TypeOK
<1>3. ~ (\E r \in late : ServeLate(r))
  BY DEF ServeLate, callVars
<1>4. pc' = pc => FALSE
  OBVIOUS
<1>5. ASSUME AddRules \/ AddList \/ AddGroup \/ AddClient PROVE FALSE
  BY <1>4, <1>5 DEF AddRules, AddList, AddGroup, AddClient, Add, callVars
<1>6. ASSUME DeleteRuleOrList \/ DeleteGroup \/ DeleteClient \/ BatchDelete PROVE FALSE
  BY <1>4, <1>6 DEF DeleteRuleOrList, DeleteGroup, DeleteClient, BatchDelete, Delete, callVars
<1> QED
  BY <1>1, <1>2, <1>3, <1>5, <1>6 DEF Next

(* An update changes the fields its caller gave and no other. *)
THEOREM Composes == Spec => UpdatesCompose
<1>1. TypeOK /\ Current /\ [Next]_vars =>
        [\A p \in Procs :
           pc[p] = "put" /\ table' # table /\ pc'[p] = "idle" /\ ~touched[p] =>
             /\ Present(name[p])
             /\ table'[newName[p]] =
                  [f \in Fields |-> IF given[p][f] = Missing THEN table[name[p]][f]
                                    ELSE given[p][f]]]_vars
  <2> SUFFICES ASSUME TypeOK, Current, Next, NEW p \in Procs, pc[p] = "put",
                      table' # table, pc'[p] = "idle", ~touched[p]
               PROVE  /\ Present(name[p])
                      /\ table'[newName[p]] =
                           [f \in Fields |-> IF given[p][f] = Missing
                                             THEN table[name[p]][f]
                                             ELSE given[p][f]]
    BY DEF vars
  <2>1. table' = PutAt(name[p], newName[p], Body(p))
    BY OnlyPut DEF Put
  <2>2. read[p] = table[name[p]] /\ read[p] \in Entries /\ Present(name[p])
    BY EntryAssumption DEF Current, TypeOK, Present
  <2>3. table'[newName[p]] = Replace(name[p], Body(p))
    BY <2>1 DEF PutAt, TypeOK
  <2>4. ASSUME NEW f \in Fields
        PROVE  (IF Body(p)[f] # Missing THEN Body(p)[f]
                ELSE IF Present(name[p]) THEN table[name[p]][f] ELSE Default)
                 = IF given[p][f] = Missing THEN table[name[p]][f] ELSE given[p][f]
    BY <2>2 DEF Body
  <2> QED
    BY <2>2, <2>3, <2>4 DEF Replace
<1> QED
  BY <1>1, TypeCorrect, StaysCurrent, PTL DEF Spec, UpdatesCompose
=============================================================================
