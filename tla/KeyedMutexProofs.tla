-------------------------- MODULE KeyedMutexProofs --------------------------
(***************************************************************************)
(* The mutexes of KeyedMutex for any number of callers, keys and cells:    *)
(* their types, mutual exclusion, the clean-up of the map, freedom from    *)
(* deadlock, and that they implement TakingTurns.                          *)
(***************************************************************************)
EXTENDS KeyedMutex, FiniteSetTheorems, TLAPS

(* The callers between their lookup of key k and the end of its unlock. *)
Users(k) == {p \in Procs : got[p][k] # Nil}

(* Every caller that uses a key uses the object the map shows for it. *)
OneObject == \A p \in Procs, k \in Keys : got[p][k] \in {Nil, held[k]}

(* No object serves two keys. *)
Distinct == \A j, k \in Keys : held[j] # Nil /\ held[j] = held[k] => j = k

(* A key in the map has users, and its object counts them. *)
Counted ==
  \A k \in Keys : held[k] # Nil =>
    /\ Users(k) # {}
    /\ refs[held[k]] = Cardinality(Users(k))

(* Whoever is inside a key's mutex is one of its users. *)
OwnerUses ==
  \A k \in Keys, p \in Procs :
    held[k] # Nil /\ owner[held[k]] = p => got[p][k] # Nil

(* What a caller has, by the place it is at: every key it took is locked,  *)
(* but for the one it waits for or is dropping.                             *)
Position(p) ==
  /\ pc[p] = "idle" => todo[p] = {} /\ Taken(p) = {}
  /\ pc[p] = "lookup" => todo[p] # {}
  /\ pc[p] \in {"lookup", "critical", "unlock"} =>
       \A k \in Taken(p) : owner[got[p][k]] = p
  /\ pc[p] \in {"critical", "unlock"} => todo[p] = {} /\ Taken(p) # {}
  /\ pc[p] = "drop" => todo[p] = {}
  /\ pc[p] \in {"acquire", "drop"} =>
       /\ at[p] \in Taken(p)
       /\ owner[got[p][at[p]]] # p
       /\ \A k \in Taken(p) : k <= at[p]
       /\ \A k \in Taken(p) \ {at[p]} : owner[got[p][k]] = p
  /\ \A k \in Taken(p), j \in todo[p] : k < j

Positions == \A p \in Procs : Position(p)

IInv ==
  /\ TypeOK
  /\ OneObject
  /\ Distinct
  /\ Counted
  /\ OwnerUses
  /\ Positions

(* A set of keys has a first one, which First is. *)
LEMMA FirstIsLeast ==
  ASSUME NEW S \in SUBSET Keys, S # {}
  PROVE  First(S) \in S /\ \A j \in S : First(S) <= j
  BY KeysAssumption DEF First

(* A set of keys has a last one, which Last is. *)
LEMMA LastIsGreatest ==
  ASSUME NEW S \in SUBSET Keys, S # {}
  PROVE  Last(S) \in S /\ \A j \in S : j <= Last(S)
  BY KeysAssumption DEF Last

(* The users of a key are finitely many, so their number is a natural. *)
LEMMA UsersFinite ==
  ASSUME NEW k \in Keys
  PROVE  IsFiniteSet(Users(k)) /\ Cardinality(Users(k)) \in Nat
  <1>1. IsFiniteSet(Users(k))
    BY ProcsAssumption, FS_Subset DEF Users
  <1>. QED
    BY <1>1, FS_CardinalityType

(* The initial state of the locks: nobody has anything. *)
LEMMA InitIInv == Init => IInv
  <1>. SUFFICES ASSUME Init PROVE IInv
    OBVIOUS
  <1>1. TypeOK
    BY DEF Init, TypeOK, Places
  <1>. QED
    BY <1>1, ProcsAssumption, HeapAssumption
       DEF Init, IInv, OneObject, Distinct, Counted, OwnerUses, Positions, Position, Taken
(* A nil pointer points to no object. *)
LEMMA NilIsNoObject == Nil \notin Objs
  BY HeapAssumption

(* A set of keys compares like the integers it is made of. *)
LEMMA KeysAreIntegers == Keys \subseteq Int
  BY KeysAssumption

(* A call touches nothing but what its own caller has to do. *)
LEMMA CallStep ==
  ASSUME IInv, NEW p \in Procs, NEW S \in SUBSET Keys, S # {}, Call(p, S)
  PROVE  IInv'
  <1>1. TypeOK'
    BY DEF IInv, TypeOK, Call, Places
  <1>2. OneObject' /\ Distinct' /\ OwnerUses'
    BY DEF IInv, OneObject, Distinct, OwnerUses, Call
  <1>3. Counted'
    BY DEF IInv, Counted, Users, Call
  <1>4. Positions'
    BY DEF IInv, TypeOK, Positions, Position, Taken, Call
  <1>. QED
    BY <1>1, <1>2, <1>3, <1>4 DEF IInv

(* Finding an object adds a user and its count; allocating one makes an    *)
(* object nobody else can see, with its only user.                          *)
LEMMA LookupStep ==
  ASSUME IInv, NEW p \in Procs, Lookup(p)
  PROVE  IInv'
  <1>0. todo[p] \in SUBSET Keys /\ todo[p] # {}
    BY DEF IInv, TypeOK, Positions, Position, Lookup
  <1>1. PICK k \in Keys : /\ k = First(todo[p])
                         /\ k \in todo[p] /\ todo[p] \in SUBSET Keys
                         /\ \A j \in todo[p] : k <= j
    BY <1>0, FirstIsLeast
  <1>2. PICK o \in Objs : /\ Find(p, k, o) \/ Allocate(p, k, o)
                         /\ got' = [got EXCEPT ![p][k] = o]
    BY <1>1 DEF Lookup
  <1>3. /\ pc[p] = "lookup"
        /\ at' = [at EXCEPT ![p] = k]
        /\ todo' = [todo EXCEPT ![p] = @ \ {k}]
        /\ pc' = [pc EXCEPT ![p] = "acquire"]
    BY <1>1 DEF Lookup
  <1>4. got[p][k] = Nil /\ \A j \in Taken(p) : j < k
    <2>1. \A j \in Taken(p), i \in todo[p] : j < i
      BY DEF IInv, Positions, Position
    <2>2. k \notin Taken(p)
      BY <1>1, <2>1, KeysAreIntegers
    <2>. QED
      BY <1>1, <2>1, <2>2 DEF Taken
  <1>5. held'[k] = o /\ o # Nil /\ \A j \in Keys \ {k} : held'[j] = held[j] /\ held[j] # o
    BY <1>1, <1>2, NilIsNoObject DEF IInv, TypeOK, Find, Allocate, Garbage, Distinct
  <1>6. TypeOK'
    <2>1. held' \in [Keys -> Objs \cup {Nil}] /\ refs' \in [Objs -> Nat]
          /\ owner' \in [Objs -> Procs \cup {Nil}]
      <3>1. CASE Find(p, k, o)
        BY <3>1 DEF IInv, TypeOK, Find
      <3>2. CASE Allocate(p, k, o)
        BY <3>2 DEF IInv, TypeOK, Allocate
      <3>. QED
        BY <1>2, <3>1, <3>2
    <2>2. got' \in [Procs -> [Keys -> Objs \cup {Nil}]]
      <3>1. [got[p] EXCEPT ![k] = o] \in [Keys -> Objs \cup {Nil}]
        BY <1>1, <1>2 DEF IInv, TypeOK
      <3>. QED
        BY <1>2, <3>1 DEF IInv, TypeOK
    <2>3. /\ todo' \in [Procs -> SUBSET Keys] /\ at' \in [Procs -> Keys]
          /\ pc' \in [Procs -> Places]
      BY <1>1, <1>3 DEF IInv, TypeOK, Places
    <2>. QED
      BY <2>1, <2>2, <2>3 DEF TypeOK
  <1>7. OneObject'
    <2>1. held[k] \in {Nil, o}
      BY <1>2 DEF Find, Allocate
    <2>2. \A q \in Procs : got[q][k] \in {Nil, o}
      BY <1>1, <2>1 DEF IInv, OneObject
    <2>. QED
      BY <1>1, <1>2, <1>5, <2>2 DEF IInv, TypeOK, OneObject
  <1>8. Distinct'
    BY <1>5 DEF IInv, Distinct
  <1>9. Users(k)' = Users(k) \cup {p} /\ p \notin Users(k)
        /\ \A j \in Keys \ {k} : Users(j)' = Users(j)
    <2>1. got'[p][k] = o /\ \A j \in Keys \ {k} : got'[p][j] = got[p][j]
      BY <1>1, <1>2 DEF IInv, TypeOK
    <2>2. \A q \in Procs \ {p} : got'[q] = got[q]
      BY <1>2 DEF IInv, TypeOK
    <2>3. Users(k)' = Users(k) \cup {p} /\ p \notin Users(k)
      BY <1>4, <1>5, <2>1, <2>2 DEF Users
    <2>4. ASSUME NEW j \in Keys \ {k} PROVE Users(j)' = Users(j)
      BY <2>1, <2>2 DEF Users
    <2>. QED
      BY <2>3, <2>4
  <1>10. Cardinality(Users(k)') = Cardinality(Users(k)) + 1
    BY <1>1, <1>9, UsersFinite, FS_AddElement
  <1>11. Counted'
    <2>1. CASE Find(p, k, o)
      <3>1. refs'[o] = refs[held[k]] + 1 /\ held[k] = o
        BY <2>1 DEF Find, IInv, TypeOK
      <3>2. \A j \in Keys \ {k} : held[j] # Nil => refs'[held[j]] = refs[held[j]]
        BY <1>5, <2>1 DEF Find, IInv, TypeOK
      <3>. QED
        <4>1. held[k] # Nil /\ refs[held[k]] = Cardinality(Users(k))
          BY <1>1, <1>5, <3>1 DEF IInv, Counted
        <4>2. refs'[held'[k]] = Cardinality(Users(k)') /\ Users(k)' # {}
          BY <1>5, <1>9, <1>10, <3>1, <4>1
        <4>3. ASSUME NEW j \in Keys \ {k}, held'[j] # Nil
              PROVE  Users(j)' # {} /\ refs'[held'[j]] = Cardinality(Users(j)')
          BY <1>5, <1>9, <3>2, <4>3 DEF IInv, Counted
        <4>. QED
          BY <4>2, <4>3 DEF Counted
    <2>2. CASE Allocate(p, k, o)
      <3>1. refs'[o] = 1 /\ held[k] = Nil
        BY <2>2 DEF Allocate, IInv, TypeOK
      <3>2. \A j \in Keys \ {k} : held[j] # Nil => refs'[held[j]] = refs[held[j]]
        BY <1>5, <2>2 DEF Allocate, IInv, TypeOK
      <3>3. Users(k) = {}
        BY <1>1, <3>1 DEF IInv, OneObject, Users
      <3>4. Cardinality(Users(k)') = 1
        BY <1>10, <3>3, FS_EmptySet
      <3>. QED
        <4>2. refs'[held'[k]] = Cardinality(Users(k)') /\ Users(k)' # {}
          BY <1>5, <1>9, <3>1, <3>4
        <4>3. ASSUME NEW j \in Keys \ {k}, held'[j] # Nil
              PROVE  Users(j)' # {} /\ refs'[held'[j]] = Cardinality(Users(j)')
          BY <1>5, <1>9, <3>2, <4>3 DEF IInv, Counted
        <4>. QED
          BY <4>2, <4>3 DEF Counted
    <2>. QED
      BY <1>2, <2>1, <2>2
  <1>12. \A j \in Keys \ {k} : held[j] # Nil => owner'[held[j]] = owner[held[j]]
    BY <1>2, <1>5 DEF IInv, TypeOK, Find, Allocate
  <1>13. /\ owner'[o] # p
         /\ \A q \in Procs : owner'[o] = q => got'[q][k] # Nil
    <2>1. CASE Find(p, k, o)
      BY <1>1, <1>2, <1>4, <1>5, <2>1 DEF Find, IInv, TypeOK, OwnerUses
    <2>2. CASE Allocate(p, k, o)
      BY <2>2, ProcsAssumption DEF Allocate, IInv, TypeOK
    <2>. QED
      BY <1>2, <2>1, <2>2
  <1>14. OwnerUses'
    BY <1>1, <1>2, <1>5, <1>12, <1>13 DEF IInv, TypeOK, OwnerUses
  <1>15. Positions'
    <2>. SUFFICES ASSUME NEW q \in Procs PROVE Position(q)'
      BY DEF Positions
    <2>1. CASE q = p
      <3>1. Taken(p)' = Taken(p) \cup {k} /\ got'[p][k] = o /\ at'[p] = k
            /\ todo'[p] = todo[p] \ {k} /\ pc'[p] = "acquire"
        BY <1>1, <1>2, <1>3, <1>5 DEF IInv, TypeOK, Taken
      <3>2. \A j \in Taken(p) : got'[p][j] = held[j] /\ held[j] # Nil /\ owner'[held[j]] = p
        BY <1>1, <1>2, <1>3, <1>4, <1>12
           DEF IInv, TypeOK, Positions, Position, OneObject, Taken
      <3>3. \A j \in Taken(p)', i \in todo'[p] : j < i
        <4>1. \A j \in Taken(p), i \in todo[p] : j < i
          BY DEF IInv, Positions, Position
        <4>2. \A i \in todo[p] \ {k} : k < i
          BY <1>1, KeysAreIntegers
        <4>. QED
          BY <3>1, <4>1, <4>2
      <3>. QED
        BY <1>1, <1>4, <1>13, <2>1, <3>1, <3>2, <3>3, KeysAreIntegers DEF Position, Taken
    <2>2. CASE q # p
      <3>1. /\ pc'[q] = pc[q] /\ todo'[q] = todo[q] /\ at'[q] = at[q]
            /\ got'[q] = got[q] /\ Taken(q)' = Taken(q)
        BY <1>1, <1>2, <1>3, <2>2 DEF IInv, TypeOK, Taken
      <3>2. \A j \in Taken(q) : owner'[got[q][j]] = owner[got[q][j]]
        BY <1>1, <1>2, <1>5, <1>12 DEF IInv, TypeOK, OneObject, Taken, Find, Allocate
      <3>3. at[q] \in Taken(q) => owner'[got[q][at[q]]] = owner[got[q][at[q]]]
        BY <3>2
      <3>4. Position(q)
        BY DEF IInv, Positions
      <3>. QED
        BY <3>1, <3>2, <3>3, <3>4 DEF Position
    <2>. QED
      BY <2>1, <2>2
  <1>. QED
    BY <1>6, <1>7, <1>8, <1>11, <1>14, <1>15 DEF IInv

(* Locking a mutex nobody has: its owner is a user waiting for it. *)
LEMMA AcquireStep ==
  ASSUME IInv, NEW p \in Procs, Acquire(p)
  PROVE  IInv'
  <1>1. PICK k \in Keys : k = at[p]
    BY DEF IInv, TypeOK
  <1>2. /\ pc[p] = "acquire" /\ k \in Taken(p)
        /\ got[p][k] = held[k] /\ held[k] # Nil /\ held[k] \in Objs
        /\ owner[held[k]] = Nil /\ owner' = [owner EXCEPT ![held[k]] = p]
    BY <1>1 DEF IInv, TypeOK, Positions, Position, OneObject, Taken, Acquire
  <1>3. /\ UNCHANGED <<held, refs, got, todo, at>>
        /\ \A q \in Procs : Taken(q)' = Taken(q)
    BY DEF Acquire, Taken
  <1>4. /\ pc'[p] = IF todo[p] = {} THEN "critical" ELSE "lookup"
        /\ \A q \in Procs \ {p} : pc'[q] = pc[q]
    BY DEF Acquire, IInv, TypeOK
  <1>5. TypeOK'
    <2>1. owner' \in [Objs -> Procs \cup {Nil}]
      BY <1>2 DEF IInv, TypeOK
    <2>2. pc' \in [Procs -> Places]
      BY DEF Acquire, IInv, TypeOK, Places
    <2> QED
      BY <1>3, <2>1, <2>2 DEF IInv, TypeOK
  <1>6. OneObject' /\ Distinct'
    BY <1>3 DEF IInv, OneObject, Distinct
  <1>7. Counted'
    BY <1>3 DEF IInv, Counted, Users
  <1>8. \A j \in Keys \ {k} : held[j] # Nil => owner'[held[j]] = owner[held[j]]
    <2>1. \A j \in Keys \ {k} : held[j] # Nil => held[j] \in Objs /\ held[j] # held[k]
      BY <1>1, <1>2 DEF IInv, TypeOK, Distinct, Taken
    <2>2. owner \in [Objs -> Procs \cup {Nil}]
      BY DEF IInv, TypeOK
    <2> QED
      BY <1>2, <2>1, <2>2
  <1>9. owner'[held[k]] = p
    BY <1>2 DEF IInv, TypeOK
  <1>10. OwnerUses'
    BY <1>2, <1>3, <1>8, <1>9 DEF IInv, OwnerUses, Taken
  <1>11. Positions'
    <2>. SUFFICES ASSUME NEW q \in Procs PROVE Position(q)'
      BY DEF Positions
    <2>1. Position(q)
      BY DEF IInv, Positions
    <2>2. \A j \in Taken(q) : j \in Keys /\ got[q][j] = held[j] /\ held[j] # Nil
      BY DEF IInv, OneObject, Taken
    <2>3. CASE q = p
      BY <1>1, <1>2, <1>3, <1>4, <1>8, <1>9, <2>1, <2>2, <2>3 DEF Position
    <2>4. CASE q # p
      <3>1. \A j \in Taken(q) : owner'[got[q][j]] = p \/ owner'[got[q][j]] = owner[got[q][j]]
        BY <1>8, <1>9, <2>2
      <3>2. \A j \in Taken(q) : owner[got[q][j]] = q => j # k
        BY <1>2, <2>2, ProcsAssumption
      <3>3. \A j \in Taken(q) : owner[got[q][j]] = q => owner'[got[q][j]] = q
        BY <1>8, <2>2, <3>2
      <3>. QED
        BY <1>3, <1>4, <2>1, <2>4, <3>1, <3>3 DEF Position
    <2>. QED
      BY <2>3, <2>4
  <1>. QED
    BY <1>5, <1>6, <1>7, <1>10, <1>11 DEF IInv

(* Unlocking a mutex: its caller owned it, and stays one of its users. *)
LEMMA UnlockStep ==
  ASSUME IInv, NEW p \in Procs, Unlock(p)
  PROVE  IInv'
  <1>0. /\ pc[p] \in {"critical", "unlock"} /\ todo[p] = {}
        /\ Taken(p) # {} /\ Taken(p) \in SUBSET Keys
        /\ \A j \in Taken(p) : owner[got[p][j]] = p
    BY DEF IInv, Positions, Position, Taken, Unlock
  <1>1. PICK k \in Keys : k = Last(Taken(p)) /\ k \in Taken(p) /\ \A j \in Taken(p) : j <= k
    BY <1>0, LastIsGreatest
  <1>2. /\ got[p][k] = held[k] /\ held[k] # Nil /\ held[k] \in Objs
        /\ owner[held[k]] = p /\ owner' = [owner EXCEPT ![held[k]] = Nil]
    BY <1>0, <1>1 DEF IInv, TypeOK, OneObject, Taken, Unlock
  <1>3. /\ UNCHANGED <<held, refs, got, todo>>
        /\ \A q \in Procs : Taken(q)' = Taken(q)
    BY DEF Unlock, Taken
  <1>4. /\ pc'[p] = "drop" /\ at'[p] = k
        /\ \A q \in Procs \ {p} : pc'[q] = pc[q] /\ at'[q] = at[q]
    BY <1>1 DEF Unlock, IInv, TypeOK
  <1>5. TypeOK'
    BY <1>1, <1>2, <1>3 DEF Unlock, IInv, TypeOK, Places
  <1>6. OneObject' /\ Distinct'
    BY <1>3 DEF IInv, OneObject, Distinct
  <1>7. Counted'
    BY <1>3 DEF IInv, Counted, Users
  <1>8. \A j \in Keys \ {k} : held[j] # Nil => owner'[held[j]] = owner[held[j]]
    BY <1>2 DEF IInv, TypeOK, Distinct
  <1>9. owner'[held[k]] = Nil
    BY <1>2 DEF IInv, TypeOK
  <1>10. OwnerUses'
    BY <1>2, <1>3, <1>8, <1>9, ProcsAssumption DEF IInv, OwnerUses
  <1>11. Positions'
    <2>. SUFFICES ASSUME NEW q \in Procs PROVE Position(q)'
      BY DEF Positions
    <2>1. Position(q)
      BY DEF IInv, Positions
    <2>2. \A j \in Taken(q) : j \in Keys /\ got[q][j] = held[j] /\ held[j] # Nil
      BY DEF IInv, OneObject, Taken
    <2>3. CASE q = p
      BY <1>0, <1>1, <1>2, <1>3, <1>4, <1>8, <1>9, <2>1, <2>2, <2>3, ProcsAssumption
         DEF Position
    <2>4. CASE q # p
      <3>1. \A j \in Taken(q) : owner'[got[q][j]] = Nil \/ owner'[got[q][j]] = owner[got[q][j]]
        BY <1>8, <1>9, <2>2
      <3>2. \A j \in Taken(q) : owner[got[q][j]] = q => owner'[got[q][j]] = q
        BY <1>2, <1>8, <2>2, <2>4
      <3>. QED
        BY <1>3, <1>4, <2>1, <2>4, <3>1, <3>2, ProcsAssumption DEF Position
    <2>. QED
      BY <2>3, <2>4
  <1>. QED
    BY <1>5, <1>6, <1>7, <1>10, <1>11 DEF IInv

(* Dropping a key removes a user and its count, and with the last user     *)
(* the key itself.                                                          *)
LEMMA DropStep ==
  ASSUME IInv, NEW p \in Procs, Drop(p)
  PROVE  IInv'
  <1>1. PICK k \in Keys : k = at[p]
    BY DEF IInv, TypeOK
  <1>2. /\ pc[p] = "drop" /\ k \in Taken(p) /\ todo[p] = {}
        /\ got[p][k] = held[k] /\ held[k] # Nil /\ held[k] \in Objs
        /\ owner[held[k]] # p
    BY <1>1 DEF IInv, TypeOK, Positions, Position, OneObject, Taken, Drop
  <1>3. /\ refs' = [refs EXCEPT ![held[k]] = @ - 1]
        /\ held' = [held EXCEPT ![k] = IF refs[held[k]] = 1 THEN Nil ELSE held[k]]
        /\ got' = [got EXCEPT ![p][k] = Nil]
        /\ pc' = [pc EXCEPT ![p] = IF Taken(p) = {k} THEN "idle" ELSE "unlock"]
        /\ UNCHANGED <<owner, todo, at>>
    BY <1>1, <1>2 DEF Drop
  <1>4. /\ Users(k)' = Users(k) \ {p} /\ p \in Users(k)
        /\ \A j \in Keys \ {k} : Users(j)' = Users(j)
    <2>1. got'[p][k] = Nil /\ \A j \in Keys \ {k} : got'[p][j] = got[p][j]
      BY <1>3 DEF IInv, TypeOK
    <2>2. \A q \in Procs \ {p} : got'[q] = got[q]
      BY <1>3 DEF IInv, TypeOK
    <2>3. Users(k)' = Users(k) \ {p} /\ p \in Users(k)
      BY <1>2, <2>1, <2>2 DEF Users, Taken
    <2>4. ASSUME NEW j \in Keys \ {k} PROVE Users(j)' = Users(j)
      BY <2>1, <2>2 DEF Users
    <2>. QED
      BY <2>3, <2>4
  <1>5. /\ refs[held[k]] = Cardinality(Users(k)) /\ refs[held[k]] \in Nat
        /\ Cardinality(Users(k)') = refs[held[k]] - 1
    <2>1. refs[held[k]] = Cardinality(Users(k))
      BY <1>2 DEF IInv, Counted
    <2>2. IsFiniteSet(Users(k))
      BY UsersFinite
    <2>3. Cardinality(Users(k)) \in Nat
      BY <2>2, FS_CardinalityType
    <2>4. Cardinality(Users(k) \ {p}) = Cardinality(Users(k)) - 1
      BY <1>4, <2>2, FS_RemoveElement
    <2>5. Cardinality(Users(k)') = Cardinality(Users(k)) - 1
      BY <1>4, <2>4
    <2>. QED
      BY <2>1, <2>3, <2>5
  <1>6. refs[held[k]] = 1 <=> Users(k)' = {}
    <2>1. IsFiniteSet(Users(k)')
      BY <1>4, UsersFinite, FS_Subset
    <2>. QED
      BY <1>5, <2>1, FS_EmptySet
  <1>7. refs[held[k]] > 0
    <2>1. Users(k) # {}
      BY <1>4
    <2>. QED
      BY <1>5, <2>1, UsersFinite, FS_EmptySet
  <1>8. TypeOK'
    <2>1. held' \in [Keys -> Objs \cup {Nil}] /\ owner' \in [Objs -> Procs \cup {Nil}]
      BY <1>3 DEF IInv, TypeOK
    <2>2. refs' \in [Objs -> Nat]
      <3>1. refs[held[k]] - 1 \in Nat
        BY <1>5, <1>7
      <3>. QED
        BY <1>2, <1>3, <3>1 DEF IInv, TypeOK
    <2>3. got' \in [Procs -> [Keys -> Objs \cup {Nil}]]
      <3>1. [got[p] EXCEPT ![k] = Nil] \in [Keys -> Objs \cup {Nil}]
        BY DEF IInv, TypeOK
      <3>. QED
        BY <1>3, <3>1 DEF IInv, TypeOK
    <2>4. todo' \in [Procs -> SUBSET Keys] /\ at' \in [Procs -> Keys] /\ pc' \in [Procs -> Places]
      BY <1>3 DEF IInv, TypeOK, Places
    <2>. QED
      BY <2>1, <2>2, <2>3, <2>4 DEF TypeOK
  <1>9. /\ held'[k] = IF Users(k)' = {} THEN Nil ELSE held[k]
        /\ \A j \in Keys \ {k} : held'[j] = held[j]
    BY <1>3, <1>6 DEF IInv, TypeOK
  <1>10. /\ got'[p][k] = Nil
         /\ \A q \in Procs, j \in Keys : got'[q][j] = got[q][j] \/ (q = p /\ j = k)
    BY <1>3 DEF IInv, TypeOK
  <1>11. OneObject'
    <2>. SUFFICES ASSUME NEW q \in Procs, NEW j \in Keys PROVE got'[q][j] \in {Nil, held'[j]}
      BY DEF OneObject
    <2>1. CASE j # k
      BY <1>9, <1>10, <2>1 DEF IInv, OneObject
    <2>2. CASE j = k /\ Users(k)' = {}
      <3>1. Users(j)' = {}
        BY <2>2
      <3>. QED
        BY <3>1 DEF Users
    <2>3. CASE j = k /\ Users(k)' # {}
      BY <1>9, <1>10, <2>3 DEF IInv, OneObject
    <2>. QED
      BY <2>1, <2>2, <2>3
  <1>12. Distinct'
    BY <1>9 DEF IInv, Distinct
  <1>13. Counted'
    <2>1. refs'[held[k]] = Cardinality(Users(k)')
      BY <1>2, <1>3, <1>5 DEF IInv, TypeOK
    <2>2. \A j \in Keys \ {k} : held[j] # Nil => refs'[held[j]] = refs[held[j]]
      BY <1>2, <1>3 DEF IInv, TypeOK, Distinct
    <2>3. ASSUME NEW j \in Keys \ {k}, held'[j] # Nil
          PROVE  Users(j)' # {} /\ refs'[held'[j]] = Cardinality(Users(j)')
      BY <1>4, <1>9, <2>2, <2>3 DEF IInv, Counted
    <2>4. held'[k] # Nil => Users(k)' # {} /\ refs'[held'[k]] = Cardinality(Users(k)')
      BY <1>9, <2>1
    <2>. QED
      BY <2>3, <2>4 DEF Counted
  <1>14. OwnerUses'
    BY <1>2, <1>3, <1>9, <1>10 DEF IInv, OwnerUses
  <1>15. Positions'
    <2>. SUFFICES ASSUME NEW q \in Procs PROVE Position(q)'
      BY DEF Positions
    <2>1. Position(q)
      BY DEF IInv, Positions
    <2>2. CASE q = p
      <3>1. Taken(p)' = Taken(p) \ {k}
        BY <1>10 DEF Taken
      <3>2. \A j \in Taken(p)' : got'[p][j] = got[p][j] /\ owner'[got[p][j]] = p
        BY <1>1, <1>2, <1>3, <1>10, <2>1, <2>2, <3>1 DEF Position, Taken
      <3>3. pc'[p] = IF Taken(p)' = {} THEN "idle" ELSE "unlock"
        BY <1>2, <1>3, <3>1 DEF IInv, TypeOK
      <3>. QED
        BY <1>2, <1>3, <2>2, <3>2, <3>3 DEF Position
    <2>3. CASE q # p
      <3>1. got'[q] = got[q] /\ Taken(q)' = Taken(q) /\ pc'[q] = pc[q]
        BY <1>3, <2>3 DEF IInv, TypeOK, Taken
      <3>. QED
        BY <1>3, <2>1, <3>1 DEF Position
    <2>. QED
      BY <2>2, <2>3
  <1>. QED
    BY <1>8, <1>11, <1>12, <1>13, <1>14, <1>15 DEF IInv

(* Every step of every caller preserves the inductive invariant. *)
LEMMA NextIInv == IInv /\ [Next]_vars => IInv'
  <1>. SUFFICES ASSUME IInv, [Next]_vars PROVE IInv'
    OBVIOUS
  <1>1. ASSUME NEW p \in Procs, NEW S \in (SUBSET Keys) \ {{}}, Call(p, S) PROVE IInv'
    <2>1. S \in SUBSET Keys /\ S # {}
      OBVIOUS
    <2>. QED
      BY <1>1, <2>1, CallStep
  <1>2. ASSUME NEW p \in Procs, Lookup(p) PROVE IInv'
    BY <1>2, LookupStep
  <1>3. ASSUME NEW p \in Procs, Acquire(p) PROVE IInv'
    BY <1>3, AcquireStep
  <1>4. ASSUME NEW p \in Procs, Unlock(p) PROVE IInv'
    BY <1>4, UnlockStep
  <1>5. ASSUME NEW p \in Procs, Drop(p) PROVE IInv'
    BY <1>5, DropStep
  <1>6. CASE UNCHANGED vars
    <2>1. UNCHANGED <<held, refs, owner, got, todo, at, pc>>
      BY <1>6 DEF vars
    <2>2. TypeOK' /\ OneObject' /\ Distinct' /\ OwnerUses'
      BY <2>1 DEF IInv, TypeOK, OneObject, Distinct, OwnerUses
    <2>3. Counted'
      BY <2>1 DEF IInv, Counted, Users
    <2>4. Positions'
      BY <2>1 DEF IInv, Positions, Position, Taken
    <2>. QED
      BY <2>2, <2>3, <2>4 DEF IInv
  <1>. QED
    BY <1>1, <1>2, <1>3, <1>4, <1>5, <1>6 DEF Next

(* IInv is an invariant of the locks. *)
THEOREM Inductive == Spec => []IInv
  BY InitIInv, NextIInv, PTL DEF Spec

(* The state of the locks always has its declared types; above all, no     *)
(* reference count is decremented below zero.                               *)
THEOREM TypeCorrect == Spec => []TypeOK
  <1>1. IInv => TypeOK
    BY DEF IInv
  <1>. QED
    BY <1>1, Inductive, PTL

(* No two callers are inside the mutex of one key, whatever objects the    *)
(* key has lived in (LockEntry, LockSettings: writers take turns).          *)
THEOREM Exclusive == Spec => []MutualExclusion
  <1>1. IInv => MutualExclusion
    BY DEF IInv, OneObject, MutualExclusion, Holds
  <1>. QED
    BY <1>1, Inductive, PTL

(* A key is in keyedMutex.held exactly while some caller uses it, and all  *)
(* its users then share the one object.                                     *)
THEOREM CleanedUp == Spec => []DroppedWhenUnused
  <1>1. IInv => DroppedWhenUnused
    BY DEF IInv, OneObject, Counted, Users, DroppedWhenUnused
  <1>. QED
    BY <1>1, Inductive, PTL

(* There is always a cell to allocate a key's mutex in: no more cells are  *)
(* referenced than there are keys.                                          *)
LEMMA RoomToAllocate ==
  ASSUME IInv
  PROVE  \E o \in Objs : Garbage(o)
  <1>1. PICK o \in Objs : \A k \in Keys : held[k] # o
    BY HeapAssumption DEF IInv, TypeOK
  <1>2. \A p \in Procs, k \in Keys : got[p][k] # o
    BY <1>1, NilIsNoObject DEF IInv, OneObject
  <1>. QED
    BY <1>1, <1>2 DEF Garbage

(* Whenever some caller is not idle some caller can go on: of the keys     *)
(* callers wait for, the last one's owner waits for nothing.                *)
THEOREM DeadlockFree == Spec => []NoDeadlock
  <1>1. ASSUME IInv PROVE NoDeadlock
    <2>. SUFFICES ASSUME NEW p \in Procs, pc[p] # "idle",
                         \A q \in Procs : ~CanStep(q)
                  PROVE  FALSE
      BY DEF NoDeadlock
    <2>. DEFINE Awaited == {at[q] : q \in {r \in Procs : pc[r] = "acquire"}}
    <2>1. \A q \in Procs : pc[q] # "lookup"
      BY <1>1, RoomToAllocate DEF CanStep
    <2>2. \A q \in Procs : pc[q] \in {"idle", "acquire"}
      BY <1>1, <2>1 DEF CanStep, IInv, TypeOK, Places
    <2>3. Awaited \in SUBSET Keys /\ Awaited # {}
      <3>1. pc[p] = "acquire"
        BY <2>2
      <3>2. at[p] \in Awaited
        BY <3>1
      <3>3. \A q \in Procs : at[q] \in Keys
        BY <1>1 DEF IInv, TypeOK
      <3> QED
        BY <3>2, <3>3
    <2>4. PICK m \in Awaited : \A j \in Awaited : j <= m
      BY <2>3, KeysAssumption
    <2>5. PICK q \in Procs : pc[q] = "acquire" /\ at[q] = m
      BY <2>4
    <2>6. m \in Keys /\ got[q][m] = held[m] /\ held[m] # Nil /\ held[m] \in Objs
      BY <1>1, <2>5 DEF IInv, TypeOK, Positions, Position, OneObject, Taken
    <2>7. PICK r \in Procs : owner[held[m]] = r
      BY <1>1, <2>5, <2>6 DEF CanStep, IInv, TypeOK
    <2>8. m \in Taken(r) /\ got[r][m] = held[m]
      BY <1>1, <2>6, <2>7 DEF IInv, OwnerUses, OneObject, Taken
    <2>9. pc[r] = "acquire"
      BY <1>1, <2>2, <2>8 DEF IInv, Positions, Position
    <2>10. m <= at[r] /\ at[r] \in Awaited /\ owner[got[r][at[r]]] # r
      BY <1>1, <2>8, <2>9 DEF IInv, Positions, Position
    <2>11. at[r] = m
      <3>1. at[r] <= m /\ m <= at[r]
        BY <2>4, <2>10
      <3>2. at[r] \in Int /\ m \in Int
        BY <2>3, <2>6, <2>10, KeysAreIntegers
      <3>. QED
        BY <3>1, <3>2
    <2>. QED
      BY <2>7, <2>8, <2>10, <2>11
  <1>. QED
    BY <1>1, Inductive, PTL

(* The mutexes implement the promise of TakingTurns: Call asks, Acquire    *)
(* grants, Unlock gives back, and the rest nobody can see.                  *)
THEOREM Implements == Spec => TakesTurns
  <1>. DEFINE Asked == [p \in Procs |->
                  todo[p] \cup (IF pc[p] = "acquire" THEN {at[p]} ELSE {})]
              Held  == [p \in Procs |-> {k \in Keys : Holds(p, k)}]
  <1>1. Init => Turns!Init
    BY DEF Init, Turns!Init, Holds
  <1>2. ASSUME IInv, [Next]_vars PROVE [Turns!Next]_(Turns!vars)
    <2>1. ASSUME NEW p \in Procs, NEW S \in (SUBSET Keys) \ {{}}, Call(p, S)
          PROVE  Turns!Ask(p, S)
      <3>1. todo[p] = {} /\ Taken(p) = {} /\ pc[p] = "idle"
        BY <1>2, <2>1 DEF Call, IInv, Positions, Position
      <3>2. Asked[p] = {} /\ Held[p] = {}
        BY <3>1 DEF Holds, Taken
      <3>3. Asked' = [Asked EXCEPT ![p] = S]
        BY <1>2, <2>1, <3>1 DEF Call, IInv, TypeOK
      <3>4. Held' = Held
        BY <2>1 DEF Call, Holds
      <3>. QED
        BY <3>2, <3>3, <3>4 DEF Turns!Ask
    <2>2. ASSUME NEW p \in Procs, Lookup(p) PROVE UNCHANGED Turns!vars
      <3>1. IInv'
        BY <1>2, NextIInv
      <3>2. PICK k \in Keys : k = First(todo[p]) /\ k \in todo[p]
        BY <1>2, <2>2, FirstIsLeast DEF Lookup, IInv, TypeOK, Positions, Position
      <3>3. PICK o \in Objs : /\ Find(p, k, o) \/ Allocate(p, k, o)
                             /\ got' = [got EXCEPT ![p][k] = o]
        BY <2>2, <3>2 DEF Lookup
      <3>4. /\ pc[p] = "lookup" /\ pc' = [pc EXCEPT ![p] = "acquire"]
            /\ todo' = [todo EXCEPT ![p] = @ \ {k}] /\ at' = [at EXCEPT ![p] = k]
        BY <2>2, <3>2 DEF Lookup
      <3>5. Asked' = Asked
        <4>1. ASSUME NEW q \in Procs PROVE Asked'[q] = Asked[q]
          BY <1>2, <3>2, <3>4 DEF IInv, TypeOK
        <4>. QED
          BY <4>1
      <3>6. ~Holds(p, k) /\ ~Holds(p, k)'
        <4>1. k \notin Taken(p)
          BY <1>2, <3>2, KeysAreIntegers DEF IInv, TypeOK, Positions, Position
        <4>2. pc'[p] = "acquire" /\ at'[p] = k
          BY <1>2, <3>4 DEF IInv, TypeOK
        <4>3. owner'[got'[p][k]] # p
          BY <3>1, <4>2 DEF IInv, Positions, Position
        <4>. QED
          BY <4>1, <4>3 DEF Holds, Taken
      <3>7. ASSUME NEW q \in Procs, NEW j \in Keys, q # p \/ j # k
            PROVE  Holds(q, j)' <=> Holds(q, j)
        <4>1. got'[q][j] = got[q][j]
          BY <1>2, <3>3, <3>7 DEF IInv, TypeOK
        <4>2. got[q][j] # Nil => owner'[got[q][j]] = owner[got[q][j]]
          BY <1>2, <3>3 DEF IInv, TypeOK, Find, Allocate, Garbage
        <4>. QED
          BY <4>1, <4>2 DEF Holds
      <3>8. Held' = Held
        BY <3>6, <3>7
      <3>. QED
        BY <3>5, <3>8 DEF Turns!vars
    <2>3. ASSUME NEW p \in Procs, Acquire(p) PROVE \E k \in Keys : Turns!Grant(p, k)
      <3>1. PICK k \in Keys : k = at[p]
        BY <1>2 DEF IInv, TypeOK
      <3>2. /\ pc[p] = "acquire" /\ k \in Taken(p) /\ k \notin todo[p]
            /\ \A j \in todo[p] : k < j
            /\ got[p][k] = held[k] /\ held[k] # Nil /\ owner[held[k]] = Nil
            /\ owner' = [owner EXCEPT ![held[k]] = p] /\ held[k] \in Objs
            /\ UNCHANGED <<held, got, todo, at>>
        <4>1. /\ pc[p] = "acquire" /\ k \in Taken(p) /\ \A j \in todo[p] : k < j
              /\ UNCHANGED <<held, got, todo, at>>
          BY <1>2, <2>3, <3>1 DEF Acquire, IInv, Positions, Position
        <4>2. got[p][k] = held[k] /\ held[k] # Nil /\ held[k] \in Objs
          BY <1>2, <4>1 DEF IInv, TypeOK, OneObject, Taken
        <4>3. owner[held[k]] = Nil /\ owner' = [owner EXCEPT ![held[k]] = p]
          BY <2>3, <3>1, <4>2 DEF Acquire
        <4>4. k \notin todo[p]
          BY <4>1, KeysAreIntegers
        <4>. QED
          BY <4>1, <4>2, <4>3, <4>4
      <3>3. Asked[p] = todo[p] \cup {k} /\ Asked' = [Asked EXCEPT ![p] = Asked[p] \ {k}]
        <4>1. pc'[p] # "acquire" /\ \A q \in Procs \ {p} : pc'[q] = pc[q]
          BY <1>2, <2>3 DEF Acquire, IInv, TypeOK
        <4>2. Asked[p] = todo[p] \cup {k} /\ Asked'[p] = todo[p]
          BY <3>1, <3>2, <4>1
        <4>3. \A q \in Procs \ {p} : Asked'[q] = Asked[q]
          BY <3>2, <4>1
        <4>4. Asked[p] \ {k} = todo[p]
          BY <3>2, <4>2
        <4>5. ASSUME NEW q \in Procs
              PROVE  Asked'[q] = [Asked EXCEPT ![p] = todo[p]][q]
          <5>1. CASE q = p
            BY <4>2, <5>1
          <5>2. CASE q # p
            BY <4>3, <5>2
          <5>. QED
            BY <5>1, <5>2
        <4>6. Asked' = [Asked EXCEPT ![p] = todo[p]]
          BY <4>5
        <4>. QED
          BY <4>2, <4>4, <4>6
      <3>4. \A q \in Procs : k \notin Held[q]
        BY <1>2, <3>2, ProcsAssumption DEF Holds, IInv, OneObject
      <3>5. Holds(p, k)'
        BY <1>2, <3>2 DEF Holds, IInv, TypeOK
      <3>6. ASSUME NEW q \in Procs, NEW j \in Keys, q # p \/ j # k
            PROVE  Holds(q, j)' <=> Holds(q, j)
        <4>1. CASE got[q][j] = held[k]
          <5>1. j = k
            BY <1>2, <3>2, <4>1 DEF IInv, OneObject, Distinct
          <5>2. q # p
            BY <3>6, <5>1
          <5>. QED
            BY <1>2, <3>2, <4>1, <5>2, ProcsAssumption DEF Holds, IInv, TypeOK
        <4>2. CASE got[q][j] # held[k]
          BY <1>2, <3>2, <4>2 DEF Holds, IInv, TypeOK
        <4>. QED
          BY <4>1, <4>2
      <3>7. Held' = [Held EXCEPT ![p] = Held[p] \cup {k}]
        BY <3>5, <3>6
      <3>8. \A j \in Asked[p] : k <= j
        BY <1>2, <3>2, <3>3, KeysAreIntegers DEF IInv, TypeOK
      <3>. QED
        BY <3>3, <3>4, <3>7, <3>8 DEF Turns!Grant
    <2>4. ASSUME NEW p \in Procs, Unlock(p) PROVE \E k \in Keys : Turns!GiveBack(p, k)
      <3>1. PICK k \in Keys : k = Last(Taken(p)) /\ k \in Taken(p)
        BY <1>2, <2>4, LastIsGreatest DEF Unlock, IInv, Positions, Position, Taken
      <3>2. /\ pc[p] \in {"critical", "unlock"} /\ todo[p] = {}
            /\ got[p][k] = held[k] /\ held[k] # Nil /\ owner[held[k]] = p
            /\ owner' = [owner EXCEPT ![held[k]] = Nil] /\ held[k] \in Objs
            /\ UNCHANGED <<held, got, todo>>
        <4>1. pc[p] \in {"critical", "unlock"} /\ UNCHANGED <<held, got, todo>>
          BY <2>4 DEF Unlock
        <4>2. owner' = [owner EXCEPT ![got[p][k]] = Nil]
          BY <2>4, <3>1 DEF Unlock
        <4>3. todo[p] = {} /\ owner[got[p][k]] = p
          BY <1>2, <3>1, <4>1 DEF IInv, Positions, Position
        <4>4. got[p][k] # Nil
          BY <3>1 DEF Taken
        <4>5. got[p][k] = held[k]
          BY <1>2, <4>4 DEF IInv, OneObject
        <4>6. held[k] \in Objs
          BY <1>2, <4>4, <4>5 DEF IInv, TypeOK
        <4>. QED
          BY <4>1, <4>2, <4>3, <4>4, <4>5, <4>6
      <3>3. Asked[p] = {} /\ Asked' = Asked
        BY <1>2, <2>4, <3>2 DEF Unlock, IInv, TypeOK
      <3>4. k \in Held[p]
        BY <3>2 DEF Holds
      <3>5. ~Holds(p, k)'
        BY <1>2, <3>2, ProcsAssumption DEF Holds, IInv, TypeOK
      <3>6. ASSUME NEW q \in Procs, NEW j \in Keys, q # p \/ j # k
            PROVE  Holds(q, j)' <=> Holds(q, j)
        <4>1. CASE got[q][j] = held[k]
          <5>1. j = k
            BY <1>2, <3>2, <4>1 DEF IInv, OneObject, Distinct
          <5>2. q # p
            BY <3>6, <5>1
          <5>. QED
            BY <1>2, <3>2, <4>1, <5>2, ProcsAssumption DEF Holds, IInv, TypeOK
        <4>2. CASE got[q][j] # held[k]
          BY <1>2, <3>2, <4>2 DEF Holds, IInv, TypeOK
        <4>. QED
          BY <4>1, <4>2
      <3>7. Held' = [Held EXCEPT ![p] = Held[p] \ {k}]
        BY <3>5, <3>6
      <3>. QED
        BY <3>3, <3>4, <3>7 DEF Turns!GiveBack
    <2>5. ASSUME NEW p \in Procs, Drop(p) PROVE UNCHANGED Turns!vars
      <3>1. PICK k \in Keys : k = at[p]
        BY <1>2 DEF IInv, TypeOK
      <3>2. /\ pc[p] = "drop" /\ owner[got[p][k]] # p
            /\ got' = [got EXCEPT ![p][k] = Nil] /\ UNCHANGED <<owner, todo, at>>
            /\ pc' = [pc EXCEPT ![p] = IF Taken(p) = {k} THEN "idle" ELSE "unlock"]
        BY <1>2, <2>5, <3>1 DEF Drop, IInv, Positions, Position
      <3>3. Asked' = Asked
        <4>1. ASSUME NEW q \in Procs PROVE Asked'[q] = Asked[q]
          BY <1>2, <3>2 DEF IInv, TypeOK
        <4>. QED
          BY <4>1
      <3>4. ASSUME NEW q \in Procs, NEW j \in Keys PROVE Holds(q, j)' <=> Holds(q, j)
        BY <1>2, <3>2 DEF Holds, IInv, TypeOK
      <3>5. Held' = Held
        BY <3>4
      <3>. QED
        BY <3>3, <3>5 DEF Turns!vars
    <2>6. CASE UNCHANGED vars
      BY <2>6 DEF vars, Turns!vars, Holds
    <2>. QED
      BY <1>2, <2>1, <2>2, <2>3, <2>4, <2>5, <2>6 DEF Next, Turns!Next
  <1>. QED
    BY <1>1, <1>2, Inductive, PTL DEF Spec, TakesTurns, Turns!Spec
=============================================================================
