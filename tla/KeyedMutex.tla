----------------------------- MODULE KeyedMutex -----------------------------
(***************************************************************************)
(* internal/pihole/locks.go: the set of mutexes that lets every writer of  *)
(* the server take turns on one list entry or one config setting.          *)
(*                                                                         *)
(* A caller (a goroutine handling a tool call) names one key (LockEntry)   *)
(* or several (LockSettings), takes them in sorted order, works, and       *)
(* returns them in reverse order.  A key's mutex is an object allocated by *)
(* the first caller that needs it and dropped from the map by the last     *)
(* one, so the same key may live in different objects over time: that one  *)
(* key never lives in two at once is what the reference count is for.      *)
(*                                                                         *)
(* Each stretch of code run under keyedMutex.mu is one step: it never      *)
(* blocks, and the map and the counts are touched under that mutex only.   *)
(***************************************************************************)
EXTENDS Integers, FiniteSets

CONSTANTS
  Procs,   \* goroutines that lock keys of one Pi-hole's client
  Keys,    \* "entry <path>" and "setting <name>" keys, numbered in the order
           \* slices.Sort puts them in
  Objs,    \* the heap cells a keyedLock can be allocated in
  Nil      \* Go's nil pointer, and "nobody" for the owner of a mutex

ASSUME ProcsAssumption == IsFiniteSet(Procs) /\ Nil \notin Procs

(* A finite set of names: any of its subsets has a first and a last one. *)
ASSUME KeysAssumption ==
  /\ Keys \subseteq Int
  /\ \A S \in SUBSET Keys : S # {} =>
       /\ \E k \in S : \A j \in S : k <= j
       /\ \E k \in S : \A j \in S : j <= k

(* The heap has room for one mutex of every key and one more. *)
ASSUME HeapAssumption ==
  /\ Nil \notin Objs
  /\ \A f \in [Keys -> Objs \cup {Nil}] : \E o \in Objs : \A k \in Keys : f[k] # o

VARIABLES
  held,    \* keyedMutex.held: the mutex object of each key, or Nil
  refs,    \* keyedLock.refs of each object
  owner,   \* keyedLock.mu of each object: the process that has it, or Nil
  got,     \* got[p][k]: the object p's lock(k) captured, until it unlocked it
  todo,    \* the keys LockSettings still has to lock for p
  at,      \* the key p's current lock() or unlock call is about
  pc       \* where p is in LockSettings, in its work, or in the unlock closure

vars == <<held, refs, owner, got, todo, at, pc>>

Places == {"idle", "lookup", "acquire", "critical", "unlock", "drop"}

----------------------------------------------------------------------------

First(S) == CHOOSE k \in S : \A j \in S : k <= j
Last(S)  == CHOOSE k \in S : \A j \in S : j <= k

(* The keys p took and has not finished giving back: the unlocks slice. *)
Taken(p) == {k \in Keys : got[p][k] # Nil}

(* p is inside the mutex of key k. *)
Holds(p, k) == got[p][k] # Nil /\ owner[got[p][k]] = p

(* A cell nothing points to: not the map, and not a lock or unlock call. *)
Garbage(o) ==
  /\ \A k \in Keys : held[k] # o
  /\ \A p \in Procs, k \in Keys : got[p][k] # o

Init ==
  /\ held = [k \in Keys |-> Nil]
  /\ refs = [o \in Objs |-> 0]
  /\ owner = [o \in Objs |-> Nil]
  /\ got = [p \in Procs |-> [k \in Keys |-> Nil]]
  /\ todo = [p \in Procs |-> {}]
  /\ at \in [Procs -> Keys]
  /\ pc = [p \in Procs |-> "idle"]

(* LockSettings, or LockEntry with one key: sorted and without duplicates,  *)
(* the names are the set S.                                                 *)
Call(p, S) ==
  /\ pc[p] = "idle"
  /\ todo' = [todo EXCEPT ![p] = S]
  /\ pc' = [pc EXCEPT ![p] = "lookup"]
  /\ UNCHANGED <<held, refs, owner, got, at>>

(* lock, up to k.mu.Unlock: find the key's object or allocate one, count    *)
(* this caller among its users.                                             *)
Find(p, k, o) ==
  /\ held[k] = o
  /\ refs' = [refs EXCEPT ![o] = @ + 1]
  /\ UNCHANGED <<held, owner>>

Allocate(p, k, o) ==
  /\ held[k] = Nil
  /\ Garbage(o)
  /\ held' = [held EXCEPT ![k] = o]
  /\ refs' = [refs EXCEPT ![o] = 1]
  /\ owner' = [owner EXCEPT ![o] = Nil]

Lookup(p) ==
  LET k == First(todo[p]) IN
  /\ pc[p] = "lookup"
  /\ \E o \in Objs :
       /\ Find(p, k, o) \/ Allocate(p, k, o)
       /\ got' = [got EXCEPT ![p][k] = o]
  /\ at' = [at EXCEPT ![p] = k]
  /\ todo' = [todo EXCEPT ![p] = @ \ {k}]
  /\ pc' = [pc EXCEPT ![p] = "acquire"]

(* l.mu.Lock, then on to the next key or back to the caller. *)
Acquire(p) ==
  /\ pc[p] = "acquire"
  /\ owner[got[p][at[p]]] = Nil
  /\ owner' = [owner EXCEPT ![got[p][at[p]]] = p]
  /\ pc' = [pc EXCEPT ![p] = IF todo[p] = {} THEN "critical" ELSE "lookup"]
  /\ UNCHANGED <<held, refs, got, todo, at>>

(* The caller's deferred unlock: the closures run from the last one back.  *)
(* l.mu.Unlock of the closure whose turn it is.                             *)
Unlock(p) ==
  LET k == Last(Taken(p)) IN
  /\ pc[p] \in {"critical", "unlock"}
  /\ owner' = [owner EXCEPT ![got[p][k]] = Nil]
  /\ at' = [at EXCEPT ![p] = k]
  /\ pc' = [pc EXCEPT ![p] = "drop"]
  /\ UNCHANGED <<held, refs, got, todo>>

(* Bug: the closure drops the key without asking who else waits for it. *)
DropAlways(p) ==
  /\ pc[p] = "drop"
  /\ refs' = [refs EXCEPT ![got[p][at[p]]] = @ - 1]
  /\ held' = [held EXCEPT ![at[p]] = Nil]
  /\ got' = [got EXCEPT ![p][at[p]] = Nil]
  /\ pc' = [pc EXCEPT ![p] = IF Taken(p) = {at[p]} THEN "idle" ELSE "unlock"]
  /\ UNCHANGED <<owner, todo, at>>

(* Bug: the count is compared before it is decremented. *)
DropLate(p) ==
  /\ pc[p] = "drop"
  /\ refs' = [refs EXCEPT ![got[p][at[p]]] = @ - 1]
  /\ held' = [held EXCEPT ![at[p]] = IF refs[got[p][at[p]]] = 0 THEN Nil ELSE @]
  /\ got' = [got EXCEPT ![p][at[p]] = Nil]
  /\ pc' = [pc EXCEPT ![p] = IF Taken(p) = {at[p]} THEN "idle" ELSE "unlock"]
  /\ UNCHANGED <<owner, todo, at>>

(* Bug: the unlock LockSettings returns runs the last closure only. *)
DropOnly(p) ==
  /\ pc[p] = "drop"
  /\ refs' = [refs EXCEPT ![got[p][at[p]]] = @ - 1]
  /\ held' = [held EXCEPT ![at[p]] = IF refs[got[p][at[p]]] = 1 THEN Nil ELSE @]
  /\ got' = [got EXCEPT ![p] = [k \in Keys |-> Nil]]
  /\ pc' = [pc EXCEPT ![p] = "idle"]
  /\ UNCHANGED <<owner, todo, at>>

(* The rest of the closure, under k.mu: the last user drops the key. *)
Drop(p) ==
  LET k == at[p]
      l == got[p][k]
  IN
  /\ pc[p] = "drop"
  /\ refs' = [refs EXCEPT ![l] = @ - 1]
  /\ held' = [held EXCEPT ![k] = IF refs[l] = 1 THEN Nil ELSE held[k]]
  /\ got' = [got EXCEPT ![p][k] = Nil]
  /\ pc' = [pc EXCEPT ![p] = IF Taken(p) = {k} THEN "idle" ELSE "unlock"]
  /\ UNCHANGED <<owner, todo, at>>

Next ==
  \E p \in Procs :
    \/ \E S \in (SUBSET Keys) \ {{}} : Call(p, S)
    \/ Lookup(p)
    \/ Acquire(p)
    \/ Unlock(p)
    \/ Drop(p)

Spec == Init /\ [][Next]_vars

(* A caller's work is bounded (every request has a deadline) and its unlock *)
(* is deferred, so it leaves.  Go's sync.Mutex hands itself to a waiter     *)
(* that has waited a millisecond, hence strong fairness of l.mu.Lock.       *)
Fairness ==
  \A p \in Procs :
    /\ WF_vars(Lookup(p))
    /\ SF_vars(Acquire(p))
    /\ WF_vars(Unlock(p))
    /\ WF_vars(Drop(p))

FairSpec == Spec /\ Fairness

----------------------------------------------------------------------------

TypeOK ==
  /\ held \in [Keys -> Objs \cup {Nil}]
  /\ refs \in [Objs -> Nat]
  /\ owner \in [Objs -> Procs \cup {Nil}]
  /\ got \in [Procs -> [Keys -> Objs \cup {Nil}]]
  /\ todo \in [Procs -> SUBSET Keys]
  /\ at \in [Procs -> Keys]
  /\ pc \in [Procs -> Places]

(* "The locks below let every writer in this server take turns on one      *)
(* entry or setting": no two callers are inside the lock of one key, even  *)
(* though the key's mutex is dropped and allocated anew over time.          *)
MutualExclusion ==
  \A p, q \in Procs, k \in Keys : Holds(p, k) /\ Holds(q, k) => p = q

(* "dropped once nothing holds or waits for them": a key is in the map     *)
(* exactly while some caller's lock or unlock of it is under way, and then  *)
(* all of them use the object the map shows.                                *)
DroppedWhenUnused ==
  \A k \in Keys :
    IF held[k] = Nil
    THEN \A p \in Procs : got[p][k] = Nil
    ELSE /\ \E p \in Procs : got[p][k] # Nil
         /\ \A p \in Procs : got[p][k] \in {Nil, held[k]}

(* A step some caller inside LockSettings or its unlock can take now. *)
CanStep(p) ==
  \/ pc[p] \in {"critical", "unlock", "drop"}
  \/ pc[p] = "lookup" /\ \E o \in Objs : held[First(todo[p])] = o \/ Garbage(o)
  \/ pc[p] = "acquire" /\ owner[got[p][at[p]]] = Nil

(* "sorted order ... keeps two calls that lock several from deadlocking":  *)
(* whenever some caller is not idle, some caller can go on.                 *)
NoDeadlock ==
  (\E p \in Procs : pc[p] # "idle") => \E p \in Procs : CanStep(p)

(* A caller that asked for its keys gets all of them, and the unlock ends.  *)
EveryCallerServed ==
  \A p \in Procs :
    /\ pc[p] = "lookup" ~> pc[p] = "critical"
    /\ pc[p] = "critical" ~> pc[p] = "idle"

(* The locks implement the promise TakingTurns states: a caller inside the *)
(* mutex of a key has been granted it, one before Acquire still asks.       *)
Turns == INSTANCE TakingTurns WITH
  asked <- [p \in Procs |->
              todo[p] \cup (IF pc[p] = "acquire" THEN {at[p]} ELSE {})],
  holds <- [p \in Procs |-> {k \in Keys : Holds(p, k)}]

TakesTurns == Turns!Spec

=============================================================================
