---------------------------- MODULE EntryWriters ----------------------------
(***************************************************************************)
(* internal/tools: the tools that add, update and delete the entries of one *)
(* of Pi-hole's collections (domains.go, lists.go, groups.go, clients.go,    *)
(* shared.go), called in parallel by MCP clients.                           *)
(*                                                                         *)
(* FTL's PUT replaces the comment and the enabled flag of an entry together, *)
(* so an update reads the entry, under the entry's lock, to put back what   *)
(* its caller did not give.  Adding and deleting take no lock.              *)
(*                                                                         *)
(* The locks are used as TakingTurns promises them (KeyedMutex is the code  *)
(* that keeps the promise), and each request as ApiClient reports it: done, *)
(* not done, or uncertain, in which case FTL may carry it out later.  The   *)
(* table of entries is FTL's, outside src/, and so is what a request does.  *)
(***************************************************************************)
EXTENDS Integers, FiniteSets

CONSTANTS
  Procs,      \* goroutines that handle tool calls
  Names,      \* what entries are called, in the order of the names
  Clients,    \* those that are clients: an update looks a name up again,
              \* ignoring case
  Groups,     \* those that are groups: an update may rename; the others are
              \* domains or lists
  Fold,       \* the name ignoring case: two spellings of one client
  Replaced,   \* the fields a PUT replaces: comment, enabled
  Kept,       \* the fields a PUT that leaves them out keeps: groups
  Values,     \* the values of a field, a caller's and FTL's
  Default,    \* the value of a field of a new entry that nobody gave
  Missing,    \* no entry, or no value
  MaxLate     \* bound of the updates that FTL may still carry out

Others      == Names \ (Clients \cup Groups)
Collections == {Clients, Groups, Others}

Fields  == Replaced \cup Kept
Entries == [Fields -> Values]

ASSUME EntryAssumption ==
  /\ Names \subseteq Int
  /\ Fold \in [Names -> Names]
  /\ Replaced \cap Kept = {}
  /\ Default \in Values /\ Missing \notin Values /\ Missing \notin Entries
  /\ Clients \subseteq Names /\ Groups \subseteq Names \ Clients
  /\ MaxLate \in Nat

VARIABLES
  table,    \* the collections: an entry, or Missing, for each name
  asked,    \* TakingTurns: the lock a goroutine waits for,
  holds,    \* and the one it has
  pc,       \* where each call is in its handler
  name,     \* the entry the call is about
  given,    \* the fields an update's caller gave, Missing for the others
  newName,  \* the name to rename the entry to, or the entry's own
  read,     \* the entry as the update read it
  late,     \* updates given up on that FTL may still carry out
  touched   \* whether anything but an update has changed the entry since it
            \* was read

lockVars == <<asked, holds>>
callVars == <<name, given, newName, read>>
vars     == <<table, lockVars, pc, callVars, late, touched>>

Lock == INSTANCE TakingTurns WITH Keys <- Names

Places  == {"idle", "lock", "read", "find", "relock", "reread", "groups", "put"}

Gifts == [Fields -> Values \cup {Missing}]

(* What a caller can give for an entry of C: a group has no groups. *)
GiftsFor(C) ==
  {g \in Gifts : C = Groups => \A f \in Kept : g[f] = Missing}

Present(n) == table[n] # Missing

Init ==
  /\ table \in [Names -> Entries \cup {Missing}]
  /\ asked = [p \in Procs |-> {}]
  /\ holds = [p \in Procs |-> {}]
  /\ pc = [p \in Procs |-> "idle"]
  /\ name \in [Procs -> Names]
  /\ given = [p \in Procs |-> [f \in Fields |-> Missing]]
  /\ newName = name
  /\ read = [p \in Procs |-> Missing]
  /\ late = {}
  /\ touched = [p \in Procs |-> FALSE]

(* The entries of S are changed by something that does not hold their lock. *)
Touch(S) == touched' = [p \in Procs |-> touched[p] \/ name[p] \in S]

----------------------------------------------------------------------------
(* What FTL does with a request *)

(* The body of an update: what was given, and what was read for the rest. *)
Body(p) ==
  [f \in Fields |-> IF given[p][f] # Missing THEN given[p][f]
                    ELSE IF f \in Replaced THEN read[p][f] ELSE Missing]

(* A PUT to n: it creates the entry if there is none. *)
Replace(n, body) ==
  [f \in Fields |-> IF body[f] # Missing THEN body[f]
                    ELSE IF Present(n) THEN table[n][f] ELSE Default]

PutAt(n, m, body) ==
  IF m = n THEN [table EXCEPT ![n] = Replace(n, body)]
  ELSE [table EXCEPT ![m] = Replace(n, body), ![n] = Missing]

Request(p) == [to |-> name[p], as |-> newName[p], body |-> Body(p)]

----------------------------------------------------------------------------
(* The update tools *)

Update(p, n, g, m) ==
  /\ pc[p] = "idle"
  /\ m = n \/ {m, n} \subseteq Groups
  /\ name' = [name EXCEPT ![p] = n]
  /\ given' = [given EXCEPT ![p] = g]
  /\ newName' = [newName EXCEPT ![p] = m]
  /\ Lock!Ask(p, {n})
  /\ pc' = [pc EXCEPT ![p] = "lock"]
  /\ UNCHANGED <<table, read, late, touched>>

(* Bug: the handler does not wait for its turn. *)
TakeLockShared(p) ==
  /\ pc[p] \in {"lock", "relock"}
  /\ asked' = [asked EXCEPT ![p] = {}]
  /\ holds' = [holds EXCEPT ![p] = {name[p]}]
  /\ pc' = [pc EXCEPT ![p] = IF pc[p] = "lock" THEN "read" ELSE "reread"]
  /\ UNCHANGED <<table, callVars, late, touched>>

(* lockEntry. *)
TakeLock(p) ==
  /\ pc[p] \in {"lock", "relock"}
  /\ Lock!Grant(p, name[p])
  /\ pc' = [pc EXCEPT ![p] = IF pc[p] = "lock" THEN "read" ELSE "reread"]
  /\ UNCHANGED <<table, callVars, late, touched>>

(* The handler's locals end with it. *)
Return(p) ==
  /\ pc' = [pc EXCEPT ![p] = "idle"]
  /\ given' = [given EXCEPT ![p] = [f \in Fields |-> Missing]]
  /\ newName' = [newName EXCEPT ![p] = name[p]]
  /\ read' = [read EXCEPT ![p] = Missing]
  /\ touched' = [touched EXCEPT ![p] = FALSE]
  /\ UNCHANGED name

(* The handler returns, and its deferred unlock runs. *)
Finish(p) == Lock!GiveBack(p, name[p]) /\ Return(p)

(* A request before the PUT failed: nothing was changed. *)
ReadFails(p) ==
  /\ pc[p] \in {"read", "reread", "groups"}
  /\ Finish(p)
  /\ UNCHANGED <<table, late>>

ReadEntry(p) ==
  /\ pc[p] \in {"read", "reread"} /\ Present(name[p])
  /\ read' = [read EXCEPT ![p] = table[name[p]]]
  /\ touched' = [touched EXCEPT ![p] = FALSE]
  /\ pc' = [pc EXCEPT ![p] =
              IF \E f \in Kept : given[p][f] # Missing THEN "groups" ELSE "put"]
  /\ UNCHANGED <<table, lockVars, name, given, newName, late>>

ReadNothing(p) ==
  /\ pc[p] = "reread" \/ (pc[p] = "read" /\ name[p] \notin Clients)
  /\ ~Present(name[p])
  /\ Finish(p)
  /\ UNCHANGED <<table, late>>

(* Bug: the lock on the spelling that was not found is kept. *)
ReadOtherCaseLocked(p) ==
  /\ pc[p] = "read" /\ name[p] \in Clients /\ ~Present(name[p])
  /\ pc' = [pc EXCEPT ![p] = "find"]
  /\ UNCHANGED <<table, lockVars, callVars, late, touched>>

(* clients: no such spelling, so unlock and look for another. *)
ReadOtherCase(p) ==
  /\ pc[p] = "read" /\ name[p] \in Clients /\ ~Present(name[p])
  /\ Lock!GiveBack(p, name[p])
  /\ pc' = [pc EXCEPT ![p] = "find"]
  /\ UNCHANGED <<table, callVars, late, touched>>

Spellings(n) == {m \in Clients : Present(m) /\ Fold[m] = Fold[n]}

(* clientNamedIgnoringCase found the one stored spelling: lock that. *)
FindCase(p, m) ==
  /\ pc[p] = "find" /\ Spellings(name[p]) = {m}
  /\ name' = [name EXCEPT ![p] = m]
  /\ newName' = [newName EXCEPT ![p] = m]
  /\ Lock!Ask(p, {m})
  /\ pc' = [pc EXCEPT ![p] = "relock"]
  /\ UNCHANGED <<table, given, read, late, touched>>

(* None or several, or the look-up failed: the lock is given back already. *)
FindNoCase(p) ==
  /\ pc[p] = "find"
  /\ Return(p)
  /\ UNCHANGED <<table, lockVars, late>>

(* applyGroups resolves the groups' names. *)
ResolveGroups(p) ==
  /\ pc[p] = "groups"
  /\ pc' = [pc EXCEPT ![p] = "put"]
  /\ UNCHANGED <<table, lockVars, callVars, late, touched>>

(* The PUT, carried out; its reply may be lost.  A name that is taken is    *)
(* refused.                                                                 *)
Put(p) ==
  /\ pc[p] = "put"
  /\ newName[p] = name[p] \/ ~Present(newName[p])
  /\ table' = PutAt(name[p], newName[p], Body(p))
  /\ Finish(p)
  /\ UNCHANGED late

(* The PUT was refused or never sent, or its reply did not come and FTL may *)
(* still carry it out.                                                      *)
PutFails(p) ==
  /\ pc[p] = "put"
  /\ Finish(p)
  /\ \/ UNCHANGED late
     \/ Cardinality(late) < MaxLate /\ late' = late \cup {Request(p)}
  /\ UNCHANGED table

----------------------------------------------------------------------------
(* The tools that take no lock *)

(* What was not given is the default of the tool, or of FTL (crudAddBody). *)
NewEntry(g) == [f \in Fields |-> IF g[f] = Missing THEN Default ELSE g[f]]

(* A POST: the names that are not there yet are added, the others refused. *)
Add(S, g) ==
  /\ \E n \in S : ~Present(n)
  /\ table' = [n \in Names |-> IF n \in S /\ ~Present(n) THEN NewEntry(g) ELSE table[n]]
  /\ Touch({n \in S : ~Present(n)})
  /\ UNCHANGED <<lockVars, pc, callVars, late>>

(* What is there of S goes. *)
Delete(S) ==
  /\ \E n \in S : Present(n)
  /\ table' = [n \in Names |-> IF n \in S THEN Missing ELSE table[n]]
  /\ Touch(S)
  /\ UNCHANGED <<lockVars, pc, callVars, late>>

(* Only rules are added several at a time: splitDomains. *)
AddRules == \E S \in (SUBSET Others) \ {{}}, g \in GiftsFor(Others) : Add(S, g)
AddList  == \E n \in Others, g \in GiftsFor(Others) : Add({n}, g)
AddGroup == \E n \in Groups, g \in GiftsFor(Groups) : Add({n}, g)

(* A client has no flag. *)
AddClient == \E n \in Clients, g \in GiftsFor(Clients) : Add({n}, g)

DeleteRuleOrList == \E n \in Others : Delete({n})
DeleteGroup      == \E n \in Groups : Delete({n})
DeleteClient     == \E n \in Clients : Delete({n})
BatchDelete == \E C \in Collections : \E S \in (SUBSET C) \ {{}} : Delete(S)

(* FTL gets round to an update whose sender has given up, or never will. *)
ServeLate(r) ==
  /\ r \in late
  /\ late' = late \ {r}
  /\ \/ /\ r.as = r.to \/ ~Present(r.as)
        /\ table' = PutAt(r.to, r.as, r.body)
        /\ Touch({r.to, r.as})
     \/ UNCHANGED <<table, touched>>
  /\ UNCHANGED <<lockVars, pc, callVars>>

Next ==
  \/ \E p \in Procs :
       \/ \E C \in Collections :
            \E n, m \in C, g \in GiftsFor(C) : Update(p, n, g, m)
       \/ TakeLock(p) \/ ReadEntry(p) \/ ReadNothing(p) \/ ReadOtherCase(p)
       \/ ReadFails(p)
       \/ \E m \in Names : FindCase(p, m)
       \/ FindNoCase(p)
       \/ ResolveGroups(p) \/ Put(p) \/ PutFails(p)
  \/ AddRules \/ AddList \/ AddGroup \/ AddClient
  \/ DeleteRuleOrList \/ DeleteGroup \/ DeleteClient \/ BatchDelete
  \/ \E r \in late : ServeLate(r)

Spec == Init /\ [][Next]_vars

----------------------------------------------------------------------------

TypeOK ==
  /\ table \in [Names -> Entries \cup {Missing}]
  /\ asked \in [Procs -> SUBSET Names]
  /\ holds \in [Procs -> SUBSET Names]
  /\ pc \in [Procs -> Places]
  /\ name \in [Procs -> Names]
  /\ given \in [Procs -> Gifts]
  /\ newName \in [Procs -> Names]
  /\ read \in [Procs -> Entries \cup {Missing}]
  /\ \A p \in Procs : pc[p] \in {"groups", "put"} => read[p] \in Entries
  /\ late \in SUBSET [to : Names, as : Names, body : Gifts]
  /\ touched \in [Procs -> BOOLEAN]

(* shared.go: an update "reads the entry to keep the field it was not      *)
(* given, and two at once could each put back what the other changed": a    *)
(* PUT changes the fields its caller gave and no other, whatever other      *)
(* updates, of this entry under another spelling or name too, went between  *)
(* its read and its write, as long as nothing but updates did.              *)
UpdatesCompose ==
  [][\A p \in Procs :
       pc[p] = "put" /\ table' # table /\ pc'[p] = "idle" /\ ~touched[p] =>
         /\ Present(name[p])
         /\ table'[newName[p]] =
              [f \in Fields |-> IF given[p][f] = Missing THEN table[name[p]][f]
                                ELSE given[p][f]]]_vars

(* A handler that has returned holds no lock and waits for none, on any of *)
(* the ways out of it.                                                      *)
LocksReturned ==
  \A p \in Procs : pc[p] = "idle" => asked[p] = {} /\ holds[p] = {}

(* shared.go: an "update of a misspelt name used to add a new one and      *)
(* report it as updated. Every update now reads the entry first and stops   *)
(* here": no PUT creates an entry.                                          *)
UpdateNeverCreates ==
  [][\A p \in Procs : pc[p] = "put" /\ pc'[p] = "idle" /\ table' # table =>
       Present(name[p])]_vars
=============================================================================
