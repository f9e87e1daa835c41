-------------------------------- MODULE Sync --------------------------------
(***************************************************************************)
(* internal/pihole/sync.go and internal/tools/sync.go: pihole_instance_diff   *)
(* compares two Pi-holes; pihole_instance_sync brings one, the target,       *)
(* towards the other, the source.                                           *)
(*                                                                         *)
(* A call in plan mode reads both, shows the steps a sync would take, and   *)
(* hands out a token made of them.  A call in apply mode reads both again,  *)
(* asks for the token of what it read now, backs the target up, and takes   *)
(* the steps one at a time, going on past those that fail.  All CNAME       *)
(* records are written together, and FTL restarts for them once.            *)
(*                                                                         *)
(* Meanwhile a tool of this server may read and rewrite an entry or an      *)
(* array of the target, under the same lock; and others, who know of no     *)
(* lock, change either Pi-hole.  What a request does is PiholeFake's; a     *)
(* reply may be lost.                                                       *)
(***************************************************************************)
EXTENDS PiholeFake

CONSTANTS
  Items,     \* what either Pi-hole may have
  Values,    \* the compared values of an entry of a table
  Askable,   \* the sets of categories a caller asks for: a bound
  MaxEdits   \* bound of the changes made without a lock

Sides == {"source", "target"}
Modes == {"diff", "plan", "apply"}
Here  == "here"  \* the value of a line, which compares with nothing

Of(c) == {i \in Items : i.cat = c}

(* The categories in the order adds run in; deletes run in the reverse. *)
applyOrder == <<"groups", "lists", "domains", "clients", "local_dns", "cname">>
Place(c)   == CHOOSE n \in 1..Len(applyOrder) : applyOrder[n] = c

(* What has one lock: an entry, or all lines of an array. *)
LockOf(i) == IF i.cat \in Arrays THEN Of(i.cat) ELSE {i}
Locks     == {LockOf(i) : i \in Items}

ASSUME SyncAssumption ==
  /\ IsFiniteSet(Items) /\ \A i \in Items : i.cat \in Categories
  /\ Missing \notin Values /\ Here \notin Values /\ Missing # Here
  /\ Askable \subseteq (SUBSET Categories) \ {{}}
  /\ MaxEdits \in Nat

VARIABLES
  hole,       \* the two Pi-holes
  pc,         \* where the sync call is
  ask,        \* its mode, categories and prune
  toRead,     \* the categories left to read, of each Pi-hole
  seen,       \* what was read of each, by item
  shown,      \* the steps the last plan showed, and the token it gave out
  todo,       \* the steps left to take
  report,     \* the steps done and failed, and what is said of the restart
  ended,      \* the call's context has ended
  current,    \* the CNAME records as applyCNAMEs read them
  fresh,      \* FTL has restarted since the sync saved CNAME records
  due,        \* FTL is about to restart
  restarted,  \* FTL has restarted since the sync noted the time
  tool,       \* another tool of the server, at work on the target
  dirty,      \* items of the target that others changed since it was read
  stale,      \* those changed without a lock since its holder read them
  edits       \* how many changes were made without a lock

callVars  == <<ask, seen, toRead, shown, ended>>
applyVars == <<todo, report, current>>
ftlVars   == <<fresh, due, restarted>>
otherVars == <<tool, dirty, stale, edits>>
vars      == <<hole, pc, callVars, applyVars, ftlVars, otherVars>>

Places == {"idle", "read", "decide", "snapshot", "apply", "cname_read",
           "cname_write", "uncertain", "restart", "wait", "done"}

(* A Pi-hole's items, as a reader gives them. *)
Held(h) ==
  [i \in Items |-> IF ~Has(h, i) THEN Missing
                   ELSE IF i.cat \in Arrays THEN Here ELSE GetEntry(h, i)]

Unread   == [i \in Items |-> Missing]
NoAsk    == [mode |-> "plan", cats |-> {}, prune |-> FALSE]
NoReport == [done |-> {}, failed |-> {}, restarted |-> FALSE, error |-> FALSE]
NoTool   == [pc |-> "idle", on |-> {}, read |-> <<>>]
NotShown == [prune |-> FALSE, steps |-> {}]

(* The items of S in any order. *)
Arrangements(S) == {s \in [1..Cardinality(S) -> S] : Elements(s) = S}

Holes ==
  [table  : [{i \in Items : i.cat \in Tables} -> Values \cup {Missing}],
   hosts  : UNION {Arrangements(S) : S \in SUBSET Of("local_dns")},
   cnames : {s \in UNION {Arrangements(S) : S \in SUBSET Of("cname")} : Takes("cname", s)}]

Init ==
  /\ hole \in [Sides -> Holes]
  /\ pc = "idle" /\ ask = NoAsk /\ ended = FALSE
  /\ seen = [x \in Sides |-> Unread] /\ toRead = {} /\ shown = NotShown
  /\ todo = {} /\ report = NoReport /\ current = <<>>
  /\ fresh = TRUE /\ due = FALSE /\ restarted = FALSE
  /\ tool = NoTool /\ dirty = {} /\ stale = {} /\ edits = 0

----------------------------------------------------------------------------
(* The diff, the plan and its token *)

(* ComputeDiff. *)
Differing(kind) ==
  {i \in Items : i.cat \in ask.cats /\
     LET s == seen["source"][i]
         t == seen["target"][i] IN
     CASE kind = "add"    -> s # Missing /\ t = Missing
       [] kind = "update" -> s # Missing /\ t # Missing /\ s # t
       [] kind = "delete" -> s = Missing /\ t # Missing}

Step(kind, i) ==
  [action |-> kind, item |-> i,
   from |-> IF kind = "add" THEN Missing ELSE seen["target"][i],
   to   |-> IF kind = "delete" THEN Missing ELSE seen["source"][i]]

Steps(kind) == {Step(kind, i) : i \in Differing(kind)}

Plan ==
  Steps("add") \cup Steps("update") \cup (IF ask.prune THEN Steps("delete") ELSE {})

(* Bug: the token is made of the entries alone. *)
TokenOfItems(p, S) ==
  [prune |-> p, steps |-> {[action |-> s.action, item |-> s.item] : s \in S}]

(* Two plans have one token only if they are the same. *)
Token(p, S) == [prune |-> p, steps |-> S]

(* Bug: no category counts. *)
PruneWipesNone == {}

(* The categories a pruning sync would empty because the source has none. *)
PruneWipes ==
  {c \in ask.cats : /\ \A i \in Of(c) : seen["source"][i] = Missing
                    /\ \E i \in Differing("delete") : i.cat = c}

(* Adds, then updates, in the order of the categories; deletes last, in the *)
(* reverse order.                                                           *)
Rank(s) ==
  CASE s.action = "add"    -> 2 * Place(s.item.cat)
    [] s.action = "update" -> 2 * Place(s.item.cat) + 1
    [] s.action = "delete" -> 100 - Place(s.item.cat)

IsNext(s) == s \in todo /\ \A t \in todo : Rank(s) <= Rank(t)

CnameSteps == {s \in todo : s.item.cat = "cname"}

----------------------------------------------------------------------------
(* A call, up to its first step *)

Begin(mode, cats, p) ==
  /\ pc = "idle" /\ (mode = "diff" => ~p)
  /\ ask' = [mode |-> mode, cats |-> cats, prune |-> p]
  /\ toRead' = cats \X Sides
  /\ pc' = "read"
  /\ UNCHANGED <<hole, seen, shown, ended, applyVars, ftlVars, otherVars>>

(* The call returns, and its locals end with it. *)
Return ==
  /\ pc' = "idle"
  /\ ask' = NoAsk /\ toRead' = {} /\ ended' = FALSE
  /\ seen' = [x \in Sides |-> Unread]
  /\ todo' = {} /\ report' = NoReport /\ current' = <<>>
  /\ fresh' = TRUE /\ restarted' = FALSE /\ dirty' = {}
  /\ UNCHANGED <<hole, due, tool, stale, edits>>

(* Before ApplyPlan, an ended context makes a read or the backup fail. *)
EndContext ==
  /\ pc \notin {"idle", "read", "decide", "snapshot", "done"} /\ ~ended
  /\ ended' = TRUE
  /\ UNCHANGED <<hole, pc, ask, seen, toRead, shown, applyVars, ftlVars, otherVars>>

(* A category of the source, then of the target. *)
ReadSide(c, x) ==
  /\ pc = "read" /\ <<c, x>> \in toRead
  /\ x = "target" => <<c, "source">> \notin toRead
  /\ \A d \in ask.cats \ {c} : <<d, "source">> \in toRead \/ <<d, "target">> \notin toRead
  /\ seen' = [seen EXCEPT ![x] =
                [i \in Items |-> IF i.cat = c THEN Held(hole[x])[i] ELSE @[i]]]
  /\ dirty' = IF x = "target" THEN dirty \ Of(c) ELSE dirty
  /\ toRead' = toRead \ {<<c, x>>}
  /\ pc' = IF toRead' = {} THEN "decide" ELSE "read"
  /\ UNCHANGED <<hole, ask, shown, ended, applyVars, ftlVars, tool, stale, edits>>

(* A read failed, or its reply lacked the list. *)
ReadFails == pc = "read" /\ Return /\ UNCHANGED shown

(* Pruning would empty a category: refused in both modes. *)
Refuse == pc = "decide" /\ ask.prune /\ PruneWipes # {} /\ Return /\ UNCHANGED shown

MayGoOn == pc = "decide" /\ (ask.prune => PruneWipes = {})

(* pihole_instance_diff: the steps are shown, and that is all. *)
ShowDiff == pc = "decide" /\ ask.mode = "diff" /\ Return /\ UNCHANGED shown

(* Plan mode: the steps are shown, with the token an apply will need. *)
Show ==
  /\ MayGoOn /\ ask.mode = "plan"
  /\ Return
  /\ shown' = [prune |-> ask.prune, steps |-> Plan]

Confirmed == Token(ask.prune, Plan) = Token(shown.prune, shown.steps)

(* The token does not match, or there is nothing to do. *)
Decline ==
  /\ MayGoOn /\ ask.mode = "apply"
  /\ ~Confirmed \/ Plan = {}
  /\ Return /\ UNCHANGED shown

(* A backup first, unless the caller wants none. *)
Confirm ==
  /\ MayGoOn /\ ask.mode = "apply" /\ Confirmed /\ Plan # {}
  /\ todo' = Plan
  /\ pc' \in {"snapshot", "apply"}
  /\ UNCHANGED <<hole, callVars, report, current, ftlVars, otherVars>>

(* exportSnapshot backed the target up. *)
Snapshot ==
  /\ pc = "snapshot"
  /\ pc' = "apply"
  /\ UNCHANGED <<hole, callVars, applyVars, ftlVars, otherVars>>

(* It did not, so nothing is changed. *)
SnapshotFails == pc = "snapshot" /\ Return /\ UNCHANGED shown

----------------------------------------------------------------------------
(* ApplyPlan *)

SyncHolds == pc \in {"cname_read", "cname_write", "uncertain", "restart", "wait"}

(* Bug: the lock is not asked for. *)
LockFreeAlways(l) == TRUE

LockFree(l) ==
  /\ tool.pc # "idle" => tool.on # l
  /\ SyncHolds => l # Of("cname")

Target == hole["target"]

SetTarget(h) == hole' = [hole EXCEPT !["target"] = h]

Tell(done, failed) ==
  report' = [report EXCEPT !.done = @ \cup done, !.failed = @ \cup failed]

(* The request of a step: what readDomains, readLists, readGroups,          *)
(* readClients and readDNSArray captured.                                   *)
RunOf(s) ==
  LET i == s.item IN
  CASE i.cat = "local_dns" /\ s.action = "add"    -> PutLine(Target, i)
    [] i.cat = "local_dns" /\ s.action = "delete" -> DeleteLine(Target, i)
    [] i.cat \in Tables /\ s.action = "add"       -> Post(Target, i.cat, {i}, s.to)
    [] i.cat \in Tables /\ s.action = "update"    -> Put(Target, i, s.to)
    [] i.cat \in Tables /\ s.action = "delete"    -> Delete(Target, i)

(* runLocked: one write under its lock.  Answered, it is done or has failed; *)
(* without an answer it counts as failed, carried out or not.                *)
RunStep(s) ==
  /\ pc = "apply" /\ ~ended /\ IsNext(s) /\ s.item.cat # "cname"
  /\ LockFree(LockOf(s.item))
  /\ todo' = todo \ {s}
  /\ \/ /\ SetTarget(RunOf(s).hole)
        /\ IF RunOf(s).ok THEN Tell({s}, {}) ELSE Tell({}, {s})
     \/ SetTarget(RunOf(s).hole) /\ Tell({}, {s})
     \/ UNCHANGED hole /\ Tell({}, {s})
  /\ UNCHANGED <<pc, callVars, current, ftlVars, otherVars>>

(* The context has ended: every step left fails. *)
Abandon ==
  /\ pc = "apply" /\ ended /\ todo # {}
  /\ Tell({}, todo) /\ todo' = {}
  /\ UNCHANGED <<hole, pc, callVars, current, ftlVars, otherVars>>

(* applyCNAMEs, at the first CNAME step. *)
LockCNAMEs ==
  /\ pc = "apply" /\ ~ended
  /\ \E s \in CnameSteps : IsNext(s)
  /\ LockFree(Of("cname"))
  /\ pc' = "cname_read"
  /\ UNCHANGED <<hole, callVars, applyVars, ftlVars, otherVars>>

(* All CNAME steps come out alike. *)
Record(well) ==
  /\ IF well THEN Tell(CnameSteps, {}) ELSE Tell({}, CnameSteps)
  /\ todo' = todo \ CnameSteps

ReadCNAMEs ==
  /\ pc = "cname_read"
  /\ \/ /\ current' = Target.cnames
        /\ stale' = stale \ Of("cname")
        /\ pc' = "cname_write"
        /\ UNCHANGED <<todo, report>>
     \/ /\ Record(FALSE) /\ pc' = "apply"
        /\ UNCHANGED <<current, stale>>
  /\ UNCHANGED <<hole, callVars, ftlVars, tool, dirty, edits>>

CnamesTo(action) == {s.item : s \in {t \in CnameSteps : t.action = action}}

(* Any order of the records to add; those there already are not added. *)
Added(base) == Arrangements(CnamesTo("add") \ Elements(base))

(* Bug: the records to delete stay, to be deleted one by one. *)
NextRecordsAdded == {current \o a : a \in Added(current)}

(* Bug: FTL refuses the records to add while the old ones are there. *)
NextRecordsDropped == {Without(current, CnamesTo("delete"))}

NextRecords ==
  LET kept == Without(current, CnamesTo("delete")) IN
  {kept \o a : a \in Added(kept)}

(* Another writer has made the changes already. *)
NothingToWrite ==
  /\ pc = "cname_write" /\ current \in NextRecords
  /\ Record(TRUE) /\ pc' = "apply"
  /\ UNCHANGED <<hole, callVars, current, ftlVars, otherVars>>

(* FTL saves the records r and is about to restart, if they are new. *)
Save(r) ==
  /\ SetTarget(Patch(Target, "cname", r).hole)
  /\ fresh' = (fresh /\ ~Restarts(Target, "cname", r))
  /\ due' = (due \/ Restarts(Target, "cname", r))

(* The write, with the time AwaitRestart counts from: what comes of a restart *)
(* between the two is module AwaitRestart's.                                 *)
WriteCNAMEs ==
  /\ pc = "cname_write" /\ current \notin NextRecords
  /\ \E r \in NextRecords :
       /\ Patch(Target, "cname", r).ok
       /\ Save(r)
  /\ Record(TRUE) /\ restarted' = FALSE /\ pc' = "wait"
  /\ UNCHANGED <<callVars, current, otherVars>>

(* Refused, or never sent. *)
CNAMEsRefused ==
  /\ pc = "cname_write" /\ current \notin NextRecords
  /\ Record(FALSE) /\ pc' = "apply"
  /\ UNCHANGED <<hole, callVars, current, ftlVars, otherVars>>

(* Bug: the write counts as failed, and that is all. *)
CNAMEsUncertainFailed ==
  /\ pc = "cname_write" /\ current \notin NextRecords
  /\ \E r \in NextRecords : Patch(Target, "cname", r).ok /\ Save(r)
  /\ Record(FALSE) /\ restarted' = FALSE /\ pc' = "apply"
  /\ UNCHANGED <<callVars, current, otherVars>>

(* The reply is lost: FTL saw nothing, saved the records and is about to     *)
(* restart, or saved them and will not.                                      *)
CNAMEsUncertain ==
  /\ pc = "cname_write" /\ current \notin NextRecords
  /\ \/ UNCHANGED <<hole, fresh, due>>
     \/ \E r \in NextRecords : Patch(Target, "cname", r).ok /\ Save(r)
     \/ /\ \E r \in NextRecords :
             Patch(Target, "cname", r).ok /\ SetTarget(Patch(Target, "cname", r).hole)
        /\ fresh' = FALSE /\ UNCHANGED due
  /\ Record(FALSE) /\ restarted' = FALSE /\ pc' = "uncertain"
  /\ UNCHANGED <<callVars, current, otherVars>>

(* AwaitRestart saw FTL back. *)
Restarted ==
  /\ pc \in {"wait", "uncertain"} /\ restarted
  /\ report' = [report EXCEPT !.restarted = TRUE]
  /\ pc' = "apply"
  /\ UNCHANGED <<hole, callVars, todo, current, ftlVars, otherVars>>

(* It did not in time, or the context ended: that is reported, *)
WaitFails ==
  /\ pc = "wait"
  /\ report' = [report EXCEPT !.error = TRUE]
  /\ pc' = "apply"
  /\ UNCHANGED <<hole, callVars, todo, current, ftlVars, otherVars>>

(* or, if it is not known whether the records were saved, a restart asked for. *)
NoRestartSeen ==
  /\ pc = "uncertain"
  /\ pc' = "restart"
  /\ UNCHANGED <<hole, callVars, applyVars, ftlVars, otherVars>>

(* restartAfterSync, whether or not the context has ended. *)
AskRestart ==
  /\ pc = "restart"
  /\ \/ due' = TRUE /\ restarted' = FALSE /\ pc' = "wait" /\ UNCHANGED report
     \/ /\ report' = [report EXCEPT !.error = TRUE]
        /\ due' \in {due, TRUE} /\ pc' = "apply" /\ UNCHANGED restarted
  /\ UNCHANGED <<hole, callVars, todo, current, fresh, otherVars>>

Finish ==
  /\ pc = "apply" /\ todo = {}
  /\ pc' = "done"
  /\ UNCHANGED <<hole, callVars, applyVars, ftlVars, otherVars>>

Answer == pc = "done" /\ Return /\ UNCHANGED shown

----------------------------------------------------------------------------
(* Everybody else *)

FtlRestarts ==
  /\ due
  /\ due' = FALSE /\ fresh' = TRUE /\ restarted' = TRUE
  /\ UNCHANGED <<hole, pc, callVars, applyVars, otherVars>>

(* The items that are not in h as they are in the target. *)
Changed(h) == {i \in Items : Held(h)[i] # Held(Target)[i]}

(* Another tool that reads an entry or an array and writes it back, or, for  *)
(* an array, writes the line it is about.                                    *)
ToolLock(l) ==
  /\ tool.pc = "idle" /\ LockFree(l)
  /\ tool' = [tool EXCEPT !.pc = "read", !.on = l]
  /\ UNCHANGED <<hole, pc, callVars, applyVars, ftlVars, dirty, stale, edits>>

ToolRead ==
  /\ tool.pc = "read"
  /\ tool' = [tool EXCEPT !.pc = "write", !.read = <<Target>>]
  /\ stale' = {i \in stale : LockOf(i) # tool.on}
  /\ UNCHANGED <<hole, pc, callVars, applyVars, ftlVars, dirty, edits>>

ToolResults ==
  LET then == tool.read[1] IN
  UNION {IF i.cat \in Arrays
         THEN {Patch(Target, i.cat, RemoveValue(Lines(then, i.cat), i))}
         ELSE {Put(Target, i, v) : v \in {w \in Values : Has(then, i)}}
         : i \in tool.on}

ToolWrite ==
  /\ tool.pc = "write"
  /\ \E r \in ToolResults :
       /\ SetTarget(r.hole)
       /\ dirty' = IF pc = "idle" THEN {} ELSE dirty \cup Changed(r.hole)
       /\ due' = (due \/ Restarts(Target, "cname", r.hole.cnames))
  /\ tool' = NoTool
  /\ UNCHANGED <<pc, callVars, applyVars, fresh, restarted, stale, edits>>

ToolFails ==
  /\ tool.pc # "idle"
  /\ tool' = NoTool
  /\ UNCHANGED <<hole, pc, callVars, applyVars, ftlVars, dirty, stale, edits>>

(* What can happen to a Pi-hole h without a lock: FTL's other users, and the *)
(* tools that add, delete and rename entries.                                *)
Edits(h) ==
  UNION {IF i.cat \in Arrays THEN {PutLine(h, i), DeleteLine(h, i)}
         ELSE {BatchDelete(h, {i})} \cup {Post(h, i.cat, {i}, v) : v \in Values}
              \cup {Put(h, i, v) : v \in {w \in Values : Has(h, i)}}
              \cup {Rename(h, i, j, h.table[i]) :
                      j \in {k \in Of("groups") : i.cat = "groups" /\ Has(h, i)}}
         : i \in Items}

(* What the tool, or the sync for the CNAME records, has read to write back. *)
Borrowed ==
  (IF tool.pc = "write" THEN tool.on ELSE {})
    \cup (IF pc = "cname_write" THEN Of("cname") ELSE {})

Elsewhere(x) ==
  /\ edits < MaxEdits
  /\ \E r \in Edits(hole[x]) :
       /\ r.ok /\ r.hole # hole[x]
       /\ hole' = [hole EXCEPT ![x] = r.hole]
       /\ IF x = "source" THEN UNCHANGED <<dirty, stale, due>>
          ELSE /\ dirty' = IF pc = "idle" THEN {} ELSE dirty \cup Changed(r.hole)
               /\ stale' = stale \cup (Changed(r.hole) \cap Borrowed)
               /\ due' = (due \/ Restarts(Target, "cname", r.hole.cnames))
  /\ edits' = edits + 1
  /\ UNCHANGED <<pc, callVars, applyVars, fresh, restarted, tool>>

Next ==
  \/ \E mode \in Modes, cats \in Askable, p \in BOOLEAN : Begin(mode, cats, p)
  \/ EndContext
  \/ \E c \in Categories, x \in Sides : ReadSide(c, x)
  \/ ReadFails \/ Refuse \/ ShowDiff \/ Show \/ Decline \/ Confirm
  \/ Snapshot \/ SnapshotFails
  \/ \E s \in todo : RunStep(s)
  \/ Abandon \/ LockCNAMEs \/ ReadCNAMEs \/ NothingToWrite \/ WriteCNAMEs
  \/ CNAMEsRefused \/ CNAMEsUncertain \/ Restarted \/ WaitFails \/ NoRestartSeen
  \/ AskRestart \/ Finish \/ Answer
  \/ FtlRestarts
  \/ \E l \in Locks : ToolLock(l)
  \/ ToolRead \/ ToolWrite \/ ToolFails
  \/ \E x \in Sides : Elsewhere(x)

Spec == Init /\ [][Next]_vars

----------------------------------------------------------------------------

AnyValue == Values \cup {Missing, Here}

StepSet ==
  [action : {"add", "update", "delete"}, item : Items, from : AnyValue, to : AnyValue]

(* In particular, no array of a Pi-hole lists a record twice. *)
TypeOK ==
  /\ hole \in [Sides -> Holes]
  /\ pc \in Places
  /\ ask \in [mode : Modes, cats : SUBSET Categories,
              prune : BOOLEAN]
  /\ toRead \in SUBSET (Categories \X Sides)
  /\ seen \in [Sides -> [Items -> AnyValue]]
  /\ shown.prune \in BOOLEAN /\ shown.steps \subseteq StepSet
  /\ todo \subseteq StepSet /\ report.done \cup report.failed \subseteq StepSet
  /\ ended \in BOOLEAN /\ report.restarted \in BOOLEAN /\ report.error \in BOOLEAN
  /\ <<fresh, due, restarted>> \in BOOLEAN \X BOOLEAN \X BOOLEAN
  /\ tool.pc \in {"idle", "read", "write"}
  /\ dirty \subseteq Items /\ stale \subseteq Items
  /\ edits \in 0..MaxEdits

(* A step of the sync that changes the target. *)
SyncWrites == hole' # hole /\ tool' = tool /\ edits' = edits

TargetAfter == Held(hole'["target"])

(* What the write of the CNAME records may undo: what others did, without the *)
(* lock, since the sync read them.                                           *)
Overtaken == stale \cap Of("cname")

(* sync.go, Token: "a token stayed valid when an entry's settings changed    *)
(* between plan and apply, so apply could write values the plan never        *)
(* showed": a sync changes the target only by steps of the plan its caller   *)
(* saw, to the values it showed; but for Overtaken.                          *)
OnlyConfirmed ==
  [][SyncWrites =>
       \A i \in Items \ Overtaken : TargetAfter[i] # Held(Target)[i] =>
         \E s \in shown.steps : s.item = i /\ s.to = TargetAfter[i]]_vars

(* sync.go, PruneWipes: a sync deletes nothing of a category in which the    *)
(* source had nothing to offer when it was read; but for Overtaken.          *)
NeverEmptied ==
  [][SyncWrites =>
       \A i \in Items \ Overtaken :
         TargetAfter[i] = Missing /\ Held(Target)[i] # Missing =>
           \E j \in Of(i.cat) : seen["source"][j] # Missing]_vars

AliasesIn(f, S) == {i.name.alias : i \in {j \in S : j.cat = "cname" /\ f[j] # Missing}}

(* sync.go, applyCNAMEs: a sync never takes an alias from the target that    *)
(* both Pi-holes have, not even between two of its writes: it goes to its    *)
(* new target, or stays with the old one.                                    *)
AliasesStay ==
  [][SyncWrites =>
       \A a \in AliasesIn(seen["source"], Items) :
         a \in AliasesIn(Held(Target), Items \ Overtaken) => a \in AliasesIn(TargetAfter, Items)]_vars

(* tools/sync.go: in_sync, "Every step applied, so the target now matches":  *)
(* what nobody else has changed since it was read is as the source had it,   *)
(* and without prune what only the target had is still there.                *)
InSyncTruthful ==
  pc = "done" /\ report.failed = {} =>
    \A i \in Items \ dirty : i.cat \in ask.cats =>
      Held(Target)[i] =
        IF seen["source"][i] = Missing /\ ~ask.prune THEN seen["target"][i]
        ELSE seen["source"][i]

(* sync.go, runLocked: "A sync write landing between an update's read and    *)
(* its write would otherwise be undone by it": what a tool, or the sync      *)
(* itself for the CNAME records, has read to write it back is still there,   *)
(* but for what was changed without the lock.                                *)
ReadsHold ==
  /\ tool.pc = "write" =>
       \A i \in Items \ stale : LockOf(i) = tool.on =>
         Held(Target)[i] = Held(tool.read[1])[i]
  /\ pc = "cname_write" =>
       \A i \in Of("cname") \ stale : Has(Target, i) <=> i \in Elements(current)

(* sync.go, applyCNAMEs: "saved without a restart, the records are not       *)
(* served": when a sync ends and its records wait for a restart of FTL, it   *)
(* says so; and when it says FTL has restarted, they are served.             *)
ServedOrSaid ==
  pc = "done" =>
    /\ ~fresh => report.error
    /\ report.restarted => fresh
=============================================================================
