---------------------------- MODULE TakingTurns ----------------------------
(***************************************************************************)
(* What Client.LockEntry and Client.LockSettings promise their callers: a  *)
(* caller names a set of keys (one list entry, or one or more settings),   *)
(* is granted them one by one, in order, each only while nobody else has   *)
(* it, and gives them all back before it asks again.  KeyedMutex is the    *)
(* code that keeps this promise with mutexes made and dropped on demand.   *)
(***************************************************************************)
EXTENDS Integers

CONSTANTS
  Procs,   \* goroutines that handle tool calls and write to one Pi-hole
  Keys     \* entries and settings, numbered in the order of their names

VARIABLES
  asked,   \* asked[p]: the keys p asked for and has not been granted
  holds    \* holds[p]: the keys p has been granted and not given back

vars == <<asked, holds>>

Init ==
  /\ asked = [p \in Procs |-> {}]
  /\ holds = [p \in Procs |-> {}]

Ask(p, S) ==
  /\ asked[p] = {} /\ holds[p] = {}
  /\ asked' = [asked EXCEPT ![p] = S]
  /\ UNCHANGED holds

Grant(p, k) ==
  /\ k \in asked[p]
  /\ \A j \in asked[p] : k <= j
  /\ \A q \in Procs : k \notin holds[q]
  /\ asked' = [asked EXCEPT ![p] = asked[p] \ {k}]
  /\ holds' = [holds EXCEPT ![p] = holds[p] \cup {k}]

GiveBack(p, k) ==
  /\ asked[p] = {}
  /\ k \in holds[p]
  /\ holds' = [holds EXCEPT ![p] = holds[p] \ {k}]
  /\ UNCHANGED asked

Next ==
  \E p \in Procs :
    \/ \E S \in (SUBSET Keys) \ {{}} : Ask(p, S)
    \/ \E k \in Keys : Grant(p, k) \/ GiveBack(p, k)

Spec == Init /\ [][Next]_vars
=============================================================================
