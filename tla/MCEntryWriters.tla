--------------------------- MODULE MCEntryWriters ---------------------------
(* EntryWriters with two goroutines, two spellings of a client, two groups,  *)
(* a rule, and two values a field.                                           *)
EXTENDS EntryWriters, TLC

CONSTANTS p1, p2, old, new

TwoCalls  == {p1, p2}
OneName   == {1}
AllNames  == {1, 2, 3, 4, 5}
ClientNames == {1, 2}
GroupNames  == {3, 4}
TwoValues == {old, new}

Alone == <<1>>
Cases == <<1, 1, 3, 4, 5>>   \* two spellings of one client

Nothing   == {}
Comment   == {"comment"}
GroupsOf  == {"groups"}

Empty(S) == \A n \in S : ~Present(n)

(* All that goes on is about one collection, the others are empty; a client is *)
(* given other groups than the default ones, the rule is in the default ones;  *)
(* FTL is late only with updates of groups.                                  *)
OneCollection ==
  \/ /\ Empty(Names \ Clients)
     /\ late = {}
     /\ \A p \in Procs : name[p] \in Clients /\ given[p]["groups"] # Default
  \/ /\ Empty(Names \ Groups)
     /\ \A n \in Groups : Present(n) => table[n]["groups"] = Default
     /\ \A p \in Procs : name[p] \in Groups
  \/ /\ Empty(Names \ Others)
     /\ late = {}
     /\ \A n \in Others : Present(n) => table[n]["groups"] = Default
     /\ \A p \in Procs : name[p] \in Others /\ given[p]["groups"] \in {Default, Missing}

Symmetry == Permutations(TwoCalls)
=============================================================================
