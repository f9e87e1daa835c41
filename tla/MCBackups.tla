----------------------------- MODULE MCBackups -----------------------------
(* Backups of two calls, with two generated names in the temp directory, one *)
(* elsewhere and one in the backup directory.                               *)
EXTENDS Backups

CONSTANTS c1, c2, t1, t2, elsewhere, kept

(* Archives of up to three entries, in any order, with any of them twice. *)
ShortArchives == UNION {[1..n -> Plan!Entries] : n \in 0..3}

(* One configuration has the database elsewhere. *)
TwoPlaces == (0 :> "gravity.db") @@ (1 :> "moved.db")

Symmetry == Permutations({c1, c2}) \cup Permutations({t1, t2})

(* What matters is in one place or the other, two files and one report of a   *)
(* backup at a time.  Two calls run on the last day, with one configuration,  *)
(* and one of them is an export to a generated name.                         *)
InScope ==
  /\ \A p \in Paths : at[p] # NoFile => confined = (p \in Dir)
  /\ Cardinality(saved) <= 1 /\ Cardinality({p \in Paths : at[p] # NoFile}) <= 2
  /\ (\A c \in Calls : call[c].pc # "idle") =>
       /\ config = 0 /\ \A c \in Calls : call[c].had \subseteq {0}
       /\ \A c \in Calls : call[c].began = MaxDay
       /\ \E c \in Calls : call[c].reads = NoFile /\ call[c].path = NoPath

Known ==
  {at[p] : p \in Paths} \cup UNION {{call[c].keep, call[c].looked, call[c].writes, call[c].reads} : c \in Calls}

(* A file nobody knows does not matter. *)
View ==
  <<confined, at, [f \in Known \ {NoFile} |-> file[f]], made, call, config, day, saved>>
=============================================================================
