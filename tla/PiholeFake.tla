----------------------------- MODULE PiholeFake -----------------------------
(***************************************************************************)
(* internal/pihole/piholefake: the Pi-hole the repository's tests and its   *)
(* simulation run against, and its account of what FTL does with a request. *)
(* Here, what a Pi-hole holds after a request, and whether it is done.      *)
(*                                                                         *)
(* An item is [cat |-> a category, name |-> its name there], the type and   *)
(* kind of a rule or a list being part of its name.  A Pi-hole is           *)
(*   table    the groups, lists, domains and clients it has, by item,       *)
(*   hosts, cnames   the two DNS arrays, sequences of items.                *)
(* Ids, which differ between Pi-holes, are left out; and one fact about FTL *)
(* the fake does not emulate is given by Takes: dnsmasq does not take an    *)
(* alias twice (sync.go:628).                                               *)
(***************************************************************************)
EXTENDS Integers, Sequences, FiniteSets

CONSTANT Missing   \* not in the table

Categories == {"groups", "lists", "domains", "clients", "local_dns", "cname"}
Arrays     == {"local_dns", "cname"}
Tables     == Categories \ Arrays

Lines(h, c) == IF c = "local_dns" THEN h.hosts ELSE h.cnames

Elements(s) == {s[i] : i \in 1..Len(s)}

(* GET: what the table has at i, and whether i is on its array. *)
GetEntry(h, i) == h.table[i]
GetLine(h, i)  == i \in Elements(Lines(h, i.cat))

Has(h, i) ==
  IF i.cat \in Arrays THEN GetLine(h, i) ELSE GetEntry(h, i) # Missing

(* A request done, and one refused. *)
Done(h)    == [ok |-> TRUE, hole |-> h]
Refused(h) == [ok |-> FALSE, hole |-> h]

WithLines(h, c, s) ==
  IF c = "local_dns" THEN [h EXCEPT !.hosts = s] ELSE [h EXCEPT !.cnames = s]

----------------------------------------------------------------------------
(* The tables *)

WithEntries(h, items, v) ==
  [h EXCEPT !.table = [i \in DOMAIN h.table |-> IF i \in items THEN v ELSE h.table[i]]]

(* POST of several rules: one that is there is refused and the rest are added; *)
(* the request fails only if none was.                                       *)
PostRules(h, items, v) ==
  LET added == {i \in items : h.table[i] = Missing} IN
  IF added = {} THEN Refused(h) ELSE Done(WithEntries(h, added, v))

(* POST to the other tables overwrites what is there. *)
PostOthers(h, items, v) ==
  IF items = {} THEN Refused(h) ELSE Done(WithEntries(h, items, v))

Post(h, c, items, v) ==
  IF c = "domains" THEN PostRules(h, items, v) ELSE PostOthers(h, items, v)

(* PUT replaces an entry whole, and adds one that is not there. *)
Put(h, i, v) == Done(WithEntries(h, {i}, v))

(* A group's PUT may rename it, over whatever has the new name. *)
Rename(h, i, j, v) == Done(WithEntries(WithEntries(h, {i}, Missing), {j}, v))

Delete(h, i) ==
  IF h.table[i] = Missing THEN Refused(h)
  ELSE Done(WithEntries(h, {i}, Missing))

(* The batch deletes take what is there of the items. *)
BatchDelete(h, items) == Done(WithEntries(h, items, Missing))

----------------------------------------------------------------------------
(* The arrays *)

AppendUnique(s, i) == IF i \in Elements(s) THEN s ELSE Append(s, i)

(* The elements of s that are not in gone, in their order. *)
Without(s, gone) ==
  LET left == {n \in 1..Len(s) : s[n] \notin gone} IN
  [m \in 1..Cardinality(left) |->
     s[CHOOSE n \in left : Cardinality({k \in left : k <= n}) = m]]

RemoveValue(s, i) == Without(s, {i})

(* dnsmasq takes the array: no alias has two targets. *)
Takes(c, s) ==
  c = "cname" =>
    \A i, j \in Elements(s) : i # j => i.name.alias # j.name.alias

Replaced(h, c, s) == IF Takes(c, s) THEN Done(WithLines(h, c, s)) ELSE Refused(h)

PutLine(h, i)    == Replaced(h, i.cat, AppendUnique(Lines(h, i.cat), i))
DeleteLine(h, i) == Done(WithLines(h, i.cat, RemoveValue(Lines(h, i.cat), i)))

(* PATCH replaces an array whole. *)
Patch(h, c, s) == Replaced(h, c, s)

(* FTL restarts for a change of the CNAMEs, unless it was told not to. *)
Restarts(h, c, s) == c = "cname" /\ s # h.cnames
=============================================================================
