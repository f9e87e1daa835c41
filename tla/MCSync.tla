------------------------------- MODULE MCSync -------------------------------
(* Sync with a group, a rule, a DNS record and three CNAME records, two of    *)
(* them for one alias.                                                       *)
EXTENDS Sync, TLC

CONSTANTS g, d, h, a, b, x, y, old, new

Item(c, n) == [cat |-> c, name |-> n]
ToB        == Item("cname", [alias |-> b, target |-> x])
SomeItems  ==
  {Item("groups", g), Item("domains", d), Item("local_dns", h), ToB,
   Item("cname", [alias |-> a, target |-> x]), Item("cname", [alias |-> a, target |-> y])}

TwoValues == {old, new}
Asked     == {{"domains"}, {"groups", "domains"}, {"local_dns"}, {"cname"}}

(* Only the calls about categories C. *)
About(C) ==
  /\ \A s \in Sides, i \in Items : i.cat \notin C => ~Has(hole[s], i)
  /\ pc # "idle" => ask.cats = C
  /\ \A s \in shown.steps : s.item.cat \in C
  /\ \A i \in tool.on : i.cat \in C

(* Only the categories a call is about matter.  With two categories, or two   *)
(* aliases, nobody else is at work.                                          *)
Alone   == edits = 0 /\ tool.pc = "idle"
InScope ==
  \/ About({"domains"}) \/ About({"local_dns"})
  \/ Alone /\ About({"groups", "domains"})
  \/ About({"cname"}) /\ (Alone \/ \A s \in Sides : ~Has(hole[s], ToB))
=============================================================================
