---------------------------- MODULE MCAdmission ----------------------------
(* Admission for two addresses of one /64 and two other hosts, behind up to  *)
(* two trusted proxies.                                                     *)
EXTENDS Admission

CONSTANTS a1, a2, b, c, p, q, r1, r2, s1, s2, junk, net, host, third, proxies

(* Two spellings of one host, and another. *)
Names      == {"::1", "[::1]", "elsewhere", "absent"}
HostOfName == [n \in Names |-> IF n = "[::1]" THEN "::1" ELSE n]

Hosts   == {a1, a2, b, c, p, q}
Proxies == {p, q}
Rates   == [x \in Hosts |-> CASE x \in {a1, a2} -> net [] x = b -> host [] x = c -> third
                             [] OTHER -> proxies]
Sent    == {<<>>, <<b>>, <<p>>, <<junk>>}
Ways    == {<<>>, <<p>>, <<p, q>>}

Symmetry == Permutations({r1, r2}) \cup Permutations({s1, s2})

(* The two limiters by themselves; the main one for sessions of one address,  *)
(* or for addresses without any.  Time is short where several addresses      *)
(* compete.  What a displaced address is let through does not matter.        *)
InScope ==
  LET live == {r \in Requests : req[r].pc # "gone"} IN
  /\ limited => failures = <<>>
  /\ limited => \/ \A r \in live : req[r].sid = NoSession
                \/ /\ displaced = {} /\ passed[host] = 0 /\ passed[third] = 0
                   /\ \A r \in live : req[r].key = net
  /\ ~limited => \A r \in live : req[r].sid = NoSession
  /\ \A said \in {heard.main, heard.failures} :
       LET known == {k \in Keys : said[k] # Never} IN
       Cardinality(known) > 1 => now + Cardinality(known) <= 4
  /\ \A k \in displaced : passed[k] <= 2

(* The units of a bucket nobody has do not matter. *)
View ==
  <<limited, req, table, [i \in UsedCeilings |-> ceiling[i]],
    [i \in UsedShares \ {NoBucket} |-> share[i]], failures, sweeping, now,
    passed, shared, warned, displaced, heard>>
=============================================================================
