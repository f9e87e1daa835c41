--------------------------- MODULE MCConfigSet ---------------------------
(* ConfigSet with two goroutines and three settings: 1 is dns.hosts, 2 is    *)
(* dns.cnameRecords, 3 is files.database, which is risky.                    *)
EXTENDS ConfigSet, TLC

CONSTANTS p1, p2, a, b

TwoCalls      == {p1, p2}
ThreeSettings == {1, 2, 3}
CNAMEs        == {2}
Files         == {3}
TwoNames      == {a, b}

(* Arrays callers and imports give: none, one line, and two lines that list  *)
(* the same name.                                                            *)
SomeArrays == {{}, {{a}}, {{a}, {a, b}}}

MCPathOf == <<<<"dns", "hosts">>, <<"dns", "cname">>, <<"files", "database">>>>
MCFold ==
  [x \in {"dns", "DNS", "hosts", "cname", "files", "database", "pwhash", "config", "Config"} |->
     IF x = "DNS" THEN "dns" ELSE IF x = "Config" THEN "config" ELSE x]
MCCredentials == {<<"pwhash">>}

Sets(path, v) == [path |-> path, isValue |-> TRUE, value |-> v]
NoKeys(path)  == [path |-> path, isValue |-> FALSE, value |-> {}]

MCPayloads == {
  <<Sets(<<"dns", "hosts">>, {{a}})>>,
  <<Sets(<<"dns", "hosts">>, {{a}, {a, b}})>>,
  <<Sets(<<"config", "config", "dns", "hosts">>, {})>>,
  \* envelopes, the first of them empty before, and one of two spellings,
  <<NoKeys(<<"config">>), Sets(<<"config", "config", "dns", "hosts">>, {{a}})>>,
  <<Sets(<<"config", "config", "dns", "hosts">>, {{a}}),
    Sets(<<"config", "Config", "dns", "cname">>, {})>>,
  <<Sets(<<"DNS", "hosts">>, {{a}}), Sets(<<"dns", "cname">>, {})>>,
  <<NoKeys(<<"DNS">>), Sets(<<"DNS", "cname">>, {{a}})>>,
  <<Sets(<<"dns", "hosts">>, {}), Sets(<<"files", "database">>, {{a}})>>,
  <<Sets(<<"files", "database">>, {})>>,
  \* refused: a setting named twice, a value with settings inside it,
  <<Sets(<<"DNS", "hosts">>, {{a}}), Sets(<<"dns", "hosts">>, {})>>,
  <<Sets(<<"dns">>, {{a}}), Sets(<<"dns", "hosts">>, {})>>,
  \* a password hash, no segment, nothing,
  <<Sets(<<"dns", "hosts">>, {{a}}), Sets(<<"pwhash">>, {})>>,
  <<Sets(<<"dns", " ">>, {{a}})>>,
  <<NoKeys(<<"config">>)>>,
  \* and settings there are not.
  <<Sets(<<"config", "dns", "hosts">>, {{a}}), Sets(<<"dns", "cname">>, {})>>,
  <<NoKeys(<<"dns", "cname", "files">>), Sets(<<"dns", "hosts">>, {})>>}

Within(c, S) == \A s \in Settings \ S : c[s] = {}
Narrow(c)    == \A s \in Settings : c[s] \subseteq {{a}}

MCArchives ==
  {c \in [ThreeSettings -> SomeArrays] :
     \/ Within(c, {1})
     \/ Narrow(c) /\ (Within(c, {1, 2}) \/ Within(c, {1, 3}))}

Only(S) ==
  /\ Within(config, S)
  /\ \A w \in late : w.on \subseteq S
  /\ \A p \in Procs : call[p].on \subseteq S

OneName ==
  /\ Narrow(config)
  /\ \A w \in late, s \in Settings : w.less[s] \cup w.more[s] \subseteq {{a}}
  /\ \A p \in Procs : /\ call[p].line \subseteq {a}
                      /\ \A s \in Settings : call[p].arrays[s] \subseteq {{a}}

Alone == \E p \in Procs : pc[p] = "idle"

(* Either all that goes on is about dns.hosts, with lines of several names,  *)
(* or one name is used and two of the settings are written: both kinds of     *)
(* local records in time, or the risky setting by one tool at a time.        *)
OneAxis ==
  \/ Only({1})
  \/ OneName /\ Only({1, 2}) /\ late = {}
  \/ OneName /\ Only({1, 3}) /\ Alone

Symmetry == Permutations(TwoCalls)
=============================================================================
