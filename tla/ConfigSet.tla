----------------------------- MODULE ConfigSet -----------------------------
(***************************************************************************)
(* SettingWriters with what config_set makes of its payload (ConfigPayload): *)
(* internal/tools/config.go and config_risky.go.  A call of config_set is    *)
(* what its payload says; it is refused whole if the payload names what is    *)
(* no setting, or changes a risky one, which the other tools that write a     *)
(* named setting refuse as well.  Values with a line break are left out, and  *)
(* so is an object without keys given for a setting.                        *)
(***************************************************************************)
EXTENDS SettingWriters, ConfigPayload

CONSTANTS
  PathOf,     \* the path of each setting, as FTL spells it
  Risky,      \* the settings the tools do not change
  Archives    \* the configurations an import may bring: a bound

ASSUME ConfigSetAssumption ==
  /\ Risky \subseteq Settings /\ Archives \subseteq [Settings -> Given]
  /\ Payloads \subseteq Seq([path : Seq(STRING), isValue : BOOLEAN, value : Given \cup {{}}])

VARIABLES
  gave    \* what the caller of config_set gave

setVars == <<vars, gave>>

SetInit == Init /\ gave = [p \in Procs |-> <<>>]

----------------------------------------------------------------------------

(* The leaves that give setting s a value. *)
At(s, leaves) == {leaf \in leaves : leaf.isValue /\ Folded(leaf.path) = PathOf[s]}

SetCall(leaves, restart) ==
  LET on == {s \in Settings : At(s, leaves) # {}} IN
  [op |-> "set", on |-> on, line |-> {}, restart |-> restart,
   arrays |-> [s \in Settings |->
     IF s \in on THEN (CHOOSE leaf \in At(s, leaves) : TRUE).value ELSE {}]]

(* The calls of config_set that get as far as the locks. *)
Asked ==
  {[given |-> given, call |-> SetCall(LeavesOf(Payload(given)), restart)] :
     given \in AcceptedPayloads, restart \in BOOLEAN}

BeginSet(p, ask) ==
  /\ Begin(p, ask.call)
  /\ gave' = [gave EXCEPT ![p] = ask.given]

(* config_add_value and config_remove_value refuse a risky setting, the local *)
(* DNS tools are about others.                                              *)
BeginOther(p, c) ==
  /\ c.on \cap Risky = {}
  /\ Begin(p, c)
  /\ UNCHANGED gave

(* The payloads with a leaf that is no setting. *)
WithUnknown ==
  {given \in AcceptedPayloads :
     \E leaf \in LeavesOf(Payload(given)) : \A s \in Settings : leaf \notin At(s, {leaf})}

(* unknownSettings, if they could be read. *)
NamesUnknown(p) == read[p] # Unread /\ gave[p] \in WithUnknown

(* Bug: unread, no setting counts as changed. *)
ChangesRiskyRead(p) ==
  \E s \in call[p].on \cap Risky : read[p][s] # NoArray /\ read[p][s] # call[p].arrays[s]

(* riskyChange: writing back the value that was read changes nothing. *)
ChangesRisky(p) == \E s \in call[p].on \cap Risky : read[p][s] # call[p].arrays[s]

Refuses(p) == call[p].op = "set" /\ (NamesUnknown(p) \/ ChangesRisky(p))

RefuseSet(p) == Refuse(p) /\ (pc[p] = "write" /\ call[p].op = "set" => Refuses(p))

(* The call is over. *)
Ends(p) == gave' = [gave EXCEPT ![p] = IF pc'[p] = "idle" THEN <<>> ELSE @]

SetNext ==
  \/ \E p \in Procs :
       \/ \E ask \in Asked : BeginSet(p, ask)
       \/ \E c \in LineCalls \cup DropCalls : BeginOther(p, c)
       \/ TakeLock(p) /\ UNCHANGED gave
       \/ Read(p) /\ UNCHANGED gave
       \/ SetUnread(p) /\ UNCHANGED gave
       \/ RefuseSet(p) /\ UNCHANGED gave
       \/ ~Refuses(p) /\ Serve(p) /\ UNCHANGED gave
       \/ ~Refuses(p) /\ WriteFails(p) /\ UNCHANGED gave
       \/ Restarted(p) /\ UNCHANGED gave
       \/ Unlock(p) /\ Ends(p)
  \/ \E c \in Archives : Import(c) /\ UNCHANGED gave
  \/ \E s \in Settings, v \in Given : Elsewhere(s, v) /\ UNCHANGED gave
  \/ \E w \in late : ServeLate(w) /\ UNCHANGED gave

SetSpec == SetInit /\ [][SetNext]_setVars

----------------------------------------------------------------------------

(* Whether the m-th segment is an envelope: every leaf that deep has it, as    *)
(* FTL reads names, and it is spelled so where it is first met.               *)
Enveloped(given, m) ==
  LET within == {i \in DOMAIN given : m <= Len(given[i].path)} IN
  /\ within # {}
  /\ \A i \in within :
       /\ Fold[given[i].path[m]] = Envelope
       /\ given[i].isValue => m < Len(given[i].path)
       /\ (\A j \in within : i <= j) => given[i].path[m] = Envelope

Envelopes(given) ==
  CHOOSE n \in 0..MaxDepth :
    ~Enveloped(given, n + 1) /\ \A m \in 1..n : Enveloped(given, m)

(* The setting each value is given for, by its path read as FTL reads it.     *)
Meanings ==
  UNION {{<<given, i, s>> : i \in DOMAIN given, s \in Settings} : given \in AcceptedPayloads}

Means(given, i, s) ==
  LET path == given[i].path IN
  given[i].isValue /\ PathOf[s] = Folded(SubSeq(path, Envelopes(given) + 1, Len(path)))

Meant == {m \in Meanings : Means(m[1], m[2], m[3])}

(* config.go, "nesting a dotted key ... the way its caller meant it", "keys    *)
(* that differ only in case are merged as one, and naming one setting twice   *)
(* ... is an error rather than a guess", "Unwrap as many envelopes as the      *)
(* caller supplied": a call writes the settings its payload names, each with   *)
(* the one value given for it, however they are spelled, and no other.        *)
SetsWhatWasNamed ==
  \A p \in Procs : gave[p] # <<>> =>
    \A s \in Settings :
      LET given == {i \in DOMAIN gave[p] : <<gave[p], i, s>> \in Meant} IN
      /\ s \in call[p].on <=> given # {}
      /\ \A i \in given : call[p].arrays[s] = gave[p][i].value

(* config_risky.go, "a Pi-hole setting the config tools will not change": as   *)
(* long as nothing else changed it since the tool read it, no tool's write     *)
(* changes one, though a payload may name it.                                *)
RiskyStays ==
  [][\A p \in Procs : Served(p) /\ ~touched[p] =>
       \A s \in Risky : config'[s] = config[s]]_setVars
=============================================================================
