--------------------------- MODULE ConfigPayload ---------------------------
(***************************************************************************)
(* internal/tools/config.go: what a config_set payload says.                *)
(*                                                                         *)
(* A payload is a JSON object, whose keys may nest with dots as well as      *)
(* with objects, and spell a name in any case, as FTL takes it.  Here it is  *)
(* the sequence of its leaves in the order mergeConfigKeys meets them, keys  *)
(* sorted at every level: a leaf has the segments that lead to it, as they   *)
(* are spelled, and a value, or is an object without keys.                   *)
(***************************************************************************)
EXTENDS Integers, Sequences, FiniteSets, SequencesExt

CONSTANTS
  Payloads,     \* the payloads considered
  Fold,         \* each well-formed segment in lower case
  Credentials,  \* paths of the password hashes
  MaxDepth      \* bound of the segments of a leaf

Envelope == "config"

ASSUME PayloadAssumption ==
  /\ MaxDepth \in Nat
  /\ \A payload \in Payloads : \A i \in DOMAIN payload : Len(payload[i].path) \in 1..MaxDepth
  /\ \A x \in DOMAIN Fold : Fold[x] \in DOMAIN Fold /\ Fold[Fold[x]] = Fold[x]
  /\ Envelope \in DOMAIN Fold /\ Fold[Envelope] = Envelope

(* Neither blank nor with a control character. *)
WellFormed(payload) ==
  \A i \in DOMAIN payload : Range(payload[i].path) \subseteq DOMAIN Fold

Folded(path) == [i \in DOMAIN path |-> Fold[path[i]]]

----------------------------------------------------------------------------
(* expandConfigKeys: a tree of nodes, each with the segments that lead to it  *)
(* as first spelled, and a value unless it is a section.  The leaves are      *)
(* merged into it one after the other.                                       *)

(* Bug: keys are looked up as they are spelled. *)
FindsExactly(node, path) == node.path = path

(* ConfigChild, level by level. *)
Finds(node, path) == Folded(node.path) = Folded(path)

Above(nodes, path) ==
  {node \in nodes : Len(node.path) < Len(path) /\ Finds(node, SubSeq(path, 1, Len(node.path)))}

(* configSection: the sections on the way to a leaf. *)
Along(leaf) ==
  {[path |-> SubSeq(leaf.path, 1, n), isValue |-> FALSE, value |-> {}] :
     n \in 1..(Len(leaf.path) - 1)}

(* All that the first n leaves ask for. *)
Merged(payload, n) == UNION {{payload[i]} \cup Along(payload[i]) : i \in 1..n}

(* A leaf, and the sections on the way that are not there yet. *)
Added(payload, i) ==
  {payload[i]} \cup
    {section \in Along(payload[i]) :
       \A node \in Merged(payload, i - 1) : ~Finds(node, section.path)}

Expanded(payload) == UNION {Added(payload, i) : i \in DOMAIN payload}

(* mergeConfigKeys: set more than once, or a value and settings inside it. *)
Clashes(payload) ==
  \E i \in DOMAIN payload :
    \/ \E node \in Merged(payload, i - 1) : Finds(node, payload[i].path)
    \/ \E node \in Above(Merged(payload, i - 1), payload[i].path) : node.isValue

----------------------------------------------------------------------------
(* The envelopes *)

Tops(nodes) == {node \in nodes : Len(node.path) = 1}

Wrapped(nodes) ==
  \E node \in nodes :
    Tops(nodes) = {node} /\ node.path = <<Envelope>> /\ ~node.isValue

(* The nodes inside n envelopes. *)
Inner(nodes, n) ==
  {[node EXCEPT !.path = SubSeq(@, n + 1, Len(@))] : node \in {m \in nodes : Len(m.path) > n}}

(* The envelopes come off one by one, as long as there is one. *)
Unwrapped(nodes) ==
  Inner(nodes, CHOOSE n \in 0..MaxDepth :
                 ~Wrapped(Inner(nodes, n)) /\ \A m \in 0..(n - 1) : Wrapped(Inner(nodes, m)))

----------------------------------------------------------------------------

IsCredential(path) == Folded(path) \in Credentials

(* credentialKeyIn, sections included. *)
CredentialIn(nodes) == \E node \in nodes : IsCredential(node.path)

(* configLeaves. *)
LeavesOf(nodes) ==
  {node \in nodes : node.isValue \/ \A other \in nodes : node \notin Above(nodes, other.path)}

Payload(payload) == Unwrapped(Expanded(payload))

Acceptable(payload) ==
  /\ WellFormed(payload)
  /\ ~Clashes(payload)
  /\ ~CredentialIn(Payload(payload))
  /\ LeavesOf(Payload(payload)) # {}

AcceptedPayloads == {payload \in Payloads : Acceptable(payload)}
=============================================================================
