------------------------------ MODULE Surface ------------------------------
(***************************************************************************)
(* What a deployment offers, from its environment: internal/config (which   *)
(* Pi-holes there are and how they are called), internal/pihole/registry.go *)
(* (the client of each name), internal/toolsets and internal/server (which  *)
(* tools are exposed), and internal/tools/instance.go (which Pi-holes a     *)
(* call goes to).  Nothing of it changes once the server runs.              *)
(*                                                                         *)
(* An environment is a record                                              *)
(*   single     whether PIHOLE_URL is set                                   *)
(*   numbers    the n with a PIHOLE_<n>_URL                                 *)
(*   name       PIHOLE_<n>_NAME of each n, Unset if empty                   *)
(*   broken     the n whose URL or password will not do, 0 for PIHOLE_URL   *)
(*   garbled    whether some other variable is not of its form              *)
(*   readOnly   PIHOLE_READ_ONLY                                            *)
(*   toolsets   PIHOLE_TOOLSETS                                             *)
(*   http       whether the transport is http or sse, and not stdio         *)
(***************************************************************************)
EXTENDS Integers, Sequences, FiniteSets, SequencesExt

CONSTANTS
  Tools,
  ReadTools,      \* those annotated read-only
  ToolsetOf,      \* toolsets.Of: the toolset that owns a tool
  Toolsets,       \* the published ones
  DefaultName,    \* "instance-<n>" of each n
  Reserved,       \* names no instance may have
  Environments    \* those considered

Unset   == "unset"
Primary == "primary"
All     == "all"

ASSUME SurfaceAssumption ==
  /\ ReadTools \subseteq Tools
  /\ ToolsetOf \in [Tools -> Toolsets]
  /\ All \in Reserved /\ All \notin Toolsets
  /\ \A env \in Environments :
       /\ env.single \in BOOLEAN
       /\ IsFiniteSet(env.numbers) /\ env.numbers \subseteq Nat \ {0}

----------------------------------------------------------------------------
(* config.Load *)

(* The scan stops at the first missing number. *)
Scanned(env) == {n \in env.numbers : 1..n \subseteq env.numbers}

NameOf(env, n) ==
  IF n = 0 THEN Primary ELSE IF env.name[n] = Unset THEN DefaultName[n] ELSE env.name[n]

(* The number of each instance, in the order declared; 0 is PIHOLE_URL. *)
Declared(env) ==
  IF env.single THEN <<0>> ELSE [n \in 1..Cardinality(Scanned(env)) |-> n]

(* loadInstances: the variables of one Pi-hole, or those of several. *)
OneForm(env) == env.single # (1 \in env.numbers)

(* loadInstance: a URL to reach it at, and a password. *)
InstancesWell(env) == ToSet(Declared(env)) \cap env.broken = {}

(* validateInstanceName. *)
ValidName(name) == name \notin Reserved

(* Bug: a name may be used twice. *)
NamesFreely(env) == \A n \in ToSet(Declared(env)) : n # 0 => ValidName(NameOf(env, n))

(* A name is used once, whether it was given or is the default of its number. *)
NamesWell(env) ==
  /\ NamesFreely(env)
  /\ \A m, n \in ToSet(Declared(env)) : NameOf(env, m) = NameOf(env, n) => m = n

(* toolsets.Validate. *)
KnownToolsets(env) == env.toolsets \subseteq Toolsets \cup {All}

Loads(env) ==
  /\ OneForm(env) /\ InstancesWell(env) /\ NamesWell(env)
  /\ KnownToolsets(env) /\ ~env.garbled

----------------------------------------------------------------------------
(* The registry *)

Names(env) == [i \in DOMAIN Declared(env) |-> NameOf(env, Declared(env)[i])]

(* The number of the Pi-hole the client of a name talks to: NewRegistry keeps *)
(* the last one declared of each name.                                       *)
Client(env, name) ==
  Declared(env)[CHOOSE i \in DOMAIN Names(env) :
    Names(env)[i] = name /\ \A j \in DOMAIN Names(env) : Names(env)[j] = name => j <= i]

----------------------------------------------------------------------------
(* The tools exposed *)

(* Resolve: no selection, or one with "all", places no restriction. *)
Restricted(env) == env.toolsets # {} /\ All \notin env.toolsets

(* IsReadOnly: annotated so. *)
IsReadOnly(tool) == tool \in ReadTools

(* The filters, one after the other. *)
readOnlyFilter(env, S) == IF env.readOnly THEN {t \in S : IsReadOnly(t)} ELSE S

toolsetFilter(env, S) ==
  IF Restricted(env) THEN {t \in S : ToolsetOf[t] \in env.toolsets} ELSE S

Exposed(env) == toolsetFilter(env, readOnlyFilter(env, Tools))

----------------------------------------------------------------------------
(* instanceAware and getInstance: the names of the instances a call runs on,  *)
(* none if it is refused.                                                    *)

Multi(env) == Len(Names(env)) > 1

Targets(env, tool, arg) ==
  IF arg = Unset THEN <<Head(Names(env))>>
  ELSE IF arg = All THEN IF Multi(env) /\ IsReadOnly(tool) THEN Names(env) ELSE <<>>
  ELSE IF arg \in ToSet(Names(env)) THEN <<arg>> ELSE <<>>
=============================================================================
