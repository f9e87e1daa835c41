------------------------------ MODULE ImportPlan ------------------------------
(***************************************************************************)
(* internal/tools/teleporter.go: what teleporter_import says, in plan mode, *)
(* that an import of an archive would replace.                              *)
(*                                                                         *)
(* FTL goes through the archive's entries in order and imports those whose  *)
(* names it knows and whose option is on.  The name of the gravity database *)
(* is that of the setting files.gravity then in force, and an imported      *)
(* pihole.toml replaces the settings half way through.  The plan works the  *)
(* same out beforehand, from the file and one setting read from Pi-hole.    *)
(*                                                                         *)
(* An entry of an archive has a name, and pihole.toml what its              *)
(* files.gravity says (Unset, or the name of an entry) and whether it says   *)
(* so in the form the plan reads.  FTL is outside src/.                     *)
(***************************************************************************)
EXTENDS Integers, Sequences

CONSTANTS
  Toml, Leases,   \* etc/pihole/pihole.toml, etc/pihole/dhcp.leases
  Databases,      \* names the gravity database can have,
  Usual,          \* and the one it has unless it was moved
  Others,         \* names that FTL does not know
  Unset,          \* no such setting in this pihole.toml
  Unread          \* files.gravity could not be read from Pi-hole

(* A module that instantiates this one assumes it: no configuration names   *)
(* pihole.toml or dhcp.leases as its gravity database.  What FTL would take *)
(* such an entry for is not told in src/.                                   *)
ImportAssumption ==
  /\ Usual \in Databases
  /\ Databases \cap (Others \cup {Toml, Leases}) = {} /\ Others \cap {Toml, Leases} = {}
  /\ Unset \notin Databases /\ Unread \notin Databases

Options == {"config", "gravity", "dhcp_leases"}

Entries ==
       [name : {Toml}, gravity : Databases \cup {Unset}, plain : BOOLEAN]
  \cup [name : Databases \cup Others \cup {Leases}, gravity : {Unset}, plain : {TRUE}]

(* gravityArchivePath: the setting in force, unless the request fails. *)
Location(inForce, answered) == IF answered THEN inForce ELSE Unread

(* parts: the option that controls an entry, with the database at g. *)
PartOf(g, n) ==
  CASE n = Toml   -> "config"
    [] n = g      -> "gravity"
    [] n = Leases -> "dhcp_leases"
    [] OTHER      -> "not imported"

(* taken: the name of a part. *)
IsPart(g, n) == PartOf(g, n) # "not imported"

(* tomlString and archiveGravityPath. *)
Unreadable(entry) == ~entry.plain
Set(entry)        == entry.plain /\ entry.gravity # Unset

----------------------------------------------------------------------------
(* importPlan *)

(* The plan of an empty archive. *)
Blank(location) ==
  [gravity  |-> IF location = Unread THEN Usual ELSE location,
   assumed  |-> location = Unread,
   unread   |-> FALSE,
   replaces |-> {}]

(* Bug: the whole archive is matched against one name. *)
FollowsNever(plan, entry, on) == plan

(* What an imported pihole.toml changes for the entries after it.  A name   *)
(* that is a part's already, the present database's included, stays so.     *)
Follows(plan, entry, on) ==
  IF entry.name = Toml /\ "config" \in on
  THEN [plan EXCEPT !.unread  = @ \/ Unreadable(entry),
                    !.gravity = IF Set(entry) /\ ~IsPart(@, entry.gravity)
                                THEN entry.gravity ELSE @]
  ELSE plan

(* One more entry, the i-th, with the options that are on. *)
Listed(plan, i, entry, on) ==
  LET part == PartOf(plan.gravity, entry.name) IN
  Follows([plan EXCEPT !.replaces = IF part \in on THEN @ \cup {<<i, part>>} ELSE @],
          entry, on)

Planned(archive, location, on) ==
  LET upTo[i \in 0..Len(archive)] ==
        IF i = 0 THEN Blank(location) ELSE Listed(upTo[i - 1], i, archive[i], on)
  IN upTo[Len(archive)]

(* The plan says that it may be wrong. *)
Warns(plan) == plan.assumed \/ plan.unread

----------------------------------------------------------------------------
(* FTL *)

(* The configurations that set the location: those imported before entry i. *)
Moves(archive, i, on) ==
  {j \in 1..(i - 1) : /\ "config" \in on /\ archive[j].name = Toml
                      /\ archive[j].gravity # Unset}

InForce(archive, i, inForce, on) ==
  LET moves == Moves(archive, i, on) IN
  IF moves = {} THEN inForce
  ELSE archive[CHOOSE j \in moves : \A k \in moves : k <= j].gravity

Imported(archive, inForce, on) ==
  {ip \in (1..Len(archive)) \X on :
     PartOf(InForce(archive, ip[1], inForce, on), archive[ip[1]].name) = ip[2]}

----------------------------------------------------------------------------

(* The plan names the entries that the import would replace parts by. *)
Truthful(archive, inForce, answered, on) ==
  LET plan == Planned(archive, Location(inForce, answered), on) IN
  Warns(plan) \/ plan.replaces = Imported(archive, inForce, on)
=============================================================================
