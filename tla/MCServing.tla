---------------------------- MODULE MCServing ----------------------------
(* Serving with two clients' connections and environments of up to three     *)
(* numbered Pi-holes, which may be called alike.                            *)
EXTENDS Serving

CONSTANTS c1, c2

MCTools     == {"gravity", "look", "change"}
MCReads     == {"look"}
MCToolsets  == {"actions", "config"}
MCToolsetOf == ("gravity" :> "actions") @@ ("look" :> "config") @@ ("change" :> "config")
MCDefault   == [n \in 1..3 |-> IF n = 1 THEN "instance-1" ELSE IF n = 2 THEN "instance-2" ELSE "instance-3"]
MCReserved  == {All, "summary"}

Plain == [single |-> FALSE, numbers |-> {1, 2}, name |-> [n \in 1..3 |-> Unset], broken |-> {},
          garbled |-> FALSE, readOnly |-> FALSE, toolsets |-> {}, http |-> TRUE]

(* Both connections call the gravity update in the environments of one        *)
(* Pi-hole, and over stdio.                                                  *)
MCEnvironments ==
  {[Plain EXCEPT !.toolsets = {"config"}],
   [Plain EXCEPT !.name[1] = "attic", !.readOnly = TRUE, !.toolsets = {All}],
   [Plain EXCEPT !.name[1] = "attic", !.readOnly = TRUE, !.toolsets = {"actions"}],
   [Plain EXCEPT !.toolsets = {"actions"}, !.http = FALSE],
   [Plain EXCEPT !.single = TRUE, !.numbers = {}, !.toolsets = {"actions"}],
   [Plain EXCEPT !.numbers = {1, 3}, !.readOnly = TRUE],
   [Plain EXCEPT !.name[1] = "instance-2", !.toolsets = {"config"}],
   [Plain EXCEPT !.single = TRUE],
   [Plain EXCEPT !.numbers = {2}],
   [Plain EXCEPT !.name[2] = "summary"],
   [Plain EXCEPT !.broken = {2}],
   [Plain EXCEPT !.garbled = TRUE],
   [Plain EXCEPT !.toolsets = {"cellar"}]}

MCAsks ==
  (c1 :> {<<"look", All>>, <<"change", Unset>>, <<"change", All>>, <<"gravity", Unset>>}) @@
  (c2 :> {<<"change", "instance-2">>, <<"gravity", Unset>>})
=============================================================================
