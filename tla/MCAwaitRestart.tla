--------------------------- MODULE MCAwaitRestart ---------------------------
(* AwaitRestart with a clock of a few ticks. *)
EXTENDS AwaitRestart
=============================================================================
