---------------------------- MODULE MCKeyedMutex ----------------------------
(* KeyedMutex with three goroutines and two keys.  Liveness is checked, so  *)
(* there is no symmetry.                                                    *)
EXTENDS KeyedMutex, TLC

CONSTANTS p1, p2, p3, o1, o2, o3

ThreeCallers == {p1, p2, p3}
TwoKeys      == {1, 2}
ThreeCells   == {o1, o2, o3}
=============================================================================
