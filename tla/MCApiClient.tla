---------------------------- MODULE MCApiClient ----------------------------
(* ApiClient on small instances: two or three goroutines, a few sessions. *)
EXTENDS ApiClient, TLC

CONSTANTS p1, p2, s1, s2, s3

TwoCalls   == {p1, p2}
OneCall    == {p1}
TwoSids    == {s1, s2}
ThreeSids  == {s1, s2, s3}

AllKinds   == {"read", "write", "stream"}
ReadsOnly  == {"read"}

(* Goroutines and session ids are interchangeable: safety only. *)
Symmetry == Permutations(TwoCalls) \cup Permutations(ThreeSids)
=============================================================================
