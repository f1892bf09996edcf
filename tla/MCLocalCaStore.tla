--------------------------- MODULE MCLocalCaStore ---------------------------
(* Instances of LocalCaStore for TLC.                                      *)
EXTENDS LocalCaStore, TLC

CONSTANTS p1, p2, p3
Processes == Permutations(Process)
=============================================================================
