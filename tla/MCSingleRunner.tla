---------------------------- MODULE MCSingleRunner --------------------------
(* Small instances of SingleRunner.                                         *)
EXTENDS SingleRunner, TLC

RequestSymmetry == Permutations(Requests)
=============================================================================
