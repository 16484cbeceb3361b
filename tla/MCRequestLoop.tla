---------------------------- MODULE MCRequestLoop ---------------------------
(* Small instances of RequestLoop: one worker under an arbitrary runner.    *)
EXTENDS RequestLoop, TLC

RequestSymmetry == Permutations(Requests)
=============================================================================
