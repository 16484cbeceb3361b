---------------------------- MODULE MCInlineRunner --------------------------
(* Small instances of InlineRunner.                                         *)
EXTENDS InlineRunner, TLC

RequestSymmetry == Permutations(Requests)
=============================================================================
