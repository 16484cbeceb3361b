--------------------------- MODULE MCEventTarget ----------------------------
(* Small instances of EventTarget: one type, one event dispatched on it.    *)
EXTENDS EventTarget

OneType == [e \in Events |-> "ping"]
CallbackSymmetry == Permutations(Callbacks)
=============================================================================
