------------------------------ MODULE Filtering -----------------------------
(***************************************************************************)
(* What the loops that remove some elements of an array leave: the others, *)
(* in their order.  It is what SelectSeq computes, defined without         *)
(* recursion so that it can be reasoned about.                             *)
(***************************************************************************)
EXTENDS Naturals, SequencesExt

(* The n-th element left is the one with n - 1 elements left before it.     *)
Filter(s, keep) ==
    LET left == {i \in DOMAIN s : s[i] \in keep}
        Rank(i) == Cardinality({j \in left : j <= i})
    IN  [n \in 1..Cardinality(left) |-> s[CHOOSE i \in left : Rank(i) = n]]

=============================================================================
