------------------------------ MODULE MCBuffer ------------------------------
EXTENDS Buffer

SomeItems == {-1, 2}
SomeOffsets == ((-1)..9) \cup {257}
=============================================================================
