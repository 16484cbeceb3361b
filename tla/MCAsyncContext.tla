--------------------------- MODULE MCAsyncContext ---------------------------
EXTENDS AsyncContext

KeySymmetry == Permutations(Keys) \cup Permutations(Stores)
=============================================================================
