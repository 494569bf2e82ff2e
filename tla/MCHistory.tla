------------------------------ MODULE MCHistory ------------------------------
\* A small instance of History.  No slot and no Pokemon is special.
EXTENDS History

Alike == Permutations(Slots) \cup Permutations(Mons)
=============================================================================
