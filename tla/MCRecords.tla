----------------------------- MODULE MCRecords -----------------------------
EXTENDS Records, TLC

Symmetry == Permutations(Persons) \cup Permutations(Clients)
=============================================================================
