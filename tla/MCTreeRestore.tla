---------------------------- MODULE MCTreeRestore ----------------------------
EXTENDS TreeRestore, TLC

Symmetry == Permutations(Runs)
==============================================================================
