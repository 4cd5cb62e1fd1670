----------------------------- MODULE MCJobQueue -----------------------------
EXTENDS JobQueueRefinement, TLC

CONSTANTS w1, w2, j1, j2

MCWorkers == {w1, w2}
MCJobs == {j1}
MCTwoJobs == {j1, j2}
MCBackoff == [n \in 1 .. MaxAttempts |-> 1]
Symmetry == Permutations(MCWorkers) \cup Permutations(Jobs)
=============================================================================
