CONSTANTS
  Runs = {r1, r2}
  Nobody = Nobody
  Assets = {1, 2}
  MaxFaults = 3
SPECIFICATION Spec
SYMMETRY Symmetry
CHECK_DEADLOCK FALSE
INVARIANT CommittedTreeIsComplete
