-------------------------- MODULE MCExportPipeline --------------------------
EXTENDS ExportRefinement, TLC

CONSTANTS c1, c2, c3, k1, k2

MCSmall == {c1, c2}
MCThree == {c1, c2, c3}
MCCleaners == {k1, k2}
MCOneCleaner == {k1}

Symmetry == Permutations({c1, c2}) \cup Permutations(MCCleaners)
=============================================================================
