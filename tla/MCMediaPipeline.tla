--------------------------- MODULE MCMediaPipeline ---------------------------
EXTENDS MediaRefinement

CONSTANTS thumbnail, preview, k1, k2

MCVariants == {thumbnail, preview}
MCCleaners == {k1, k2}
=============================================================================
