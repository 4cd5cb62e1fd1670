--------------------------- MODULE MCPersonLinks ---------------------------
EXTENDS PersonLinks, FiniteSets, TLC

CONSTANT MaxRelations      \* bound: states with more relations are not explored further

FewRelations == Cardinality(relations) <= MaxRelations

\* No state of one part refers to the values of the other, so a model value may be a relative in
\* one and a connection in the other, which keeps the permutations few.
ASSUME SharedValues == Relatives = Txs /\ Editors = Media

Symmetry == Permutations(Relatives) \cup Permutations(Editors) \cup Permutations(Types)
=============================================================================
