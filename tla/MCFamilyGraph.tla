--------------------------- MODULE MCFamilyGraph ---------------------------
EXTENDS FamilyGraph

CONSTANTS p1, p2, p3, e1, birth, adoption

MCPersons == {p1, p2, p3}
MCOneEditor == {e1}
MCTypes == {birth, adoption}
=============================================================================
