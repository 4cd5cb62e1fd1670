CONSTANTS
  p1 = p1
  p2 = p2
  p3 = p3
  e1 = e1
  birth = birth
  adoption = adoption
  Persons <- MCPersons
  Types <- MCTypes
  Editors <- MCOneEditor
SPECIFICATION Spec
INVARIANTS ActiveGraphAcyclic
