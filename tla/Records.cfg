CONSTANTS
  Persons = {p1, p2, p3}
  Clients = {c1, c2}
  NoClient = NoClient
  MinMembers = 1
  MaxMembers = 2
  MaxVersion = 3
  MaxDeleted = 1
  Row = Row  Tree = Tree  Aside = Aside  Nothing = Nothing
  Fields = {f1}
  MaxRowVersion = 4
SPECIFICATION RecordsSpec
SYMMETRY Symmetry
INVARIANTS
  SizeWithinLimits AnswersMatchHistory
  AuditTellsDeletions LateEditsBounded
PROPERTIES NoBlindChange NoLostUpdate
