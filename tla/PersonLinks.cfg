CONSTANTS
  Persons = {p1}
  Media = {y1, y2}
  Txs = {x1, x2, x3}
  None = None
  Relatives = {x1, x2, x3}
  Editors = {y1, y2}
  Types = {birth, adoption}
  MaxRelations = 3
SPECIFICATION LinksSpec
SYMMETRY Symmetry
CONSTRAINT FewRelations
INVARIANTS PrimaryIsAttachedAndReady DeadlocksNeedUpgrade CyclesPassThroughRestored
PROPERTY ImplementsPersonMedia
