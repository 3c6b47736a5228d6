SPECIFICATION Spec
CONSTANTS
  Items = {i1, i2}
  Groups = {g1, g2}
  MaxWrites = 2
  MaxOthers = 1
  Gone = Gone
  None = None
SYMMETRY Symmetric
CHECK_DEADLOCK FALSE
INVARIANTS
  TypeOK
  ConfirmedIsShown
PROPERTIES
  EditKeepsMoves
