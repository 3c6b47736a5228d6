SPECIFICATION Spec
CONSTANTS
  Users = {u1, u2}
  Groups = {g1, g2}
  Items = {i1, i2}
  Reqs = {r1, r2}
  MaxSort = 2
  NewSort = 1
  Serializable = TRUE
  None = None
  Gone = Gone
SYMMETRY Symmetric
INVARIANTS
  TypeOK
  NoLostItem
PROPERTIES
  OneFirstGroup
  OnlyAskedForDeletions
  KeepsAGroup
  MovedToTheEnd
