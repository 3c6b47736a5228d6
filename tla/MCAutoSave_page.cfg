SPECIFICATION Spec
CONSTANTS
  Forms = {search, monitor}
  MaxRevision = 1
  Strays = FALSE
  NoRead = NoRead
  Sent = Sent
SYMMETRY Symmetric
CHECK_DEADLOCK FALSE
INVARIANTS
  TypeOK
  HonestNotice
