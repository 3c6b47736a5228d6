SPECIFICATION FairSpec
CONSTANTS
  Forms = {appearance}
  MaxRevision = 3
  Strays = TRUE
  NoRead = NoRead
  Sent = Sent
CHECK_DEADLOCK FALSE
INVARIANTS
  FormShowsStored
  EditsSurvive
  LeavingLosesNothing
PROPERTIES
  DraftResolves
  LeavingResolves
