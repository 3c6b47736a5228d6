SPECIFICATION Spec
CONSTANTS
  Files = {f1, f2}
  MaxChoices = 3
  None = None
SYMMETRY Symmetric
CHECK_DEADLOCK FALSE
INVARIANTS
  TypeOK
  AppliedOncePerChoice
  NeverRefused
