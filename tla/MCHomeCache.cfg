SPECIFICATION Spec
CONSTANTS
  Users = {u1, u2}
  Tokens = {t1, t2}
  Names = {groups}
  Roles = {admin, user}
  MaxTurns = 1
  None = None
SYMMETRY Symmetric
CHECK_DEADLOCK FALSE
INVARIANTS
  TypeOK
  CachedIsOurs
  SettingsAreFresh
  SnapshotIsOurs
