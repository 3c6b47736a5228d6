SPECIFICATION Spec
CONSTANTS
  p1 = p1
  p2 = p2
  Users = {u1, u2}
  Disabled = {}
  Passwords = {p1, p2}
  Default = p1
  Tokens = {t1}
  Reqs = {r1, r2}
  Faults = {"db"}
  None = None
  Keep = Keep
SYMMETRY Symmetric
PROPERTIES
  ResetEndsSessions
