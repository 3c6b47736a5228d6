SPECIFICATION Spec
CONSTANTS
  u1 = u1
  u2 = u2
  icon1 = icon1
  icon2 = icon2
  site = site
  Users = {u1, u2}
  Admins = {u1}
  Slots = {icon2, site}
  SlotOwner <- OwnerOfPair
  EmbeddedSlots = {site}
  Files = {f1, f2}
  Images = {img1}
  Reqs = {r1, r2}
  Faults = {}
  None = None
  Keep = Keep
  Site = Site
SYMMETRY Symmetric
INVARIANTS
  NoDanglingNameAnywhere
