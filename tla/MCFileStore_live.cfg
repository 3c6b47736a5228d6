SPECIFICATION FairSpec
CONSTANTS
  u1 = u1
  u2 = u2
  icon1 = icon1
  icon2 = icon2
  site = site
  Users = {u1}
  Admins = {u1}
  Slots = {icon1, site}
  SlotOwner <- OwnerOfLive
  EmbeddedSlots = {}
  Files = {f1, f2}
  Images = {img1}
  Reqs = {r1, r2}
  Faults = {"db"}
  None = None
  Keep = Keep
  Site = Site
INVARIANTS
PROPERTIES
  RequestsReturn
  UploadLeavesNoOrphan
