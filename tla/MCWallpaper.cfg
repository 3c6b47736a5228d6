SPECIFICATION FairSpec
CONSTANTS
  white = white
  Srcs = {s1, s2}
  Looks = {l1, l2}
  Views = {v1, v2}
  Inks = {white, red, odd}
  Presets = {white}
  Odd = {odd}
  Default = white
  MaxChanges = 2
  None = None
  Halvings = 3
  Steps = 4
  Target = 2
  Absent = Absent
CHECK_DEADLOCK FALSE
INVARIANTS
  TypeOK
  VeilIsLeast
PROPERTIES
  MaskComesFirst
  ReanalysisKeepsTheImage
  ShellResolves
