CONSTANTS
  Server = {s1, s2}
  Request = {r1, r2}
  User = {u}
  Plain = {x, y}
  Prefixed = {enc}
  Empty = Empty
  None = None
  MaxPlugins = 1
  MaxConfigs = 2
  MaxEvents = 3
SPECIFICATION FairSpec
CHECK_DEADLOCK FALSE
INVARIANTS OneKey ConfigsAreAudited
PROPERTIES OnlyStaleCopiesUndo StartsUnlessCut
