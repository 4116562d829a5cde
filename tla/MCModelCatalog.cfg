CONSTANTS
  Handler = {h1, h2}
  Hourly = hourly
  m1 = m1
  m2 = m2
  Model = {m1, m2}
  List <- Lists
  None = None
  MaxProviders = 2
  MaxEvents = 3
SPECIFICATION FairSpec
CHECK_DEADLOCK FALSE
INVARIANTS ManualListsAgree
PROPERTIES SyncTakesTheAnswer OnlyListsAndRenamesOrphanTheDefault SyncHeals
