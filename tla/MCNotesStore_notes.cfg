SPECIFICATION FairSpec
CONSTANTS
  Tabs = {t1}
  Notes = {1, 2, 3}
  Stored = {1, 2}
  PageSize = 1
  MaxPages = 2
  HasBroadcast = TRUE
  LastDay = 2
  MaxWrites = 1
  MaxReplays = 1
  MaxErrors = 1
  MaxVisits = 1
  MaxToggles = 1
INVARIANTS TypeOK ShownIsStored
PROPERTIES Converges
CHECK_DEADLOCK FALSE
