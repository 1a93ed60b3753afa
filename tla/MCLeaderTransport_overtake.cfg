SPECIFICATION Spec
CONSTANTS
  Tabs = {t1, t2}
  NoTab = NoTab
  MaxCalls = 1
  MaxFailures = 2
  MaxCrashes = 0
  MaxRetries = 0
  MaxRejects = 0
SYMMETRY Symmetry
INVARIANTS LeaderIsOwnClient
CHECK_DEADLOCK FALSE
