SPECIFICATION FairSpec
CONSTANTS
  Tabs = {t1, t2}
  NoTab = NoTab
  MaxCalls = 1
  MaxFailures = 2
  MaxCrashes = 1
  MaxRetries = 0
  MaxRejects = 0
PROPERTIES EveryCallSettles
CHECK_DEADLOCK FALSE
