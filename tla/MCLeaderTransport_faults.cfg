SPECIFICATION Spec
CONSTANTS
  Tabs = {t1, t2}
  NoTab = NoTab
  MaxCalls = 2
  MaxFailures = 1
  MaxCrashes = 1
  MaxRetries = 1
  MaxRejects = 1
SYMMETRY Symmetry
INVARIANTS TypeOK NoCrossTalk SingleWriter LockNotOrphaned AckMeansSubscribed KeptUntilRetry
PROPERTIES ImplementsService
CHECK_DEADLOCK FALSE
