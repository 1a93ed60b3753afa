SPECIFICATION Spec
CONSTANTS
  Tabs = {t1, t2}
  NoTab = NoTab
  MaxCalls = 2
  MaxFailures = 2
  MaxCrashes = 0
  MaxRetries = 1
  MaxRejects = 0
SYMMETRY Symmetry
INVARIANTS NotStranded
CHECK_DEADLOCK FALSE
