SPECIFICATION Spec
CONSTANTS
  Tabs = {t1}
  Absent = Absent
  Unreadable = Unreadable
  MaxEnrols = 2
  MaxFaults = 1
  MaxOpens = 2
INVARIANTS KeyKept
CHECK_DEADLOCK FALSE
