SPECIFICATION FairSpec
CONSTANTS
  Tabs = {t1, t2}
  Absent = Absent
  Unreadable = Unreadable
  MaxEnrols = 3
  MaxFaults = 2
  MaxOpens = 4
INVARIANTS TypeOK HandlesBalanced KeyAccountedFor UIMatchesDisk NoCeremonyWithoutStore
PROPERTIES NeverStuck
CHECK_DEADLOCK FALSE
