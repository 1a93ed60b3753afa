SPECIFICATION Spec
CONSTANTS
  Tabs = {t1, t2}
  IdleMs = 3
  HeartbeatMs = 2
  Delay = 1
  Late = 1
  MaxTime = 16
  MaxQueue = 2
SYMMETRY TabSymmetry
INVARIANTS TypeOK LockedInTime AwareOfUse
CHECK_DEADLOCK FALSE
