SPECIFICATION FairSpec
CONSTANTS
  s1 = s1
  s2 = s2
  old = old
  new = new
  Sessions = {s1, s2}
  Builds = {old, new}
  BuildOf <- OldAndNew
  Target <- Versions
  None = None
  Zombie = Zombie
  MaxVersion = 2
  MaxFaults = 1
INVARIANTS TypeOK MigratedOnce ServedAtTarget NothingLeftRunning
PROPERTIES LoadingEnds ReleasedAfterUnmount
CHECK_DEADLOCK FALSE
