SPECIFICATION FairSpec
CONSTANTS
  Pages = {p1}
  MaxBuild = 3
INVARIANTS TypeOK OfflineReady LostOnlyIfGone
PROPERTIES UpdateEnds
