SPECIFICATION FairSpec
CONSTANTS
  Procs = {p1, p2}
  StartVersions = {0, 3, 6, 12}
  MaxCrashes = 1
INVARIANTS VersionIsBacked EndedStaysEnded
PROPERTY EventuallyUp
CHECK_DEADLOCK FALSE
