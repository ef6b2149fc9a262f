SPECIFICATION FairSpec
CONSTANTS
  Threads = {t1, t2}
  Keys = {k1}
  Fingerprints = {fa, fb}
  NoFingerprint = NoFingerprint
  Faults = {"crash", "engine", "discourse", "store"}
  MaxFaults = 2
INVARIANTS SingleExecutor RowsMatchResult OneCommitUnlessRaisedAfter
PROPERTIES NoRunAfterResult ImplementsRegister NothingStuckInProgress
