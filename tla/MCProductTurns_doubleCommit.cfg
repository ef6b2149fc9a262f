SPECIFICATION Spec
CONSTANTS
  Threads = {t1}
  Keys = {k1}
  Fingerprints = {fa}
  NoFingerprint = NoFingerprint
  Faults = {"store"}
  MaxFaults = 1
INVARIANT AtMostOneCommit
