SPECIFICATION Spec
CONSTANTS
  Threads = {t1, t2}
  Keys = {k1}
  NoKey = NoKey
  Fingerprints = {fa, fb}
  NoFingerprint = NoFingerprint
  Clarifications = {c1}
  c1 = c1
  fa = fa
  fb = fb
  About <- AllTheSame
  Faults = {"crash", "engine", "discourse", "store"}
  MaxFaults = 1
SYMMETRY ThreadSymmetry
INVARIANTS LateAnswersConflict OneWrite
PROPERTY ImplementsRegister
