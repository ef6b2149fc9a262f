SPECIFICATION InterpretationSpec
CONSTANTS
  Threads = {t1, t2}
  UserTexts = {x, y}
  Users = {u, v}
  None = None
  MaxAttempts = 2
SYMMETRY DataSymmetry
INVARIANTS OwnUnlessOverlapped OneInterpretation
