SPECIFICATION Spec
CONSTANTS
  Threads = {t1, t2}
  c1 = c1
  c2 = c2
  n1 = n1
  n2 = n2
  Clients = {c1, c2}
  Names = {n1, n2}
  None = None
  Ttl = 4
  MaxTime = 4
  MaxTokens = 2
  MaxSetBacks = 1
  MaxReferents = 2
  MaxIdle = 1
  Fresh = 2
  Former = 1
  Recent = 2
  MaxTurns = 2
  MaxConvs = 2
  MaxEntities = 2
  MaxRetries = 1
  Starts <- MCStarts
CONSTRAINT OneTheme
SYMMETRY Symmetric
INVARIANTS SessionsAreOwn FocusIsKnown SessionKeepsUp PriorIsHistory
CHECK_DEADLOCK FALSE
