SPECIFICATION Spec
CONSTANTS
  Threads = {t1, t2}
  Principals = {p1, p2}
  None = None
  MaxTurns = 2
  MaxConvs = 2
  MaxPke = 3
INVARIANTS AtMostOncePerTurn TranscriptIsBacked OneHistory
CHECK_DEADLOCK FALSE
