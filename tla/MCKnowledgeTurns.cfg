CONSTANTS
  Dimensions = {d1}
  Triples = {r1}
  Amounts = {a1}
  Observations = {o1}
  Writers = {w1, w2}
  Readers = {s1}
  None = None
  MaxRows = 3
  MaxClaims = 1
SPECIFICATION Spec
SYMMETRY WriterSymmetry
CONSTRAINT Mixes
INVARIANT OneCorrectionPerTarget
INVARIANT SupersessionIsAChain
INVARIANT NeverBothEffective
PROPERTY ReplaceIsAtomic
