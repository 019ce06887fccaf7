SPECIFICATION Spec
CONSTANTS
  Requests = {r1, r2, r3}
  Size = 2
  Skew = 1
  NoId = NoId
  MaxTime = 5
  MaxDrift = 2
SYMMETRY RequestSymmetry
INVARIANTS ExecutedOnce
PROPERTIES OldestGoesFirst
