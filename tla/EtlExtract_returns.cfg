SPECIFICATION Spec
CONSTANTS
  s1 = s1
  s2 = s2
  Session = {s1, s2}
  Order = {1, 2}
  Seed <- Arrived
  MaxTx = 2
  MaxTime = 0
  Overlap = 2
PROPERTY NoReturnMissed
SYMMETRY SessionSymmetry
