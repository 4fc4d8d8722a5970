SPECIFICATION Spec
CONSTANTS
  s1 = s1
  s2 = s2
  Session = {s1, s2}
  Order = {1, 2, 3}
  Seed <- OnTheWay
  MaxTx = 3
  MaxTime = 1
  Overlap = 2
SYMMETRY SessionSymmetry
INVARIANT IInv
PROPERTY NoOrderMissed
