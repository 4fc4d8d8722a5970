SPECIFICATION Spec
CONSTANTS
  q1 = q1
  q2 = q2
  q3 = q3
  i1 = i1
  i2 = i2
  i3 = i3
  i4 = i4
  None = None
  Query = {q1, q2, q3}
  Instance = {i1, i2, i3, i4}
  MaxVersion = 3
SYMMETRY WarehouseSymmetry
INVARIANTS QuerySeesLatest
