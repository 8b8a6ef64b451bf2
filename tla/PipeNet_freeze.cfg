SPECIFICATION Spec
CONSTANTS
  PPs = {p1, p2}
  SP = sp
  EP = ep
  EU = eu
  ET = et
  DF = df
  Capacity = 1
SYMMETRY Alike
INVARIANTS FreezesOnlyHere
CHECK_DEADLOCK FALSE
