SPECIFICATION Spec
CONSTANTS
  MaxConns = 2
  MaxTcp = 2
  PPs = {p1, p2}
  p1 = p1
  p2 = p2
  Uins = {u1, u2}
  u1 = u1
  u2 = u2
  PipeCap = 1
  Kinds = {"cookie", "junk"}
  MaxSends = 2
  Concurrent = TRUE
  Platforms <- Both
SYMMETRY Alike
CHECK_DEADLOCK FALSE
INVARIANTS TableIsExact RepliesFindTheirOwner GhostsAreKnown
PROPERTIES ClosedForCause
