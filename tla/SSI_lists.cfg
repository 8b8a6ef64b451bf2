CONSTANTS
  PPs = {p1, p2}
  Computers = {a, b}
  Keys = {"k1", "k2", "k3", "k4", "k5", "k6"}
  Secretive = {"k2", "k3", "k5"}
  Agreed = {"k3"}
  Agreeing = {"k2"}
  Edits <- Changes
  Lists <- Begun
  Limit = 3
  MakeGroups = {TRUE}
  MaxSeconds = 2
  MaxEvents = 3
SPECIFICATION Spec
SYMMETRY Symmetry
INVARIANTS CopyIsServers GrantIsKept LimitHolds ContactsAreLoaded
CHECK_DEADLOCK FALSE
