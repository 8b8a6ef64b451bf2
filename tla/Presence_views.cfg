CONSTANTS
  Users = {1, 2}
  Subjects = {1}
  Viewers = {2}
  PPs = {p1, p2}
  Clients <- ThreePairs
  MaxJobs = 5
SPECIFICATION Spec
SYMMETRY Symmetry
INVARIANTS SeesWhoIsThere HiddenStaysHidden
CHECK_DEADLOCK FALSE
