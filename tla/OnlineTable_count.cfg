SPECIFICATION Spec
CONSTANTS
  Uins = {1}
  PPs = {p1, p2}
  EU = eu
  MaxUserCnt = 2
  TTL = 1
  Protocols = {"udp", "v7"}
  ConcurrentV7 = TRUE
  Crashes = FALSE
  Reload = FALSE
  ClockJumps = TRUE
  NumMod = 8
  MaxSessions = 3
  MaxUpdates = 1
INVARIANTS RoomForRecord CountMatches DoublesAreKnown
SYMMETRY Alike
CHECK_DEADLOCK FALSE
