SPECIFICATION FairSpec
CONSTANTS
  Uins = {1, 2}
  PPs = {p1}
  EU = eu
  MaxUserCnt = 2
  TTL = 1
  Protocols = {"udp"}
  ConcurrentV7 = TRUE
  Crashes = TRUE
  Reload = FALSE
  ClockJumps = FALSE
  NumMod = 8
  MaxSessions = 2
  MaxUpdates = 1
PROPERTIES SessionEnds StaleRowsGo
CHECK_DEADLOCK FALSE
