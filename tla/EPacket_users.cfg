SPECIFICATION FairSpec
CONSTANTS
  Uins = {1, 2}
  MaxUserCnt = 2
  PPs = {p1}
  Retries = 1
  TimeOut = 1
  SeqMod = 4
  SecondSeqs = {0, 1}
  MaxSessions = 2
  MaxPosts = 2
  PipeMax = 1
INVARIANTS ConfirmedByItsNumber StampsDistinct NoMisdelivery
PROPERTIES DoneIsDone EveryPacketLeaves
