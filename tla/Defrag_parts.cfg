SPECIFICATION FairSpec
CONSTANTS
  PPs = {p1}
  Movers = {m1}
  DP = DP
  Packets <- ThreePackets
  Parts = 2
  Big = {2}
  Schedules <- OneSchedule
  Expiry = 0
  PipeSize = 2
  MaxLogins = 2
  MaxEvents = 5
CHECK_DEADLOCK FALSE
INVARIANTS InjectedWhole UsedOnce AckedIsInjected
PROPERTY FragmentsGo
