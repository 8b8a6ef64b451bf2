SPECIFICATION Spec
CONSTANTS
  p1 = p1
  p2 = p2
  Uins = {1, 2}
  Writers = {2}
  Slots = {1, 2}
  PPs = {p1, p2}
  Clients <- ThreePairs
  MaxMsgs = 2
  MaxSessions = 3
  MaxTime = 2
  MaxReads = 1
  MaxErrors = 1
  Late = {1}
SYMMETRY Symmetry
VIEW View
INVARIANTS LossesAreKnown OnlyForTheRecipient SenderIsToldTheTruth
PROPERTY MailboxPromise
CHECK_DEADLOCK FALSE
