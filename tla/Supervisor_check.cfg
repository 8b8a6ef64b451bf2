SPECIFICATION FairSpec
CONSTANTS
  Order <- RoleOrder
  Need <- RoleNeed
  ForkFails = TRUE
  MaxDeaths = 3
INVARIANTS ListedOrNew NeverTooMany ShortIsKnown
PROPERTY RecoversUnlessKnown
CHECK_DEADLOCK FALSE
