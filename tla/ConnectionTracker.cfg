SPECIFICATION FairSpec
CONSTANTS
  MaxSockets = 4
  MaxMessages = 2
INVARIANTS
  TypeOK
  NewestIsRegistered
PROPERTY ConnectedIsShownOnline
CHECK_DEADLOCK FALSE
