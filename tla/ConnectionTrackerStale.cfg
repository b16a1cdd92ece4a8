SPECIFICATION FairSpec
CONSTANTS
  MaxSockets = 2
  MaxMessages = 1
PROPERTY StaleDisconnectIsHarmless
