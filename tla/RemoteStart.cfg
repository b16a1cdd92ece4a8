SPECIFICATION FairSpec
CONSTANTS
  Requests = {r1, r2}
  Connectors = {c1}
  Tags = {u1, u2}
  NoConnector = NoConnector
  MaxLocal = 1
  NoRequest = NoRequest
INVARIANTS
  TypeOK
  OneSessionPerFlag
  FlagHasRequest
  RoutedAsAsked
PROPERTY NobodyWaitsForever
CHECK_DEADLOCK FALSE
