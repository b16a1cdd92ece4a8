SPECIFICATION FairSpec
CONSTANTS
  Connectors = {c1}
  Tids = {t1, t2}
  Handlers = {h1}
  Tags = {u1}
  Readings = {r0}
  StartReadings = {r0}
  NoTx = NoTx
  NoValue = NoValue
INVARIANT OneOpenPerConnector
PROPERTIES
  RecoverySparesNewSessions
  RecoveryEnds
