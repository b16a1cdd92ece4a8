SPECIFICATION Spec
CONSTANTS
  Connectors = {c1}
  Tids = {t1}
  Handlers = {h1}
  Tags = {u1}
  Readings = {r0, r1}
  StartReadings = {r0, r1}
  NoTx = NoTx
  NoValue = NoValue
INVARIANT TableAndOutboxAgree
