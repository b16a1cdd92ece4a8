SPECIFICATION SpecTogether
CONSTANTS
  Connectors = {c1}
  Tids = {t1}
  Handlers = {h1, h2}
  Tags = {u1}
  Readings = {r0, r1}
  StartReadings = {r0, r1}
  NoTx = NoTx
  NoValue = NoValue
SYMMETRY Symmetry
INVARIANTS
  TypeOK
  ToldIsDurable
  BilledAsStored
PROPERTY KeepsLedger
