SPECIFICATION EventSpec
CONSTANTS
  Txs = {t1}
  Sockets = {s1, s2}
  Writers = {w1, w2}
  NoTx = NoTx
  MaxVersion = 3
INVARIANTS
  TypeOK
  NoLostUpdate
  NoLeakedSubscription
PROPERTIES
  SnapshotsMoveForward
  EveryVersionIsDelivered
  ImplementsFeed
