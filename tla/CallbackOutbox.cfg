SPECIFICATION FairSpec
CONSTANTS
  Txs = {1, 2}
  Poison = {1}
  Malformed <- Unbuildable
  ReconcileLimit = 2
  ClaimLimit = 2
  MaxRetries <- TwoPosts
  MaxFaults = 1
  NoTask = NoTask
INVARIANTS
  TypeOK
  SentWasReceived
  GivenUpAfterAllRetries
PROPERTIES
  SettledIsFinal
  KeepsPromise
