SPECIFICATION FairSpec
CONSTANTS
  Handlers = {h1, h2}
  Stoppers = {s1, s2}
  Limits = {1, 2}
  MaxMeter = 2
  MaxAttempts = 2
  MaxFaults = 1
  NoValue = NoValue
INVARIANTS
  TypeOK
  OneStopper
  NoMissedCrossing
  OrphanedByFault
PROPERTY LimitEnforcedUnlessOrphaned
CHECK_DEADLOCK FALSE
