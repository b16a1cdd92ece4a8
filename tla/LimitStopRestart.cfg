SPECIFICATION FairSpec
CONSTANTS
  Handlers = {h1}
  Stoppers = {s1, s2}
  Limits = {1}
  MaxMeter = 1
  MaxAttempts = 2
  MaxFaults = 1
  NoValue = NoValue
PROPERTY LimitEnforced
CHECK_DEADLOCK FALSE
