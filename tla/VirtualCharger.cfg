SPECIFICATION Spec
CONSTANTS
  Console = c
  Procs = {c, w}
  MaxTx = 2
  MeterStart = 3
  MaxMeter = 5
  MaxFaults = 1
  Rollover = 7
  NoProc = NoProc
CONSTRAINT OneAtATime
INVARIANTS
  TypeOK
  SessionsAgree
  PendingIsCurrent
  RegistryFollows
  BilledForward
PROPERTIES
  ReadingsAscend
