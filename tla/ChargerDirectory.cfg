SPECIFICATION FairSpec
CONSTANTS
  Callers = {c1, c2}
  TTL = 2
  FetchTimeout = 2
  MaxSince = 5
INVARIANT TypeOK
PROPERTIES
  AnswersWereTrue
  EveryLookupEnds
