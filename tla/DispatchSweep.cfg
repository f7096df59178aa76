SPECIFICATION FairSpec
CONSTANTS
  Jobs = {j1}
  Providers = {p1, p2, p3, p4}
  Quotes = {q1}
  Threads = {t1}
  Sweepers = {s1}
  None = None
  OfferTtl = 0
  QuoteTtl = 1
  PerRound = 2
  MaxRounds = 1
  MaxTime = 0
  SweepMayCrash = FALSE
INVARIANTS
  AutomaticRoundsBounded
  NobodyIsForgotten
PROPERTIES
  ExpiredJobsAreAttended
CHECK_DEADLOCK FALSE
