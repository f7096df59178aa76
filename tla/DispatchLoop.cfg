SPECIFICATION FairSpec
CONSTANTS
  Jobs = {j1, j2}
  Providers = {p1}
  Quotes = {q1, q2}
  Threads = {t1}
  Sweepers = {s1}
  None = None
  OfferTtl = 1
  QuoteTtl = 1
  PerRound = 1
  MaxRounds = 1
  MaxTime = 1
  SweepMayCrash = FALSE
PROPERTIES
  LapsedOffersExpire
  ExpiredJobsAreAttended
CHECK_DEADLOCK FALSE
