SPECIFICATION Spec
CONSTANTS
  Jobs = {j1}
  Providers = {p1}
  Quotes = {q1, q2}
  Threads = {t1, t2}
  Sweepers = {s1}
  None = None
  OfferTtl = 1
  QuoteTtl = 1
  PerRound = 1
  MaxRounds = 1
  MaxTime = 0
  SweepMayCrash = FALSE
INVARIANTS ReopenedIsReleased
CHECK_DEADLOCK FALSE
