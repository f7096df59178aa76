SPECIFICATION Spec
CONSTANTS
  Jobs = {j1}
  Providers = {p1, p2}
  Quotes = {q1, q2}
  Threads = {t1, t2}
  Sweepers = {s1}
  None = None
  OfferTtl = 1
  QuoteTtl = 1
  PerRound = 1
  MaxRounds = 1
  MaxTime = 1
  SweepMayCrash = TRUE
SYMMETRY Symmetry
INVARIANTS
  TypeOK
  OneClaimant
  HeldHasHolder
  DispatchedAtAPrice
  AwardedOnce
  CompletedWithProof
PROPERTIES
  ClosedJobsStayClosed
  AnsweredStaysAnswered
  KeepsPromise
CHECK_DEADLOCK FALSE
