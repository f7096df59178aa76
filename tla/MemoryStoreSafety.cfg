SPECIFICATION Spec
CONSTANTS
  Jobs = {j1}
  Providers = {p1, p2}
  Quotes = {q1}
  None = None
  Followed = {"offer.declined", "dispatch.escalated"}
  OfferTtl = 1
  QuoteTtl = 1
  MaxTime = 1
SYMMETRY Symmetry
INVARIANTS
  TypeOK
  HistoryExplainsStatus
  NothingGoesUnsaid
PROPERTIES
  SightIsKept
  KeepsPromise
CHECK_DEADLOCK FALSE
