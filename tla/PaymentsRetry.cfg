SPECIFICATION FairSpec
CONSTANTS
  Jobs = {j1}
  Providers = {p1}
  Quotes = {q1}
  Workers = {w1}
  None = None
  BatchSize = 2
  MaxAttempts = 3
  WorkersMayDie = FALSE
INVARIANTS
  GivenUpAfterMaxAttempts
PROPERTIES
  MessagesSettle
CHECK_DEADLOCK FALSE
