SPECIFICATION Spec
CONSTANTS
  Jobs = {j1}
  Providers = {p1}
  Quotes = {q1}
  Workers = {w1}
  None = None
  BatchSize = 1
  MaxAttempts = 2
  WorkersMayDie = FALSE
INVARIANTS CancelledJobsHoldNothing
CHECK_DEADLOCK FALSE
