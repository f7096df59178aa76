SPECIFICATION Spec
CONSTANTS
  Jobs = {j1}
  Providers = {p1, p2}
  Quotes = {q1}
  Workers = {w1, w2}
  None = None
  BatchSize = 1
  MaxAttempts = 1
  WorkersMayDie = TRUE
SYMMETRY Symmetry
INVARIANTS
  TypeOK
  NeverCapturedAndReleased
  CapturedForCompletedWork
  PaidToTheHolder
  LedgerFollowsGateway
  EntriesBoundedByWorkers
PROPERTIES
  DeliveredStaysDelivered
  KeepsEscrow
CHECK_DEADLOCK FALSE
