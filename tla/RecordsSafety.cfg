SPECIFICATION FairSpec
CONSTANTS
  Keys = {k1}
  Bodies = {b1, b2}
  Requests = {r1, r2}
  Nobody = Nobody
  Ttl = 2
  Evidence = {e1}
  Persons = {u1}
  Runs = {x1, x2}
  TicketTtl = 1
  EvidenceAge = 1
  IdempotencyAge = 0
  MaxTime = 3
INVARIANTS
  TypeOK
  AnswersMatchTheirRequest
  NothingLeaksUnnamed
PROPERTIES
  RetriesDoNoWork
  ErasedStayErased
  OldEvidenceGoes
CHECK_DEADLOCK FALSE
