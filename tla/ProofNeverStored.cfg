SPECIFICATION Spec
CONSTANTS
  Keys = {k1}
  Bodies = {b1, b2}
  Requests = {r1}
  Nobody = Nobody
  Ttl = 2
  Evidence = {e1}
  Persons = {u1}
  Runs = {x1}
  TicketTtl = 1
  EvidenceAge = 1
  IdempotencyAge = 0
  MaxTime = 3
INVARIANTS UploadedIsThere
CHECK_DEADLOCK FALSE
