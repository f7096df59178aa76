SPECIFICATION Spec
CONSTANTS
  Providers = {p1}
  Rankings = {q1}
  Never = Never
  Unmeasured = Unmeasured
  Job <- MCJob
  Facts <- MCFacts
  Fleet <- MCFleet
  Papers <- MCPapers
  RoadKm = {20}
  Ttl = 1
  MaxTime = 1
INVARIANTS
  TypeOK
  EligibleOnRecentFacts
  RoadDistancesAreMeasured
CHECK_DEADLOCK FALSE
