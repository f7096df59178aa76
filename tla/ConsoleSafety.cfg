SPECIFICATION Spec
CONSTANTS
  Customers = {c1}
  Dispatchers = {d1, d2}
  Providers = {p1, p2}
  MaxProviders = 1
  MaxQuotes = 2
SYMMETRY Symmetry
INVARIANTS
  SomebodyCanAct
PROPERTIES
  StaleFormsDoNothingNew
CHECK_DEADLOCK FALSE
