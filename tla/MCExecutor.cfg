CONSTANTS
  a1 = a1
  a2 = a2
  c1 = c1
  c2 = c2
  u1 = u1
  d1 = d1
  d2 = d2
  p1 = p1
  p2 = p2
  Action = {a1, a2}
  Case = {c1}
  Customer = {u1}
  Drain = {d1, d2}
  Process = {p1, p2}
  None = None
  CaseOf <- MCCaseOf
  CustomerOf <- MCCustomerOf
  Configs <- MCConfigs
  MaxAttempts = 2
  TouchCap = 1
  MaxDisturbances = 1
  MaxPrefetched = 1
SYMMETRY Symmetry
SPECIFICATION Spec
INVARIANTS ClaimExclusive NoCallAfterStop TouchBudget AttemptBudget
PROPERTY ImplementsLifecycle
CHECK_DEADLOCK FALSE
