CONSTANTS
  a1 = a1
  a2 = a2
  c1 = c1
  c2 = c2
  u1 = u1
  d1 = d1
  d2 = d2
  p1 = p1
  p2 = p2
  Action = {a1, a2}
  Case = {c1, c2}
  Customer = {u1}
  Drain = {d1, d2}
  Process = {p1}
  None = None
  CaseOf <- MCSplitCases
  CustomerOf <- MCCustomerOf
  Configs <- MCSplitConfigs
  MaxAttempts = 2
  TouchCap = 1
  MaxDisturbances = 0
  MaxPrefetched = 0
SPECIFICATION FairSpec
PROPERTY DueIsTaken
CHECK_DEADLOCK FALSE
