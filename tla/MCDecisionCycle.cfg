CONSTANTS
  c1 = c1
  c2 = c2
  a1 = a1
  a2 = a2
  Case = {c1}
  Action = {a1, a2}
  None = None
  LIMIT = 1
  MAX_ACTIONS = 1
  AFTER_EXECUTE = 1
  AFTER_WAIT = 2
  MaxHooks = 2
  MaxWishes = 2
  MaxFaults = 1
SPECIFICATION Spec
SYMMETRY MCActions
INVARIANTS DecidesOnlyLive NotDecidedWhileHuman SpacedActions GatesSeeTheRow
