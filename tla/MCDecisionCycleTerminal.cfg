CONSTANTS
  c1 = c1
  c2 = c2
  a1 = a1
  a2 = a2
  Case = {c1, c2}
  Action = {a1}
  None = None
  LIMIT = 2
  MAX_ACTIONS = 1
  AFTER_EXECUTE = 2
  AFTER_WAIT = 2
  MaxHooks = 1
  MaxWishes = 0
  MaxFaults = 0
SPECIFICATION Spec
PROPERTY TerminalKept
