SPECIFICATION Spec

CONSTANTS
  None = None
  Forever = Forever
  Instants = {0, 1, 2}
  Works = {work}
  maxSteps = 3
  MaxTasks = 5
  MaxReturns = 1

CHECK_DEADLOCK FALSE

INVARIANT PendingIsQueued

PROPERTY ImplementsAgenda
