CONSTANTS
  t1 = t1
  t2 = t2
  p1 = p1
  p2 = p2
  Ticker = {t1, t2}
  Process = {p1, p2}
  Placements <- MCPlacements
  TICK_LEASE = 2
  Delay = 1
  MaxCrashes = 1
SPECIFICATION FairSpec
INVARIANTS OneTick HaltHonoured
PROPERTY LeaseNotStuck
