SPECIFICATION Spec

CONSTANTS
  None = None
  Holidays <- MCHolidays
  StartAt <- MCStartAt
  WorldEvents <- MCWorldEvents
  Obligation <- MCObligation
  Scenarios <- MCScenarios
  TdsRates = {1, 10, 20, 50, 100}
  Arms = {"WAIT", "RETRY_CHARGE", "SEND_PAYMENT_LINK"}
  ATTRIBUTION = 4
  WINDOW = 120
  RETENTION = 6
  MIN_VOLUME = 10
  WARMUP = 4
  CONSECUTIVE = 2
  DROP = 6
  Z2 = 1024
  BANDIT_RELOAD_TICKS = 2
  AFTER_EXECUTE = 1
  AFTER_WAIT = 2

CHECK_DEADLOCK FALSE

INVARIANTS BooksMatchWorld CountedOnce RecoveriesCredited

PROPERTIES PauseFollowsTraffic PauseIsEarned
