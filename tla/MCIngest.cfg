CONSTANTS
  r1 = r1
  r2 = r2
  pay1 = pay1
  pay2 = pay2
  pay3 = pay3
  u1 = u1
  k1 = k1
  k2 = k2
  fail1 = fail1
  fail2 = fail2
  paid1 = paid1
  paid1again = paid1again
  refund1 = refund1
  refund2 = refund2
  paid2 = paid2
  halted = halted
  down = down
  garbled = garbled
  None = None
  Event = {fail1, fail2, paid1, paid1again, refund1, refund2, paid2, halted, down, garbled}
  Signal <- MCSignal
  Reference = {r1, r2}
  PaymentId = {pay1, pay2, pay3}
  Customer = {u1}
  Call = {k1, k2}
  TdsRates = {1, 10, 20, 50, 100}
  Tolerance = 0
  RETENTION = 3
  Limits <- MCLimits
SPECIFICATION Spec
INVARIANTS TypeOK BookedOnce PaymentKept StateMatchesLedger OrderIrrelevant
SYMMETRY Symmetry
CHECK_DEADLOCK FALSE
