CONSTANTS
  w1 = w1
  w2 = w2
  w3 = w3
  w4 = w4
  m1 = m1
  m2 = m2
  p1 = p1
  p2 = p2
  Merchant = {m1, m2}
  Writer = {w1, w2, w3, w4}
  Process = {p1, p2}
  MerchantOf <- MCMerchantOf
  Placements <- MCPlacements
  APPEND_RETRIES = 2
  MaxFaults = 1
SPECIFICATION FairSpec
INVARIANTS TypeOK ChainIntact LosesToOthers
PROPERTIES ImplementsLog Settles
CHECK_DEADLOCK FALSE
