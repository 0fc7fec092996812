CONSTANTS
  None = None
  u1 = u1
  k1 = k1
  k2 = k2
  w1 = w1
  w2 = w2
  t1 = t1
  t2 = t2
  t3 = t3
  Outcomes = {"verified"}
  RunIds = {1, 2}
  Listings = {1, 2}
  OwnerOf <- Owners
  Requests <- PairAndOne
  Workers = {w1, w2}
  Tokens = {t1, t2, t3}
  MaxFaults = 2
SPECIFICATION Works
PROPERTIES
  RunsEnd
