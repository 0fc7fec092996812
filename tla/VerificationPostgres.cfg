CONSTANTS
  None = None
  u1 = u1
  k1 = k1
  w1 = w1
  w2 = w2
  t1 = t1
  t2 = t2
  t3 = t3
  Outcomes = {"verified"}
  RunIds = {1}
  Listings = {1}
  OwnerOf <- Owners
  Requests <- OnceAsked
  Workers = {w1, w2}
  Tokens = {t1, t2, t3}
SPECIFICATION PgSpec
INVARIANTS
  CancelledRunIsSettled
