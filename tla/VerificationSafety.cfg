CONSTANTS
  None = None
  u1 = u1
  u2 = u2
  k1 = k1
  k2 = k2
  w1 = w1
  w2 = w2
  t1 = t1
  t2 = t2
  t3 = t3
  t4 = t4
  Outcomes = {"verified", "failed"}
  RunIds = {1, 2}
  Listings = {1, 2, 3}
  OwnerOf <- Owners
  Requests <- Overlapping
  Workers = {w1, w2}
  Tokens = {t1, t2, t3, t4}
SPECIFICATION Spec
SYMMETRY Interchangeable
INVARIANTS
  TypeOK
  OneActivePerListing
  InRequestOrder
  RunTellsItems
PROPERTIES
  EndIsFinal
  ResultIsHolders
  ImplementsLedger
