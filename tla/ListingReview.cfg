SPECIFICATION FairSpec
CONSTANTS
  p1 = p1
  p2 = p2
  Catalogs <- OneAttested
  Products = {p1, p2}
  Reviewers = {r1, r2}
  MaxIngests = 2
  MaxChanges = 1
  MaxFaults = 1
  None = None
INVARIANTS
  TypeOK
  PublishedIsBacked
  NothingIsLost
PROPERTIES
  DecidesWhatWasRead
  Settles
CHECK_DEADLOCK FALSE
