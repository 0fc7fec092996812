CONSTANTS
  None = None
  r1 = r1
  r2 = r2
  s1 = s1
  s2 = s2
  w1 = w1
  w2 = w2
  w3 = w3
  p1 = p1
  p2 = p2
  Captures = {1}
  Runs = {r1}
  Manifest <- OneMember
  Workers = {w1, w2}
  Payloads = {p1, p2}
  Sources = {s1}
  SourceOf <- OneSource
  MaxIdent = 1
  Exposed = {1}
SPECIFICATION Spec
SYMMETRY AnyWorker
INVARIANTS
  TypeOK
  PinnedCheckpointIsExact
  ReceiptIsExact
  SucceededHasReceipt
PROPERTIES
  FirstCheckpointWins
  DisplacedWorkerIsFenced
