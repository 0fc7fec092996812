CONSTANTS
  None = None
  r1 = r1
  r2 = r2
  s1 = s1
  s2 = s2
  w1 = w1
  w2 = w2
  w3 = w3
  p1 = p1
  p2 = p2
  Captures = {1, 2}
  Runs = {r1}
  Manifest <- TwoMembers
  Workers = {w1}
  Payloads = {p1}
  Sources = {s1, s2}
  SourceOf <- OwnSources
  MaxIdent = 1
  Exposed = {1}
SPECIFICATION Spec
INVARIANTS
  ReceiptCompletesLedger
