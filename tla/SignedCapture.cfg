SPECIFICATION FairSpec
CONSTANTS
  c1 = c1
  c2 = c2
  plain = plain
  ambiguous = ambiguous
  corrected = corrected
  bare = bare
  other = other
  Captures = {c1, c2}
  Payloads = {plain, ambiguous, corrected, bare, other}
  UrlOf <- Urls
  Extractions <- Gives
  TailOf <- Tails2
  Corrected = {corrected, bare}
  Ambiguous = {ambiguous}
  Bare = {bare}
  Listings = {1, 2, 3}
  Requests = {r1, r2}
  MaxFaults = 1
  None = None
  Unattached = Unattached
INVARIANTS
  TypeOK
  ReceiptExact
  CorrectionsAreDecided
  CompletionIsLast
PROPERTIES
  GateIsKept
  PublishedIsKept
  Materializes
  ImplementsLedger
CHECK_DEADLOCK FALSE
