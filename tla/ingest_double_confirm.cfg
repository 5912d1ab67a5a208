SPECIFICATION Spec
CONSTANTS
  good = good
  bad = bad
  big = big
  empty = empty
  p1 = p1
  p2 = p2
  NoBatch = NoBatch
  NoFile = NoFile
  NoParams = NoParams
  Batches = {b1}
  Files = {good}
  Params = {p1}
  Workers = {w1, w2}
  Oversized = {}
  Empty = {}
  Unparseable <- MCUnparseable
  Undatable <- NoPairs
  MaxPuts = 1
  MaxConfirms = 2
  MaxFailures = 0
  MaxEdits = 0
  Timely = TRUE
INVARIANTS LedgerRowsMeanImported
CHECK_DEADLOCK FALSE
