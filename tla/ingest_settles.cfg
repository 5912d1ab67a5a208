SPECIFICATION FairSpec
CONSTANTS
  good = good
  bad = bad
  big = big
  empty = empty
  p1 = p1
  p2 = p2
  NoBatch = NoBatch
  NoFile = NoFile
  NoParams = NoParams
  Batches = {b1}
  Files = {good, bad, big, empty}
  Params = {p1, p2}
  Workers = {w1, w2}
  Oversized = {big}
  Empty = {empty}
  Unparseable <- MCUnparseable
  Undatable <- NoPairs
  MaxPuts = 1
  MaxConfirms = 1
  MaxFailures = 0
  MaxEdits = 1
  Timely = TRUE
PROPERTIES LeavesAwaiting Settles
CHECK_DEADLOCK FALSE
