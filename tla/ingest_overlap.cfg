SPECIFICATION Spec
CONSTANTS
  good = good
  bad = bad
  big = big
  empty = empty
  p1 = p1
  p2 = p2
  NoBatch = NoBatch
  NoFile = NoFile
  NoParams = NoParams
  Batches = {b1}
  Files = {good, bad, big, empty}
  Params = {p1}
  Workers = {w1, w2, w3}
  Oversized = {big}
  Empty = {empty}
  Unparseable <- MCUnparseable
  Undatable <- MCUndatable
  MaxPuts = 2
  MaxConfirms = 2
  MaxFailures = 1
  MaxEdits = 0
  Timely = FALSE
SYMMETRY WorkerSymmetry
INVARIANTS TypeOK RowsOnceAndReceipted ClassifyOwed MeasuredPastUpload
  FailedHasCode RowsNeverDisowned
PROPERTIES OffTableIsStale
CHECK_DEADLOCK FALSE
