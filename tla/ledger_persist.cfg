SPECIFICATION Spec
CONSTANTS
  b1 = b1
  b2 = b2
  b3 = b3
  Batches = {b1, b2, b3}
  Uploads <- MCUploads
  Window = 3
  MaxCrashes = 1
INVARIANTS
  TypeOK
  LinesAccounted
  DuplicatesRaced
  OnePairEach
  PairsCancel
  MissedPairsRaced
CHECK_DEADLOCK FALSE
