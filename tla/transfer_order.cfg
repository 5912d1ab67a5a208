SPECIFICATION BothSpec
CONSTANTS
  b1 = b1
  b2 = b2
  b3 = b3
  Batches = {b1, b2, b3}
  Uploads <- MCUploads
  Window = 3
  MaxCrashes = 0
INVARIANTS
  PairsOrderFree
CHECK_DEADLOCK FALSE
