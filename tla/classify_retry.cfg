SPECIFICATION FairSpec
CONSTANTS
  b1 = b1
  b2 = b2
  e1 = e1
  e2 = e2
  k1 = k1
  k2 = k2
  sales = sales
  out = out
  NoBatch = NoBatch
  NoCategory = NoCategory
  Txns <- ThreeTxns
  Batches = {b1, b2}
  Keys = {k1, k2}
  NoKey = k2
  Entities = {e1}
  BatchOf <- ThreeBatchOf
  KeyOf <- ThreeKeyOf
  EntityOf <- ThreeEntityOf
  RuleAnswer <- MiddleRule
  Categories = {sales, out}
  OutOfPNL = out
  Workers = {w1}
  Reviewers = {}
  ChunkSize = 2
  Faults = {"unavailable"}
  MaxDecisions = 0
  MaxFailures = 0
PROPERTIES RunEnds
CHECK_DEADLOCK FALSE
