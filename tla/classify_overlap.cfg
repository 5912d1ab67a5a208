SPECIFICATION Spec
CONSTANTS
  b1 = b1
  b2 = b2
  e1 = e1
  e2 = e2
  k1 = k1
  k2 = k2
  sales = sales
  out = out
  NoBatch = NoBatch
  NoCategory = NoCategory
  Txns <- ThreeTxns
  Batches = {b1, b2}
  Keys = {k1, k2}
  NoKey = k2
  Entities = {e1}
  BatchOf <- ThreeBatchOf
  KeyOf <- ThreeKeyOf
  EntityOf <- ThreeEntityOf
  RuleAnswer <- MiddleRule
  Categories = {sales, out}
  OutOfPNL = out
  Workers = {w1, w2}
  Reviewers = {u1}
  ChunkSize = 1
  Faults = {"rejected", "bad_matcher"}
  MaxDecisions = 1
  MaxFailures = 1
SYMMETRY ActorSymmetry
INVARIANTS TypeOK EngineAnswersOnce RunAccounts
CHECK_DEADLOCK FALSE
