SPECIFICATION Spec
CONSTANTS
  b1 = b1
  b2 = b2
  e1 = e1
  e2 = e2
  k1 = k1
  k2 = k2
  sales = sales
  out = out
  NoBatch = NoBatch
  NoCategory = NoCategory
  Txns <- TwoTxns
  Batches = {b1}
  Keys = {k1, k2}
  NoKey = k2
  Entities = {e1}
  BatchOf <- PairBatchOf
  KeyOf <- OneKeyOf
  EntityOf <- OneEntityOf
  RuleAnswer <- PairRule
  Categories = {sales, out}
  OutOfPNL = out
  Workers = {w1}
  Reviewers = {u1, u2}
  ChunkSize = 2
  Faults = {"unavailable"}
  MaxDecisions = 2
  MaxFailures = 0
SYMMETRY ActorSymmetry
INVARIANTS OneLiveDecision DecisionStands MemoryIsTheDecision
PROPERTIES UndoClearsWhatItSaw
CHECK_DEADLOCK FALSE
