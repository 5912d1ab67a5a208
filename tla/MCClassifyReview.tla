-------------------------- MODULE MCClassifyReview --------------------------
(* Instances of ClassifyReview for TLC. *)
EXTENDS ClassifyReview, TLC

CONSTANTS b1, b2, e1, e2, k1, k2, sales, out

\* Two batches of one counterparty: what the first one's decision teaches is
\* asked about when the second is classified.
TwoTxns      == 1 .. 2
TwoBatchOf   == 1 :> b1 @@ 2 :> b2
OneKeyOf     == [t \in TwoTxns |-> k1]
OneEntityOf  == [t \in TwoTxns |-> e1]
TwoEntityOf  == 1 :> e1 @@ 2 :> e2
NoRules      == [t \in TwoTxns |-> NoCategory]

\* Both rows in one batch, the second answered by a rule.
PairBatchOf == [t \in TwoTxns |-> b1]
PairRule    == 1 :> NoCategory @@ 2 :> sales

\* The same counterparty in both batches, and between its rows one that a rule
\* answers, of no known counterparty.
ThreeTxns     == 1 .. 3
ThreeBatchOf  == 1 :> b1 @@ 2 :> b1 @@ 3 :> b2
ThreeKeyOf    == 1 :> k1 @@ 2 :> k2 @@ 3 :> k1
ThreeEntityOf == [t \in ThreeTxns |-> e1]
MiddleRule    == [t \in ThreeTxns |-> IF t = 2 THEN sales ELSE NoCategory]

ActorSymmetry == Permutations(Workers) \cup Permutations(Reviewers)
=============================================================================
