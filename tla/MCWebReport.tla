----------------------------- MODULE MCWebReport -----------------------------
(* The report: a bank statement and a ledger over two months, the rows of  *)
(* which two transactions may answer, each in its way.                     *)
EXTENDS WebReport, TLC

\* A row as it is stored.
R(i, m, v, t) ==
  [id |-> i, by |-> 0, month |-> m, place |-> "unclassified", minor |-> v, transfer |-> t]
BankRows ==
  {R(1, 0, 70, FALSE), R(2, 1, 100, FALSE), R(3, 1, -30, FALSE), R(4, 2, -20, TRUE),
   R(5, 2, 40, FALSE), R(6, 2, 15, FALSE), R(7, 1, -50, FALSE), R(8, 2, -8, FALSE),
   R(9, 1, -5, FALSE), R(10, 1, -6, TRUE)}
LedgerRows ==
  {R(11, 1, 60, FALSE), R(12, 2, -90, FALSE), R(13, 1, -7, FALSE), R(14, 1, -9, FALSE)}
MCContents ==
  <<[source |-> "bank", rows |-> BankRows], [source |-> "ledger", rows |-> LedgerRows]>>

\* The first answer of each row, by its id; the second is a reviewer's, another
\* cost line.
First ==
  <<"01", "01", "03", "01", "01", "06", "non_pnl", "unallocated", "03", "03", "01", "04", "02", "07">>
MCVerdicts == {1, 2}
MCSays == [x \in (1..14) \X MCVerdicts |-> IF x[2] = 2 THEN "05" ELSE First[x[1]]]

\* Rows answered together: a cost line and a payment out of the report.
MCChunks == {{3, 7}}
\* Nothing has landed, or the bank's rows have: some with no answer, some with
\* one, and one cost with two.
MCOpened ==
  {[imported |-> {}, classified |-> {}],
   [imported |-> {1}, classified |-> ({1, 2, 3, 7, 9, 10} \X {1}) \cup {<<9, 2>>}]}
MCPeriods == <<1, 2>>
MCCells == {<<"03", 1>>, <<"92", 1>>}
=============================================================================
