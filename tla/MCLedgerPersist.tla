-------------------------- MODULE MCLedgerPersist --------------------------
(* Small instances of LedgerPersist for TLC. *)
EXTENDS LedgerPersist

File(account, rows) == [account |-> account, rows |-> rows]
R(day, amount, text) == [day |-> day, amount |-> amount, text |-> text]
Bank(file) == [entity |-> "e1", kind |-> "bank", file |-> file]

(* Two payments out, and the statement that overlaps it: one line it has   *)
(* already, repeated, so that the second is another payment.               *)
Out == File("A", <<R(1, -5, "x"), R(2, -7, "x")>>)
Overlap == File("A", <<R(1, -5, "x"), R(1, -5, "x")>>)

(* The money arriving on two other accounts, in opposite line orders. *)
InB == File("B", <<R(1, 5, "x"), R(3, 7, "x")>>)
InC == File("C", <<R(2, 7, "x"), R(2, 5, "x")>>)

(* A row out of the window, and a row of no amount. *)
Late == File("B", <<R(9, 5, "x"), R(1, 0, "x")>>)

MCUploads ==
  {Bank(f) : f \in {Out, Overlap, InB, InC, Late}} \cup
  {[entity |-> "e1", kind |-> "ledger", file |-> File("C", <<R(1, 5, "x")>>)]}
=============================================================================
