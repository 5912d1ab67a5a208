-------------------------- MODULE MCTransferOrder --------------------------
(***************************************************************************)
(* The same validated batches persisted twice, from empty, by two copies   *)
(* of LedgerPersist: the second starts when the first has settled. What    *)
(* one import order pairs is compared with what another pairs.             *)
(***************************************************************************)
EXTENDS LedgerPersist

VARIABLES status2, ledger2, skips2, pairs2, dismissed2,
          pc2, line2, keep2, found2, paired2, cand2, base2, crashes2

own2 == <<status2, ledger2, skips2, pairs2, dismissed2,
          pc2, line2, keep2, found2, paired2, cand2, base2, crashes2>>

Again == INSTANCE LedgerPersist WITH
  status <- status2, ledger <- ledger2, skips <- skips2, pairs <- pairs2,
  dismissed <- dismissed2, pc <- pc2, line <- line2, keep <- keep2, found <- found2,
  paired <- paired2, cand <- cand2, base <- base2, crashes <- crashes2

File(account, rows) == [account |-> account, rows |-> rows]
Bank(file) == [entity |-> "e1", kind |-> "bank", file |-> file]
R(day, amount) == [day |-> day, amount |-> amount, text |-> "x"]

(* One payment out, and two of its amount coming in: a day later on one    *)
(* account and the same day on another. No two candidates are as near.     *)
MCUploads ==
  {Bank(File("A", <<R(1, -5)>>)), Bank(File("B", <<R(2, 5)>>)), Bank(File("C", <<R(1, 5)>>))}

Settled(st) == \A b \in Batches : st[b] # "validated"

BothInit == Init /\ Again!Init /\ \A b, o \in Batches : b # o => upload[b] # upload[o]

BothNext ==
  \/ Next /\ UNCHANGED own2
  \/ Settled(status) /\ Again!Next /\ UNCHANGED vars

BothSpec == BothInit /\ [][BothNext]_<<vars, own2>>

(* "The system SHALL produce the same pairs regardless of the order in     *)
(* which rows are imported" (openspec/changes/add-dedup, spec.md:131): the *)
(* same batches, imported one after the other in two orders, are left with *)
(* the same pairs.                                                         *)
PairsOrderFree ==
  (/\ Settled(status) /\ Settled(status2) /\ ledger = ledger2
   /\ \A b, o \in Batches : ~ Raced(b, o)
                                /\ ~ Again!Raced(b, o)) => pairs = pairs2
=============================================================================
