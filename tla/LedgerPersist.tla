--------------------------- MODULE LedgerPersist ---------------------------
(***************************************************************************)
(* The transaction a persist job runs (persistjob.go), statement by        *)
(* statement, beside other persist jobs of the same organisation.          *)
(* IngestPipeline takes that transaction as one step and follows the batch *)
(* through its statuses; this module opens it up and follows the rows:     *)
(* which of a file's lines become transactions, which are recorded as      *)
(* duplicates (D2, D3), and which transactions are paired as two sides of  *)
(* an internal transfer (D4, D5).                                          *)
(*                                                                         *)
(* Transactions run at READ COMMITTED: every statement sees what has been  *)
(* committed when it starts, and what its own transaction has written.     *)
(* One attempt at a time works on a batch (RowsWrittenOnce of              *)
(* IngestPipelineProofs). The account the statement names exists: the      *)
(* validate job resolved it in the transaction that validated the batch.   *)
(***************************************************************************)
EXTENDS Integers, FiniteSets, Sequences

CONSTANTS
  Batches,      \* import batches that have been validated
  Uploads,      \* what a batch may hold: [entity, kind, file]
  Window,       \* TransferWindowDays
  MaxCrashes    \* bound: attempts lost to a crash of the worker

(* A file is [account, rows]; a row [day, amount, text], the amount signed *)
(* and in base currency, the text standing for the normalised description *)
(* and the references. Two batches of one file have one file_sha256.       *)
ASSUME UploadsAssumption ==
  \A u \in Uploads :
    /\ DOMAIN u = {"entity", "kind", "file"}
    /\ DOMAIN u.file = {"account", "rows"}
    /\ Len(u.file.rows) \in Nat /\ DOMAIN u.file.rows = 1 .. Len(u.file.rows)
    /\ \A n \in DOMAIN u.file.rows :
         /\ DOMAIN u.file.rows[n] = {"day", "amount", "text"}
         /\ u.file.rows[n].day \in Int
         /\ u.file.rows[n].amount \in Int

ASSUME BoundsAssumption == Window \in Nat /\ MaxCrashes \in Nat

VARIABLES
  upload,      \* import_batches: entity, source kind and file of each batch
  status,      \* import_batches.status
  ledger,      \* transactions, each named by its batch and line
  skips,       \* dedup_skips
  pairs,       \* internal_transfers with their internal_transfer_members
  dismissed,   \* the pairs whose dismissed_at is set
  pc,          \* where each batch's persist attempt stands
  line,        \* the line its loop has come to
  keep,        \* the lines it keeps: none of their hashes was found
  found,       \* the duplicates it found, with the row each matched
  paired,      \* the pairs it has inserted
  cand,        \* the candidate it is about to pair
  base,        \* history: the batches imported when its transaction began
  crashes      \* attempts lost so far

store == <<upload, status, ledger, skips, pairs, dismissed>>
attempt == <<pc, line, keep, found, paired, cand, base>>
vars == <<store, attempt, crashes>>

-----------------------------------------------------------------------------
(* Rows *)

LineNo == UNION {DOMAIN u.file.rows : u \in Uploads}
TransactionId == Batches \X LineNo

Lines(b) == DOMAIN upload[b].file.rows

(* ledger.Transaction, built from a parsed row by buildTransaction. *)
Row(t) == upload[t[1]].file.rows[t[2]]
Account(t) == <<upload[t[1]].entity, upload[t[1]].file.account>>

ContentKey(t) == <<Account(t), Row(t)>>

(* Partition: the Nth repeat of one content within the file. *)
Occurrence(t) ==
  Cardinality({n \in Lines(t[1]) : n <= t[2] /\ ContentKey(<<t[1], n>>) = ContentKey(t)})

DedupHash(t) == <<ContentKey(t), Occurrence(t)>>

Gap(t, c) ==
  IF Row(t).day <= Row(c).day THEN Row(c).day - Row(t).day ELSE Row(t).day - Row(c).day

(* TransferCandidatesForTransaction, but for the members it excludes. *)
Compatible(t, c) ==
  /\ Row(t).amount # 0
  /\ Row(c).amount = - Row(t).amount
  /\ upload[c[1]].entity = upload[t[1]].entity
  /\ upload[c[1]].kind = upload[t[1]].kind
  /\ Account(c) # Account(t)
  /\ Gap(t, c) <= Window

Sides(P) == {p.out : p \in P} \cup {p.in : p \in P}

\* Mutant: the row at hand is taken for the paying side whatever its sign.
PairOfUnsigned(t, c) == [out |-> t, in |-> c]

(* The out side is the one money leaves. *)
PairOf(t, c) ==
  IF Row(t).amount > 0 THEN [out |-> c, in |-> t] ELSE [out |-> t, in |-> c]

-----------------------------------------------------------------------------
(* pc to cand are one attempt's open transaction; none of what it wrote is *)
(* visible to another before it commits.                                   *)

Imported == {b \in Batches : status[b] = "imported"}

Init ==
  /\ upload \in [Batches -> Uploads]
  /\ status = [b \in Batches |-> "validated"]
  /\ ledger = {} /\ skips = {} /\ pairs = {} /\ dismissed = {}
  /\ pc = [b \in Batches |-> "idle"]
  /\ line = [b \in Batches |-> 1]
  /\ keep = [b \in Batches |-> {}]
  /\ found = [b \in Batches |-> {}]
  /\ paired = [b \in Batches |-> {}]
  /\ cand = [b \in Batches |-> <<>>]
  /\ base = [b \in Batches |-> {}]
  /\ crashes = 0

(* The transaction ends, committed or rolled back, and the job goes on at p. *)
End(b, p) ==
  /\ pc' = [pc EXCEPT ![b] = p]
  /\ line' = [line EXCEPT ![b] = 1]
  /\ keep' = [keep EXCEPT ![b] = {}]
  /\ found' = [found EXCEPT ![b] = {}]
  /\ paired' = [paired EXCEPT ![b] = {}]
  /\ cand' = [cand EXCEPT ![b] = <<>>]

(* The job's early return leaves a batch that is not validated alone. *)
Begin(b) ==
  /\ status[b] = "validated" /\ pc[b] = "idle"
  /\ End(b, "lookup")
  /\ base' = [base EXCEPT ![b] = Imported]
  /\ UNCHANGED <<store, crashes>>

\* Mutant: the lookup is scoped to the batch it runs for.
SameHashInBatch(t) == {s \in ledger : s[1] = t[1] /\ DedupHash(s) = DedupHash(t)}

(* FindTransactionByDedupHash. Among several rows with the hash the query  *)
(* takes the most recent; any may be the one.                              *)
SameHash(t) == {s \in ledger : DedupHash(s) = DedupHash(t)}

\* Mutant: the duplicate is counted and the row it matched is not kept.
LookupUnnamed(b) ==
  /\ pc[b] = "lookup" /\ line[b] \in Lines(b)
  /\ line' = [line EXCEPT ![b] = @ + 1]
  /\ \/ /\ SameHash(<<b, line[b]>>) = {}
        /\ keep' = [keep EXCEPT ![b] = @ \cup {line[b]}]
        /\ UNCHANGED found
     \/ /\ SameHash(<<b, line[b]>>) # {}
        /\ found' = [found EXCEPT ![b] = @ \cup {<<line[b], <<>>>>}]
        /\ UNCHANGED keep
  /\ UNCHANGED <<store, pc, paired, cand, base, crashes>>

(* Is the next line stored already? *)
Lookup(b) ==
  /\ pc[b] = "lookup" /\ line[b] \in Lines(b)
  /\ line' = [line EXCEPT ![b] = @ + 1]
  /\ \/ /\ SameHash(<<b, line[b]>>) = {}
        /\ keep' = [keep EXCEPT ![b] = @ \cup {line[b]}]
        /\ UNCHANGED found
     \/ /\ \E s \in SameHash(<<b, line[b]>>) :
             found' = [found EXCEPT ![b] = @ \cup {<<line[b], s>>}]
        /\ UNCHANGED keep
  /\ UNCHANGED <<store, pc, paired, cand, base, crashes>>

(* InsertSkip for each duplicate, then ledger.Insert; the pairing loop runs *)
(* over what was inserted, in the file's order.                            *)
Insert(b) ==
  /\ pc[b] = "lookup" /\ line[b] \notin Lines(b)
  /\ pc' = [pc EXCEPT ![b] = "pair"]
  /\ line' = [line EXCEPT ![b] = 1]
  /\ UNCHANGED <<store, keep, found, paired, cand, base, crashes>>

(* What a statement of b's transaction sees once its rows are inserted. *)
Visible(b) == ledger \cup {<<b, n>> : n \in keep[b]}
Taken(b) == Sides(pairs) \cup Sides(paired[b])

\* Mutant: only money arriving is looked up; a payment stored later than its
\* other side stays alone.
CandidatesForIncome(b, t) ==
  {c \in Visible(b) \ Taken(b) : Row(t).amount > 0 /\ Compatible(t, c)}

(* TransferCandidatesForTransaction: free rows of another account. *)
Candidates(b, t) == {c \in Visible(b) \ Taken(b) : Compatible(t, c)}

(* ORDER BY abs(booked_on - booked_on), id: ids are random, so any of the  *)
(* nearest may be the first.                                               *)
Nearest(t, C) == {c \in C : \A d \in C : Gap(t, c) <= Gap(t, d)}

(* DetectAndPair's read. A line that is kept is a row that was inserted. *)
PairRead(b) ==
  /\ pc[b] = "pair" /\ line[b] \in keep[b]
  /\ \E c \in Nearest(<<b, line[b]>>, Candidates(b, <<b, line[b]>>)) :
       cand' = [cand EXCEPT ![b] = c]
  /\ pc' = [pc EXCEPT ![b] = "write"]
  /\ UNCHANGED <<store, line, keep, found, paired, base, crashes>>

(* Nothing to pair the row with, or the line was skipped. *)
PairNone(b) ==
  /\ pc[b] = "pair" /\ line[b] \in Lines(b)
  /\ line[b] \in keep[b] => Candidates(b, <<b, line[b]>>) = {}
  /\ line' = [line EXCEPT ![b] = @ + 1]
  /\ UNCHANGED <<store, pc, keep, found, paired, cand, base, crashes>>

(* The member row another open transaction inserted for the same candidate *)
(* makes this insert wait for that transaction to end.                     *)
WaitsFor(b, o) == pc[b] = "write" /\ o # b /\ cand[b] \in Sides(paired[o])

\* Mutant: members without their primary key.
PairWriteNoKey(b) ==
  /\ pc[b] = "write"
  /\ pc' = [pc EXCEPT ![b] = "pair"]
  /\ line' = [line EXCEPT ![b] = @ + 1]
  /\ paired' = [paired EXCEPT ![b] = @ \cup {PairOf(<<b, line[b]>>, cand[b])}]
  /\ cand' = [cand EXCEPT ![b] = <<>>]
  /\ UNCHANGED <<store, keep, found, base, crashes>>

(* InsertInternalTransferPair. *)
PairWrite(b) ==
  /\ pc[b] = "write"
  /\ \A o \in Batches : ~ WaitsFor(b, o)
  /\ cand[b] \notin Sides(pairs)
  /\ pc' = [pc EXCEPT ![b] = "pair"]
  /\ line' = [line EXCEPT ![b] = @ + 1]
  /\ paired' = [paired EXCEPT ![b] = @ \cup {PairOf(<<b, line[b]>>, cand[b])}]
  /\ cand' = [cand EXCEPT ![b] = <<>>]
  /\ UNCHANGED <<store, keep, found, base, crashes>>

(* The primary key of internal_transfer_members refuses a candidate that   *)
(* was committed to another pair meanwhile, and the error rolls the whole  *)
(* job back for River to run again.                                        *)
PairRefused(b) ==
  /\ pc[b] = "write" /\ cand[b] \in Sides(pairs)
  /\ End(b, "idle")
  /\ UNCHANGED <<store, base, crashes>>

(* PostgreSQL ends a cycle of waits by failing one of the transactions in it. *)
DeadlockVictim(b) ==
  /\ \E S \in SUBSET Batches :
       /\ b \in S
       /\ \A x \in S : (\E y \in S : WaitsFor(x, y)) /\ (\E y \in S : WaitsFor(y, x))
  /\ End(b, "idle")
  /\ UNCHANGED <<store, base, crashes>>

(* import_batches_file_once *)
FileOnceViolation(b) == \E o \in Imported : o # b /\ upload[o].file = upload[b].file

(* SetImportBatchStatus, the classification job, and the commit. *)
Commit(b) ==
  /\ pc[b] = "pair" /\ line[b] \notin Lines(b)
  /\ ~ FileOnceViolation(b)
  /\ status' = [status EXCEPT ![b] = "imported"]
  /\ ledger' = Visible(b)
  /\ skips' = skips \cup {[batch |-> b, line |-> f[1], matched |-> f[2]] : f \in found[b]}
  /\ pairs' = pairs \cup paired[b]
  /\ End(b, "idle")
  /\ UNCHANGED <<upload, dismissed, base, crashes>>

\* Mutant: the refusal is recorded and what the transaction wrote stays.
CommitRefusedKeeps(b) ==
  /\ pc[b] = "pair" /\ line[b] \notin Lines(b)
  /\ FileOnceViolation(b)
  /\ ledger' = Visible(b)
  /\ End(b, "lost")
  /\ UNCHANGED <<upload, status, skips, pairs, dismissed, base, crashes>>

(* The index refuses the status, and everything is rolled back. *)
CommitRefused(b) ==
  /\ pc[b] = "pair" /\ line[b] \notin Lines(b)
  /\ FileOnceViolation(b)
  /\ End(b, "lost")
  /\ UNCHANGED <<store, base, crashes>>

(* fail(failureAlreadyImported), a transaction of its own. *)
FailAlreadyImported(b) ==
  /\ pc[b] = "lost"
  /\ status' = [status EXCEPT ![b] = "failed"]
  /\ End(b, "idle")
  /\ UNCHANGED <<upload, ledger, skips, pairs, dismissed, base, crashes>>

(* The worker dies: its transaction is rolled back, River runs the job again. *)
Crash(b) ==
  /\ pc[b] # "idle" /\ crashes < MaxCrashes
  /\ crashes' = crashes + 1
  /\ End(b, "idle")
  /\ UNCHANGED <<store, base>>

(* Dismiss: a second dismissal finds no active pair and changes nothing. *)
Dismiss ==
  /\ \E p \in pairs \ dismissed : dismissed' = dismissed \cup {p}
  /\ UNCHANGED <<upload, status, ledger, skips, pairs, attempt, crashes>>

Persist(b) ==
  \/ Begin(b) \/ Lookup(b) \/ Insert(b) \/ PairRead(b) \/ PairNone(b)
  \/ PairWrite(b) \/ PairRefused(b) \/ DeadlockVictim(b)
  \/ Commit(b) \/ CommitRefused(b) \/ FailAlreadyImported(b)

Next == Dismiss \/ \E b \in Batches : Persist(b) \/ Crash(b)

Spec == Init /\ [][Next]_vars

-----------------------------------------------------------------------------
(* Properties *)

Pair == [out : TransactionId, in : TransactionId]

(* Every table holds rows of its schema, and an open transaction what its  *)
(* place in the persist job's code allows.                                 *)
TypeOK ==
  /\ upload \in [Batches -> Uploads]
  /\ status \in [Batches -> {"validated", "imported", "failed"}]
  /\ ledger \subseteq TransactionId
  /\ skips \subseteq [batch : Batches, line : LineNo, matched : TransactionId]
  /\ pairs \subseteq Pair
  /\ dismissed \subseteq pairs
  /\ pc \in [Batches -> {"idle", "lookup", "pair", "write", "lost"}]
  /\ line \in [Batches -> Nat]
  /\ keep \in [Batches -> SUBSET LineNo]
  /\ found \in [Batches -> SUBSET (LineNo \X TransactionId)]
  /\ paired \in [Batches -> SUBSET Pair]
  /\ cand \in [Batches -> TransactionId \cup {<<>>}]
  /\ \A b \in Batches : pc[b] = "write" => cand[b] \in TransactionId /\ line[b] \in LineNo
  /\ base \in [Batches -> SUBSET Batches]
  /\ crashes \in 0 .. MaxCrashes

SkippedLines(b) == {s.line : s \in {k \in skips : k.batch = b}}
LedgerLines(b) == {n \in Lines(b) : <<b, n>> \in ledger}

(* GetDedupSummary can be trusted: every line of an imported batch's file  *)
(* is a transaction or a recorded skip and never both, a batch that is not *)
(* imported left neither, and a skip names a stored row of another batch   *)
(* with the same content, however the attempts of overlapping files were   *)
(* interleaved, rolled back and run again.                                 *)
LinesAccounted ==
  /\ \A b \in Batches :
       /\ LedgerLines(b) \cap SkippedLines(b) = {}
       /\ LedgerLines(b) \cup SkippedLines(b) = IF status[b] = "imported" THEN Lines(b) ELSE {}
  /\ \A s \in skips : /\ s.matched \in ledger /\ s.matched[1] # s.batch
                      /\ DedupHash(s.matched) = DedupHash(<<s.batch, s.line>>)

(* Neither transaction was committed when the other batch's began. *)
Raced(b, o) == b # o /\ b \notin base[o] /\ o \notin base[b]

(* D3 lets a row in twice only when the two persists ran at the same time: *)
(* a row imported before a file was opened is never imported from it again. *)
DuplicatesRaced ==
  \A s, t \in ledger : s # t /\ DedupHash(s) = DedupHash(t) => Raced(s[1], t[1])

(* A transaction is one side of one internal transfer at most, dismissed   *)
(* pairs included, whichever jobs reached for it at once.                  *)
OnePairEach ==
  \A p, q \in pairs : p # q => {p.out, p.in} \cap {q.out, q.in} = {}

(* The two sides of a pair are stored rows of one entity and one source    *)
(* kind, on two accounts, cancel each other to the unit, and are within    *)
(* the window: leaving both out of a report leaves its total as it was.    *)
PairsCancel ==
  \A p \in pairs : /\ p.out \in ledger /\ p.in \in ledger
                   /\ Row(p.out).amount < 0 /\ Compatible(p.out, p.in)

(* A missed pair "silently inflates revenue" (00012_dedup.sql): two stored *)
(* rows that would pair stay unpaired only if their persists raced.        *)
MissedPairsRaced ==
  \A s, t \in ledger \ Sides(pairs) : Compatible(s, t) => Raced(s[1], t[1])
=============================================================================
