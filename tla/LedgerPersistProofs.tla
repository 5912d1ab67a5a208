------------------------ MODULE LedgerPersistProofs ------------------------
(***************************************************************************)
(* The persist transaction's promises, for every set of batches, every     *)
(* content of their files and every interleaving.                          *)
(*                                                                         *)
(* What is committed is safe because of what each open transaction knows   *)
(* about it: WorkInv says that of one transaction, Apart that no two of    *)
(* them hold a member row of the same transaction, and StoreInv is the     *)
(* properties themselves with the facts about committed rows they need.    *)
(***************************************************************************)
EXTENDS LedgerPersist, FiniteSetTheorems, TLAPS

FoundLines(b) == {f[1] : f \in found[b]}

(* The line loop: what the job knows of the lines it has passed. *)
Loop(b) ==
  /\ line[b] >= 1
  /\ pc[b] # "idle" => status[b] = "validated"
  /\ pc[b] \in {"idle", "lost"} =>
       keep[b] = {} /\ found[b] = {} /\ paired[b] = {}
  /\ pc[b] = "lookup" =>
       /\ paired[b] = {}
       /\ keep[b] \cup FoundLines(b) = {n \in Lines(b) : n < line[b]}
  /\ pc[b] \in {"pair", "write"} =>
       keep[b] \cup FoundLines(b) = Lines(b)
  /\ keep[b] \cap FoundLines(b) = {}

(* The duplicates it found are stored; what it keeps was not stored when   *)
(* the transaction began.                                                  *)
Hashes(b) ==
  /\ \A f \in found[b] : f[2] \in ledger /\ DedupHash(f[2]) = DedupHash(<<b, f[1]>>)
  /\ \A n \in keep[b], s \in ledger :
       DedupHash(s) = DedupHash(<<b, n>>) => s[1] \notin base[b]

(* The candidate it has chosen, and the pairs it has inserted: each joins  *)
(* a kept line that was passed with a stored row no committed pair has.    *)
Matches(b) ==
  /\ pc[b] = "write" => /\ line[b] \in keep[b]
                             /\ cand[b] \in ledger \ Sides(paired[b])
                             /\ Compatible(<<b, line[b]>>, cand[b])
  /\ \A p \in paired[b] :
       \E n \in keep[b], c \in ledger \ Sides(pairs) :
         /\ n < line[b]
         /\ Compatible(<<b, n>>, c)
         /\ p = PairOf(<<b, n>>, c)
  /\ \A p, q \in paired[b] : p # q => {p.out, p.in} \cap {q.out, q.in} = {}

(* A kept line that was passed and is in no pair had no free candidate     *)
(* among the rows stored when the transaction began.                       *)
Missed(b) ==
  pc[b] \in {"pair", "write"} =>
    \A n \in keep[b], s \in ledger :
      n < line[b] /\ Compatible(<<b, n>>, s) /\ s[1] \in base[b] =>
        <<b, n>> \in Sides(paired[b]) \/ s \in Sides(pairs) \cup Sides(paired[b])

WorkInv(b) == Loop(b) /\ Hashes(b) /\ Matches(b) /\ Missed(b)

(* Member rows no other open transaction has: their keys keep two apart. *)
Apart ==
  \A b, o \in Batches : b # o => Sides(paired[b]) \cap Sides(paired[o]) = {}

StoreInv ==
  /\ \A t \in ledger : t[1] \in Imported /\ t[2] \in Lines(t[1])
  /\ \A b \in Batches : base[b] \subseteq Imported /\ b \notin base[b]
  /\ LinesAccounted
  /\ DuplicatesRaced
  /\ OnePairEach
  /\ PairsCancel
  /\ MissedPairsRaced

LedgerInv == TypeOK /\ StoreInv /\ Apart /\ \A b \in Batches : WorkInv(b)

-----------------------------------------------------------------------------
(* Facts about rows *)

(* Lines are numbered from 1 to the length of the file. *)
LEMMA LinesOfFile ==
  ASSUME TypeOK, NEW b \in Batches
  PROVE  /\ Len(upload[b].file.rows) \in Nat
         /\ Lines(b) = 1 .. Len(upload[b].file.rows)
         /\ Lines(b) \subseteq LineNo
         /\ \A n \in Lines(b) : /\ Row(<<b, n>>).day \in Int /\ Row(<<b, n>>).amount \in Int
                                /\ <<b, n>> \in TransactionId
<1>1. upload[b] \in Uploads
  BY DEF TypeOK
<1> QED
  BY <1>1, UploadsAssumption DEF Lines, LineNo, Row, TransactionId

(* What an operator says of rows depends on the uploads alone. *)
LEMMA RowsStable ==
  ASSUME UNCHANGED upload
  PROVE  /\ \A b : Lines(b)' = Lines(b)
         /\ \A t : DedupHash(t)' = DedupHash(t)
         /\ \A t, c : Compatible(t, c)' = Compatible(t, c)
         /\ \A t, c : PairOf(t, c)' = PairOf(t, c)
         /\ \A t : Row(t)' = Row(t)
<1>1. \A b : Lines(b)' = Lines(b)
  BY DEF Lines
<1>2. \A t : Row(t)' = Row(t)
  BY DEF Row
<1>3. \A t : Account(t)' = Account(t)
  BY DEF Account
<1>4. \A t : ContentKey(t)' = ContentKey(t)
  BY <1>2, <1>3 DEF ContentKey
<1>5. \A t : DedupHash(t)' = DedupHash(t)
  BY <1>1, <1>4 DEF DedupHash, Occurrence
<1>6. \A t, c : Compatible(t, c)' = Compatible(t, c)
  BY <1>2, <1>3 DEF Compatible, Gap
<1>7. \A t, c : PairOf(t, c)' = PairOf(t, c)
  BY <1>2 DEF PairOf
<1> QED
  BY <1>1, <1>2, <1>5, <1>6, <1>7

(* dedup.Partition: two lines of one file never share a hash. *)
LEMMA HashUnique ==
  ASSUME TypeOK, NEW b \in Batches, NEW m \in Lines(b), NEW n \in Lines(b), m < n
  PROVE  DedupHash(<<b, m>>) # DedupHash(<<b, n>>)
<1> DEFINE Upto(k) == {i \in Lines(b) : i <= k /\ ContentKey(<<b, i>>) = ContentKey(<<b, n>>)}
<1>1. Lines(b) \subseteq Nat /\ Len(upload[b].file.rows) \in Nat
      /\ Lines(b) = 1 .. Len(upload[b].file.rows)
  BY LinesOfFile
<1>2. CASE ContentKey(<<b, m>>) # ContentKey(<<b, n>>)
  BY <1>2 DEF DedupHash
<1>3. CASE ContentKey(<<b, m>>) = ContentKey(<<b, n>>)
  <2>1. IsFiniteSet(Lines(b))
    <3>1. 1 \in Int /\ Len(upload[b].file.rows) \in Int
      BY <1>1
    <3>2. IsFiniteSet(1 .. Len(upload[b].file.rows))
      BY <3>1, FS_Interval
    <3> QED
      BY <1>1, <3>2
  <2>2. IsFiniteSet(Upto(n))
    BY <2>1, FS_Subset
  <2>3. Upto(m) \in SUBSET Upto(n) /\ n \in Upto(n) /\ n \notin Upto(m)
    BY <1>1
  <2>4. Cardinality(Upto(m)) # Cardinality(Upto(n))
    BY <2>2, <2>3, FS_Subset
  <2>5. Occurrence(<<b, m>>) = Cardinality(Upto(m)) /\ Occurrence(<<b, n>>) = Cardinality(Upto(n))
    BY <1>3 DEF Occurrence
  <2> QED
    BY <2>4, <2>5 DEF DedupHash
<1> QED
  BY <1>2, <1>3

(* Two rows are candidates of each other or neither is. *)
LEMMA CompatibleSym ==
  ASSUME TypeOK, NEW s \in TransactionId, NEW t \in TransactionId,
         s[2] \in Lines(s[1]), t[2] \in Lines(t[1]), Compatible(s, t)
  PROVE  Compatible(t, s)
<1>1. /\ Row(s).day \in Int /\ Row(s).amount \in Int
      /\ Row(t).day \in Int /\ Row(t).amount \in Int
  <2>1. s = <<s[1], s[2]>> /\ t = <<t[1], t[2]>> /\ s[1] \in Batches /\ t[1] \in Batches
    BY DEF TransactionId
  <2> QED
    BY <2>1, LinesOfFile
<1> QED
  BY <1>1 DEF Compatible, Gap

(* The sides of a pair. *)
LEMMA PairSides ==
  ASSUME NEW t, NEW c
  PROVE  {PairOf(t, c).out, PairOf(t, c).in} = {t, c}
BY DEF PairOf

LEMMA SidesUnion ==
  ASSUME NEW P, NEW Q
  PROVE  Sides(P \cup Q) = Sides(P) \cup Sides(Q)
BY DEF Sides

-----------------------------------------------------------------------------
(* Types *)

LEMMA TypeStep ==
  ASSUME TypeOK, [Next]_vars
  PROVE  TypeOK'
<1>0. Pair = [out : TransactionId, in : TransactionId] /\ TransactionId = Batches \X LineNo
  BY DEF Pair, TransactionId
<1>1. CASE UNCHANGED vars
  BY <1>1 DEF TypeOK, vars, store, attempt
<1>2. CASE Dismiss
  BY <1>2 DEF Dismiss, TypeOK, attempt
<1>3. ASSUME NEW b \in Batches, Begin(b)
      PROVE  TypeOK'
  BY <1>3 DEF Begin, TypeOK, End, Imported, store
<1>4. ASSUME NEW b \in Batches, Lookup(b)
      PROVE  TypeOK'
  <2>1. line[b] \in LineNo
    BY <1>4, LinesOfFile DEF Lookup
  <2>2. SameHash(<<b, line[b]>>) \subseteq TransactionId
    BY DEF SameHash, TypeOK
  <2>3. /\ keep' \in [Batches -> SUBSET LineNo]
        /\ found' \in [Batches -> SUBSET (LineNo \X TransactionId)]
    <3>1. CASE SameHash(<<b, line[b]>>) = {} /\ keep' = [keep EXCEPT ![b] = @ \cup {line[b]}]
               /\ UNCHANGED found
      BY <3>1, <2>1 DEF TypeOK
    <3>2. ASSUME NEW s \in SameHash(<<b, line[b]>>), UNCHANGED keep,
                 found' = [found EXCEPT ![b] = @ \cup {<<line[b], s>>}]
          PROVE  <2>3!:
      <4>1. <<line[b], s>> \in LineNo \X TransactionId
        BY <2>1, <2>2
      <4> QED
        BY <3>2, <4>1 DEF TypeOK
    <3> QED
      BY <1>4, <3>1, <3>2 DEF Lookup
  <2> QED
    BY <1>4, <2>3 DEF Lookup, TypeOK, store
<1>5. ASSUME NEW b \in Batches, Insert(b)
      PROVE  TypeOK'
  BY <1>5 DEF Insert, TypeOK, store
<1>6. ASSUME NEW b \in Batches, PairRead(b)
      PROVE  TypeOK'
  <2> DEFINE t == <<b, line[b]>>
  <2>1. Visible(b) \subseteq TransactionId
    BY <1>0 DEF Visible, TypeOK
  <2>2. Nearest(t, Candidates(b, t)) \subseteq TransactionId
    BY <2>1 DEF Nearest, Candidates
  <2> QED
    BY <1>6, <2>2 DEF PairRead, TypeOK, store
<1>7. ASSUME NEW b \in Batches, PairNone(b)
      PROVE  TypeOK'
  BY <1>7 DEF PairNone, TypeOK, store
<1>8. ASSUME NEW b \in Batches, PairWrite(b)
      PROVE  TypeOK'
  <2>1. PairOf(<<b, line[b]>>, cand[b]) \in Pair
    BY <1>8, <1>0 DEF PairOf, PairWrite, TypeOK
  <2> QED
    BY <1>8, <2>1 DEF PairWrite, TypeOK, store
<1>9. ASSUME NEW b \in Batches, PairRefused(b) \/ DeadlockVictim(b) \/ CommitRefused(b)
      PROVE  TypeOK'
  <2>1. (End(b, "idle") \/ End(b, "lost")) /\ UNCHANGED <<store, base, crashes>>
    BY <1>9 DEF PairRefused, DeadlockVictim, CommitRefused
  <2>2. CASE End(b, "idle")
    BY <2>1, <2>2 DEF TypeOK, End, store
  <2>3. CASE End(b, "lost")
    BY <2>1, <2>3 DEF TypeOK, End, store
  <2> QED
    BY <2>1, <2>2, <2>3
<1>10. ASSUME NEW b \in Batches, Commit(b)
       PROVE  TypeOK'
  <2>1. Visible(b) \subseteq TransactionId
    BY <1>0 DEF Visible, TypeOK
  <2>2. \A f \in found[b] : f[1] \in LineNo /\ f[2] \in TransactionId
    BY DEF TypeOK
  <2> QED
    BY <1>10, <2>1, <2>2 DEF Commit, TypeOK, End
<1>11. ASSUME NEW b \in Batches, FailAlreadyImported(b)
       PROVE  TypeOK'
  BY <1>11 DEF FailAlreadyImported, TypeOK, End
<1>12. ASSUME NEW b \in Batches, Crash(b)
       PROVE  TypeOK'
  BY <1>12, BoundsAssumption DEF Crash, TypeOK, End, store
<1> QED
  BY <1>1, <1>2, <1>3, <1>4, <1>5, <1>6, <1>7, <1>8, <1>9, <1>10, <1>11, <1>12
  DEF Next, Persist

(* Every reachable state of the tables and of the open persist transactions *)
(* is well typed.                                                          *)
THEOREM TypeCorrect == Spec => []TypeOK
<1>1. Init => TypeOK
  BY BoundsAssumption DEF Init, TypeOK
<1> QED
  BY <1>1, TypeStep, PTL DEF Spec

-----------------------------------------------------------------------------
(* Steps that leave the committed tables alone *)

(* Only b's transaction moves: the others, and the tables, are as before,  *)
(* so it is enough to look at b.                                           *)
Local(b) ==
  /\ UNCHANGED <<upload, status, ledger, skips, pairs>>
  /\ \A o \in Batches \ {b} :
       /\ pc'[o] = pc[o] /\ line'[o] = line[o] /\ keep'[o] = keep[o]
       /\ found'[o] = found[o] /\ paired'[o] = paired[o] /\ cand'[o] = cand[o]
       /\ base'[o] = base[o]

LEMMA LocalStep ==
  ASSUME LedgerInv, TypeOK', NEW b \in Batches, Local(b),
         base'[b] \subseteq Imported /\ b \notin base'[b],
         status[b] = "imported" => base'[b] = base[b],
         WorkInv(b)',
         \A o \in Batches \ {b} : Sides(paired'[b]) \cap Sides(paired[o]) = {}
  PROVE  LedgerInv'
<1>1. UNCHANGED <<upload, status, ledger, skips, pairs>>
  BY DEF Local
<1> USE RowsStable, <1>1
<1>2. StoreInv'
  <2>1. Imported' = Imported
    BY DEF Imported
  <2>2. /\ \A t \in ledger' : t[1] \in Imported' /\ t[2] \in Lines(t[1])'
        /\ \A o \in Batches : base'[o] \subseteq Imported' /\ o \notin base'[o]
    BY <2>1 DEF LedgerInv, StoreInv, Local
  <2>3. LinesAccounted'
    BY DEF LedgerInv, StoreInv, LinesAccounted, LedgerLines, SkippedLines
  <2>4. \A o, q \in Imported : Raced(o, q)' = Raced(o, q)
    BY DEF Raced, Local, Imported
  <2>5. \A t \in ledger : t[1] \in Imported
    BY DEF LedgerInv, StoreInv
  <2>6. DuplicatesRaced'
    BY <2>4, <2>5 DEF LedgerInv, StoreInv, DuplicatesRaced
  <2>7. OnePairEach'
    BY DEF LedgerInv, StoreInv, OnePairEach
  <2>8. PairsCancel'
    BY DEF LedgerInv, StoreInv, PairsCancel
  <2>9. MissedPairsRaced'
    BY <2>4, <2>5 DEF LedgerInv, StoreInv, MissedPairsRaced, Sides
  <2> QED
    BY <2>2, <2>3, <2>6, <2>7, <2>8, <2>9 DEF StoreInv
<1>3. Apart'
  BY DEF LedgerInv, Apart, Local, Sides
<1>4. ASSUME NEW o \in Batches \ {b}
      PROVE  WorkInv(o)'
  <2>1. WorkInv(o)
    BY DEF LedgerInv
  <2>2. /\ pc[o]' = pc[o] /\ line[o]' = line[o] /\ keep[o]' = keep[o]
        /\ found[o]' = found[o] /\ paired[o]' = paired[o] /\ cand[o]' = cand[o]
        /\ base[o]' = base[o]
    BY DEF Local
  <2>3. Loop(o)'
    BY <2>1, <2>2 DEF WorkInv, Loop, FoundLines
  <2>4. Hashes(o)'
    BY <2>1, <2>2 DEF WorkInv, Hashes
  <2>5. Sides(pairs)' = Sides(pairs) /\ Sides(paired[o])' = Sides(paired[o])
    BY <2>2
  <2>6. Matches(o)'
    BY <2>1, <2>2, <2>5 DEF WorkInv, Matches
  <2>7. Missed(o)'
    BY <2>1, <2>2, <2>5 DEF WorkInv, Missed
  <2> QED
    BY <2>3, <2>4, <2>6, <2>7 DEF WorkInv
<1> QED
  BY <1>2, <1>3, <1>4 DEF LedgerInv

(* A transaction that has just begun, or was rolled back, holds nothing. *)
LEMMA EndStep ==
  ASSUME LedgerInv, TypeOK', NEW b \in Batches, NEW p \in {"idle", "lookup", "lost"},
         End(b, p), UNCHANGED <<upload, status, ledger, skips, pairs>>,
         p # "idle" => status[b] = "validated",
         base' = base \/ (status[b] = "validated" /\ base' = [base EXCEPT ![b] = Imported])
  PROVE  LedgerInv'
<1>1. /\ pc'[b] = p /\ line'[b] = 1 /\ keep'[b] = {} /\ found'[b] = {} /\ paired'[b] = {}
  BY DEF End, LedgerInv, TypeOK
<1>2. Local(b)
  BY DEF Local, End, LedgerInv, TypeOK
<1>3. base'[b] \subseteq Imported /\ b \notin base'[b]
  BY DEF LedgerInv, StoreInv, TypeOK, Imported
<1>4. status[b] = "imported" => base'[b] = base[b]
  OBVIOUS
<1>5. WorkInv(b)'
  <2>1. Lines(b)' = Lines(b) /\ Lines(b) \subseteq Nat /\ \A n \in Lines(b) : n >= 1
    BY RowsStable, LinesOfFile DEF LedgerInv
  <2>2. Loop(b)'
    BY <1>1, <2>1 DEF Loop, FoundLines
  <2>3. Hashes(b)'
    BY <1>1 DEF Hashes
  <2>4. Matches(b)'
    BY <1>1 DEF Matches
  <2>5. Missed(b)'
    BY <1>1 DEF Missed
  <2> QED
    BY <2>2, <2>3, <2>4, <2>5 DEF WorkInv
<1>6. \A o \in Batches \ {b} : Sides(paired'[b]) \cap Sides(paired[o]) = {}
  BY <1>1 DEF Sides
<1> QED
  BY <1>2, <1>3, <1>4, <1>5, <1>6, LocalStep

LEMMA LookupStep ==
  ASSUME LedgerInv, TypeOK', NEW b \in Batches, Lookup(b)
  PROVE  LedgerInv'
<1> DEFINE n == line[b]
<1>1. /\ line'[b] = n + 1 /\ pc'[b] = "lookup" /\ pc[b] = "lookup" /\ paired'[b] = {}
      /\ n \in Lines(b) /\ n \in Nat /\ base' = base /\ status[b] = "validated"
      /\ UNCHANGED <<upload, status, ledger, skips, pairs, paired, pc, cand>>
  BY DEF Lookup, store, LedgerInv, TypeOK, WorkInv, Loop
<1>2. Local(b)
  BY <1>1 DEF Local, Lookup, LedgerInv, TypeOK
<1>3. WorkInv(b)
  BY DEF LedgerInv
<1>4. Lines(b)' = Lines(b) /\ Lines(b) \subseteq Nat
  BY <1>1, RowsStable, LinesOfFile DEF LedgerInv
<1>5. n \notin keep[b] /\ n \notin FoundLines(b)
  BY <1>1, <1>3, <1>4 DEF WorkInv, Loop
<1>6. \/ /\ SameHash(<<b, n>>) = {} /\ keep'[b] = keep[b] \cup {n} /\ found'[b] = found[b]
      \/ \E s \in SameHash(<<b, n>>) : /\ found'[b] = found[b] \cup {<<n, s>>}
                                       /\ keep'[b] = keep[b]
  BY DEF Lookup, LedgerInv, TypeOK
<1>7. Loop(b)'
  <2>1. \/ keep'[b] = keep[b] \cup {n} /\ FoundLines(b)' = FoundLines(b)
        \/ keep'[b] = keep[b] /\ FoundLines(b)' = FoundLines(b) \cup {n}
    <3>1. FoundLines(b)' = {f[1] : f \in found'[b]}
      BY DEF FoundLines
    <3>2. ASSUME NEW s
          PROVE  {f[1] : f \in found[b] \cup {<<n, s>>}} = FoundLines(b) \cup {n}
      <4>1. <<n, s>>[1] = n
        OBVIOUS
      <4>2. {f[1] : f \in found[b] \cup {<<n, s>>}} = {f[1] : f \in found[b]} \cup {<<n, s>>[1]}
        BY ZenonT(30)
      <4> QED
        BY <4>1, <4>2 DEF FoundLines
    <3> QED
      BY <1>6, <3>1, <3>2 DEF FoundLines
  <2>2. keep[b] \cup FoundLines(b) = {m \in Lines(b) : m < n}
    BY <1>1, <1>3 DEF WorkInv, Loop
  <2>3. keep'[b] \cup FoundLines(b)' = {m \in Lines(b) : m < n + 1}
    BY <2>1, <2>2, <1>1, <1>4
  <2>4. keep'[b] \cap FoundLines(b)' = {}
    BY <2>1, <1>3, <1>5 DEF WorkInv, Loop
  <2>5. n >= 1
    BY <1>3 DEF WorkInv, Loop
  <2> QED
    BY <2>3, <2>4, <2>5, <1>1, <1>4 DEF Loop
<1>8. Hashes(b)'
  <2>1. \A t : DedupHash(t)' = DedupHash(t)
    BY <1>1, RowsStable
  <2>2. \A s \in SameHash(<<b, n>>) : s \in ledger /\ DedupHash(s) = DedupHash(<<b, n>>)
    BY DEF SameHash
  <2>3. SameHash(<<b, n>>) = {} => \A s \in ledger : DedupHash(s) # DedupHash(<<b, n>>)
    BY DEF SameHash
  <2> QED
    BY <1>1, <1>3, <1>6, <2>1, <2>2, <2>3 DEF WorkInv, Hashes
<1>9. Matches(b)' /\ Missed(b)'
  BY <1>1 DEF Matches, Missed
<1>10. \A o \in Batches \ {b} : Sides(paired'[b]) \cap Sides(paired[o]) = {}
  BY <1>1 DEF Sides
<1> QED
  BY <1>1, <1>2, <1>7, <1>8, <1>9, <1>10, LocalStep DEF WorkInv, LedgerInv, StoreInv

LEMMA InsertStep ==
  ASSUME LedgerInv, TypeOK', NEW b \in Batches, Insert(b)
  PROVE  LedgerInv'
<1>1. /\ line'[b] = 1 /\ pc'[b] = "pair" /\ pc[b] = "lookup" /\ line[b] \notin Lines(b)
      /\ line[b] \in Nat /\ line[b] >= 1 /\ paired[b] = {} /\ status[b] = "validated"
      /\ UNCHANGED <<upload, status, ledger, skips, pairs, keep, found, paired, cand, base>>
  BY DEF Insert, store, LedgerInv, TypeOK, WorkInv, Loop
<1>2. Local(b)
  BY <1>1 DEF Local, Insert, LedgerInv, TypeOK
<1>3. WorkInv(b)
  BY DEF LedgerInv
<1>4. /\ Lines(b)' = Lines(b) /\ Lines(b) = 1 .. Len(upload[b].file.rows)
      /\ Len(upload[b].file.rows) \in Nat
  BY <1>1, RowsStable, LinesOfFile DEF LedgerInv
<1>5. {n \in Lines(b) : n < line[b]} = Lines(b)
  BY <1>1, <1>4
<1>6. Loop(b)'
  BY <1>1, <1>3, <1>4, <1>5 DEF WorkInv, Loop, FoundLines
<1>7. Hashes(b)'
  BY <1>1, <1>3, RowsStable DEF WorkInv, Hashes
<1>8. keep[b] \subseteq Lines(b)
  BY <1>1, <1>3 DEF WorkInv, Loop
<1>9. Matches(b)' /\ Missed(b)'
  BY <1>1, <1>4, <1>8 DEF Matches, Missed
<1>10. \A o \in Batches \ {b} : Sides(paired'[b]) \cap Sides(paired[o]) = {}
  BY <1>1 DEF Sides
<1> QED
  BY <1>1, <1>2, <1>6, <1>7, <1>9, <1>10, LocalStep DEF WorkInv, LedgerInv, StoreInv

LEMMA PairReadStep ==
  ASSUME LedgerInv, TypeOK', NEW b \in Batches, PairRead(b)
  PROVE  LedgerInv'
<1> DEFINE t == <<b, line[b]>>
<1>1. /\ pc'[b] = "write" /\ pc[b] = "pair" /\ line[b] \in keep[b] /\ status[b] = "validated"
      /\ UNCHANGED <<upload, status, ledger, skips, pairs, line, keep, found, paired, base>>
  BY DEF PairRead, store, LedgerInv, TypeOK, WorkInv, Loop
<1>2. Local(b)
  BY <1>1 DEF Local, PairRead, LedgerInv, TypeOK
<1>3. WorkInv(b)
  BY DEF LedgerInv
<1>4. cand'[b] \in Candidates(b, t)
  BY DEF PairRead, Nearest, LedgerInv, TypeOK
<1>5. Compatible(t, cand'[b]) /\ cand'[b] \in Visible(b) /\ cand'[b] \notin Sides(paired[b])
  BY <1>4 DEF Candidates, Taken
<1>6. cand'[b] \in ledger
  <2>1. \A n : Account(<<b, n>>) = Account(t)
    BY DEF Account
  <2> QED
    BY <1>5, <2>1 DEF Visible, Compatible
<1>7. Loop(b)'
  BY <1>1, <1>3, RowsStable DEF WorkInv, Loop, FoundLines
<1>8. Hashes(b)'
  BY <1>1, <1>3, RowsStable DEF WorkInv, Hashes
<1>9. Sides(pairs)' = Sides(pairs) /\ Sides(paired[b])' = Sides(paired[b])
  BY <1>1
<1>10. Matches(b)'
  BY <1>1, <1>3, <1>5, <1>6, <1>9, RowsStable DEF WorkInv, Matches
<1>11. Missed(b)'
  BY <1>1, <1>3, <1>9, RowsStable DEF WorkInv, Missed
<1>12. \A o \in Batches \ {b} : Sides(paired'[b]) \cap Sides(paired[o]) = {}
  BY <1>1 DEF LedgerInv, Apart
<1> QED
  BY <1>1, <1>2, <1>7, <1>8, <1>10, <1>11, <1>12, LocalStep DEF WorkInv, LedgerInv, StoreInv

LEMMA PairNoneStep ==
  ASSUME LedgerInv, TypeOK', NEW b \in Batches, PairNone(b)
  PROVE  LedgerInv'
<1>1. /\ pc[b] = "pair" /\ line[b] \in Lines(b) /\ line[b] \in Nat /\ line'[b] = line[b] + 1
      /\ status[b] = "validated"
      /\ UNCHANGED <<upload, status, ledger, skips, pairs, pc, keep, found, paired, cand, base>>
  BY DEF PairNone, store, LedgerInv, TypeOK, WorkInv, Loop
<1>2. Local(b)
  BY <1>1 DEF Local, PairNone, LedgerInv, TypeOK
<1>3. WorkInv(b)
  BY DEF LedgerInv
<1>4. Loop(b)'
  BY <1>1, <1>3, RowsStable DEF WorkInv, Loop, FoundLines
<1>5. Hashes(b)'
  BY <1>1, <1>3, RowsStable DEF WorkInv, Hashes
<1>6. Sides(pairs)' = Sides(pairs) /\ Sides(paired[b])' = Sides(paired[b])
  BY <1>1
<1>7. keep[b] \subseteq Lines(b) /\ Lines(b) \subseteq Nat
  BY <1>1, <1>3, LinesOfFile DEF WorkInv, Loop, LedgerInv
<1>8. Matches(b)'
  <2>1. ASSUME NEW p \in paired[b]
        PROVE  \E n \in keep[b], c \in ledger \ Sides(pairs) :
                 n < line'[b] /\ Compatible(<<b, n>>, c)' /\ p = PairOf(<<b, n>>, c)'
    <3>1. PICK n \in keep[b], c \in ledger \ Sides(pairs) :
            n < line[b] /\ Compatible(<<b, n>>, c) /\ p = PairOf(<<b, n>>, c)
      BY <1>3 DEF WorkInv, Matches
    <3>2. n < line'[b] /\ Compatible(<<b, n>>, c)' /\ p = PairOf(<<b, n>>, c)'
      BY <3>1, <1>1, <1>7, RowsStable
    <3> QED
      BY <3>2
  <2> QED
    BY <1>1, <1>3, <1>6, <2>1 DEF WorkInv, Matches
<1>9. Missed(b)'
  <2>1. \A s \in ledger : line[b] \in keep[b] /\ Compatible(<<b, line[b]>>, s) =>
                            s \in Sides(pairs) \cup Sides(paired[b])
    BY DEF PairNone, Candidates, Visible, Taken
  <2>2. \A n \in keep[b] : n < line[b] + 1 => n < line[b] \/ n = line[b]
    BY <1>1, <1>7
  <2> QED
    BY <1>1, <1>3, <1>6, <2>1, <2>2, RowsStable DEF WorkInv, Missed
<1>10. \A o \in Batches \ {b} : Sides(paired'[b]) \cap Sides(paired[o]) = {}
  BY <1>1 DEF LedgerInv, Apart
<1> QED
  BY <1>1, <1>2, <1>4, <1>5, <1>8, <1>9, <1>10, LocalStep DEF WorkInv, LedgerInv, StoreInv

(* The rows of a batch that is not imported are not stored. *)
LEMMA NotStored ==
  ASSUME LedgerInv, NEW b \in Batches, status[b] = "validated"
  PROVE  \A n : <<b, n>> \notin ledger
BY DEF LedgerInv, StoreInv, Imported

LEMMA PairWriteStep ==
  ASSUME LedgerInv, TypeOK', NEW b \in Batches, PairWrite(b)
  PROVE  LedgerInv'
<1> DEFINE t == <<b, line[b]>>
           new == PairOf(t, cand[b])
<1>1. /\ pc[b] = "write" /\ pc'[b] = "pair" /\ line[b] \in Nat /\ line'[b] = line[b] + 1
      /\ status[b] = "validated" /\ cand[b] \notin Sides(pairs)
      /\ paired'[b] = paired[b] \cup {new}
      /\ UNCHANGED <<upload, status, ledger, skips, pairs, keep, found, base>>
  BY DEF PairWrite, store, LedgerInv, TypeOK, WorkInv, Loop
<1>2. Local(b)
  BY <1>1 DEF Local, PairWrite, LedgerInv, TypeOK
<1>3. WorkInv(b)
  BY DEF LedgerInv
<1>4. /\ line[b] \in keep[b] /\ cand[b] \in ledger /\ Compatible(t, cand[b])
      /\ cand[b] \notin Sides(paired[b])
  BY <1>1, <1>3 DEF WorkInv, Matches
<1>5. keep[b] \subseteq Lines(b) /\ Lines(b) \subseteq Nat
  BY <1>1, <1>3, LinesOfFile DEF WorkInv, Loop, LedgerInv
<1>6. {new.out, new.in} = {t, cand[b]} /\ Sides(paired'[b]) = Sides(paired[b]) \cup {t, cand[b]}
  <2>1. {new.out, new.in} = {t, cand[b]}
    BY PairSides
  <2> QED
    BY <1>1, <2>1 DEF Sides
<1>7. t \notin Sides(paired[b])
  <2>1. SUFFICES ASSUME NEW p \in paired[b], p.out = t \/ p.in = t
                 PROVE  FALSE
    BY DEF Sides
  <2>2. PICK n \in keep[b], c \in ledger : n < line[b] /\ p = PairOf(<<b, n>>, c)
    BY <1>3 DEF WorkInv, Matches
  <2>3. t \in {<<b, n>>, c}
    BY ZenonT(40), <2>1, <2>2, PairSides
  <2>4. t # c
    BY <1>1, NotStored
  <2> QED
    BY <2>2, <2>3, <2>4, <1>1
<1>8. Loop(b)'
  BY <1>1, <1>3, RowsStable DEF WorkInv, Loop, FoundLines
<1>9. Hashes(b)'
  BY <1>1, <1>3, RowsStable DEF WorkInv, Hashes
<1>10. Sides(pairs)' = Sides(pairs) /\ Sides(paired[b])' = Sides(paired'[b])
  BY <1>1
<1>11. Matches(b)'
  <2>1. ASSUME NEW p \in paired'[b]
        PROVE  \E n \in keep[b], c \in ledger \ Sides(pairs) :
                 n < line'[b] /\ Compatible(<<b, n>>, c)' /\ p = PairOf(<<b, n>>, c)'
    <3>1. CASE p = new
      <4>1. PICK n \in keep[b], c \in ledger \ Sides(pairs) :
              n = line[b] /\ Compatible(<<b, n>>, c) /\ p = PairOf(<<b, n>>, c)
        BY <3>1, <1>1, <1>4
      <4>2. n < line'[b] /\ Compatible(<<b, n>>, c)' /\ p = PairOf(<<b, n>>, c)'
        BY <4>1, <1>1, RowsStable
      <4> QED
        BY <4>2
    <3>2. CASE p \in paired[b]
      <4>1. PICK n \in keep[b], c \in ledger \ Sides(pairs) :
              n < line[b] /\ Compatible(<<b, n>>, c) /\ p = PairOf(<<b, n>>, c)
        BY <3>2, <1>3 DEF WorkInv, Matches
      <4>2. n < line'[b] /\ Compatible(<<b, n>>, c)' /\ p = PairOf(<<b, n>>, c)'
        BY <4>1, <1>1, <1>5, RowsStable
      <4> QED
        BY <4>2
    <3> QED
      BY <3>1, <3>2, <1>1
  <2>2. ASSUME NEW p \in paired'[b], NEW q \in paired'[b], p # q
        PROVE  {p.out, p.in} \cap {q.out, q.in} = {}
    <3>1. \A r \in paired[b] : {r.out, r.in} \subseteq Sides(paired[b])
      BY DEF Sides
    <3>2. \A r \in paired[b] : {r.out, r.in} \cap {new.out, new.in} = {}
      BY <3>1, <1>4, <1>6, <1>7
    <3>3. CASE p \in paired[b] /\ q \in paired[b]
      BY <3>3, <2>2, <1>3 DEF WorkInv, Matches
    <3>4. CASE p = new \/ q = new
      BY <3>2, <3>4, <2>2, <1>1
    <3> QED
      BY <3>3, <3>4, <1>1
  <2> QED
    BY ZenonT(40), <1>1, <1>10, <2>1, <2>2 DEF Matches
<1>12. Missed(b)'
  <2>1. \A n \in keep[b] : n < line[b] + 1 => n < line[b] \/ n = line[b]
    BY <1>1, <1>5
  <2> QED
    BY ZenonT(40), <1>1, <1>3, <1>6, <1>10, <2>1, RowsStable DEF WorkInv, Missed
<1>13. ASSUME NEW o \in Batches \ {b}
       PROVE  Sides(paired'[b]) \cap Sides(paired[o]) = {}
  <2>1. Sides(paired[b]) \cap Sides(paired[o]) = {}
    BY DEF LedgerInv, Apart
  <2>2. cand[b] \notin Sides(paired[o])
    BY <1>1 DEF PairWrite, WaitsFor
  <2>3. t \notin Sides(paired[o])
    <3>1. SUFFICES ASSUME NEW p \in paired[o], p.out = t \/ p.in = t
                   PROVE  FALSE
      BY DEF Sides
    <3>2. PICK n \in keep[o], c \in ledger : p = PairOf(<<o, n>>, c)
      <4>1. WorkInv(o)
        BY DEF LedgerInv
      <4> QED
        BY <4>1 DEF WorkInv, Matches
    <3>3. t \in {<<o, n>>, c}
      BY <3>1, <3>2, PairSides
    <3>4. t # c
      BY <1>1, NotStored
    <3> QED
      BY <3>3, <3>4
  <2> QED
    BY <1>6, <2>1, <2>2, <2>3
<1> QED
  BY <1>1, <1>2, <1>8, <1>9, <1>11, <1>12, <1>13, LocalStep DEF WorkInv, LedgerInv, StoreInv

-----------------------------------------------------------------------------
(* The commit *)

LEMMA CommitStep ==
  ASSUME LedgerInv, TypeOK', NEW b \in Batches, Commit(b)
  PROVE  LedgerInv'
<1> DEFINE mine == {<<b, n>> : n \in keep[b]}
           told == {[batch |-> b, line |-> f[1], matched |-> f[2]] : f \in found[b]}
<1> USE RowsStable
<1>1. /\ UNCHANGED <<upload, base>>
      /\ ledger' = ledger \cup mine /\ pairs' = pairs \cup paired[b] /\ skips' = skips \cup told
      /\ pc[b] = "pair" /\ line[b] \in Nat /\ line[b] >= 1 /\ line[b] \notin Lines(b)
      /\ status[b] = "validated" /\ TypeOK
  BY DEF Commit, Visible, LedgerInv, TypeOK, WorkInv, Loop
<1>2. /\ pc'[b] = "idle" /\ line'[b] = 1 /\ keep'[b] = {} /\ found'[b] = {} /\ paired'[b] = {}
      /\ status'[b] = "imported"
      /\ \A o \in Batches \ {b} :
           /\ pc'[o] = pc[o] /\ line'[o] = line[o] /\ keep'[o] = keep[o] /\ found'[o] = found[o]
           /\ paired'[o] = paired[o] /\ cand'[o] = cand[o] /\ status'[o] = status[o]
  BY DEF Commit, End, LedgerInv, TypeOK
<1>3. Imported' = Imported \cup {b} /\ b \notin Imported
  BY <1>1, <1>2 DEF Imported
<1>4. \A o \in Batches : b \notin base[o]
  BY <1>3 DEF LedgerInv, StoreInv
<1>5. WorkInv(b) /\ StoreInv
  BY DEF LedgerInv
<1>6. /\ keep[b] \cup FoundLines(b) = Lines(b) /\ keep[b] \cap FoundLines(b) = {}
      /\ keep[b] \subseteq Lines(b)
  BY <1>1, <1>5 DEF WorkInv, Loop
<1>7. \A n \in Lines(b) : n < line[b]
  BY <1>1, LinesOfFile
<1>8. \A n : <<b, n>> \notin ledger
  BY <1>1, NotStored
<1>9. Sides(pairs') = Sides(pairs) \cup Sides(paired[b])
  BY <1>1, SidesUnion
<1>10. Sides(pairs) \subseteq ledger
  BY <1>5 DEF StoreInv, PairsCancel, Sides
<1>11. \A t \in ledger : t \in TransactionId /\ t[1] \in Imported /\ t[2] \in Lines(t[1])
  BY <1>1, <1>5 DEF StoreInv, TypeOK
<1>12. \A t \in mine : t \in TransactionId /\ t[1] = b /\ t[2] \in keep[b] /\ t = <<b, t[2]>>
  BY <1>1, <1>6, LinesOfFile
<1>13. /\ \A t \in ledger' : t[1] \in Imported' /\ t[2] \in Lines(t[1])'
       /\ \A o \in Batches : base'[o] \subseteq Imported' /\ o \notin base'[o]
  BY <1>1, <1>3, <1>5, <1>6, <1>11, <1>12 DEF StoreInv
<1>14. LinesAccounted'
  <2>1. ASSUME NEW o \in Batches \ {b}
        PROVE  LedgerLines(o)' = LedgerLines(o) /\ SkippedLines(o)' = SkippedLines(o)
    BY <1>1 DEF LedgerLines, SkippedLines
  <2>2. LedgerLines(b)' = keep[b]
    BY <1>1, <1>6, <1>8 DEF LedgerLines
  <2>3. SkippedLines(b)' = FoundLines(b)
    <3>1. SkippedLines(b) = {}
      BY <1>1, <1>5 DEF StoreInv, LinesAccounted
    <3>2. \A k \in skips : k.batch # b
      BY <3>1 DEF SkippedLines
    <3>3. SkippedLines(b)' = {s.line : s \in {k \in skips \cup told : k.batch = b}}
      BY <1>1 DEF SkippedLines
    <3>4. {k \in skips \cup told : k.batch = b} = told
      BY <3>2
    <3>5. {s.line : s \in told} = FoundLines(b)
      <4>1. \A s \in told : \E f \in found[b] : s.line = f[1]
        OBVIOUS
      <4>2. ASSUME NEW f \in found[b]
            PROVE  \E s \in told : s.line = f[1]
        <5>1. [batch |-> b, line |-> f[1], matched |-> f[2]] \in told
          OBVIOUS
        <5>2. [batch |-> b, line |-> f[1], matched |-> f[2]].line = f[1]
          OBVIOUS
        <5> HIDE DEF told
        <5> QED
          BY <5>1, <5>2
      <4> HIDE DEF told
      <4> QED
        BY <4>1, <4>2 DEF FoundLines
    <3> QED
      BY <3>3, <3>4, <3>5
  <2>4. ASSUME NEW s \in skips'
        PROVE  /\ s.matched \in ledger' /\ s.matched[1] # s.batch
               /\ DedupHash(s.matched)' = DedupHash(<<s.batch, s.line>>)'
    <3>1. CASE s \in skips
      BY <3>1, <1>1, <1>5 DEF StoreInv, LinesAccounted
    <3>2. CASE s \in told
      <4>1. PICK f \in found[b] : s.batch = b /\ s.line = f[1] /\ s.matched = f[2]
        BY <3>2
      <4>2. f[2] \in ledger /\ DedupHash(f[2]) = DedupHash(<<b, f[1]>>)
        BY <1>5 DEF WorkInv, Hashes
      <4>3. f[2][1] # b
        BY <4>2, <1>3, <1>11
      <4> QED
        BY <4>1, <4>2, <4>3, <1>1
    <3> QED
      BY <3>1, <3>2, <1>1
  <2>5. Lines(b)' = Lines(b) /\ \A o \in Batches : Lines(o)' = Lines(o)
    BY <1>1
  <2>6. \A o \in Batches :
          /\ LedgerLines(o)' \cap SkippedLines(o)' = {}
          /\ LedgerLines(o)' \cup SkippedLines(o)' =
               IF status'[o] = "imported" THEN Lines(o)' ELSE {}
    BY <1>2, <1>5, <1>6, <2>1, <2>2, <2>3, <2>5 DEF StoreInv, LinesAccounted
  <2> QED
    BY <2>4, <2>6 DEF LinesAccounted
<1>15. \A o, q : Raced(o, q)' = Raced(o, q)
  BY <1>1 DEF Raced
<1>16. \A o \in Imported : o \notin base[b] => Raced(o, b) /\ Raced(b, o)
  BY <1>3, <1>4 DEF Raced, Imported
<1>17. DuplicatesRaced'
  <2>1. SUFFICES ASSUME NEW s \in ledger \cup mine, NEW t \in ledger \cup mine,
                        s # t, DedupHash(s) = DedupHash(t)
                 PROVE  Raced(s[1], t[1])
    BY <1>1, <1>15 DEF DuplicatesRaced
  <2>2. \A u \in ledger, v \in mine :
          DedupHash(u) = DedupHash(v) => Raced(u[1], v[1]) /\ Raced(v[1], u[1])
    BY <1>5, <1>11, <1>12, <1>16 DEF WorkInv, Hashes
  <2>3. CASE s \in ledger /\ t \in ledger
    BY <2>1, <2>3, <1>5 DEF StoreInv, DuplicatesRaced
  <2>4. CASE s \in mine /\ t \in mine
    <3>1. s[2] \in Lines(b) /\ t[2] \in Lines(b) /\ s[2] # t[2] /\ s = <<b, s[2]>> /\ t = <<b, t[2]>>
      BY <2>1, <2>4, <1>6, <1>12
    <3>2. s[2] < t[2] \/ t[2] < s[2]
      BY <3>1, <1>1, LinesOfFile
    <3> QED
      BY <2>1, <3>1, <3>2, <1>1, HashUnique
  <2> QED
    BY <2>1, <2>2, <2>3, <2>4
<1>18. \A p \in paired[b] : \E n \in keep[b], c \in ledger \ Sides(pairs) :
         Compatible(<<b, n>>, c) /\ p = PairOf(<<b, n>>, c)
  BY <1>5 DEF WorkInv, Matches
<1>19. OnePairEach'
  <2>1. \A p \in pairs, q \in paired[b] : {p.out, p.in} \cap {q.out, q.in} = {}
    <3>1. SUFFICES ASSUME NEW p \in pairs, NEW q \in paired[b]
                   PROVE  {p.out, p.in} \cap {q.out, q.in} = {}
      OBVIOUS
    <3>2. PICK n \in keep[b], c \in ledger \ Sides(pairs) : q = PairOf(<<b, n>>, c)
      BY <1>18
    <3>3. {q.out, q.in} = {<<b, n>>, c}
      BY <3>2, PairSides
    <3>4. {p.out, p.in} \subseteq Sides(pairs)
      BY DEF Sides
    <3> QED
      BY <3>2, <3>3, <3>4, <1>8, <1>10
  <2>2. \A p, q \in pairs : p # q => {p.out, p.in} \cap {q.out, q.in} = {}
    BY <1>5 DEF StoreInv, OnePairEach
  <2>3. \A p, q \in paired[b] : p # q => {p.out, p.in} \cap {q.out, q.in} = {}
    BY <1>5 DEF WorkInv, Matches
  <2> QED
    BY <2>1, <2>2, <2>3, <1>1 DEF OnePairEach
<1>20. PairsCancel'
  <2>1. ASSUME NEW p \in pairs'
        PROVE  /\ p.out \in ledger' /\ p.in \in ledger'
               /\ Row(p.out)'.amount < 0 /\ Compatible(p.out, p.in)'
    <3>1. CASE p \in pairs
      BY <3>1, <1>1, <1>5 DEF StoreInv, PairsCancel
    <3>2. CASE p \in paired[b]
      <4>1. PICK n \in keep[b], c \in ledger : Compatible(<<b, n>>, c) /\ p = PairOf(<<b, n>>, c)
        BY <3>2, <1>18
      <4> DEFINE t == <<b, n>>
      <4>2. t \in mine /\ t \in TransactionId /\ t[2] \in Lines(t[1]) /\ c \in TransactionId
            /\ c[2] \in Lines(c[1])
        BY <1>1, <1>6, <1>11, LinesOfFile
      <4>3. Row(t).amount \in Int /\ Row(t).amount # 0 /\ Row(c).amount = - Row(t).amount
        BY <4>1, <1>1, <1>6, LinesOfFile DEF Compatible
      <4>4. Compatible(c, t)
        BY <4>1, <4>2, <1>1, CompatibleSym
      <4>5. CASE Row(t).amount > 0
        <5>1. p.out = c /\ p.in = t
          BY <4>1, <4>5 DEF PairOf
        <5>2. Row(c).amount < 0
          BY <4>3, <4>5
        <5> QED
          BY <5>1, <5>2, <4>2, <4>4, <1>1
      <4>6. CASE ~(Row(t).amount > 0)
        <5>1. p.out = t /\ p.in = c
          BY <4>1, <4>6 DEF PairOf
        <5>2. Row(t).amount < 0
          BY <4>3, <4>6
        <5> QED
          BY <5>1, <5>2, <4>1, <4>2, <1>1
      <4> QED
        BY <4>5, <4>6
    <3> QED
      BY <3>1, <3>2, <1>1
  <2> QED
    BY <2>1 DEF PairsCancel
<1>21. MissedPairsRaced'
  <2>1. SUFFICES ASSUME NEW s \in (ledger \cup mine) \ Sides(pairs'),
                        NEW t \in (ledger \cup mine) \ Sides(pairs'), Compatible(s, t)
                 PROVE  Raced(s[1], t[1])
    BY ZenonT(40), <1>1, <1>15 DEF MissedPairsRaced
  <2>2. ASSUME NEW u \in ledger \ Sides(pairs'), NEW v \in mine \ Sides(pairs'), Compatible(v, u)
        PROVE  Raced(u[1], v[1]) /\ Raced(v[1], u[1])
    <3>1. v = <<b, v[2]>> /\ v[1] = b /\ v[2] \in keep[b] /\ v[2] < line[b]
      BY <1>6, <1>7, <1>12
    <3>2. u[1] \notin base[b]
      BY ZenonT(40), <2>2, <3>1, <1>1, <1>5, <1>9 DEF WorkInv, Missed
    <3> QED
      BY <3>1, <3>2, <1>11, <1>16
  <2>3. Compatible(t, s)
    BY <2>1, <1>1, <1>6, <1>11, <1>12, CompatibleSym
  <2>4. CASE s \in ledger /\ t \in ledger
    BY <2>1, <2>4, <1>5, <1>9 DEF StoreInv, MissedPairsRaced
  <2>5. CASE s \in mine /\ t \in mine
    <3>1. Account(s) = Account(t)
      BY <2>5, <1>12 DEF Account
    <3> QED
      BY <2>1, <3>1 DEF Compatible
  <2> QED
    BY <2>1, <2>2, <2>3, <2>4, <2>5
<1>22. StoreInv'
  BY <1>13, <1>14, <1>17, <1>19, <1>20, <1>21 DEF StoreInv
<1>23. Apart'
  BY <1>2 DEF LedgerInv, Apart, Sides
<1>24. WorkInv(b)'
  <2>1. \A n \in Lines(b)' : ~(n < 1)
    BY <1>1, LinesOfFile
  <2> QED
    BY <1>2, <2>1 DEF WorkInv, Loop, Hashes, Matches, Missed, FoundLines
<1>25. ASSUME NEW o \in Batches \ {b}
       PROVE  WorkInv(o)'
  <2>1. WorkInv(o)
    BY DEF LedgerInv
  <2>2. /\ pc[o]' = pc[o] /\ line[o]' = line[o] /\ keep[o]' = keep[o] /\ found[o]' = found[o]
        /\ paired[o]' = paired[o] /\ cand[o]' = cand[o] /\ status[o]' = status[o]
        /\ base[o]' = base[o]
    BY <1>1, <1>2
  <2>3. Loop(o)'
    BY <2>1, <2>2, <1>1 DEF WorkInv, Loop, FoundLines
  <2>4. Hashes(o)'
    BY <2>1, <2>2, <1>1, <1>4, <1>12 DEF WorkInv, Hashes
  <2>5. Sides(pairs)' = Sides(pairs) \cup Sides(paired[b]) /\ Sides(paired[o])' = Sides(paired[o])
    BY <2>2, <1>9
  <2>6. Matches(o)'
    <3>1. ASSUME NEW p \in paired[o]
          PROVE  \E n \in keep[o], c \in ledger' \ Sides(pairs)' :
                   n < line[o] /\ Compatible(<<o, n>>, c)' /\ p = PairOf(<<o, n>>, c)'
      <4>1. PICK n \in keep[o], c \in ledger \ Sides(pairs) :
              n < line[o] /\ Compatible(<<o, n>>, c) /\ p = PairOf(<<o, n>>, c)
        BY <2>1 DEF WorkInv, Matches
      <4>2. c \in Sides(paired[o])
        <5>1. c \in {p.out, p.in}
          BY <4>1, PairSides
        <5> QED
          BY <5>1 DEF Sides
      <4>3. c \notin Sides(paired[b])
        BY <4>2 DEF LedgerInv, Apart
      <4>4. c \in ledger' \ Sides(pairs)' /\ Compatible(<<o, n>>, c)' /\ p = PairOf(<<o, n>>, c)'
        BY <4>1, <4>3, <2>5, <1>1
      <4> QED
        BY <4>1, <4>4
    <3> QED
      BY <2>1, <2>2, <2>5, <3>1, <1>1 DEF WorkInv, Matches
  <2>7. Missed(o)'
    BY <2>1, <2>2, <2>5, <1>1, <1>4, <1>12 DEF WorkInv, Missed
  <2> QED
    BY <2>3, <2>4, <2>6, <2>7 DEF WorkInv
<1> QED
  BY <1>22, <1>23, <1>24, <1>25 DEF LedgerInv
-----------------------------------------------------------------------------
(* The refused batch, and the steps that change nothing the invariant reads *)

LEMMA FailStep ==
  ASSUME LedgerInv, TypeOK', NEW b \in Batches, FailAlreadyImported(b)
  PROVE  LedgerInv'
<1>1. /\ UNCHANGED <<upload, ledger, skips, pairs, base>>
      /\ status[b] = "validated" /\ status'[b] = "failed" /\ TypeOK
  BY DEF FailAlreadyImported, LedgerInv, TypeOK, WorkInv, Loop
<1>2. /\ pc'[b] = "idle" /\ line'[b] = 1 /\ keep'[b] = {} /\ found'[b] = {} /\ paired'[b] = {}
      /\ \A o \in Batches \ {b} :
           /\ pc'[o] = pc[o] /\ line'[o] = line[o] /\ keep'[o] = keep[o] /\ found'[o] = found[o]
           /\ paired'[o] = paired[o] /\ cand'[o] = cand[o] /\ status'[o] = status[o]
  BY DEF FailAlreadyImported, End, LedgerInv, TypeOK
<1> USE RowsStable, <1>1
<1>3. Imported' = Imported
  BY <1>2 DEF Imported
<1>4. StoreInv'
  <2>1. \A o, q : Raced(o, q)' = Raced(o, q)
    BY DEF Raced
  <2>2. LinesAccounted'
    BY <1>2 DEF LedgerInv, StoreInv, LinesAccounted, LedgerLines, SkippedLines
  <2>3. DuplicatesRaced' /\ OnePairEach' /\ PairsCancel'
    BY <2>1 DEF LedgerInv, StoreInv, DuplicatesRaced, OnePairEach, PairsCancel
  <2>4. MissedPairsRaced'
    BY <2>1 DEF LedgerInv, StoreInv, MissedPairsRaced, Sides
  <2> QED
    BY <1>3, <2>2, <2>3, <2>4 DEF LedgerInv, StoreInv
<1>5. Apart'
  BY <1>2 DEF LedgerInv, Apart, Sides
<1>6. ASSUME NEW o \in Batches
      PROVE  WorkInv(o)'
  <2>1. CASE o = b
    <3>1. Loop(b)'
      BY <1>2 DEF Loop, FoundLines
    <3>2. Hashes(b)' /\ Matches(b)' /\ Missed(b)'
      BY <1>2 DEF Hashes, Matches, Missed
    <3> QED
      BY <2>1, <3>1, <3>2 DEF WorkInv
  <2>2. CASE o # b
    <3>1. WorkInv(o)
      BY DEF LedgerInv
    <3>2. /\ pc[o]' = pc[o] /\ line[o]' = line[o] /\ keep[o]' = keep[o]
          /\ found[o]' = found[o] /\ paired[o]' = paired[o] /\ cand[o]' = cand[o]
          /\ base[o]' = base[o] /\ status[o]' = status[o]
      BY <2>2, <1>2
    <3>3. Loop(o)'
      BY <3>1, <3>2 DEF WorkInv, Loop, FoundLines
    <3>4. Hashes(o)'
      BY <3>1, <3>2 DEF WorkInv, Hashes
    <3>5. Sides(pairs)' = Sides(pairs) /\ Sides(paired[o])' = Sides(paired[o])
      BY <3>2
    <3>6. Matches(o)'
      BY <3>1, <3>2, <3>5 DEF WorkInv, Matches
    <3>7. Missed(o)'
      BY <3>1, <3>2, <3>5 DEF WorkInv, Missed
    <3> QED
      BY <3>3, <3>4, <3>6, <3>7 DEF WorkInv
  <2> QED
    BY <2>1, <2>2
<1> QED
  BY <1>4, <1>5, <1>6 DEF LedgerInv

LEMMA IdleStep ==
  ASSUME LedgerInv, TypeOK', UNCHANGED <<upload, status, ledger, skips, pairs, attempt>>
  PROVE  LedgerInv'
<1>1. CASE Batches = {}
  <2>1. StoreInv'
    BY <1>1, RowsStable DEF LedgerInv, StoreInv, Imported, LinesAccounted, DuplicatesRaced,
       OnePairEach, PairsCancel, MissedPairsRaced, Raced, Sides, attempt
  <2> QED
    BY <1>1, <2>1 DEF LedgerInv, Apart
<1>2. ASSUME NEW b \in Batches
      PROVE  LedgerInv'
  <2>1. Local(b) /\ base' = base /\ paired' = paired
    BY DEF Local, attempt
  <2>2. WorkInv(b)'
    <3>1. WorkInv(b)
      BY DEF LedgerInv
    <3>2. Sides(pairs)' = Sides(pairs) /\ Sides(paired[b])' = Sides(paired[b])
      BY DEF attempt
    <3> QED
      BY <3>1, <3>2, RowsStable DEF WorkInv, Loop, Hashes, Matches, Missed, FoundLines, attempt
  <2>3. base'[b] \subseteq Imported /\ b \notin base'[b]
    BY <2>1 DEF LedgerInv, StoreInv
  <2>4. \A o \in Batches \ {b} : Sides(paired'[b]) \cap Sides(paired[o]) = {}
    BY <2>1 DEF LedgerInv, Apart
  <2> QED
    BY <2>1, <2>2, <2>3, <2>4, LocalStep
<1> QED
  BY <1>1, <1>2

-----------------------------------------------------------------------------
(* The invariant is inductive *)

LEMMA NextStep ==
  ASSUME LedgerInv, [Next]_vars
  PROVE  LedgerInv'
<1>1. TypeOK'
  BY TypeStep DEF LedgerInv
<1>2. CASE UNCHANGED vars \/ Dismiss
  BY <1>1, <1>2, IdleStep DEF vars, store, Dismiss
<1>3. ASSUME NEW b \in Batches, Begin(b)
      PROVE  LedgerInv'
  BY <1>1, <1>3, EndStep DEF Begin, store
<1>4. ASSUME NEW b \in Batches, Crash(b) \/ PairRefused(b) \/ DeadlockVictim(b)
      PROVE  LedgerInv'
  BY <1>1, <1>4, EndStep DEF Crash, PairRefused, DeadlockVictim, store
<1>5. ASSUME NEW b \in Batches, CommitRefused(b)
      PROVE  LedgerInv'
  <2>1. status[b] = "validated"
    BY <1>5 DEF CommitRefused, LedgerInv, WorkInv, Loop
  <2> QED
    BY <1>1, <1>5, <2>1, EndStep DEF CommitRefused, store
<1> QED
  BY <1>1, <1>2, <1>3, <1>4, <1>5, LookupStep, InsertStep, PairReadStep, PairNoneStep,
     PairWriteStep, CommitStep, FailStep
  DEF Next, Persist

LEMMA InvHolds == Spec => []LedgerInv
<1>1. Init => LedgerInv
  <2> SUFFICES ASSUME Init PROVE LedgerInv
    OBVIOUS
  <2>1. TypeOK
    BY BoundsAssumption DEF Init, TypeOK
  <2>2. StoreInv
    BY DEF Init, StoreInv, Imported, LinesAccounted, LedgerLines, SkippedLines,
       DuplicatesRaced, OnePairEach, PairsCancel, MissedPairsRaced
  <2>3. Apart
    BY DEF Init, Apart, Sides
  <2>4. \A b \in Batches : WorkInv(b)
    BY DEF Init, WorkInv, Loop, Hashes, Matches, Missed, FoundLines
  <2> QED
    BY <2>1, <2>2, <2>3, <2>4 DEF LedgerInv
<1> QED
  BY <1>1, NextStep, PTL DEF Spec

(* persistjob.go: every line of an imported file is a transaction or a     *)
(* recorded skip, a batch that is not imported left neither, and a skip    *)
(* names a stored row of another batch with its content.                   *)
THEOREM LinesAreAccounted == Spec => []LinesAccounted
<1>1. LedgerInv => LinesAccounted
  BY DEF LedgerInv, StoreInv
<1> QED
  BY <1>1, InvHolds, PTL

(* D3's lookup: a row is stored twice only by two persists that ran at the *)
(* same time.                                                              *)
THEOREM DuplicatesNeedARace == Spec => []DuplicatesRaced
<1>1. LedgerInv => DuplicatesRaced
  BY DEF LedgerInv, StoreInv
<1> QED
  BY <1>1, InvHolds, PTL

(* internal_transfer_members: no transaction is a side of two pairs. *)
THEOREM PairedOnce == Spec => []OnePairEach
<1>1. LedgerInv => OnePairEach
  BY DEF LedgerInv, StoreInv
<1> QED
  BY <1>1, InvHolds, PTL

(* DetectAndPair: the two sides of a pair are stored, comparable rows that *)
(* cancel each other.                                                      *)
THEOREM PairsAreTransfers == Spec => []PairsCancel
<1>1. LedgerInv => PairsCancel
  BY DEF LedgerInv, StoreInv
<1> QED
  BY <1>1, InvHolds, PTL

(* DetectAndPair over the rows of every file: two rows that would pair     *)
(* stay unpaired only when the persists of their batches raced.            *)
THEOREM MissesNeedARace == Spec => []MissedPairsRaced
<1>1. LedgerInv => MissedPairsRaced
  BY DEF LedgerInv, StoreInv
<1> QED
  BY <1>1, InvHolds, PTL
=============================================================================
