--------------------------- MODULE ClassifyReview ---------------------------
(***************************************************************************)
(* How a ledger row gets its category: the classify_batch job of           *)
(* core/internal/classifyrun asks the engine about the unclassified rows   *)
(* of one batch, page by page, while people settle counterparties through  *)
(* core/internal/review.  Both append to `classifications`; a decision     *)
(* also writes the vendor memory the next request carries to the engine.   *)
(*                                                                         *)
(* Transactions run at READ COMMITTED.  A write transaction is two steps:  *)
(* what it checks (the unique indexes, the deferred trigger that counts    *)
(* live rows) against what others have committed, and its commit.          *)
(***************************************************************************)
EXTENDS Naturals, FiniteSets

CONSTANTS
  Txns,         \* ledger rows, numbered in the (booked_on, id) order of a page
  Batches, NoBatch,
  Keys,         \* counterparty keys
  NoKey,        \* the empty key: a counterparty that could not be identified
  Entities,
  BatchOf, KeyOf, EntityOf,    \* of a row
  Categories, NoCategory,
  OutOfPNL,     \* the category the decisions without a category write
  RuleAnswer,   \* the category the rule layers give a row, or NoCategory
  Workers, Reviewers,
  ChunkSize,
  Faults,       \* what may go wrong around the engine: see AllFaults
  MaxDecisions, \* bound: review decisions ever written
  MaxFailures   \* bound: attempts lost to a crash, a timeout or the database

AllFaults == {"unavailable", "rejected", "malformed", "bad_matcher"}

ASSUME ConstantsAssumption ==
  /\ Txns \subseteq Nat \ {0} /\ IsFiniteSet(Txns)
  /\ NoBatch \notin Batches /\ NoKey \in Keys
  /\ BatchOf \in [Txns -> Batches] /\ KeyOf \in [Txns -> Keys]
  /\ EntityOf \in [Txns -> Entities]
  /\ OutOfPNL \in Categories /\ NoCategory \notin Categories
  /\ RuleAnswer \in [Txns -> Categories \cup {NoCategory}]
  /\ ChunkSize \in Nat \ {0} /\ Faults \subseteq AllFaults
  /\ MaxDecisions \in Nat /\ MaxFailures \in Nat

VARIABLES
  imported,   \* batches whose rows are in the ledger
  queue,      \* classify_batch jobs waiting to be fetched
  run,        \* classification_runs.status
  chunks, classifiedCount, reviewCount,   \* its counters
  rows,       \* classifications, append-only
  retracted,  \* those with retracted_at set
  vendors,    \* the vendor memory: the category of a key
  decisions,  \* review_decisions
  undone,     \* those with undone_at set
  job,        \* what each River worker is doing
  request,    \* the open Resolve or Undo of each reviewer
  failures

runVars    == <<run, chunks, classifiedCount, reviewCount>>
ledgerVars == <<rows, retracted>>
reviewVars == <<vendors, decisions, undone>>
vars == <<imported, queue, runVars, ledgerVars, reviewVars, job, request, failures>>

-----------------------------------------------------------------------------
Outcomes == {"categorised", "internal_transfer", "non_pnl", "skipped"}

Live == rows \ retracted
LiveDecisions == decisions \ undone

Unclassified(t) == BatchOf[t] \in imported /\ \A r \in Live : r.txn # t

Human(r) == r.layer = "human"

\* Where a classify worker is: the step it takes next.
Points == {"open", "context", "page", "ask", "check", "commit", "finish",
           "fail", "error", "ack"}

\* The points at which the worker owns its batch's run.
Owning == {"context", "page", "ask", "check", "commit", "finish", "fail"}

Free == [pc |-> "idle", batch |-> NoBatch,
         memory |-> [k \in Keys |-> NoCategory], cursor |-> 0, page |-> {}, last |-> 0]

NoRequest == [pc |-> "idle", key |-> NoKey, outcome |-> "skipped",
              cat |-> NoCategory, covered |-> {}, target |-> 0, held |-> {}]

Init ==
  /\ imported = {}
  /\ queue = [b \in Batches |-> 0]
  /\ run = [b \in Batches |-> "absent"]
  /\ chunks = [b \in Batches |-> 0]
  /\ classifiedCount = [b \in Batches |-> 0]
  /\ reviewCount = [b \in Batches |-> 0]
  /\ rows = {} /\ retracted = {}
  /\ vendors = [k \in Keys |-> NoCategory]
  /\ decisions = {} /\ undone = {}
  /\ job = [w \in Workers |-> Free]
  /\ request = [u \in Reviewers |-> NoRequest]
  /\ failures = 0

-----------------------------------------------------------------------------
(* The persist job lands a batch and enqueues its classification. *)

PersistImport(b) ==
  /\ b \notin imported
  /\ imported' = imported \cup {b}
  /\ queue' = [queue EXCEPT ![b] = @ + 1]
  /\ UNCHANGED <<runVars, ledgerVars, reviewVars, job, request, failures>>

-----------------------------------------------------------------------------
(* River *)

Fetch(w, b) ==
  /\ job[w].pc = "idle" /\ queue[b] > 0
  /\ queue' = [queue EXCEPT ![b] = @ - 1]
  /\ job' = [job EXCEPT ![w] = [Free EXCEPT !.pc = "open", !.batch = b]]
  /\ UNCHANGED <<imported, runVars, ledgerVars, reviewVars, request, failures>>

Ack(w) ==
  /\ job[w].pc = "ack"
  /\ job' = [job EXCEPT ![w] = Free]
  /\ UNCHANGED <<imported, queue, runVars, ledgerVars, reviewVars, request, failures>>

Requeue(w) ==
  /\ queue' = [queue EXCEPT ![job[w].batch] = @ + 1]
  /\ job' = [job EXCEPT ![w] = Free]

\* The attempt is lost to a crash, its timeout or the database; River retries.
AttemptFails(w) ==
  /\ job[w].pc \notin {"idle", "error"} /\ failures < MaxFailures
  /\ failures' = failures + 1
  /\ Requeue(w)
  /\ UNCHANGED <<imported, runVars, ledgerVars, reviewVars, request>>

\* Work returned an error: retried, until the attempts run out.
Retry(w) ==
  /\ job[w].pc = "error"
  /\ Requeue(w)
  /\ UNCHANGED <<imported, runVars, ledgerVars, reviewVars, request, failures>>

Discard(w) ==
  /\ job[w].pc = "error"
  /\ job' = [job EXCEPT ![w] = Free]
  /\ UNCHANGED <<imported, queue, runVars, ledgerVars, reviewVars, request, failures>>

-----------------------------------------------------------------------------
(* classify_batch *)

Goto(w, pc) == job' = [job EXCEPT ![w].pc = pc]

\* Mutant: a run that exists is taken up again by whoever finds it.
OpenRunShared(w) ==
  LET b == job[w].batch IN
  /\ job[w].pc = "open"
  /\ run' = [run EXCEPT ![b] = "running"]
  /\ Goto(w, "context")
  /\ UNCHANGED <<imported, queue, chunks, classifiedCount, reviewCount, ledgerVars,
                 reviewVars, request, failures>>

\* UNIQUE (org_id, batch_id): whoever finds a run, of whatever status, stops.
OpenRun(w) ==
  LET b == job[w].batch IN
  /\ job[w].pc = "open"
  /\ IF run[b] = "absent"
     THEN run' = [run EXCEPT ![b] = "running"] /\ Goto(w, "context")
     ELSE UNCHANGED run /\ Goto(w, "ack")
  /\ UNCHANGED <<imported, queue, chunks, classifiedCount, reviewCount, ledgerVars,
                 reviewVars, request, failures>>

\* Categories, rules and the vendor memory, read once for the whole run.
RequestContext(w) ==
  /\ job[w].pc = "context"
  /\ \/ job' = [job EXCEPT ![w].pc = "page", ![w].memory = vendors]
     \/ "bad_matcher" \in Faults /\ Goto(w, "fail")
  /\ UNCHANGED <<imported, queue, runVars, ledgerVars, reviewVars, request, failures>>

\* Mutant: the next page starts at the cursor's row and not behind it.
PageCandidatesInclusive(b, cursor) ==
  {t \in Txns : BatchOf[t] = b /\ t >= cursor /\ Unclassified(t)}

\* UnclassifiedTransactions: the batch's rows without a live answer, behind the
\* cursor.
PageCandidates(b, cursor) ==
  {t \in Txns : BatchOf[t] = b /\ t > cursor /\ Unclassified(t)}

\* The first ChunkSize of them; none is the end of the loop.
ReadPage(w) ==
  LET candidates == PageCandidates(job[w].batch, job[w].cursor) IN
  /\ job[w].pc = "page"
  /\ \/ candidates = {} /\ Goto(w, "finish")
     \/ \E last \in candidates :
          LET page == {t \in candidates : t <= last} IN
          /\ \/ Cardinality(page) = ChunkSize
             \/ Cardinality(page) < ChunkSize /\ page = candidates
          /\ job' = [job EXCEPT ![w].pc = "ask", ![w].page = page, ![w].last = last]
  /\ UNCHANGED <<imported, queue, runVars, ledgerVars, reviewVars, request, failures>>

\* The call, outside any transaction.  A refusal and an answer naming what was
\* not in the request are final; anything else is an error River retries.
AskEngine(w) ==
  /\ job[w].pc = "ask"
  /\ \/ Goto(w, "check")
     \/ {"rejected", "malformed"} \cap Faults # {} /\ Goto(w, "fail")
     \/ "unavailable" \in Faults /\ Goto(w, "error")
  /\ UNCHANGED <<imported, queue, runVars, ledgerVars, reviewVars, request, failures>>

\* The engine's layers: the memory answers a key it knows, else the rules do;
\* a row with neither is left for review.
Layer(t, memory) == IF KeyOf[t] # NoKey /\ memory[KeyOf[t]] # NoCategory
                    THEN "L0" ELSE "L1"
Answer(t, memory) == IF Layer(t, memory) = "L0" THEN memory[KeyOf[t]] ELSE RuleAnswer[t]

\* Mutant: a row the engine had no answer for is stored all the same.
ProposalsUnfiltered(page, memory, chunk) ==
  { [txn |-> t, cat |-> Answer(t, memory), layer |-> Layer(t, memory), src |-> chunk] :
      t \in page }

Proposals(page, memory, chunk) ==
  { [txn |-> t, cat |-> Answer(t, memory), layer |-> Layer(t, memory), src |-> chunk] :
      t \in {p \in page : Answer(p, memory) # NoCategory} }

Proposed(w) == Proposals(job[w].page, job[w].memory, chunks[job[w].batch] + 1)

\* classifications_one_live_per_transaction, deferred to the commit: it counts
\* the rows this transaction can see, its own and the committed ones.
OneLiveTrigger(txns) == \A r \in Live : r.txn \notin txns

WriteChunkCheck(w) ==
  /\ job[w].pc = "check"
  /\ Goto(w, IF OneLiveTrigger({r.txn : r \in Proposed(w)}) THEN "commit" ELSE "error")
  /\ UNCHANGED <<imported, queue, runVars, ledgerVars, reviewVars, request, failures>>

\* The chunk's classifications and RecordChunkResult, together.
WriteChunkCommit(w) ==
  LET b == job[w].batch IN
  /\ job[w].pc = "commit" /\ run[b] = "running"
  /\ rows' = rows \cup Proposed(w)
  /\ chunks' = [chunks EXCEPT ![b] = @ + 1]
  /\ classifiedCount' = [classifiedCount EXCEPT ![b] = @ + Cardinality(Proposed(w))]
  /\ reviewCount' = [reviewCount EXCEPT
       ![b] = @ + (Cardinality(job[w].page) - Cardinality(Proposed(w)))]
  /\ job' = [job EXCEPT ![w].pc = "page", ![w].cursor = job[w].last, ![w].page = {}]
  /\ UNCHANGED <<imported, queue, run, retracted, reviewVars, request, failures>>

\* FinishClassificationRun names a running run; that it finds one whenever a
\* worker gets here is RunOwned below.
EndRun(w, pc, status) ==
  /\ job[w].pc = pc /\ run[job[w].batch] = "running"
  /\ run' = [run EXCEPT ![job[w].batch] = status]
  /\ Goto(w, "ack")
  /\ UNCHANGED <<imported, queue, chunks, classifiedCount, reviewCount, ledgerVars,
                 reviewVars, request, failures>>

FinishRun(w) == EndRun(w, "finish", "classified")

FailRun(w) == EndRun(w, "fail", "failed")

-----------------------------------------------------------------------------
(* Resolve and Undo *)

GroupRows(e, k) == {t \in Txns : EntityOf[t] = e /\ KeyOf[t] = k /\ Unclassified(t)}

DecisionsOn(k) == {d \in LiveDecisions : d.key = k}

\* The read that fixes what the decision covers; an empty group is refused.
ResolveRead(u, e, k, outcome, cat) ==
  /\ request[u].pc = "idle"
  /\ GroupRows(e, k) # {}
  /\ (outcome = "categorised") = (cat # NoCategory)
  /\ request' = [request EXCEPT ![u] =
       [pc |-> "write", key |-> k, outcome |-> outcome, cat |-> cat,
        covered |-> GroupRows(e, k), target |-> 0, held |-> {}]]
  /\ UNCHANGED <<imported, queue, runVars, ledgerVars, reviewVars, job, failures>>

\* Mutant: no unique index; two open decisions do not see each other.
KeyFreeAlways(k) == TRUE

\* review_decisions_one_live_idx (and the vendor's row) are the lock: while
\* another transaction has a decision on the key in flight, this one waits.
KeyFree(k) == \A v \in Reviewers : ~(request[v].pc = "commit" /\ request[v].key = k)

CloseRequest(u) == request' = [request EXCEPT ![u] = NoRequest]

\* CodeAlreadyDecided
ResolveRefused(u) ==
  /\ request[u].pc = "write" /\ KeyFree(request[u].key)
  /\ DecisionsOn(request[u].key) # {}
  /\ CloseRequest(u)
  /\ UNCHANGED <<imported, queue, runVars, ledgerVars, reviewVars, job, failures>>

\* The commit runs the deferred trigger over the rows to be classified, which a
\* skipped group has none of.
ResolveCheck(u) ==
  /\ request[u].pc = "write" /\ KeyFree(request[u].key)
  /\ DecisionsOn(request[u].key) = {}
  /\ IF request[u].outcome = "skipped" \/ OneLiveTrigger(request[u].covered)
     THEN request' = [request EXCEPT ![u].pc = "commit"]
     ELSE CloseRequest(u)
  /\ UNCHANGED <<imported, queue, runVars, ledgerVars, reviewVars, job, failures>>

Written(q) == IF q.outcome = "categorised" THEN q.cat ELSE OutOfPNL

\* The human classifications a decision's transaction inserts.
HumanRows(q, id) ==
  IF q.outcome = "skipped" THEN {}
  ELSE {[txn |-> t, cat |-> Written(q), layer |-> "human", src |-> id] : t \in q.covered}

\* Mutant: every outcome but a skip is remembered.
RememberedTransfers(q) == IF q.outcome = "skipped" THEN vendors
                          ELSE [vendors EXCEPT ![q.key] = Written(q)]

\* UpsertVendor: memory is earned only by a category.
Remembered(q) == IF q.outcome = "categorised" THEN [vendors EXCEPT ![q.key] = q.cat]
                 ELSE vendors

NextId(id) == /\ \A d \in decisions : d.id < id
              /\ id = 1 \/ \E d \in decisions : d.id = id - 1

ResolveCommit(u) == \E id \in 1 .. MaxDecisions :
  LET q == request[u] IN
  /\ q.pc = "commit" /\ NextId(id)
  /\ rows' = rows \cup HumanRows(q, id)
  /\ vendors' = Remembered(q)
  /\ decisions' = decisions \cup {[id |-> id, key |-> q.key, outcome |-> q.outcome,
                                   cat |-> q.cat, covered |-> q.covered]}
  /\ CloseRequest(u)
  /\ UNCHANGED <<imported, queue, runVars, retracted, undone, job, failures>>

\* Reads the decision, undone or not, and the rows of its key with a live human
\* answer.
UndoRead(u, d) ==
  /\ request[u].pc = "idle"
  /\ request' = [request EXCEPT ![u] =
       [NoRequest EXCEPT !.pc = "undo", !.key = d.key, !.target = d.id,
          !.covered = {t \in Txns : KeyOf[t] = d.key
                                    /\ \E r \in Live : r.txn = t /\ Human(r)}]]
  /\ UNCHANGED <<imported, queue, runVars, ledgerVars, reviewVars, job, failures>>

\* The live answers another undo has updated and not committed yet: their rows
\* are locked.
HeldByOthers(u) == UNION {request[v].held : v \in Reviewers \ {u}}

\* RetractClassificationsOfTransactions: the UPDATE takes every answer that is
\* live now on the rows read, once no other undo holds one of them.  Nobody else
\* sees them retracted before the commit.
UndoRetract(u) ==
  LET held == {r \in Live : r.txn \in request[u].covered} IN
  /\ request[u].pc = "undo" /\ held \cap HeldByOthers(u) = {}
  /\ request' = [request EXCEPT ![u].pc = "stamp", ![u].held = held]
  /\ UNCHANGED <<imported, queue, runVars, ledgerVars, reviewVars, job, failures>>

\* Mutant: the human answers are retracted, other live answers are left.
RetractedByUndoHumanOnly(held) == {r \in held : Human(r)}

RetractedByUndo(held) == held

\* Mutant: the stamp does not ask whether the decision still stands.
UndoCommitAgain(u) ==
  \E d \in decisions :
  /\ request[u].pc = "stamp" /\ d.id = request[u].target /\ KeyFree(d.key)
  /\ retracted' = retracted \cup RetractedByUndo(request[u].held)
  /\ vendors' = IF d.outcome = "categorised" THEN [vendors EXCEPT ![d.key] = NoCategory]
                ELSE vendors
  /\ undone' = undone \cup {d}
  /\ CloseRequest(u)
  /\ UNCHANGED <<imported, queue, runVars, rows, decisions, job, failures>>

\* DeleteVendor, the stamp and the commit, which shows the retraction too.
UndoCommit(u) ==
  \E d \in LiveDecisions :
  /\ request[u].pc = "stamp" /\ d.id = request[u].target /\ KeyFree(d.key)
  /\ retracted' = retracted \cup RetractedByUndo(request[u].held)
  /\ vendors' = IF d.outcome = "categorised" THEN [vendors EXCEPT ![d.key] = NoCategory]
                ELSE vendors
  /\ undone' = undone \cup {d}
  /\ CloseRequest(u)
  /\ UNCHANGED <<imported, queue, runVars, rows, decisions, job, failures>>

\* CodeAlreadyUndone: the stamp finds no row and everything rolls back.
UndoRefused(u) ==
  \E d \in undone :
  /\ request[u].pc = "stamp" /\ d.id = request[u].target
  /\ CloseRequest(u)
  /\ UNCHANGED <<imported, queue, runVars, ledgerVars, reviewVars, job, failures>>

-----------------------------------------------------------------------------
ClassifyStep(w) ==
  \/ OpenRun(w) \/ RequestContext(w) \/ ReadPage(w) \/ AskEngine(w)
  \/ WriteChunkCheck(w) \/ WriteChunkCommit(w) \/ FinishRun(w) \/ FailRun(w) \/ Ack(w)

FetchAny(b) == \E w \in Workers : Fetch(w, b)

ReviewStep(u) ==
  \/ \E e \in Entities, k \in Keys, outcome \in Outcomes, c \in Categories \cup {NoCategory} :
        ResolveRead(u, e, k, outcome, c)
  \/ ResolveRefused(u) \/ ResolveCheck(u) \/ ResolveCommit(u)
  \/ (\E d \in decisions : UndoRead(u, d)) \/ UndoRetract(u)
  \/ UndoCommit(u) \/ UndoRefused(u)

Next ==
  \/ \E b \in Batches : PersistImport(b) \/ FetchAny(b)
  \/ \E w \in Workers : ClassifyStep(w) \/ AttemptFails(w) \/ Retry(w) \/ Discard(w)
  \/ \E u \in Reviewers : ReviewStep(u)

Spec == Init /\ [][Next]_vars

\* Workers do not stop of themselves, River fetches what waits, and a job that
\* errs on every attempt is discarded in the end.
Fairness ==
  /\ \A w \in Workers : WF_vars(ClassifyStep(w)) /\ WF_vars(Retry(w) \/ Discard(w))
                        /\ SF_vars(Discard(w))
  /\ \A b \in Batches : SF_vars(FetchAny(b))

FairSpec == Spec /\ Fairness

-----------------------------------------------------------------------------
(* Properties. *)

Rows == [txn : Txns, cat : Categories, layer : {"L0", "L1", "human"}, src : Nat]

Decisions == [id : Nat, key : Keys, outcome : Outcomes,
              cat : Categories \cup {NoCategory}, covered : SUBSET Txns]

JobType == [pc : Points \cup {"idle"}, batch : Batches \cup {NoBatch},
            memory : [Keys -> Categories \cup {NoCategory}], cursor : Nat,
            page : SUBSET Txns, last : Nat]

RequestType == [pc : {"idle", "write", "commit", "undo", "stamp"}, key : Keys,
                outcome : Outcomes, cat : Categories \cup {NoCategory},
                covered : SUBSET Txns, target : Nat, held : SUBSET Rows]

RunsTyped ==
  /\ imported \subseteq Batches
  /\ queue \in [Batches -> Nat]
  /\ run \in [Batches -> {"absent", "running", "classified", "failed"}]
  /\ chunks \in [Batches -> Nat]
  /\ failures \in Nat

LedgerTyped == rows \subseteq Rows /\ retracted \subseteq rows

ReviewTyped ==
  /\ vendors \in [Keys -> Categories \cup {NoCategory}]
  /\ decisions \subseteq Decisions /\ undone \subseteq decisions

JobsTyped ==
  /\ job \in [Workers -> JobType]
  /\ \A w \in Workers : job[w].pc # "idle" => job[w].batch \in Batches

RequestsTyped == request \in [Reviewers -> RequestType]

\* Every column, job and open request holds a value of its kind, a worker that
\* is not idle has a batch, and only answers with a category are stored.
TypeOK == RunsTyped /\ LedgerTyped /\ ReviewTyped /\ JobsTyped /\ RequestsTyped

\* However often its job is enqueued, retried or crashes, a batch is asked about
\* by one worker, and a row is answered by the engine once in its life: what
\* UNIQUE (org_id, batch_id) on the runs and the page cursor are there for.
EngineAnswersOnce ==
  \A r, s \in rows : r.txn = s.txn /\ ~Human(r) /\ ~Human(s) => r = s

\* "What did we decide about this vendor" has one answer: a counterparty has at
\* most one live decision, however resolves and undos race.
OneLiveDecision ==
  \A d, e \in LiveDecisions : d.key = e.key => d = e

\* A decision that stands has its answer live on every row it covered, one that
\* was undone has none, and no human answer is live without its decision.
DecisionStands ==
  /\ \A d \in decisions : d.outcome # "skipped" =>
       \A t \in d.covered :
          d \in LiveDecisions <=> \E r \in Live : /\ r.txn = t /\ Human(r) /\ r.src = d.id
                                               /\ r.cat = Written(d)
  /\ \A r \in Live : Human(r) =>
       \E d \in LiveDecisions : r.src = d.id /\ r.txn \in d.covered

\* The memory the engine will be sent is what the standing decisions say: the
\* category of the live categorised decision of a key, and nothing else.
MemoryIsTheDecision ==
  \A k \in Keys, c \in Categories :
     vendors[k] = c <=> \E d \in LiveDecisions : /\ d.key = k /\ d.outcome = "categorised"
                                                /\ d.cat = c

\* "The rows go back to having no answer at all" (review.go) of the answers the
\* undo could see: one still live after it on a row it covered is no person's,
\* and is none of those live when the UPDATE ran, the decision's own and whatever
\* else was on its rows.  Only a chunk committed between the UPDATE and the undo's
\* own commit can have left one.
LeftByUndo(d) == {r \in Live' : r.txn \in d.covered}

UndoLeavesOnlyTheLate ==
  \A d \in undone' \ undone : d.outcome # "skipped" =>
    \E u \in Reviewers :
      /\ request[u].pc = "stamp" /\ request[u].target = d.id
      /\ HumanRows(d, d.id) \subseteq request[u].held
      /\ \A r \in LeftByUndo(d) : ~Human(r) /\ r \notin request[u].held

UndoClearsWhatItSaw == [][UndoLeavesOnlyTheLate]_vars

\* A run accounts for its batch: no row is counted twice, every stored engine
\* answer is counted, and a finished run has counted every row without one.
RunAccounts ==
  \A b \in Batches :
    LET batch == {t \in Txns : BatchOf[t] = b} IN
    /\ classifiedCount[b] = Cardinality({r \in rows : r.txn \in batch /\ ~Human(r)})
    /\ classifiedCount[b] + reviewCount[b] <= Cardinality(batch)
    /\ run[b] = "classified" =>
         reviewCount[b] >= Cardinality({t \in batch : \A r \in rows : r.txn # t})

\* A run that was opened is finished or failed in the end.
RunEnds == \A b \in Batches : run[b] = "running" ~> run[b] \in {"classified", "failed"}

\* "The current classification is a single row by construction" (migration 007).
OneLive == \A r, s \in Live : r.txn = s.txn => r = s

-----------------------------------------------------------------------------
(* The strengthenings that make the invariants inductive. *)

\* A worker inside a run is its only worker, and the run is open: what makes
\* FinishClassificationRun's WHERE status = 'running' always find its row.
RunOwned ==
  /\ \A w \in Workers : job[w].pc \in Owning => run[job[w].batch] = "running"
  /\ \A v, w \in Workers :
       job[v].pc \in Owning /\ job[w].pc \in Owning /\ job[v].batch = job[w].batch => v = w

\* What the engine answered lies behind the cursor, the page in hand before it.
EngineBehindCursor ==
  \A r \in rows : ~Human(r) =>
     /\ run[BatchOf[r.txn]] # "absent"
     /\ \A w \in Workers : job[w].pc \in Owning /\ job[w].batch = BatchOf[r.txn]
          => r.txn <= job[w].cursor

PageBehindCursor ==
  \A w \in Workers : job[w].pc \in {"ask", "check", "commit"} =>
     /\ job[w].cursor < job[w].last
     /\ \A t \in job[w].page : BatchOf[t] = job[w].batch /\ job[w].cursor < t
                              /\ t <= job[w].last

RunInv == /\ RunOwned /\ EngineBehindCursor /\ PageBehindCursor /\ EngineAnswersOnce

\* The rows of a batch, what the engine stored on them, and those nobody has
\* answered yet.
BatchRows(b) == {t \in Txns : BatchOf[t] = b}
EngineRows(b) == {r \in rows : r.txn \in BatchRows(b) /\ ~Human(r)}
Unanswered(b) == {t \in BatchRows(b) : \A r \in rows : r.txn # t}
Upto(txns, n) == {t \in txns : t <= n}

\* Only a batch that is in the ledger is classified, from its first row on.
JobsImported ==
  /\ \A b \in Batches : queue[b] > 0 => b \in imported
  /\ \A w \in Workers : job[w].pc # "idle" => job[w].batch \in imported
  /\ \A w \in Workers : job[w].pc = "open" => job[w].cursor = 0

\* A page leaves out no row that still has no answer.
PageLeavesNone ==
  \A w \in Workers, b \in Batches :
    job[w].batch = b /\ job[w].pc \in {"ask", "check", "commit"} =>
      \A t \in Unanswered(b) :
         job[w].cursor < t /\ t <= job[w].last => t \in job[w].page

\* The counters count what was stored; while the run goes on, no row behind the
\* cursor twice and none without an answer left out.
CountersTyped ==
  /\ classifiedCount \in [Batches -> Nat] /\ reviewCount \in [Batches -> Nat]
  /\ \A b \in Batches : classifiedCount[b] = Cardinality(EngineRows(b))

CountedOnce ==
  /\ \A b \in Batches :
       /\ classifiedCount[b] + reviewCount[b] <= Cardinality(BatchRows(b))
       /\ run[b] = "absent" => classifiedCount[b] + reviewCount[b] = 0
  /\ \A w \in Workers, b \in Batches : job[w].batch = b /\ job[w].pc \in Owning =>
       classifiedCount[b] + reviewCount[b]
         <= Cardinality(Upto(BatchRows(b), job[w].cursor))

UnansweredCounted ==
  /\ \A w \in Workers, b \in Batches : job[w].batch = b /\ job[w].pc \in Owning =>
       Cardinality(Upto(Unanswered(b), job[w].cursor)) <= reviewCount[b]
  /\ \A w \in Workers, b \in Batches : job[w].batch = b /\ job[w].pc = "finish" =>
       Cardinality(Unanswered(b)) <= reviewCount[b]
  /\ \A b \in Batches : run[b] = "classified" =>
       Cardinality(Unanswered(b)) <= reviewCount[b]

CountInv == JobsImported /\ PageLeavesNone /\ CountersTyped /\ CountedOnce /\ UnansweredCounted

\* A decision in flight has the key to itself.
CommitExclusive ==
  /\ \A u \in Reviewers : request[u].pc = "commit" => DecisionsOn(request[u].key) = {}
  /\ \A u, v \in Reviewers :
       request[u].pc = "commit" /\ request[v].pc = "commit" /\ request[u].key = request[v].key
         => u = v

\* A decision, taken or in flight, names a category exactly when it gives one,
\* and covers rows of its own key.
WellFormed(q) ==
  /\ q.outcome = "categorised" <=> q.cat # NoCategory
  /\ \A t \in q.covered : KeyOf[t] = q.key

AllWellFormed ==
  /\ \A d, e \in decisions : d.id = e.id => d = e
  /\ \A d \in decisions : WellFormed(d)
  /\ \A u \in Reviewers : WellFormed(request[u])

\* Human rows are those of decisions: live while the decision stands, retracted
\* from when it is undone.
HumanRowsFollow ==
  /\ \A r \in rows : Human(r) => \E d \in decisions : r \in HumanRows(d, d.id)
  /\ \A d \in LiveDecisions : HumanRows(d, d.id) \subseteq Live
  /\ \A d \in undone : HumanRows(d, d.id) \cap Live = {}

\* An open undo names a decision that exists and, if it still stands, has read
\* every row it answered and, past its UPDATE, holds the answer it gave.
UndoHoldsRows ==
  /\ \A u \in Reviewers : request[u].pc \in {"undo", "stamp"} =>
       /\ \E d \in decisions : d.id = request[u].target
       /\ \A d \in LiveDecisions : d.id = request[u].target =>
            /\ d.key = request[u].key
            /\ d.outcome # "skipped" => d.covered \subseteq request[u].covered
            /\ request[u].pc = "stamp" => HumanRows(d, d.id) \subseteq request[u].held
  /\ \A u \in Reviewers : \A r \in request[u].held :
       r \in rows /\ r.txn \in request[u].covered

ReviewInv == /\ OneLiveDecision /\ MemoryIsTheDecision /\ CommitExclusive
             /\ AllWellFormed /\ HumanRowsFollow /\ UndoHoldsRows
=============================================================================
