------------------------ MODULE ClassifyReviewProofs ------------------------
(***************************************************************************)
(* Proofs about ClassifyReview, for any ledger, any number of workers and  *)
(* reviewers, any faults and any bounds.                                   *)
(***************************************************************************)
EXTENDS ClassifyReview, FiniteSetTheorems, TLAPS

USE ConstantsAssumption

-----------------------------------------------------------------------------
(* Types. *)

LEMMA Untouched ==
  /\ RunsTyped /\ UNCHANGED <<imported, queue, run, chunks, failures>> => RunsTyped'
  /\ LedgerTyped /\ UNCHANGED ledgerVars => LedgerTyped'
  /\ ReviewTyped /\ UNCHANGED reviewVars => ReviewTyped'
  /\ JobsTyped /\ UNCHANGED job => JobsTyped'
  /\ RequestsTyped /\ UNCHANGED request => RequestsTyped'
BY DEF RunsTyped, LedgerTyped, ReviewTyped, JobsTyped, RequestsTyped, ledgerVars, reviewVars

\* A worker is given a new job record.
LEMMA MoveTyped ==
  ASSUME JobsTyped, NEW w \in Workers, NEW j \in JobType,
         j.pc # "idle" => j.batch \in Batches,
         job' = [job EXCEPT ![w] = j]
  PROVE  JobsTyped'
BY DEF JobsTyped

LEMMA GotoMoves ==
  ASSUME JobsTyped, NEW w \in Workers, NEW pc \in Points, job[w].pc # "idle", Goto(w, pc)
  PROVE  /\ JobsTyped'
         /\ job' = [job EXCEPT ![w] = [job[w] EXCEPT !.pc = pc]]
<1>1. [job[w] EXCEPT !.pc = pc] \in JobType
  BY DEF JobsTyped, JobType
<1>2. job' = [job EXCEPT ![w] = [job[w] EXCEPT !.pc = pc]]
  BY DEF Goto, JobsTyped
<1>3. [job[w] EXCEPT !.pc = pc].batch \in Batches
  BY DEF JobsTyped, JobType
<1> QED BY <1>1, <1>2, <1>3, MoveTyped

LEMMA FreeTyped == Free \in JobType /\ Free.pc = "idle"
BY DEF Free, JobType

LEMMA NoRequestTyped ==
  NoRequest \in RequestType /\ NoRequest.pc = "idle" /\ NoRequest.held = {}
<1>1. {} \in SUBSET Rows /\ {} \in SUBSET Txns
  OBVIOUS
<1> QED BY <1>1 DEF NoRequest, RequestType, Outcomes

LEMMA CloseTyped ==
  ASSUME RequestsTyped, NEW u \in Reviewers, CloseRequest(u)
  PROVE  RequestsTyped'
BY NoRequestTyped DEF RequestsTyped, CloseRequest

LEMMA RequeueTyped ==
  ASSUME RunsTyped, JobsTyped, NEW w \in Workers, job[w].pc # "idle", Requeue(w),
         UNCHANGED <<imported, run, chunks>>, failures' \in Nat
  PROVE  RunsTyped' /\ JobsTyped'
<1>1. JobsTyped'
  BY FreeTyped, MoveTyped DEF Requeue
<1>2. job[w].batch \in Batches
  BY DEF JobsTyped
<1> QED BY <1>1, <1>2 DEF Requeue, RunsTyped

LEMMA FetchTyped ==
  ASSUME RunsTyped, JobsTyped, NEW w \in Workers, NEW b \in Batches, Fetch(w, b)
  PROVE  RunsTyped' /\ JobsTyped'
<1> DEFINE j == [Free EXCEPT !.pc = "open", !.batch = b]
<1>1. j \in JobType /\ j.batch = b
  BY DEF Free, JobType, Points
<1>2. job' = [job EXCEPT ![w] = j]
  BY DEF Fetch
<1>3. JobsTyped'
  BY <1>1, <1>2, MoveTyped
<1>4. RunsTyped'
  BY DEF Fetch, RunsTyped, runVars
<1> QED BY <1>3, <1>4

LEMMA LayerTyped ==
  ASSUME NEW t \in Txns, NEW memory \in [Keys -> Categories \cup {NoCategory}]
  PROVE  /\ Layer(t, memory) \in {"L0", "L1"}
         /\ Answer(t, memory) \in Categories \cup {NoCategory}
BY DEF Layer, Answer

\* What the engine proposes are well-typed rows, none of them human, on rows of
\* the page, and one per row.
LEMMA ProposedRows ==
  ASSUME RunsTyped, JobsTyped, NEW w \in Workers, job[w].pc # "idle"
  PROVE  /\ Proposed(w) \subseteq Rows
         /\ \A r \in Proposed(w) : ~Human(r) /\ r.txn \in job[w].page
         /\ \A r, s \in Proposed(w) : r.txn = s.txn => r = s
<1> DEFINE m == job[w].memory
           n == chunks[job[w].batch] + 1
           F(t) == [txn |-> t, cat |-> Answer(t, m), layer |-> Layer(t, m), src |-> n]
<1>1. /\ m \in [Keys -> Categories \cup {NoCategory}] /\ job[w].page \subseteq Txns
      /\ job[w].batch \in Batches
  BY DEF JobsTyped, JobType
<1>2. n \in Nat
  BY <1>1 DEF RunsTyped
<1>3. Proposed(w) = {F(t) : t \in {p \in job[w].page : Answer(p, m) # NoCategory}}
  BY DEF Proposed, Proposals
<1>4. ASSUME NEW t \in Txns, Answer(t, m) # NoCategory
      PROVE  /\ F(t) \in Rows /\ F(t).txn = t /\ F(t).layer # "human"
  BY <1>1, <1>2, <1>4, LayerTyped DEF Rows
<1> HIDE DEF F
<1>5. Proposed(w) \subseteq Rows
  BY <1>1, <1>3, <1>4
<1>a. \A r \in Proposed(w) : \E t \in job[w].page :
        /\ r = F(t) /\ F(t).txn = t /\ F(t).layer # "human"
  BY <1>1, <1>3, <1>4
<1>6. ASSUME NEW r \in Proposed(w) PROVE ~Human(r) /\ r.txn \in job[w].page
  BY <1>a DEF Human
<1>7. ASSUME NEW r \in Proposed(w), NEW s \in Proposed(w), r.txn = s.txn PROVE r = s
  BY <1>a, <1>7
<1> QED BY <1>5, <1>6, <1>7

LEMMA HumanRowsTyped ==
  ASSUME NEW q, q.cat \in Categories \cup {NoCategory}, q.covered \subseteq Txns,
         q.outcome = "categorised" <=> q.cat # NoCategory, NEW id \in Nat
  PROVE  /\ HumanRows(q, id) \subseteq Rows
         /\ Written(q) \in Categories
         /\ \A r \in HumanRows(q, id) : /\ Human(r) /\ r.src = id /\ r.txn \in q.covered
                                       /\ r.cat = Written(q) /\ q.outcome # "skipped"
         /\ q.outcome # "skipped" =>
              \A r \in Rows : Human(r) /\ r.src = id /\ r.txn \in q.covered
                              /\ r.cat = Written(q) => r \in HumanRows(q, id)
<1>1. Written(q) \in Categories
  BY DEF Written
<1>2. \A t \in q.covered :
        [txn |-> t, cat |-> Written(q), layer |-> "human", src |-> id] \in Rows
  BY <1>1 DEF Rows
<1>3. HumanRows(q, id) \subseteq Rows
  BY <1>2 DEF HumanRows
<1>4. \A r \in HumanRows(q, id) : /\ Human(r) /\ r.src = id /\ r.txn \in q.covered
                                  /\ r.cat = Written(q) /\ q.outcome # "skipped"
  BY DEF HumanRows, Human
<1>5. ASSUME q.outcome # "skipped", NEW r \in Rows, Human(r), r.src = id,
             r.txn \in q.covered, r.cat = Written(q)
      PROVE  r \in HumanRows(q, id)
  <2>1. r = [txn |-> r.txn, cat |-> Written(q), layer |-> "human", src |-> id]
    BY <1>5 DEF Rows, Human
  <2> QED BY <1>5, <2>1 DEF HumanRows
<1> QED BY <1>1, <1>3, <1>4, <1>5

\* The record a worker holds after a step that keeps its batch.
LEMMA StepTyped ==
  ASSUME JobsTyped, NEW w \in Workers, job[w].pc # "idle", NEW j \in JobType,
         j.batch = job[w].batch, job' = [job EXCEPT ![w] = j]
  PROVE  JobsTyped'
<1>1. job[w].batch \in Batches
  BY DEF JobsTyped
<1> QED BY <1>1, MoveTyped

LEMMA ContextMoves ==
  ASSUME TypeOK, NEW w \in Workers, job[w].pc # "idle",
         job' = [job EXCEPT ![w].pc = "page", ![w].memory = vendors]
  PROVE  /\ JobsTyped'
         /\ job' = [job EXCEPT ![w] = [job[w] EXCEPT !.pc = "page", !.memory = vendors]]
<1> DEFINE j == [job[w] EXCEPT !.pc = "page", !.memory = vendors]
<1>1. j \in JobType /\ j.batch = job[w].batch
  BY ZenonT(40) DEF TypeOK, JobsTyped, JobType, ReviewTyped, Points
<1>2. job' = [job EXCEPT ![w] = j]
  BY DEF TypeOK, JobsTyped
<1> HIDE DEF j
<1>3. JobsTyped'
  BY <1>1, <1>2, StepTyped DEF TypeOK
<1> QED BY <1>2, <1>3 DEF j

LEMMA PageMoves ==
  ASSUME TypeOK, NEW w \in Workers, job[w].pc # "idle", NEW page \in SUBSET Txns,
         NEW last \in Txns,
         job' = [job EXCEPT ![w].pc = "ask", ![w].page = page, ![w].last = last]
  PROVE  /\ JobsTyped'
         /\ job' = [job EXCEPT ![w] =
                      [job[w] EXCEPT !.pc = "ask", !.page = page, !.last = last]]
<1> DEFINE j == [job[w] EXCEPT !.pc = "ask", !.page = page, !.last = last]
<1>1. j \in JobType /\ j.batch = job[w].batch
  BY ZenonT(40) DEF TypeOK, JobsTyped, JobType, Points
<1>2. job' = [job EXCEPT ![w] = j]
  BY DEF TypeOK, JobsTyped
<1> HIDE DEF j
<1>3. JobsTyped'
  BY <1>1, <1>2, StepTyped DEF TypeOK
<1> QED BY <1>2, <1>3 DEF j

LEMMA CursorMoves ==
  ASSUME TypeOK, NEW w \in Workers, job[w].pc # "idle",
         job' = [job EXCEPT ![w].pc = "page", ![w].cursor = job[w].last, ![w].page = {}]
  PROVE  /\ JobsTyped'
         /\ job' = [job EXCEPT ![w] =
                      [job[w] EXCEPT !.pc = "page", !.cursor = job[w].last, !.page = {}]]
<1> DEFINE j == [job[w] EXCEPT !.pc = "page", !.cursor = job[w].last, !.page = {}]
<1>1. j \in JobType /\ j.batch = job[w].batch
  BY ZenonT(40) DEF TypeOK, JobsTyped, JobType, Points
<1>2. job' = [job EXCEPT ![w] = j]
  BY DEF TypeOK, JobsTyped
<1> HIDE DEF j
<1>3. JobsTyped'
  BY <1>1, <1>2, StepTyped DEF TypeOK
<1> QED BY <1>2, <1>3 DEF j

\* A step of the classify job keeps every type.
LEMMA ClassifyTyped ==
  ASSUME TypeOK, NEW w \in Workers, ClassifyStep(w)
  PROVE  TypeOK'
<1> USE Untouched DEF TypeOK, runVars
<1>1. CASE OpenRun(w)
  <2>1. job[w].batch \in Batches /\ job[w].pc # "idle"
    BY <1>1 DEF OpenRun, JobsTyped
  <2>2. RunsTyped'
    BY <1>1, <2>1 DEF OpenRun, RunsTyped
  <2>3. Goto(w, "context") \/ Goto(w, "ack")
    BY <1>1 DEF OpenRun
  <2>4. JobsTyped'
    BY <2>1, <2>3, GotoMoves DEF Points
  <2> QED BY <1>1, <2>2, <2>4 DEF OpenRun
<1>2. CASE RequestContext(w)
  <2>1. JobsTyped'
    BY <1>2, GotoMoves, ContextMoves DEF RequestContext, Points
  <2> QED BY <1>2, <2>1 DEF RequestContext
<1>3. CASE ReadPage(w)
  <2>1. job[w].pc # "idle"
    BY <1>3 DEF ReadPage
  <2>2. PageCandidates(job[w].batch, job[w].cursor) \subseteq Txns
    BY DEF PageCandidates
  <2>3. \/ Goto(w, "finish")
        \/ \E page \in SUBSET Txns, last \in Txns :
             job' = [job EXCEPT ![w].pc = "ask", ![w].page = page, ![w].last = last]
    BY <1>3, <2>2 DEF ReadPage
  <2>4. JobsTyped'
    BY <2>1, <2>3, GotoMoves, PageMoves DEF Points
  <2> QED BY <1>3, <2>4 DEF ReadPage
<1>4. CASE AskEngine(w)
  <2>1. JobsTyped'
    BY <1>4, GotoMoves DEF AskEngine, Points
  <2> QED BY <1>4, <2>1 DEF AskEngine
<1>5. CASE WriteChunkCheck(w)
  <2>1. Goto(w, "commit") \/ Goto(w, "error")
    BY <1>5 DEF WriteChunkCheck
  <2>2. JobsTyped'
    BY <1>5, <2>1, GotoMoves DEF WriteChunkCheck, Points
  <2> QED BY <1>5, <2>2 DEF WriteChunkCheck
<1>6. CASE WriteChunkCommit(w)
  <2>1. job[w].batch \in Batches /\ job[w].pc # "idle"
    BY <1>6 DEF WriteChunkCommit, JobsTyped
  <2>2. RunsTyped'
    BY <1>6, <2>1 DEF WriteChunkCommit, RunsTyped
  <2>3. LedgerTyped'
    BY <1>6, <2>1, ProposedRows DEF WriteChunkCommit, LedgerTyped
  <2>4. JobsTyped'
    BY <1>6, <2>1, CursorMoves DEF WriteChunkCommit
  <2> QED BY <1>6, <2>2, <2>3, <2>4 DEF WriteChunkCommit
<1>7. ASSUME NEW pc \in {"finish", "fail"}, NEW status \in {"classified", "failed"},
             EndRun(w, pc, status)
      PROVE  TypeOK'
  <2>1. job[w].batch \in Batches /\ job[w].pc # "idle"
    BY <1>7 DEF EndRun, JobsTyped
  <2>2. RunsTyped'
    BY <1>7, <2>1 DEF EndRun, RunsTyped
  <2>3. JobsTyped'
    BY <1>7, <2>1, GotoMoves DEF EndRun, Points
  <2> QED BY <1>7, <2>2, <2>3 DEF EndRun
<1>8. CASE Ack(w)
  <2>1. JobsTyped'
    BY <1>8, FreeTyped, MoveTyped DEF Ack
  <2> QED BY <1>8, <2>1 DEF Ack
<1> QED
  BY <1>1, <1>2, <1>3, <1>4, <1>5, <1>6, <1>7, <1>8 DEF ClassifyStep, FinishRun, FailRun

\* An undo that updates the rows it read goes on with what it holds.
LEMMA RetractMoves ==
  ASSUME TypeOK, NEW u \in Reviewers, NEW held \in SUBSET Rows,
         request' = [request EXCEPT ![u].pc = "stamp", ![u].held = held]
  PROVE  /\ RequestsTyped'
         /\ request' = [request EXCEPT ![u] = [request[u] EXCEPT !.pc = "stamp", !.held = held]]
<1> DEFINE q == [request[u] EXCEPT !.pc = "stamp", !.held = held]
<1>1. q \in RequestType
  BY ZenonT(40) DEF TypeOK, RequestsTyped, RequestType
<1>2. request' = [request EXCEPT ![u] = q]
  BY DEF TypeOK, RequestsTyped
<1> HIDE DEF q
<1>3. RequestsTyped'
  BY <1>1, <1>2 DEF TypeOK, RequestsTyped
<1> QED BY <1>2, <1>3 DEF q

\* So does a step of a reviewer, whose request names what it means to write.
LEMMA ReviewTypedStep ==
  ASSUME TypeOK, UndoHoldsRows, NEW u \in Reviewers, WellFormed(request[u]), ReviewStep(u)
  PROVE  TypeOK'
<1> USE Untouched DEF TypeOK, runVars
<1>1. ASSUME NEW e \in Entities, NEW k \in Keys, NEW outcome \in Outcomes,
             NEW c \in Categories \cup {NoCategory}, ResolveRead(u, e, k, outcome, c)
      PROVE  TypeOK'
  <2>2. GroupRows(e, k) \subseteq Txns /\ {} \in SUBSET Rows
    BY DEF GroupRows
  <2>3. RequestsTyped'
    BY <1>1, <2>2 DEF ResolveRead, RequestsTyped, RequestType
  <2> QED BY <1>1, <2>3 DEF ResolveRead
<1>2. CASE ResolveRefused(u)
  BY <1>2, CloseTyped DEF ResolveRefused
<1>3. CASE ResolveCheck(u)
  <2>1. RequestsTyped'
    <3>1. CASE CloseRequest(u)
      BY <3>1, CloseTyped
    <3>2. CASE request' = [request EXCEPT ![u].pc = "commit"]
      BY <3>2 DEF RequestsTyped, RequestType
    <3> QED BY <1>3, <3>1, <3>2 DEF ResolveCheck
  <2> QED BY <1>3, <2>1 DEF ResolveCheck
<1>4. CASE ResolveCommit(u)
  <2>1. PICK id \in 1 .. MaxDecisions :
          /\ rows' = rows \cup HumanRows(request[u], id)
          /\ vendors' = Remembered(request[u])
          /\ decisions' = decisions \cup
               {[id |-> id, key |-> request[u].key, outcome |-> request[u].outcome,
                 cat |-> request[u].cat, covered |-> request[u].covered]}
          /\ CloseRequest(u)
          /\ UNCHANGED <<imported, queue, runVars, retracted, undone, job, failures>>
    BY <1>4 DEF ResolveCommit
  <2>2. id \in Nat /\ request[u] \in RequestType
    BY DEF RequestsTyped
  <2>3. HumanRows(request[u], id) \subseteq Rows
    BY <2>2, HumanRowsTyped DEF RequestType, WellFormed
  <2>4. LedgerTyped'
    BY <2>1, <2>3 DEF LedgerTyped
  <2>5. vendors' \in [Keys -> Categories \cup {NoCategory}]
    BY <2>1, <2>2 DEF Remembered, RequestType, ReviewTyped
  <2>6. decisions' \subseteq Decisions
    BY <2>1, <2>2 DEF RequestType, ReviewTyped, Decisions
  <2>7. ReviewTyped'
    BY <2>1, <2>5, <2>6 DEF ReviewTyped
  <2> QED BY <2>1, <2>4, <2>7, CloseTyped
<1>5. ASSUME NEW d \in decisions, UndoRead(u, d) PROVE TypeOK'
  <2>1. d.key \in Keys /\ d.id \in Nat
    BY DEF ReviewTyped, Decisions
  <2>2. RequestsTyped'
    BY <1>5, <2>1, NoRequestTyped DEF UndoRead, RequestsTyped, RequestType
  <2> QED BY <1>5, <2>2 DEF UndoRead
<1>8. CASE UndoRetract(u)
  <2>1. {r \in Live : r.txn \in request[u].covered} \in SUBSET Rows
    BY DEF Live, LedgerTyped
  <2>2. RequestsTyped'
    BY <1>8, <2>1, RetractMoves DEF UndoRetract
  <2> QED BY <1>8, <2>2 DEF UndoRetract
<1>6. CASE UndoCommit(u)
  <2>0. request[u].held \subseteq rows
    BY DEF UndoHoldsRows
  <2>1. LedgerTyped'
    BY <1>6, <2>0 DEF UndoCommit, LedgerTyped, RetractedByUndo
  <2>2. ReviewTyped'
    BY <1>6 DEF UndoCommit, ReviewTyped, LiveDecisions, Decisions
  <2> QED BY <1>6, <2>1, <2>2, CloseTyped DEF UndoCommit
<1>7. CASE UndoRefused(u)
  BY <1>7, CloseTyped DEF UndoRefused
<1> QED
  BY <1>1, <1>2, <1>3, <1>4, <1>5, <1>6, <1>7, <1>8 DEF ReviewStep

LEMMA TypeOKInductive == TypeOK /\ AllWellFormed /\ UndoHoldsRows /\ [Next]_vars => TypeOK'
<1> SUFFICES ASSUME TypeOK, AllWellFormed, UndoHoldsRows, [Next]_vars PROVE TypeOK'
  OBVIOUS
<1> USE Untouched DEF TypeOK, runVars
<1>1. ASSUME NEW b \in Batches, PersistImport(b) PROVE TypeOK'
  BY <1>1 DEF PersistImport, RunsTyped
<1>2. ASSUME NEW b \in Batches, FetchAny(b) PROVE TypeOK'
  BY <1>2, FetchTyped DEF FetchAny, Fetch
<1>3. ASSUME NEW w \in Workers, AttemptFails(w) PROVE TypeOK'
  <2>1. failures' \in Nat
    BY <1>3 DEF AttemptFails, RunsTyped
  <2> QED BY <1>3, <2>1, RequeueTyped DEF AttemptFails
<1>4. ASSUME NEW w \in Workers, Retry(w) PROVE TypeOK'
  <2>1. failures' \in Nat
    BY <1>4 DEF Retry, RunsTyped
  <2> QED BY <1>4, <2>1, RequeueTyped DEF Retry
<1>5. ASSUME NEW w \in Workers, Discard(w) PROVE TypeOK'
  <2>1. JobsTyped'
    BY <1>5, FreeTyped, MoveTyped DEF Discard
  <2> QED BY <1>5, <2>1 DEF Discard
<1>6. CASE UNCHANGED vars
  BY <1>6 DEF vars
<1> QED
  BY <1>1, <1>2, <1>3, <1>4, <1>5, <1>6, ClassifyTyped, ReviewTypedStep
  DEF Next, AllWellFormed

-----------------------------------------------------------------------------
(* One worker per run, and one engine answer per row. *)

\* Steps that touch neither the runs nor the workers, and write human rows only.
LEMMA RunFrame ==
  ASSUME RunInv, UNCHANGED <<run, job>>, \A r \in rows' : r \in rows \/ Human(r)
  PROVE  RunInv'
BY DEF RunInv, RunOwned, EngineBehindCursor, PageBehindCursor, EngineAnswersOnce, Human

\* A worker moves on without writing: it gains no run, and its page lies between
\* its cursor and the page's last row.
LEMMA RunMove ==
  ASSUME JobsTyped, RunInv, NEW w \in Workers, NEW j, job' = [job EXCEPT ![w] = j],
         j.pc \in Owning => /\ job[w].pc \in Owning
                            /\ j.batch = job[w].batch /\ j.cursor = job[w].cursor,
         j.pc \in {"ask", "check", "commit"} =>
            /\ j.cursor < j.last
            /\ \A t \in j.page : BatchOf[t] = j.batch /\ j.cursor < t /\ t <= j.last,
         UNCHANGED <<run, rows>>
  PROVE  RunInv'
<1>1. \A v \in Workers : job'[v] = IF v = w THEN j ELSE job[v]
  BY DEF JobsTyped
<1>2. RunOwned'
  BY <1>1 DEF RunInv, RunOwned
<1>3. EngineBehindCursor'
  BY <1>1 DEF RunInv, EngineBehindCursor, Human
<1>4. PageBehindCursor'
  BY <1>1 DEF RunInv, PageBehindCursor
<1>5. EngineAnswersOnce'
  BY DEF RunInv, EngineAnswersOnce, Human
<1> QED BY <1>2, <1>3, <1>4, <1>5 DEF RunInv

\* The same for a step that only moves the program counter, out of a run or
\* along it with the page in hand.
LEMMA RunGoto ==
  ASSUME TypeOK, RunInv, NEW w \in Workers, NEW pc \in Points, job[w].pc # "idle",
         Goto(w, pc), UNCHANGED <<run, rows>>,
         \/ pc \notin Owning
         \/ job[w].pc \in Owning /\ pc \notin {"ask", "check", "commit"}
         \/ job[w].pc \in {"ask", "check", "commit"}
  PROVE  RunInv'
<1> DEFINE j == [job[w] EXCEPT !.pc = pc]
<1>1. job' = [job EXCEPT ![w] = j]
  BY GotoMoves DEF TypeOK
<1>2. /\ j.pc = pc /\ j.batch = job[w].batch /\ j.cursor = job[w].cursor
      /\ j.page = job[w].page /\ j.last = job[w].last
  BY DEF TypeOK, JobsTyped, JobType
<1>3. pc \in {"ask", "check", "commit"} => job[w].pc \in {"ask", "check", "commit"}
  BY DEF Owning
<1>4. job[w].pc \in {"ask", "check", "commit"} =>
        /\ job[w].cursor < job[w].last
        /\ \A t \in job[w].page : /\ BatchOf[t] = job[w].batch /\ job[w].cursor < t
                                  /\ t <= job[w].last
  BY DEF RunInv, PageBehindCursor
<1>5. pc \in Owning => job[w].pc \in Owning
  BY DEF Owning
<1> HIDE DEF j
<1> QED BY <1>1, <1>2, <1>3, <1>4, <1>5, RunMove DEF TypeOK

LEMMA RunFree ==
  ASSUME TypeOK, RunInv, NEW w \in Workers, job' = [job EXCEPT ![w] = Free],
         UNCHANGED <<run, rows>>
  PROVE  RunInv'
<1>1. Free.pc \notin Owning /\ Free.pc \notin {"ask", "check", "commit"}
  BY FreeTyped DEF Owning
<1> QED BY <1>1, RunMove DEF TypeOK

\* The run is opened by a worker that finds none; no engine row of the batch
\* exists yet, and nobody else is inside it.
LEMMA RunOpens ==
  ASSUME TypeOK, RunInv, NEW w \in Workers, OpenRun(w)
  PROVE  RunInv'
<1> DEFINE b == job[w].batch
<1>1. job[w].pc = "open" /\ b \in Batches /\ UNCHANGED rows
  BY DEF OpenRun, TypeOK, JobsTyped, ledgerVars
<1>2. CASE run[b] # "absent"
  <2>1. UNCHANGED run /\ Goto(w, "ack")
    BY <1>2 DEF OpenRun
  <2> QED BY <1>1, <2>1, RunGoto DEF Points, Owning
<1>3. CASE run[b] = "absent"
  <2>1. run' = [run EXCEPT ![b] = "running"] /\ Goto(w, "context")
    BY <1>3 DEF OpenRun
  <2>2. /\ \A v \in Workers : v # w => job'[v] = job[v]
        /\ job'[w].pc = "context" /\ job'[w].batch = b
    BY <1>1, <2>1 DEF Goto, TypeOK, JobsTyped, JobType
  <2>3. \A c \in Batches : run'[c] = IF c = b THEN "running" ELSE run[c]
    BY <2>1 DEF TypeOK, RunsTyped
  <2>4. \A v \in Workers : job[v].pc \in Owning => job[v].batch # b
    BY <1>3 DEF RunInv, RunOwned
  <2>5. \A v \in Workers : job[v].pc \in Owning => job[v].batch \in Batches
    BY DEF TypeOK, JobsTyped, Owning
  <2>6. RunOwned'
    BY <1>1, <2>2, <2>3, <2>4, <2>5 DEF RunInv, RunOwned
  <2>7. \A r \in rows : ~Human(r) => BatchOf[r.txn] # b /\ BatchOf[r.txn] \in Batches
    BY <1>3 DEF RunInv, EngineBehindCursor, TypeOK, LedgerTyped, Rows
  <2>8. EngineBehindCursor'
    BY <1>1, <2>2, <2>3, <2>7 DEF RunInv, EngineBehindCursor, Human
  <2>9. PageBehindCursor'
    BY <2>2 DEF RunInv, PageBehindCursor
  <2>10. EngineAnswersOnce'
    BY <1>1 DEF RunInv, EngineAnswersOnce, Human
  <2> QED BY <2>6, <2>8, <2>9, <2>10 DEF RunInv
<1> QED BY <1>2, <1>3

\* A page is committed: its rows are new to the engine's answers, and the cursor
\* passes them.
LEMMA RunWrites ==
  ASSUME TypeOK, RunInv, NEW w \in Workers, WriteChunkCommit(w)
  PROVE  RunInv'
<1> DEFINE b == job[w].batch
<1>1. /\ job[w].pc = "commit" /\ run[b] = "running" /\ UNCHANGED run
      /\ rows' = rows \cup Proposed(w)
      /\ job' = [job EXCEPT ![w].pc = "page", ![w].cursor = job[w].last, ![w].page = {}]
  BY DEF WriteChunkCommit
<1>2. /\ \A v \in Workers : v # w => job'[v] = job[v]
      /\ job'[w].pc = "page" /\ job'[w].batch = b /\ job'[w].cursor = job[w].last
  BY <1>1 DEF TypeOK, JobsTyped, JobType
<1>3. /\ job[w].cursor < job[w].last
      /\ \A t \in job[w].page : BatchOf[t] = b /\ job[w].cursor < t /\ t <= job[w].last
  BY <1>1 DEF RunInv, PageBehindCursor
<1>4. /\ Proposed(w) \subseteq Rows
      /\ \A r \in Proposed(w) : ~Human(r) /\ r.txn \in job[w].page
      /\ \A r, s \in Proposed(w) : r.txn = s.txn => r = s
  BY <1>1, ProposedRows DEF TypeOK
<1>5. job[w].cursor \in Nat /\ job[w].last \in Nat /\ Txns \subseteq Nat
  BY DEF TypeOK, JobsTyped, JobType
<1>6. \A r \in rows : ~Human(r) /\ BatchOf[r.txn] = b => r.txn <= job[w].cursor
  BY <1>1 DEF RunInv, EngineBehindCursor, Owning
<1>7. \A r \in rows : r.txn \in Txns
  BY DEF TypeOK, LedgerTyped, Rows
<1>8. \A t \in job[w].page : t \in Txns
  BY DEF TypeOK, JobsTyped, JobType
<1>9. RunOwned'
  <2>1. job[w].pc \in Owning /\ UNCHANGED run
    BY <1>1 DEF Owning
  <2>2. \A v \in Workers : job'[v].batch = job[v].batch
                           /\ (job'[v].pc \in Owning => job[v].pc \in Owning)
    BY <1>2, <2>1
  <2> QED BY <2>1, <2>2 DEF RunInv, RunOwned
<1>10. PageBehindCursor'
  BY <1>2 DEF RunInv, PageBehindCursor
<1>11. ASSUME NEW r \in rows, NEW s \in Proposed(w), ~Human(r), r.txn = s.txn PROVE FALSE
  <2>1. s.txn \in job[w].page /\ s.txn \in Nat /\ BatchOf[s.txn] = b
    BY <1>3, <1>4, <1>5, <1>8
  <2>2. r.txn <= job[w].cursor /\ job[w].cursor < s.txn
    BY <1>3, <1>6, <1>11, <2>1
  <2> QED BY <1>5, <1>11, <2>1, <2>2
<1>12. EngineAnswersOnce'
  <2> SUFFICES ASSUME NEW r \in rows', NEW s \in rows', r.txn = s.txn, ~Human(r), ~Human(s)
               PROVE  r = s
    BY DEF EngineAnswersOnce, Human
  <2>1. CASE r \in rows /\ s \in rows
    BY <2>1 DEF RunInv, EngineAnswersOnce
  <2>2. CASE r \in Proposed(w) \/ s \in Proposed(w)
    BY <1>1, <1>4, <1>11, <2>2
  <2> QED BY <1>1, <2>1, <2>2
<1>13. EngineBehindCursor'
  <2> SUFFICES ASSUME NEW r \in rows', ~Human(r)
               PROVE  /\ run[BatchOf[r.txn]] # "absent"
                      /\ \A v \in Workers :
                           job'[v].pc \in Owning /\ job'[v].batch = BatchOf[r.txn]
                             => r.txn <= job'[v].cursor
    BY <1>1 DEF EngineBehindCursor, Human
  <2>1. CASE r \in rows
    <3>0. r.txn \in Nat
      BY <1>5, <1>7, <2>1
    <3>1. ASSUME BatchOf[r.txn] = b PROVE r.txn <= job[w].last
      <4>1. r.txn <= job[w].cursor
        BY <1>6, <2>1, <3>1
      <4> QED BY <1>3, <1>5, <3>0, <4>1
    <3>2. /\ run[BatchOf[r.txn]] # "absent"
          /\ \A v \in Workers : job[v].pc \in Owning /\ job[v].batch = BatchOf[r.txn]
               => r.txn <= job[v].cursor
      BY <2>1 DEF RunInv, EngineBehindCursor
    <3> QED BY <1>2, <3>1, <3>2
  <2>2. CASE r \in Proposed(w)
    <3>1. BatchOf[r.txn] = b /\ r.txn <= job[w].last
      BY <1>3, <1>4, <2>2
    <3>2. \A v \in Workers : v # w /\ job[v].pc \in Owning => job[v].batch # b
      BY <1>1 DEF RunInv, RunOwned, Owning
    <3> QED BY <1>1, <1>2, <3>1, <3>2
  <2> QED BY <1>1, <2>1, <2>2
<1> QED BY <1>9, <1>10, <1>12, <1>13 DEF RunInv

LEMMA RunCloses ==
  ASSUME TypeOK, RunInv, NEW w \in Workers, NEW pc \in {"finish", "fail"},
         NEW status \in {"classified", "failed"}, EndRun(w, pc, status)
  PROVE  RunInv'
<1> DEFINE b == job[w].batch
<1>1. /\ job[w].pc = pc /\ run[b] = "running" /\ b \in Batches /\ UNCHANGED rows
      /\ run' = [run EXCEPT ![b] = status] /\ Goto(w, "ack")
  BY DEF EndRun, TypeOK, JobsTyped, ledgerVars
<1>2. /\ \A v \in Workers : v # w => job'[v] = job[v]
      /\ job'[w].pc = "ack"
  BY <1>1 DEF Goto, TypeOK, JobsTyped, JobType
<1>3. \A c \in Batches : run'[c] = IF c = b THEN status ELSE run[c]
  BY <1>1 DEF TypeOK, RunsTyped
<1>4. \A v \in Workers : v # w /\ job[v].pc \in Owning =>
        job[v].batch # b /\ job[v].batch \in Batches
  BY <1>1 DEF RunInv, RunOwned, Owning, TypeOK, JobsTyped
<1>5. RunOwned'
  BY <1>2, <1>3, <1>4 DEF RunInv, RunOwned, Owning
<1>6. \A r \in rows : BatchOf[r.txn] \in Batches
  BY DEF TypeOK, LedgerTyped, Rows
<1>7. EngineBehindCursor'
  BY <1>1, <1>2, <1>3, <1>6 DEF RunInv, EngineBehindCursor, Owning, Human
<1>8. PageBehindCursor'
  BY <1>2 DEF RunInv, PageBehindCursor
<1>9. EngineAnswersOnce'
  BY <1>1 DEF RunInv, EngineAnswersOnce, Human
<1> QED BY <1>5, <1>7, <1>8, <1>9 DEF RunInv

LEMMA RunInvInductive == TypeOK /\ AllWellFormed /\ RunInv /\ [Next]_vars => RunInv'
<1> SUFFICES ASSUME TypeOK, AllWellFormed, RunInv, [Next]_vars PROVE RunInv'
  OBVIOUS
<1> USE DEF runVars, ledgerVars
<1>1. ASSUME NEW b \in Batches, PersistImport(b) PROVE RunInv'
  BY <1>1, RunFrame DEF PersistImport
<1>2. ASSUME NEW b \in Batches, FetchAny(b) PROVE RunInv'
  <2>1. PICK w \in Workers : Fetch(w, b)
    BY <1>2 DEF FetchAny
  <2> DEFINE j == [Free EXCEPT !.pc = "open", !.batch = b]
  <2>2. j.pc \notin Owning /\ j.pc \notin {"ask", "check", "commit"}
    BY DEF Owning, Free
  <2>3. job' = [job EXCEPT ![w] = j] /\ UNCHANGED <<run, rows>>
    BY <2>1 DEF Fetch
  <2> HIDE DEF j
  <2> QED BY <2>2, <2>3, RunMove DEF TypeOK
<1>3. ASSUME NEW w \in Workers, AttemptFails(w) \/ Retry(w) \/ Discard(w) \/ Ack(w)
      PROVE RunInv'
  BY <1>3, RunFree DEF AttemptFails, Retry, Discard, Ack, Requeue
<1>4. ASSUME NEW w \in Workers, RequestContext(w) PROVE RunInv'
  <2>1. CASE Goto(w, "fail")
    BY <1>4, <2>1, RunGoto DEF RequestContext, Points, Owning
  <2>2. CASE job' = [job EXCEPT ![w].pc = "page", ![w].memory = vendors]
    <3> DEFINE j == [job[w] EXCEPT !.pc = "page", !.memory = vendors]
    <3>1. job[w].pc = "context" /\ job' = [job EXCEPT ![w] = j] /\ UNCHANGED <<run, rows>>
      BY <1>4, <2>2, ContextMoves DEF RequestContext
    <3>2. j.pc = "page" /\ j.batch = job[w].batch /\ j.cursor = job[w].cursor
      BY DEF TypeOK, JobsTyped, JobType
    <3> HIDE DEF j
    <3> QED BY <3>1, <3>2, RunMove DEF TypeOK, Owning
  <2> QED BY <1>4, <2>1, <2>2 DEF RequestContext
<1>5. ASSUME NEW w \in Workers, ReadPage(w) PROVE RunInv'
  <2> DEFINE candidates == PageCandidates(job[w].batch, job[w].cursor)
  <2>1. job[w].pc = "page" /\ UNCHANGED <<run, rows>>
    BY <1>5 DEF ReadPage
  <2>2. CASE Goto(w, "finish")
    BY <2>1, <2>2, RunGoto DEF Points, Owning
  <2>3. ASSUME NEW last \in candidates, NEW page,
               page = {t \in candidates : t <= last},
               job' = [job EXCEPT ![w].pc = "ask", ![w].page = page, ![w].last = last]
        PROVE  RunInv'
    <3> DEFINE j == [job[w] EXCEPT !.pc = "ask", !.page = page, !.last = last]
    <3>1. page \in SUBSET Txns /\ last \in Txns
      BY <2>3 DEF PageCandidates
    <3>2. job' = [job EXCEPT ![w] = j]
      BY ZenonT(40), <2>1, <2>3, <3>1, PageMoves
    <3>3. /\ j.pc = "ask" /\ j.batch = job[w].batch /\ j.cursor = job[w].cursor
          /\ j.page = page /\ j.last = last
      BY DEF TypeOK, JobsTyped, JobType
    <3>4. /\ job[w].cursor < last
          /\ \A t \in page : BatchOf[t] = job[w].batch /\ job[w].cursor < t /\ t <= last
      BY <2>3 DEF PageCandidates
    <3> HIDE DEF j
    <3> QED BY <2>1, <3>2, <3>3, <3>4, RunMove DEF TypeOK, Owning
  <2> QED BY <1>5, <2>2, <2>3 DEF ReadPage
<1>6. ASSUME NEW w \in Workers, AskEngine(w) PROVE RunInv'
  BY <1>6, RunGoto DEF AskEngine, Points, Owning
<1>7. ASSUME NEW w \in Workers, WriteChunkCheck(w) PROVE RunInv'
  <2>1. Goto(w, "commit") \/ Goto(w, "error")
    BY <1>7 DEF WriteChunkCheck
  <2> QED BY <1>7, <2>1, RunGoto DEF WriteChunkCheck, Points, Owning
<1>8. ASSUME NEW w \in Workers, ClassifyStep(w) PROVE RunInv'
  BY <1>3, <1>4, <1>5, <1>6, <1>7, <1>8, RunOpens, RunWrites, RunCloses
  DEF ClassifyStep, FinishRun, FailRun
<1>9. ASSUME NEW u \in Reviewers, ReviewStep(u) PROVE RunInv'
  <2>1. UNCHANGED <<run, job>>
    BY <1>9 DEF ReviewStep, ResolveRead, ResolveRefused, ResolveCheck, ResolveCommit,
       UndoRead, UndoRetract, UndoCommit, UndoRefused
  <2>2. \A r \in rows' : r \in rows \/ Human(r)
    <3>1. CASE ResolveCommit(u)
      <4>1. PICK id \in 1 .. MaxDecisions : rows' = rows \cup HumanRows(request[u], id)
        BY <3>1 DEF ResolveCommit
      <4>2. \A r \in HumanRows(request[u], id) : Human(r)
        BY DEF HumanRows, Human
      <4> QED BY <4>1, <4>2
    <3>2. CASE UNCHANGED rows
      BY <3>2
    <3> QED
      BY <1>9, <3>1, <3>2 DEF ReviewStep, ResolveRead, ResolveRefused, ResolveCheck,
         UndoRead, UndoRetract, UndoCommit, UndoRefused
  <2> QED BY <2>1, <2>2, RunFrame
<1>10. CASE UNCHANGED vars
  BY <1>10, RunFrame DEF vars
<1> QED
  BY <1>1, <1>2, <1>3, <1>8, <1>9, <1>10 DEF Next

-----------------------------------------------------------------------------
(* Decisions, the rows they answer and the memory they leave. *)

LEMMA HumanRowsAre ==
  ASSUME NEW q, NEW id, NEW r \in HumanRows(q, id)
  PROVE  /\ Human(r) /\ r.src = id /\ r.txn \in q.covered /\ r.cat = Written(q)
         /\ q.outcome # "skipped"
BY DEF HumanRows, Human

LEMMA NoRequestWellFormed == WellFormed(NoRequest)
BY DEF WellFormed, NoRequest

\* The engine's rows do not concern the decisions.
LEMMA ReviewFrame ==
  ASSUME ReviewInv, UNCHANGED <<retracted, vendors, decisions, undone, request>>,
         rows \subseteq rows', \A r \in rows' : r \in rows \/ ~Human(r)
  PROVE  ReviewInv'
<1>1. OneLiveDecision' /\ MemoryIsTheDecision' /\ AllWellFormed'
  BY DEF ReviewInv, OneLiveDecision, MemoryIsTheDecision, AllWellFormed, LiveDecisions,
     WellFormed
<1>3. \A q, id : HumanRows(q, id)' = HumanRows(q, id)
  BY DEF HumanRows, Written
<1>2. CommitExclusive' /\ UndoHoldsRows'
  BY <1>3 DEF ReviewInv, CommitExclusive, UndoHoldsRows, DecisionsOn, LiveDecisions
<1>4. HumanRowsFollow'
  <2>1. \A r \in rows' : Human(r) => \E d \in decisions : r \in HumanRows(d, d.id)
    BY DEF ReviewInv, HumanRowsFollow
  <2>2. \A d \in LiveDecisions : HumanRows(d, d.id) \subseteq rows' \ retracted
    BY DEF ReviewInv, HumanRowsFollow, Live
  <2>3. \A d \in undone : HumanRows(d, d.id) \cap (rows' \ retracted) = {}
    BY HumanRowsAre DEF ReviewInv, HumanRowsFollow, Live
  <2> QED
    BY <1>3, <2>1, <2>2, <2>3 DEF HumanRowsFollow, LiveDecisions, Live, HumanRows, Written, Human
<1> QED BY <1>1, <1>2, <1>4 DEF ReviewInv

\* A reviewer's request changes and nothing else does.
LEMMA RequestMoves ==
  ASSUME ReviewInv, RequestsTyped, NEW u \in Reviewers, NEW q,
         request' = [request EXCEPT ![u] = q], WellFormed(q),
         q.pc = "commit" =>
            /\ DecisionsOn(q.key) = {}
            /\ \A v \in Reviewers : v # u => ~(request[v].pc = "commit" /\ request[v].key = q.key),
         q.pc \in {"undo", "stamp"} =>
            /\ \E d \in decisions : d.id = q.target
            /\ \A d \in LiveDecisions : d.id = q.target =>
                 /\ d.key = q.key
                 /\ d.outcome # "skipped" => d.covered \subseteq q.covered
                 /\ q.pc = "stamp" => HumanRows(d, d.id) \subseteq q.held,
         \A r \in q.held : r \in rows /\ r.txn \in q.covered,
         UNCHANGED <<rows, retracted, vendors, decisions, undone>>
  PROVE  ReviewInv'
<1>1. \A v \in Reviewers : request'[v] = IF v = u THEN q ELSE request[v]
  BY DEF RequestsTyped
<1>2. OneLiveDecision' /\ MemoryIsTheDecision'
  BY DEF ReviewInv, OneLiveDecision, MemoryIsTheDecision, LiveDecisions
<1>3. HumanRowsFollow'
  BY DEF ReviewInv, HumanRowsFollow, LiveDecisions, Live, HumanRows, Written, Human
<1>4. \A k : DecisionsOn(k)' = DecisionsOn(k)
  BY DEF DecisionsOn, LiveDecisions
<1>5. CommitExclusive'
  BY <1>1, <1>4 DEF ReviewInv, CommitExclusive
<1>6. AllWellFormed'
  BY <1>1 DEF ReviewInv, AllWellFormed, WellFormed
<1>8. \A d, id : HumanRows(d, id)' = HumanRows(d, id)
  BY DEF HumanRows, Written
<1>7. UndoHoldsRows'
  BY <1>1, <1>8 DEF ReviewInv, UndoHoldsRows, LiveDecisions
<1> QED BY <1>2, <1>3, <1>5, <1>6, <1>7 DEF ReviewInv

LEMMA RequestCloses ==
  ASSUME ReviewInv, RequestsTyped, NEW u \in Reviewers, CloseRequest(u),
         UNCHANGED <<rows, retracted, vendors, decisions, undone>>
  PROVE  ReviewInv'
BY RequestMoves, NoRequestTyped, NoRequestWellFormed DEF CloseRequest

\* A new decision: its number is new, so are its rows, and its key was free.
LEMMA ResolveCommits ==
  ASSUME TypeOK, ReviewInv, NEW u \in Reviewers, ResolveCommit(u)
  PROVE  ReviewInv'
<1> DEFINE q == request[u]
<1>1. PICK id \in 1 .. MaxDecisions :
        /\ q.pc = "commit" /\ NextId(id)
        /\ rows' = rows \cup HumanRows(q, id)
        /\ vendors' = Remembered(q)
        /\ decisions' = decisions \cup {[id |-> id, key |-> q.key, outcome |-> q.outcome,
                                         cat |-> q.cat, covered |-> q.covered]}
        /\ CloseRequest(u)
        /\ UNCHANGED <<retracted, undone>>
  BY DEF ResolveCommit
<1> DEFINE d0 == [id |-> id, key |-> q.key, outcome |-> q.outcome, cat |-> q.cat,
                  covered |-> q.covered]
<1>2. q \in RequestType /\ id \in Nat /\ WellFormed(q)
  BY DEF TypeOK, RequestsTyped, ReviewInv, AllWellFormed
<1>3. \A d \in decisions : d.id \in Nat /\ d.id < id
  BY <1>1 DEF NextId, TypeOK, ReviewTyped, Decisions
<1>4. /\ d0.id = id /\ d0.key = q.key /\ d0.outcome = q.outcome /\ d0.cat = q.cat
      /\ d0.covered = q.covered /\ WellFormed(d0) /\ HumanRows(d0, id) = HumanRows(q, id)
  BY <1>2 DEF WellFormed, HumanRows, Written
<1>5. decisions' = decisions \cup {d0}
  BY <1>1
<1> HIDE DEF d0
<1>6. d0 \notin decisions /\ d0 \notin undone
  BY <1>2, <1>3, <1>4 DEF TypeOK, ReviewTyped
<1>7. LiveDecisions' = LiveDecisions \cup {d0}
  BY <1>1, <1>5, <1>6 DEF LiveDecisions
<1>8. \A d \in LiveDecisions : d.key # q.key
  BY <1>1 DEF ReviewInv, CommitExclusive, DecisionsOn
<1>9. \A v \in Reviewers : request'[v] = IF v = u THEN NoRequest ELSE request[v]
  BY <1>1 DEF CloseRequest, TypeOK, RequestsTyped
<1>10. OneLiveDecision'
  BY <1>4, <1>7, <1>8 DEF ReviewInv, OneLiveDecision
<1>11. MemoryIsTheDecision'
  <2> SUFFICES ASSUME NEW k \in Keys, NEW c \in Categories
               PROVE  vendors'[k] = c <=>
                        \E d \in LiveDecisions' : /\ d.key = k /\ d.outcome = "categorised"
                                                  /\ d.cat = c
    BY DEF MemoryIsTheDecision
  <2>1. vendors[k] = c <=>
          \E d \in LiveDecisions : d.key = k /\ d.outcome = "categorised" /\ d.cat = c
    BY DEF ReviewInv, MemoryIsTheDecision
  <2>2. vendors \in [Keys -> Categories \cup {NoCategory}] /\ q.key \in Keys
    BY <1>2 DEF TypeOK, ReviewTyped, RequestType
  <2>3. CASE k # q.key
    <3>1. vendors'[k] = vendors[k]
      BY <1>1, <2>2, <2>3 DEF Remembered
    <3> QED BY <1>4, <1>7, <2>1, <2>3, <3>1
  <2>4. CASE k = q.key /\ q.outcome = "categorised"
    <3>1. vendors'[k] = q.cat
      BY <1>1, <2>2, <2>4 DEF Remembered
    <3> QED BY <1>4, <1>7, <1>8, <2>4, <3>1
  <2>5. CASE k = q.key /\ q.outcome # "categorised"
    <3>1. vendors'[k] = vendors[k]
      BY <1>1, <2>5 DEF Remembered
    <3> QED BY <1>4, <1>7, <1>8, <2>1, <2>5, <3>1
  <2> QED BY <2>3, <2>4, <2>5
<1>12. CommitExclusive'
  <2>1. \A v \in Reviewers : v # u /\ request[v].pc = "commit" => request[v].key # q.key
    BY <1>1 DEF ReviewInv, CommitExclusive
  <2>2. \A k : k # q.key => DecisionsOn(k)' = DecisionsOn(k)
    BY <1>4, <1>7 DEF DecisionsOn
  <2> QED BY <1>9, <2>1, <2>2, NoRequestTyped DEF ReviewInv, CommitExclusive
<1>13. AllWellFormed'
  <2>1. \A d \in decisions : d.id # id
    BY <1>2, <1>3
  <2>2. \A d, e \in decisions' : d.id = e.id => d = e
    BY <1>4, <1>5, <2>1 DEF ReviewInv, AllWellFormed
  <2>3. \A d \in decisions' : WellFormed(d)
    BY <1>4, <1>5 DEF ReviewInv, AllWellFormed
  <2>4. \A v \in Reviewers : WellFormed(request'[v])
    BY <1>9, NoRequestWellFormed DEF ReviewInv, AllWellFormed
  <2> QED BY <2>2, <2>3, <2>4 DEF AllWellFormed, WellFormed
<1>14. \A r \in HumanRows(q, id) : r \notin rows
  <2> SUFFICES ASSUME NEW r \in HumanRows(q, id), r \in rows PROVE FALSE
    OBVIOUS
  <2>1. Human(r) /\ r.src = id
    BY HumanRowsAre
  <2>2. PICK d \in decisions : r \in HumanRows(d, d.id)
    BY <2>1 DEF ReviewInv, HumanRowsFollow
  <2>3. r.src = d.id
    BY <2>2, HumanRowsAre
  <2> QED BY <1>2, <1>3, <2>1, <2>3
<1>15. Live' = Live \cup HumanRows(q, id)
  BY <1>1, <1>14 DEF Live, TypeOK, LedgerTyped
<1>16. HumanRowsFollow'
  <2>1. \A r \in rows' : Human(r) => \E d \in decisions' : r \in HumanRows(d, d.id)
    BY <1>1, <1>4, <1>5 DEF ReviewInv, HumanRowsFollow
  <2>2. \A d \in LiveDecisions' : HumanRows(d, d.id) \subseteq Live'
    BY <1>4, <1>7, <1>15 DEF ReviewInv, HumanRowsFollow
  <2>3. \A d \in undone : HumanRows(d, d.id) \cap HumanRows(q, id) = {}
    <3> SUFFICES ASSUME NEW d \in undone, NEW r \in HumanRows(d, d.id),
                        r \in HumanRows(q, id)
                 PROVE  FALSE
      OBVIOUS
    <3>1. r.src = d.id /\ r.src = id
      BY HumanRowsAre
    <3>2. d \in decisions
      BY DEF TypeOK, ReviewTyped
    <3>3. d.id \in Nat /\ d.id < id
      BY <1>3, <3>2
    <3> QED BY <1>2, <3>1, <3>3
  <2>4. \A d \in undone' : HumanRows(d, d.id) \cap Live' = {}
    BY <1>1, <1>15, <2>3 DEF ReviewInv, HumanRowsFollow
  <2> QED BY <2>1, <2>2, <2>4 DEF HumanRowsFollow, HumanRows, Written, Human
<1>17. UndoHoldsRows'
  <2>1. ASSUME NEW v \in Reviewers, request'[v].pc \in {"undo", "stamp"}
        PROVE  /\ \E d \in decisions' : d.id = request'[v].target
               /\ \A d \in LiveDecisions' : d.id = request'[v].target =>
                    /\ d.key = request'[v].key
                    /\ d.outcome # "skipped" => d.covered \subseteq request'[v].covered
                    /\ request'[v].pc = "stamp" => HumanRows(d, d.id) \subseteq request'[v].held
    <3>1. request'[v] = request[v] /\ request[v].pc \in {"undo", "stamp"}
      BY <1>9, <2>1, NoRequestTyped
    <3>2. \E d \in decisions : d.id = request[v].target
      BY <3>1 DEF ReviewInv, UndoHoldsRows
    <3>3. d0.id # request[v].target
      BY <1>2, <1>3, <1>4, <3>2
    <3> QED BY <1>5, <1>7, <3>1, <3>2, <3>3 DEF ReviewInv, UndoHoldsRows
  <2>2. ASSUME NEW v \in Reviewers, NEW r \in request'[v].held
        PROVE  r \in rows' /\ r.txn \in request'[v].covered
    BY <1>1, <1>9, <2>2, NoRequestTyped DEF ReviewInv, UndoHoldsRows
  <2>3. \A d, n : HumanRows(d, n)' = HumanRows(d, n)
    BY DEF HumanRows, Written
  <2> QED BY <2>1, <2>2, <2>3 DEF UndoHoldsRows
<1> QED BY <1>10, <1>11, <1>12, <1>13, <1>16, <1>17 DEF ReviewInv

\* An undo takes the rows of its own decision and of no other that stands.
LEMMA UndoCommits ==
  ASSUME TypeOK, ReviewInv, NEW u \in Reviewers, UndoCommit(u)
  PROVE  ReviewInv' /\ UndoLeavesOnlyTheLate
<1> DEFINE q == request[u]
<1>1. PICK d \in LiveDecisions :
        /\ q.pc = "stamp" /\ d.id = q.target
        /\ retracted' = retracted \cup RetractedByUndo(q.held)
        /\ vendors' = IF d.outcome = "categorised" THEN [vendors EXCEPT ![d.key] = NoCategory]
                      ELSE vendors
        /\ undone' = undone \cup {d}
        /\ CloseRequest(u)
        /\ UNCHANGED <<rows, decisions>>
  BY DEF UndoCommit
<1>2. d.key = q.key /\ HumanRows(d, d.id) \subseteq q.held
  BY <1>1 DEF ReviewInv, UndoHoldsRows
<1>3. \A t \in q.covered : KeyOf[t] = d.key
  BY <1>2 DEF ReviewInv, AllWellFormed, WellFormed
<1>4. Live' = {r \in Live : r \notin q.held}
  BY <1>1 DEF Live, RetractedByUndo
<1>15. \A r \in q.held : r.txn \in q.covered
  BY DEF ReviewInv, UndoHoldsRows
<1>5. LiveDecisions' = LiveDecisions \ {d}
  BY <1>1 DEF LiveDecisions
<1>6. \A e \in LiveDecisions' : e.key # d.key
  BY <1>5 DEF ReviewInv, OneLiveDecision
<1>7. \A v \in Reviewers : request'[v] = IF v = u THEN NoRequest ELSE request[v]
  BY <1>1 DEF CloseRequest, TypeOK, RequestsTyped
<1>8. OneLiveDecision'
  BY <1>5 DEF ReviewInv, OneLiveDecision
<1>9. MemoryIsTheDecision'
  <2> SUFFICES ASSUME NEW k \in Keys, NEW c \in Categories
               PROVE  vendors'[k] = c <=>
                        \E e \in LiveDecisions' : /\ e.key = k /\ e.outcome = "categorised"
                                                  /\ e.cat = c
    BY DEF MemoryIsTheDecision
  <2>1. vendors[k] = c <=>
          \E e \in LiveDecisions : e.key = k /\ e.outcome = "categorised" /\ e.cat = c
    BY DEF ReviewInv, MemoryIsTheDecision
  <2>2. vendors \in [Keys -> Categories \cup {NoCategory}] /\ d.key \in Keys
    BY DEF TypeOK, ReviewTyped, LiveDecisions, Decisions
  <2>3. CASE k # d.key
    <3>1. vendors'[k] = vendors[k]
      BY <1>1, <2>2, <2>3
    <3> QED BY <1>5, <2>1, <2>3, <3>1
  <2>4. CASE k = d.key /\ d.outcome = "categorised"
    <3>1. vendors'[k] = NoCategory
      BY <1>1, <2>2, <2>4
    <3> QED BY <1>6, <2>4, <3>1
  <2>5. CASE k = d.key /\ d.outcome # "categorised"
    <3>1. vendors'[k] = vendors[k]
      BY <1>1, <2>5
    <3>2. \A e \in LiveDecisions : e.key = k => e = d
      BY <2>5 DEF ReviewInv, OneLiveDecision
    <3> QED BY <1>5, <1>6, <2>1, <2>5, <3>1, <3>2
  <2> QED BY <2>3, <2>4, <2>5
<1>10. CommitExclusive'
  <2>1. \A k : DecisionsOn(k) = {} => DecisionsOn(k)' = {}
    BY <1>5 DEF DecisionsOn
  <2> QED BY <1>7, <2>1, NoRequestTyped DEF ReviewInv, CommitExclusive
<1>11. AllWellFormed'
  <2>1. \A v \in Reviewers : WellFormed(request'[v])
    BY <1>7, NoRequestWellFormed DEF ReviewInv, AllWellFormed
  <2> QED BY <1>1, <2>1 DEF ReviewInv, AllWellFormed, WellFormed
<1>12. HumanRowsFollow'
  <2>1. \A r \in rows' : Human(r) => \E e \in decisions' : r \in HumanRows(e, e.id)
    BY <1>1 DEF ReviewInv, HumanRowsFollow
  <2>2. ASSUME NEW e \in LiveDecisions', NEW r \in HumanRows(e, e.id) PROVE r \in Live'
    <3>1. r \in Live /\ r.txn \in e.covered
      BY <1>5, HumanRowsAre DEF ReviewInv, HumanRowsFollow
    <3>2. KeyOf[r.txn] = e.key
      BY <1>5, <3>1 DEF ReviewInv, AllWellFormed, WellFormed, LiveDecisions
    <3> QED BY <1>3, <1>4, <1>6, <1>15, <3>1, <3>2
  <2>3. ASSUME NEW e \in undone', NEW r \in HumanRows(e, e.id) PROVE r \notin Live'
    <3>1. CASE e \in undone
      BY <1>4, <3>1 DEF ReviewInv, HumanRowsFollow
    <3>2. CASE e = d
      BY <1>2, <1>4, <3>2
    <3> QED BY <1>1, <3>1, <3>2
  <2>4. \A e \in LiveDecisions' : HumanRows(e, e.id) \subseteq Live'
    BY <2>2
  <2>5. \A e \in undone' : HumanRows(e, e.id) \cap Live' = {}
    BY <2>3
  <2> QED BY <2>1, <2>4, <2>5 DEF HumanRowsFollow, HumanRows, Written, Human
<1>13. UndoHoldsRows'
  <2>1. \A e, n : HumanRows(e, n)' = HumanRows(e, n)
    BY DEF HumanRows, Written
  <2> QED BY <1>1, <1>5, <1>7, <2>1, NoRequestTyped DEF ReviewInv, UndoHoldsRows
<1>16. ASSUME NEW r \in LeftByUndo(d) PROVE ~Human(r) /\ r \notin q.held
  <2>1. r \in Live /\ r \notin q.held /\ r.txn \in d.covered
    BY <1>4 DEF LeftByUndo
  <2>2. SUFFICES ASSUME Human(r) PROVE FALSE
    BY <2>1
  <2>3. PICK e \in decisions : r \in HumanRows(e, e.id)
    BY <2>1, <2>2 DEF ReviewInv, HumanRowsFollow, Live
  <2>4. e \in LiveDecisions
    BY <2>1, <2>3 DEF ReviewInv, HumanRowsFollow, LiveDecisions
  <2>5. e.key = KeyOf[r.txn] /\ d.key = KeyOf[r.txn]
    BY <2>1, <2>3, HumanRowsAre DEF ReviewInv, AllWellFormed, WellFormed, LiveDecisions
  <2>6. e = d
    BY <2>4, <2>5 DEF ReviewInv, OneLiveDecision
  <2> QED BY <1>2, <2>1, <2>3, <2>6
<1>14. UndoLeavesOnlyTheLate
  <2>1. \A e \in undone' \ undone : e = d
    BY <1>1
  <2> QED BY <1>1, <1>2, <1>16, <2>1 DEF UndoLeavesOnlyTheLate
<1> QED BY <1>8, <1>9, <1>10, <1>11, <1>12, <1>13, <1>14 DEF ReviewInv

\* Every step keeps the decisions, their rows and the memory in agreement, and
\* an undo leaves nothing it saw live on the rows of its decision.
LEMMA ReviewInvInductive ==
  TypeOK /\ ReviewInv /\ [Next]_vars => ReviewInv' /\ UndoLeavesOnlyTheLate
<1> SUFFICES ASSUME TypeOK, ReviewInv, [Next]_vars
             PROVE  ReviewInv' /\ UndoLeavesOnlyTheLate
  OBVIOUS
<1>0. UNCHANGED undone => UndoLeavesOnlyTheLate
  BY DEF UndoLeavesOnlyTheLate
<1> USE DEF ledgerVars, reviewVars
<1>1. CASE UNCHANGED <<ledgerVars, reviewVars, request>>
  BY <1>0, <1>1, ReviewFrame
<1>2. ASSUME NEW w \in Workers, WriteChunkCommit(w)
      PROVE  ReviewInv' /\ UNCHANGED undone
  <2>1. /\ rows' = rows \cup Proposed(w) /\ \A r \in Proposed(w) : ~Human(r)
        /\ UNCHANGED <<retracted, vendors, decisions, undone, request>>
    BY <1>2, ProposedRows DEF WriteChunkCommit, TypeOK
  <2> QED BY <2>1, ReviewFrame
<1>3. ASSUME NEW w \in Workers, ClassifyStep(w), ~WriteChunkCommit(w)
      PROVE  UNCHANGED <<ledgerVars, reviewVars, request>>
  BY <1>3 DEF ClassifyStep, OpenRun, RequestContext, ReadPage, AskEngine, WriteChunkCheck,
     FinishRun, FailRun, EndRun, Ack
<1>4. ASSUME NEW u \in Reviewers, ReviewStep(u), ~UndoCommit(u)
      PROVE  ReviewInv' /\ UNCHANGED undone
  <2>0. RequestsTyped
    BY DEF TypeOK
  <2>1. ASSUME NEW e \in Entities, NEW k \in Keys, NEW outcome \in Outcomes,
               NEW c \in Categories \cup {NoCategory}, ResolveRead(u, e, k, outcome, c)
        PROVE  ReviewInv' /\ UNCHANGED undone
    <3> DEFINE q == [pc |-> "write", key |-> k, outcome |-> outcome, cat |-> c,
                     covered |-> GroupRows(e, k), target |-> 0, held |-> {}]
    <3>1. q.pc = "write" /\ WellFormed(q) /\ q.held = {}
      BY <2>1 DEF ResolveRead, WellFormed, GroupRows
    <3>2. /\ request' = [request EXCEPT ![u] = q]
          /\ UNCHANGED <<rows, retracted, vendors, decisions, undone>>
      BY <2>1 DEF ResolveRead
    <3> HIDE DEF q
    <3> QED BY <2>0, <3>1, <3>2, RequestMoves
  <2>2. CASE ResolveRefused(u)
    BY <2>0, <2>2, RequestCloses DEF ResolveRefused
  <2>3. CASE ResolveCheck(u)
    <3>1. /\ request[u].pc = "write" /\ KeyFree(request[u].key)
          /\ DecisionsOn(request[u].key) = {}
          /\ UNCHANGED <<rows, retracted, vendors, decisions, undone>>
      BY <2>3 DEF ResolveCheck
    <3>2. CASE CloseRequest(u)
      BY <2>0, <3>1, <3>2, RequestCloses
    <3>3. CASE request' = [request EXCEPT ![u].pc = "commit"]
      <4> DEFINE q == [request[u] EXCEPT !.pc = "commit"]
      <4>1. /\ q.pc = "commit" /\ q.key = request[u].key /\ q.outcome = request[u].outcome
            /\ q.cat = request[u].cat /\ q.covered = request[u].covered
            /\ q.held = request[u].held /\ request' = [request EXCEPT ![u] = q]
        BY <2>0, <3>3 DEF RequestsTyped, RequestType
      <4> HIDE DEF q
      <4>2. WellFormed(q)
        BY <4>1 DEF ReviewInv, AllWellFormed, WellFormed
      <4>3. \A v \in Reviewers : ~(request[v].pc = "commit" /\ request[v].key = q.key)
        BY <3>1, <4>1 DEF KeyFree
      <4>4. DecisionsOn(q.key) = {}
        BY <3>1, <4>1
      <4>5. \A r \in q.held : r \in rows /\ r.txn \in q.covered
        BY <4>1 DEF ReviewInv, UndoHoldsRows
      <4> QED BY <2>0, <3>1, <4>1, <4>2, <4>3, <4>4, <4>5, RequestMoves
    <3> QED BY <2>3, <3>2, <3>3 DEF ResolveCheck
  <2>4. CASE ResolveCommit(u)
    BY <2>4, ResolveCommits DEF ResolveCommit
  <2>5. ASSUME NEW d \in decisions, UndoRead(u, d) PROVE ReviewInv' /\ UNCHANGED undone
    <3> DEFINE covered == {t \in Txns : KeyOf[t] = d.key
                                        /\ \E r \in Live : r.txn = t /\ Human(r)}
               q == [NoRequest EXCEPT !.pc = "undo", !.key = d.key, !.target = d.id,
                                      !.covered = covered]
    <3>1. /\ request' = [request EXCEPT ![u] = q]
          /\ UNCHANGED <<rows, retracted, vendors, decisions, undone>>
      BY <2>5 DEF UndoRead
    <3>2. /\ q.pc = "undo" /\ q.key = d.key /\ q.target = d.id /\ q.covered = covered
          /\ q.outcome = "skipped" /\ q.cat = NoCategory /\ q.held = {}
      BY DEF NoRequest
    <3> HIDE DEF q
    <3>3. WellFormed(q)
      BY <3>2 DEF WellFormed
    <3>4. ASSUME d \in LiveDecisions, d.outcome # "skipped", NEW t \in d.covered
          PROVE  t \in covered
      <4>1. WellFormed(d) /\ d \in Decisions
        BY DEF ReviewInv, AllWellFormed, TypeOK, ReviewTyped
      <4>2. KeyOf[t] = d.key /\ t \in Txns
        BY <4>1 DEF WellFormed, Decisions
      <4> DEFINE r == [txn |-> t, cat |-> Written(d), layer |-> "human", src |-> d.id]
      <4>3. r \in HumanRows(d, d.id) /\ r.txn = t /\ Human(r)
        BY <3>4 DEF HumanRows, Human
      <4>4. r \in Live
        BY <3>4, <4>3 DEF ReviewInv, HumanRowsFollow
      <4> QED BY <4>2, <4>3, <4>4
    <3> HIDE DEF covered
    <3>5. ASSUME NEW e \in LiveDecisions, e.id = q.target
          PROVE  /\ e.key = q.key
                 /\ e.outcome # "skipped" => e.covered \subseteq q.covered
      <4>1. e = d
        BY <3>2, <3>5 DEF ReviewInv, AllWellFormed, LiveDecisions
      <4> QED BY <3>2, <3>4, <4>1
    <3> QED BY <2>0, <3>1, <3>2, <3>3, <3>5, RequestMoves
  <2>6. CASE UndoRefused(u)
    BY <2>0, <2>6, RequestCloses DEF UndoRefused
  <2>7. CASE UndoRetract(u)
    <3> DEFINE held == {r \in Live : r.txn \in request[u].covered}
               q == [request[u] EXCEPT !.pc = "stamp", !.held = held]
    <3>0. held \in SUBSET Rows /\ \A r \in held : r \in rows /\ r.txn \in request[u].covered
      BY DEF Live, TypeOK, LedgerTyped
    <3>1. /\ request[u].pc = "undo" /\ request' = [request EXCEPT ![u] = q]
          /\ UNCHANGED <<rows, retracted, vendors, decisions, undone>>
      BY <2>7, <3>0, RetractMoves DEF UndoRetract
    <3>2. /\ q.pc = "stamp" /\ q.key = request[u].key /\ q.outcome = request[u].outcome
          /\ q.cat = request[u].cat /\ q.covered = request[u].covered
          /\ q.target = request[u].target /\ q.held = held
      BY <2>0 DEF RequestsTyped, RequestType
    <3> HIDE DEF q
    <3>3. WellFormed(q)
      BY <3>2 DEF ReviewInv, AllWellFormed, WellFormed
    <3>4. ASSUME NEW d \in LiveDecisions, d.id = q.target
          PROVE  HumanRows(d, d.id) \subseteq held
      <4>1. d.outcome # "skipped" => d.covered \subseteq request[u].covered
        BY <3>1, <3>2, <3>4 DEF ReviewInv, UndoHoldsRows
      <4>2. HumanRows(d, d.id) \subseteq Live
        BY DEF ReviewInv, HumanRowsFollow
      <4> QED BY <4>1, <4>2, HumanRowsAre
    <3> HIDE DEF held
    <3>5. /\ \E d \in decisions : d.id = q.target
          /\ \A d \in LiveDecisions : d.id = q.target =>
               /\ d.key = q.key
               /\ d.outcome # "skipped" => d.covered \subseteq q.covered
      BY <3>1, <3>2 DEF ReviewInv, UndoHoldsRows
    <3> QED BY <2>0, <3>0, <3>1, <3>2, <3>3, <3>4, <3>5, RequestMoves
  <2> QED BY <1>4, <2>1, <2>2, <2>3, <2>4, <2>5, <2>6, <2>7 DEF ReviewStep
<1>5. ASSUME NEW b \in Batches, PersistImport(b) \/ FetchAny(b)
      PROVE  UNCHANGED <<ledgerVars, reviewVars, request>>
  BY <1>5 DEF PersistImport, FetchAny, Fetch
<1>6. ASSUME NEW w \in Workers, AttemptFails(w) \/ Retry(w) \/ Discard(w)
      PROVE  UNCHANGED <<ledgerVars, reviewVars, request>>
  BY <1>6 DEF AttemptFails, Retry, Discard
<1>7. CASE UNCHANGED vars
  BY <1>1, <1>7 DEF vars
<1> QED
  BY <1>0, <1>1, <1>2, <1>3, <1>4, <1>5, <1>6, <1>7, UndoCommits DEF Next

-----------------------------------------------------------------------------
(* The theorems. *)

LEMMA Initially == Init => TypeOK /\ RunInv /\ ReviewInv
<1> SUFFICES ASSUME Init PROVE TypeOK /\ RunInv /\ ReviewInv
  OBVIOUS
<1> USE DEF Init
<1>1. TypeOK
  BY FreeTyped, NoRequestTyped DEF TypeOK, RunsTyped, LedgerTyped, ReviewTyped, JobsTyped,
     RequestsTyped
<1>2. RunInv
  BY FreeTyped DEF RunInv, RunOwned, EngineBehindCursor, PageBehindCursor,
     EngineAnswersOnce, Owning
<1>3. OneLiveDecision /\ MemoryIsTheDecision
  BY DEF OneLiveDecision, MemoryIsTheDecision, LiveDecisions
<1>4. CommitExclusive /\ UndoHoldsRows
  BY NoRequestTyped DEF CommitExclusive, UndoHoldsRows
<1>5. AllWellFormed
  BY NoRequestWellFormed DEF AllWellFormed
<1>6. HumanRowsFollow
  BY DEF HumanRowsFollow, LiveDecisions
<1> QED BY <1>1, <1>2, <1>3, <1>4, <1>5, <1>6 DEF ReviewInv

LEMMA AllInvariant == Spec => [](TypeOK /\ RunInv /\ ReviewInv)
<1>1. TypeOK /\ RunInv /\ ReviewInv /\ [Next]_vars => (TypeOK /\ RunInv /\ ReviewInv)'
  BY TypeOKInductive, RunInvInductive, ReviewInvInductive DEF ReviewInv
<1> QED BY <1>1, Initially, PTL DEF Spec

\* Every column, job and request keeps its type: in particular an answer is only
\* stored with a category, for any ledger, rules, faults and interleaving.
THEOREM TypeCorrect == Spec => []TypeOK
BY AllInvariant, PTL

\* classifyrun: whatever is retried or lost, the engine answers a row once.
THEOREM EngineOnce == Spec => []EngineAnswersOnce
<1>1. RunInv => EngineAnswersOnce
  BY DEF RunInv
<1> QED BY <1>1, AllInvariant, PTL

\* review: a counterparty has one live decision at most, for any number of
\* reviewers.
THEOREM DecisionUnique == Spec => []OneLiveDecision
<1>1. ReviewInv => OneLiveDecision
  BY DEF ReviewInv
<1> QED BY <1>1, AllInvariant, PTL

\* review: the vendor memory is exactly the standing categorised decisions.
THEOREM MemoryFollows == Spec => []MemoryIsTheDecision
<1>1. ReviewInv => MemoryIsTheDecision
  BY DEF ReviewInv
<1> QED BY <1>1, AllInvariant, PTL

\* review: live human answers are those of the decisions that stand.
THEOREM DecisionsStand == Spec => []DecisionStands
<1>1. TypeOK /\ ReviewInv => DecisionStands
  <2> SUFFICES ASSUME TypeOK, ReviewInv PROVE DecisionStands
    OBVIOUS
  <2>1. ASSUME NEW d \in decisions, d.outcome # "skipped", NEW t \in d.covered
        PROVE  d \in LiveDecisions <=>
                 \E r \in Live : r.txn = t /\ Human(r) /\ r.src = d.id /\ r.cat = Written(d)
    <3> DEFINE h == [txn |-> t, cat |-> Written(d), layer |-> "human", src |-> d.id]
    <3>1. h \in HumanRows(d, d.id) /\ h.txn = t /\ Human(h) /\ h.src = d.id
          /\ h.cat = Written(d)
      BY <2>1 DEF HumanRows, Human
    <3>2. ASSUME NEW r \in Live, r.txn = t, Human(r), r.src = d.id, r.cat = Written(d)
          PROVE  r = h
      BY <3>2 DEF Live, TypeOK, LedgerTyped, Rows, Human
    <3>3. d \in undone \/ d \in LiveDecisions
      BY DEF LiveDecisions
    <3> HIDE DEF h
    <3>4. d \in LiveDecisions => h \in Live
      BY <3>1 DEF ReviewInv, HumanRowsFollow
    <3>5. d \in undone => h \notin Live
      BY <3>1 DEF ReviewInv, HumanRowsFollow
    <3> QED BY <3>1, <3>2, <3>3, <3>4, <3>5
  <2>2. ASSUME NEW r \in Live, Human(r)
        PROVE  \E d \in LiveDecisions : r.src = d.id /\ r.txn \in d.covered
    <3>1. PICK d \in decisions : r \in HumanRows(d, d.id)
      BY <2>2 DEF ReviewInv, HumanRowsFollow, Live
    <3>2. d \in LiveDecisions
      BY <3>1 DEF ReviewInv, HumanRowsFollow, LiveDecisions
    <3> QED BY <3>1, <3>2, HumanRowsAre
  <2> QED BY <2>1, <2>2 DEF DecisionStands
<1> QED BY <1>1, AllInvariant, PTL

\* review: an undo retracts the answers of its decision and everything else its
\* UPDATE found on their rows.  What is live there after it is the engine's, and
\* was committed while the undo was under way.
THEOREM UndoClears == Spec => UndoClearsWhatItSaw
<1>1. TypeOK /\ ReviewInv /\ [Next]_vars => [UndoLeavesOnlyTheLate]_vars
  BY ReviewInvInductive
<1> QED BY <1>1, AllInvariant, PTL DEF Spec, UndoClearsWhatItSaw

-----------------------------------------------------------------------------
(* What a run's counters count. *)

\* The sets of ledger rows the counters are compared with are finite.
LEMMA RowsCounted ==
  ASSUME NEW S \in SUBSET Txns
  PROVE  IsFiniteSet(S) /\ Cardinality(S) \in Nat
<1>1. IsFiniteSet(S)
  BY FS_Subset
<1> QED BY <1>1, FS_CardinalityType

LEMMA RowsNumbered == \A t \in Txns : t \in Nat /\ ~(t <= 0)
OBVIOUS

LEMMA MoreRows ==
  ASSUME NEW S \in SUBSET Txns, NEW T \in SUBSET S
  PROVE  Cardinality(T) <= Cardinality(S)
BY RowsCounted, FS_Subset

\* Classifications of which no two are on one row are as many as their rows.
LEMMA OnePerRow ==
  ASSUME NEW S, \A r \in S : r.txn \in Txns,
         \A r, s \in S : r.txn = s.txn => r = s
  PROVE  /\ IsFiniteSet(S) /\ Cardinality(S) \in Nat
         /\ Cardinality(S) = Cardinality({r.txn : r \in S})
<1> DEFINE T == {r.txn : r \in S}
           f == [r \in S |-> r.txn]
<1>1. T \in SUBSET Txns
  OBVIOUS
<1>2. f \in [S -> T] /\ \A r \in S : f[r] = r.txn
  OBVIOUS
<1>3. \A t \in T : \E r \in S : t = r.txn
  OBVIOUS
<1> HIDE DEF f, T
<1>4. f \in Injection(S, T)
  BY <1>2 DEF Injection, IsInjective
<1>5. f \in Surjection(S, T)
  BY <1>2, <1>3 DEF Surjection
<1>6. IsFiniteSet(T)
  BY <1>1, RowsCounted
<1>7. IsFiniteSet(S) /\ (Cardinality(S) = Cardinality(T) <=> f \in Surjection(S, T))
  BY <1>4, <1>6, FS_Injection
<1>8. Cardinality(S) \in Nat
  BY <1>7, FS_CardinalityType
<1> QED BY <1>5, <1>7, <1>8 DEF T

\* What the engine stored on a batch is finite.
LEMMA EngineRowsCounted ==
  ASSUME TypeOK, EngineAnswersOnce, NEW b
  PROVE  IsFiniteSet(EngineRows(b)) /\ Cardinality(EngineRows(b)) \in Nat
<1>1. \A r \in EngineRows(b) : r \in rows /\ ~Human(r) /\ r.txn \in Txns
  BY DEF EngineRows, BatchRows
<1>2. \A r, s \in EngineRows(b) : r.txn = s.txn => r = s
  BY <1>1 DEF EngineAnswersOnce
<1> QED BY <1>1, <1>2, OnePerRow

\* Human rows change no count of the engine's, and leave fewer rows unanswered.
LEMMA MoreAnswers ==
  ASSUME NEW b, rows \subseteq rows', \A r \in rows' : r \in rows \/ Human(r)
  PROVE  /\ EngineRows(b)' = EngineRows(b)
         /\ Unanswered(b)' \subseteq Unanswered(b)
         /\ BatchRows(b)' = BatchRows(b)
<1>1. BatchRows(b)' = BatchRows(b)
  BY DEF BatchRows
<1>2. Unanswered(b)' \subseteq Unanswered(b)
  BY <1>1 DEF Unanswered
<1>3. \A r : Human(r)' <=> Human(r)
  BY DEF Human
<1>4. EngineRows(b)' = EngineRows(b)
  BY <1>1, <1>3 DEF EngineRows
<1> QED BY <1>1, <1>2, <1>4

\* A step that writes no counter: every worker stands where it stood, or enters
\* an empty run at its beginning, or moves along its run without losing a row.
Keeps(j, k, b) ==
  /\ j.pc \in Owning =>
       \/ k.pc \in Owning /\ k.batch = b /\ j.cursor = k.cursor
       \/ j.cursor = 0 /\ classifiedCount[b] + reviewCount[b] = 0
  /\ j.pc \in {"ask", "check", "commit"} =>
       \A t \in Unanswered(b) : j.cursor < t /\ t <= j.last => t \in j.page
  /\ j.pc = "finish" => Cardinality(Unanswered(b)) <= reviewCount[b]

LEMMA CountKeeps ==
  ASSUME TypeOK, TypeOK', CountInv, UNCHANGED <<classifiedCount, reviewCount>>,
         rows \subseteq rows', \A r \in rows' : r \in rows \/ Human(r),
         JobsImported',
         \A w \in Workers : job'[w] = job[w]
                            \/ \A b \in Batches : job'[w].batch = b => Keeps(job'[w], job[w], b),
         \A b \in Batches :
           /\ run'[b] = "absent" => run[b] = "absent"
           /\ run'[b] = "classified" =>
                run[b] = "classified" \/ Cardinality(Unanswered(b)) <= reviewCount[b]
  PROVE  CountInv'
<1>1. \A b : /\ EngineRows(b)' = EngineRows(b)
             /\ Unanswered(b)' \subseteq Unanswered(b)
             /\ BatchRows(b)' = BatchRows(b)
  BY MoreAnswers
<1>2. PageLeavesNone'
  <2> SUFFICES ASSUME NEW w \in Workers, NEW b \in Batches, job'[w].batch = b,
                      job'[w].pc \in {"ask", "check", "commit"}, NEW t \in Unanswered(b)',
                      job'[w].cursor < t, t <= job'[w].last
               PROVE  t \in job'[w].page
    BY DEF PageLeavesNone
  <2>1. t \in Unanswered(b)
    BY <1>1
  <2>2. CASE job'[w] = job[w]
    BY <2>1, <2>2 DEF CountInv, PageLeavesNone
  <2>3. CASE Keeps(job'[w], job[w], b)
    BY <2>1, <2>3 DEF Keeps
  <2> QED BY <2>2, <2>3
<1>3. CountersTyped'
  BY <1>1 DEF CountInv, CountersTyped
<1>4. \A b \in Batches : classifiedCount[b] \in Nat /\ reviewCount[b] \in Nat
  BY DEF CountInv, CountersTyped
<1>5. \A b : /\ Unanswered(b) \in SUBSET Txns /\ Unanswered(b)' \in SUBSET Txns
             /\ Cardinality(Unanswered(b)') <= Cardinality(Unanswered(b))
             /\ Cardinality(Unanswered(b)') \in Nat /\ Cardinality(Unanswered(b)) \in Nat
  <2> SUFFICES ASSUME NEW b
               PROVE  /\ Unanswered(b) \in SUBSET Txns /\ Unanswered(b)' \in SUBSET Txns
                      /\ Cardinality(Unanswered(b)') <= Cardinality(Unanswered(b))
                      /\ Cardinality(Unanswered(b)') \in Nat
                      /\ Cardinality(Unanswered(b)) \in Nat
    OBVIOUS
  <2>1. Unanswered(b) \in SUBSET Txns
    BY DEF Unanswered, BatchRows
  <2>2. Unanswered(b)' \in SUBSET Unanswered(b) /\ Unanswered(b)' \in SUBSET Txns
    BY <1>1, <2>1
  <2> QED BY <2>1, <2>2, MoreRows, RowsCounted
<1>6. \A b, n : /\ Cardinality(Upto(Unanswered(b)', n)) <= Cardinality(Upto(Unanswered(b), n))
                /\ Cardinality(Upto(Unanswered(b)', n)) \in Nat
                /\ Cardinality(Upto(Unanswered(b), n)) \in Nat
  <2> SUFFICES ASSUME NEW b, NEW n
               PROVE  /\ Cardinality(Upto(Unanswered(b)', n))
                           <= Cardinality(Upto(Unanswered(b), n))
                      /\ Cardinality(Upto(Unanswered(b)', n)) \in Nat
                      /\ Cardinality(Upto(Unanswered(b), n)) \in Nat
    OBVIOUS
  <2>1. /\ Upto(Unanswered(b), n) \in SUBSET Txns /\ Upto(Unanswered(b)', n) \in SUBSET Txns
        /\ Upto(Unanswered(b)', n) \in SUBSET Upto(Unanswered(b), n)
    BY <1>1, <1>5 DEF Upto
  <2> QED BY <2>1, MoreRows, RowsCounted
<1>7. \A b : /\ Cardinality(Upto(BatchRows(b), 0)) = 0
              /\ Cardinality(Upto(Unanswered(b), 0)) = 0
  <2> SUFFICES ASSUME NEW b PROVE Upto(BatchRows(b), 0) = {} /\ Upto(Unanswered(b), 0) = {}
    BY FS_EmptySet
  <2> QED BY RowsNumbered, <1>5 DEF Upto, BatchRows
<1>8. \A w \in Workers, b \in Batches : job'[w].batch = b /\ job'[w].pc \in Owning =>
        \/ job[w].pc \in Owning /\ job[w].batch = b /\ job'[w].cursor = job[w].cursor
        \/ job'[w].cursor = 0 /\ classifiedCount[b] + reviewCount[b] = 0
  BY DEF Keeps
<1>9. CountedOnce'
  <2>1. \A b \in Batches :
          /\ classifiedCount'[b] + reviewCount'[b] <= Cardinality(BatchRows(b)')
          /\ run'[b] = "absent" => classifiedCount'[b] + reviewCount'[b] = 0
    BY <1>1 DEF CountInv, CountedOnce
  <2>2. ASSUME NEW w \in Workers, NEW b \in Batches, job'[w].batch = b, job'[w].pc \in Owning
        PROVE  classifiedCount'[b] + reviewCount'[b]
                 <= Cardinality(Upto(BatchRows(b)', job'[w].cursor))
    <3>1. CASE job[w].pc \in Owning /\ job[w].batch = b /\ job'[w].cursor = job[w].cursor
      BY <1>1, <3>1 DEF CountInv, CountedOnce
    <3>2. CASE job'[w].cursor = 0 /\ classifiedCount[b] + reviewCount[b] = 0
      BY <1>1, <1>7, <3>2
    <3> QED BY <1>8, <2>2, <3>1, <3>2
  <2> QED BY <2>1, <2>2 DEF CountedOnce, Upto
<1>10. UnansweredCounted'
  <2>1. ASSUME NEW w \in Workers, NEW b \in Batches, job'[w].batch = b, job'[w].pc \in Owning
        PROVE  Cardinality(Upto(Unanswered(b)', job'[w].cursor)) <= reviewCount'[b]
    <3>0. Cardinality(Upto(Unanswered(b), job'[w].cursor)) <= reviewCount[b]
      <4>1. CASE job[w].pc \in Owning /\ job[w].batch = b /\ job'[w].cursor = job[w].cursor
        BY <4>1 DEF CountInv, UnansweredCounted
      <4>2. CASE job'[w].cursor = 0
        BY <1>4, <1>7, <4>2
      <4> QED BY <1>8, <2>1, <4>1, <4>2
    <3> QED BY <1>4, <1>6, <3>0
  <2>2. ASSUME NEW w \in Workers, NEW b \in Batches, job'[w].batch = b, job'[w].pc = "finish"
        PROVE  Cardinality(Unanswered(b)') <= reviewCount'[b]
    <3>2. Cardinality(Unanswered(b)) <= reviewCount[b]
      BY <2>2 DEF CountInv, UnansweredCounted, Keeps
    <3> QED BY <1>4, <1>5, <3>2
  <2>3. ASSUME NEW b \in Batches, run'[b] = "classified"
        PROVE  Cardinality(Unanswered(b)') <= reviewCount'[b]
    <3>1. Cardinality(Unanswered(b)) <= reviewCount[b]
      BY <2>3 DEF CountInv, UnansweredCounted
    <3> QED BY <1>4, <1>5, <3>1
  <2> QED BY <2>1, <2>2, <2>3 DEF UnansweredCounted, Upto
<1> QED BY <1>2, <1>3, <1>9, <1>10 DEF CountInv

\* A committed page moves the cursor over the rows it answered and those it left
\* for review, and counts each of them once.
LEMMA CommitCounts ==
  ASSUME TypeOK, TypeOK', RunInv, CountInv, JobsImported', NEW w \in Workers,
         WriteChunkCommit(w)
  PROVE  CountInv'
<1>b. PICK b \in Batches : b = job[w].batch
  BY DEF WriteChunkCommit, TypeOK, JobsTyped
<1> DEFINE page == job[w].page
           new == Proposed(w)
           done == {r.txn : r \in new}
<1>1. /\ job[w].pc = "commit" /\ run[b] = "running" /\ UNCHANGED run
      /\ rows' = rows \cup new
      /\ classifiedCount' = [classifiedCount EXCEPT ![b] = @ + Cardinality(new)]
      /\ reviewCount' = [reviewCount EXCEPT ![b] = @ + (Cardinality(page) - Cardinality(new))]
      /\ job' = [job EXCEPT ![w].pc = "page", ![w].cursor = job[w].last, ![w].page = {}]
  BY <1>b DEF WriteChunkCommit
<1>2. /\ \A v \in Workers : v # w => job'[v] = job[v]
      /\ job'[w].pc = "page" /\ job'[w].batch = b /\ job'[w].cursor = job[w].last
  BY <1>1, <1>b DEF TypeOK, JobsTyped, JobType
<1>3. /\ job[w].cursor < job[w].last
      /\ \A t \in page : BatchOf[t] = b /\ job[w].cursor < t /\ t <= job[w].last
  BY <1>1, <1>b DEF RunInv, PageBehindCursor
<1>4. /\ new \subseteq Rows
      /\ \A r \in new : ~Human(r) /\ r.txn \in page
      /\ \A r, s \in new : r.txn = s.txn => r = s
  BY <1>1, ProposedRows DEF TypeOK
<1>5. /\ job[w].cursor \in Nat /\ job[w].last \in Nat /\ page \in SUBSET Txns
      /\ b \in Batches /\ \A t \in Txns : t \in Nat
  BY <1>1, <1>b DEF TypeOK, JobsTyped, JobType
<1>6. \A v \in Workers : v # w /\ job[v].pc \in Owning => job[v].batch # b
  BY <1>1, <1>b DEF RunInv, RunOwned, Owning
<1>7. \A r \in rows : r.txn \in Txns /\ (~Human(r) /\ BatchOf[r.txn] = b => r.txn <= job[w].cursor)
  BY <1>1, <1>b DEF RunInv, EngineBehindCursor, Owning, TypeOK, LedgerTyped, Rows
<1>8. classifiedCount[b] \in Nat /\ reviewCount[b] \in Nat
  BY <1>5 DEF CountInv, CountersTyped
<1> HIDE DEF page, new
\* The sizes.
<1>9. /\ IsFiniteSet(new) /\ Cardinality(new) \in Nat /\ Cardinality(new) = Cardinality(done)
  BY <1>4, <1>5, OnePerRow
<1>10. done \in SUBSET page
  BY <1>4
<1> HIDE DEF done
<1>11. /\ IsFiniteSet(page) /\ Cardinality(page) \in Nat
       /\ Cardinality(done) <= Cardinality(page)
       /\ IsFiniteSet(done) /\ IsFiniteSet(page \ done)
       /\ Cardinality(page \ done) = Cardinality(page) - Cardinality(done)
  <2>1. done \in SUBSET Txns /\ page \ done \in SUBSET Txns
    BY <1>5, <1>10
  <2>2. /\ IsFiniteSet(page) /\ Cardinality(page) \in Nat
        /\ Cardinality(done) <= Cardinality(page) /\ Cardinality(done) \in Nat
        /\ IsFiniteSet(done) /\ IsFiniteSet(page \ done) /\ Cardinality(page \ done) \in Nat
    BY <1>5, <1>10, <2>1, RowsCounted, MoreRows
  <2>3. (page \ done) \cup done = page /\ (page \ done) \cap done = {}
    BY <1>10
  <2>4. Cardinality(page) = Cardinality(page \ done) + Cardinality(done) - Cardinality({})
    BY <2>2, <2>3, FS_Union
  <2> QED BY <2>2, <2>4, FS_EmptySet
<1>12. /\ \A c \in Batches : c # b => /\ classifiedCount'[c] = classifiedCount[c]
                                      /\ reviewCount'[c] = reviewCount[c]
       /\ classifiedCount'[b] = classifiedCount[b] + Cardinality(new)
       /\ reviewCount'[b] = reviewCount[b] + (Cardinality(page) - Cardinality(new))
       /\ classifiedCount' \in [Batches -> Nat] /\ reviewCount' \in [Batches -> Nat]
  <2>1. classifiedCount[b] + Cardinality(new) \in Nat
        /\ reviewCount[b] + (Cardinality(page) - Cardinality(new)) \in Nat
    BY <1>8, <1>9, <1>11
  <2>2. classifiedCount \in [Batches -> Nat] /\ reviewCount \in [Batches -> Nat]
    BY DEF CountInv, CountersTyped
  <2> QED BY <1>1, <1>5, <2>1, <2>2
\* The sets.
<1>13. \A r : Human(r)' <=> Human(r)
  BY DEF Human
<1>14. \A c \in Batches :
         /\ BatchRows(c)' = BatchRows(c)
         /\ Unanswered(c)' \in SUBSET Unanswered(c)
         /\ c # b => EngineRows(c)' = EngineRows(c)
         /\ Unanswered(c) \in SUBSET Txns /\ BatchRows(c) \in SUBSET Txns
  BY <1>1, <1>3, <1>4, <1>13 DEF EngineRows, BatchRows, Unanswered
<1>15. EngineRows(b)' = EngineRows(b) \cup new
  BY <1>1, <1>3, <1>4, <1>5, <1>13 DEF EngineRows, BatchRows
<1>16. EngineRows(b) \cap new = {}
  <2> SUFFICES ASSUME NEW r \in EngineRows(b), r \in new PROVE FALSE
    OBVIOUS
  <2>1. r.txn \in Nat /\ r.txn <= job[w].cursor
    BY <1>5, <1>7 DEF EngineRows, BatchRows
  <2>2. job[w].cursor < r.txn
    BY <1>3, <1>4
  <2> QED BY <1>5, <2>1, <2>2
<1>17. Cardinality(EngineRows(b)') = Cardinality(EngineRows(b)) + Cardinality(new)
  <2>1. IsFiniteSet(EngineRows(b)) /\ Cardinality(EngineRows(b)) \in Nat
    BY EngineRowsCounted DEF RunInv
  <2>2. Cardinality(EngineRows(b) \cup new)
          = Cardinality(EngineRows(b)) + Cardinality(new) - Cardinality({})
    BY <1>9, <1>16, <2>1, FS_Union
  <2> QED BY <1>9, <1>15, <2>1, <2>2, FS_EmptySet
<1>18. CountersTyped'
  BY <1>12, <1>14, <1>17, <1>5 DEF CountInv, CountersTyped
<1>19. PageLeavesNone'
  <2> SUFFICES ASSUME NEW v \in Workers, NEW c \in Batches, job'[v].batch = c,
                      job'[v].pc \in {"ask", "check", "commit"}, NEW t \in Unanswered(c)',
                      job'[v].cursor < t, t <= job'[v].last
               PROVE  t \in job'[v].page
    BY DEF PageLeavesNone
  <2>1. v # w /\ job'[v] = job[v]
    BY <1>2
  <2> QED BY <1>14, <2>1 DEF CountInv, PageLeavesNone
\* Up to the new cursor lie what was counted before and the page.
<1>20. /\ Cardinality(Upto(BatchRows(b), job[w].cursor)) + Cardinality(page)
             <= Cardinality(Upto(BatchRows(b), job[w].last))
       /\ Cardinality(Upto(BatchRows(b), job[w].last)) <= Cardinality(BatchRows(b))
       /\ Cardinality(Upto(BatchRows(b), job[w].cursor)) \in Nat
       /\ Cardinality(Upto(BatchRows(b), job[w].last)) \in Nat
       /\ Cardinality(BatchRows(b)) \in Nat
  <2> DEFINE S == Upto(BatchRows(b), job[w].cursor)
             T == Upto(BatchRows(b), job[w].last)
  <2>0. ASSUME NEW t \in Txns, t <= job[w].cursor
        PROVE  t <= job[w].last /\ ~(job[w].cursor < t)
    <3>1. t \in Nat
      BY <1>5
    <3> QED BY <1>3, <1>5, <2>0, <3>1
  <2>1. /\ S \in SUBSET Txns /\ T \in SUBSET Txns /\ BatchRows(b) \in SUBSET Txns
        /\ T \in SUBSET BatchRows(b)
    BY DEF Upto, BatchRows
  <2>2. S \cup page \in SUBSET T /\ S \cap page = {}
    BY <1>3, <1>5, <2>0 DEF Upto, BatchRows
  <2> HIDE DEF S, T
  <2>3. /\ IsFiniteSet(S) /\ Cardinality(S) \in Nat /\ Cardinality(T) \in Nat
        /\ Cardinality(BatchRows(b)) \in Nat /\ Cardinality(T) <= Cardinality(BatchRows(b))
        /\ Cardinality(S \cup page) <= Cardinality(T)
    BY <2>1, <2>2, RowsCounted, MoreRows
  <2>4. Cardinality(S \cup page) = Cardinality(S) + Cardinality(page) - Cardinality({})
    BY <1>11, <2>2, <2>3, FS_Union
  <2>5. Cardinality(S) + Cardinality(page) <= Cardinality(T)
    BY <1>11, <2>3, <2>4, FS_EmptySet
  <2> QED BY <2>3, <2>5 DEF S, T
<1>21. classifiedCount[b] + reviewCount[b] <= Cardinality(Upto(BatchRows(b), job[w].cursor))
  BY <1>1, <1>b DEF CountInv, CountedOnce, Owning
<1>22. classifiedCount'[b] + reviewCount'[b] <= Cardinality(Upto(BatchRows(b), job[w].last))
  BY <1>8, <1>9, <1>11, <1>12, <1>20, <1>21
<1>23. CountedOnce'
  <2>1. ASSUME NEW c \in Batches
        PROVE  /\ classifiedCount'[c] + reviewCount'[c] <= Cardinality(BatchRows(c)')
               /\ run'[c] = "absent" => classifiedCount'[c] + reviewCount'[c] = 0
    <3>1. CASE c = b
      <4>1. classifiedCount'[b] \in Nat /\ reviewCount'[b] \in Nat
        BY <1>5, <1>12
      <4> QED BY <1>1, <1>14, <1>20, <1>22, <3>1, <4>1
    <3>2. CASE c # b
      BY <1>1, <1>12, <1>14, <3>2 DEF CountInv, CountedOnce
    <3> QED BY <3>1, <3>2
  <2>2. ASSUME NEW v \in Workers, NEW c \in Batches, job'[v].batch = c, job'[v].pc \in Owning
        PROVE  classifiedCount'[c] + reviewCount'[c]
                 <= Cardinality(Upto(BatchRows(c)', job'[v].cursor))
    <3>1. CASE v = w
      BY <1>2, <1>14, <1>22, <2>2, <3>1
    <3>2. CASE v # w
      <4>1. job'[v] = job[v] /\ c # b
        BY <1>2, <1>6, <2>2, <3>2
      <4> QED BY <1>12, <1>14, <2>2, <4>1 DEF CountInv, CountedOnce
    <3> QED BY <3>1, <3>2
  <2> QED BY <2>1, <2>2 DEF CountedOnce, Upto
<1>24. /\ Cardinality(Upto(Unanswered(b)', job[w].last)) <= reviewCount'[b]
  <2> DEFINE S == Upto(Unanswered(b), job[w].cursor)
             T == Upto(Unanswered(b)', job[w].last)
  <2>1. Cardinality(S) <= reviewCount[b]
    BY <1>1, <1>b DEF CountInv, UnansweredCounted, Owning
  <2>2. S \in SUBSET Txns /\ T \in SUBSET Txns
    BY <1>5, <1>14 DEF Upto
  <2>3. ASSUME NEW t \in T PROVE t \in S \cup (page \ done)
    <3>1. t \in Unanswered(b) /\ t <= job[w].last /\ t \in Nat
      BY <1>5, <1>14 DEF Upto
    <3>2. t \notin done
      BY <1>1 DEF Upto, Unanswered, done
    <3>3. CASE t <= job[w].cursor
      BY <3>1, <3>3 DEF Upto
    <3>4. CASE job[w].cursor < t
      <4>1. t \in page
        BY <1>1, <1>b, <3>1, <3>4 DEF CountInv, PageLeavesNone, page
      <4> QED BY <3>2, <4>1
    <3> QED BY <1>5, <3>1, <3>3, <3>4
  <2> HIDE DEF S, T
  <2>4. T \in SUBSET (S \cup (page \ done)) /\ S \cup (page \ done) \in SUBSET Txns
    BY <1>5, <2>2, <2>3
  <2>5. /\ Cardinality(T) <= Cardinality(S \cup (page \ done)) /\ Cardinality(T) \in Nat
        /\ IsFiniteSet(S) /\ Cardinality(S) \in Nat
        /\ Cardinality(S \cup (page \ done)) \in Nat
    BY <2>2, <2>4, MoreRows, RowsCounted
  <2>6. S \cap (page \ done) \in SUBSET Txns
    BY <2>2
  <2>7. Cardinality(S \cap (page \ done)) \in Nat
    BY <2>6, RowsCounted
  <2>8. Cardinality(S \cup (page \ done)) =
          Cardinality(S) + Cardinality(page \ done) - Cardinality(S \cap (page \ done))
    BY <1>11, <2>5, FS_Union
  <2>9. Cardinality(T) <= reviewCount'[b]
    BY <1>8, <1>9, <1>11, <1>12, <2>1, <2>5, <2>7, <2>8
  <2> QED BY <2>9 DEF T
<1>25. UnansweredCounted'
  <2>0. \A c \in Batches : /\ Cardinality(Unanswered(c)') <= Cardinality(Unanswered(c))
                           /\ Cardinality(Unanswered(c)') \in Nat
                           /\ Cardinality(Unanswered(c)) \in Nat /\ reviewCount[c] \in Nat
    <3> SUFFICES ASSUME NEW c \in Batches
                 PROVE  /\ Cardinality(Unanswered(c)') <= Cardinality(Unanswered(c))
                        /\ Cardinality(Unanswered(c)') \in Nat
                        /\ Cardinality(Unanswered(c)) \in Nat /\ reviewCount[c] \in Nat
      OBVIOUS
    <3>1. Unanswered(c) \in SUBSET Txns /\ Unanswered(c)' \in SUBSET Unanswered(c)
          /\ Unanswered(c)' \in SUBSET Txns
      BY <1>14
    <3>2. reviewCount[c] \in Nat
      BY DEF CountInv, CountersTyped
    <3> QED BY <3>1, <3>2, MoreRows, RowsCounted
  <2>1. ASSUME NEW v \in Workers, NEW c \in Batches, job'[v].batch = c, job'[v].pc \in Owning
        PROVE  Cardinality(Upto(Unanswered(c)', job'[v].cursor)) <= reviewCount'[c]
    <3>1. CASE v = w
      BY <1>2, <1>24, <2>1, <3>1
    <3>2. CASE v # w
      <4>1. job'[v] = job[v] /\ c # b
        BY <1>2, <1>6, <2>1, <3>2
      <4>2. Cardinality(Upto(Unanswered(c), job[v].cursor)) <= reviewCount[c]
        BY <2>1, <4>1 DEF CountInv, UnansweredCounted
      <4>3. /\ Upto(Unanswered(c)', job[v].cursor) \in SUBSET Upto(Unanswered(c), job[v].cursor)
            /\ Upto(Unanswered(c)', job[v].cursor) \in SUBSET Txns
            /\ Upto(Unanswered(c), job[v].cursor) \in SUBSET Txns
        BY <1>14 DEF Upto
      <4>4. /\ Cardinality(Upto(Unanswered(c)', job[v].cursor))
                 <= Cardinality(Upto(Unanswered(c), job[v].cursor))
            /\ Cardinality(Upto(Unanswered(c)', job[v].cursor)) \in Nat
            /\ Cardinality(Upto(Unanswered(c), job[v].cursor)) \in Nat
        BY <4>3, MoreRows, RowsCounted
      <4> QED BY <1>12, <2>0, <4>1, <4>2, <4>4
    <3> QED BY <3>1, <3>2
  <2>2. ASSUME NEW v \in Workers, NEW c \in Batches, job'[v].batch = c, job'[v].pc = "finish"
        PROVE  Cardinality(Unanswered(c)') <= reviewCount'[c]
    <3>1. v # w /\ job'[v] = job[v]
      BY <1>2, <2>2
    <3>2. c # b
      BY <1>6, <2>2, <3>1 DEF Owning
    <3>3. Cardinality(Unanswered(c)) <= reviewCount[c]
      BY <2>2, <3>1 DEF CountInv, UnansweredCounted
    <3> QED BY <1>12, <2>0, <3>2, <3>3
  <2>3. ASSUME NEW c \in Batches, run'[c] = "classified"
        PROVE  Cardinality(Unanswered(c)') <= reviewCount'[c]
    <3>1. c # b /\ Cardinality(Unanswered(c)) <= reviewCount[c]
      BY <1>1, <2>3 DEF CountInv, UnansweredCounted
    <3> QED BY <1>12, <2>0, <3>1
  <2> QED BY <2>1, <2>2, <2>3 DEF UnansweredCounted, Upto
<1> QED BY <1>18, <1>19, <1>23, <1>25 DEF CountInv

\* A batch reaches River and its workers by its import only.
LEMMA JobsStayImported ==
  ASSUME TypeOK, JobsImported, [Next]_vars
  PROVE  JobsImported'
<1>1. \A w \in Workers : job[w] \in JobType
  BY DEF TypeOK, JobsTyped
<1>2. \A b \in Batches : queue[b] \in Nat
  BY DEF TypeOK, RunsTyped
\* A worker goes on with its batch.
<1>3. ASSUME NEW w \in Workers, job[w].pc # "idle", UNCHANGED <<imported, queue>>,
             NEW j, j.batch = job[w].batch, j.pc # "open", job' = [job EXCEPT ![w] = j]
      PROVE  JobsImported'
  BY <1>3 DEF JobsImported, TypeOK, JobsTyped
<1>4. ASSUME NEW w \in Workers, job[w].pc # "idle", NEW pc \in Points, pc # "open",
             Goto(w, pc), UNCHANGED <<imported, queue>>
      PROVE  JobsImported'
  <2> DEFINE j == [job[w] EXCEPT !.pc = pc]
  <2>1. job' = [job EXCEPT ![w] = j] /\ j.batch = job[w].batch /\ j.pc = pc
    BY <1>1, <1>4, GotoMoves DEF TypeOK, JobType
  <2> HIDE DEF j
  <2> QED BY <1>3, <1>4, <2>1
\* It lets go of it, or it goes back to the queue.
<1>5. ASSUME NEW w \in Workers, job[w].pc # "idle", job' = [job EXCEPT ![w] = Free],
             UNCHANGED imported,
             queue' = queue \/ queue' = [queue EXCEPT ![job[w].batch] = @ + 1]
      PROVE  JobsImported'
  <2>1. \A v \in Workers : job'[v] = job[v] \/ job'[v].pc = "idle"
    BY <1>5, FreeTyped DEF TypeOK, JobsTyped
  <2>2. job[w].batch \in imported
    BY <1>5 DEF JobsImported
  <2>3. \A b \in Batches : queue'[b] > 0 => queue[b] > 0 \/ b = job[w].batch
    BY <1>2, <1>5 DEF TypeOK, RunsTyped
  <2> QED BY <1>5, <2>1, <2>2, <2>3 DEF JobsImported
<1>6. ASSUME NEW b \in Batches, PersistImport(b) PROVE JobsImported'
  <2>1. \A c \in Batches : queue'[c] > 0 => queue[c] > 0 \/ c = b
    BY <1>2, <1>6 DEF PersistImport, TypeOK, RunsTyped
  <2> QED BY <1>6, <2>1 DEF PersistImport, JobsImported
<1>7. ASSUME NEW b \in Batches, FetchAny(b) PROVE JobsImported'
  <2>1. PICK w \in Workers : Fetch(w, b)
    BY <1>7 DEF FetchAny
  <2> DEFINE j == [Free EXCEPT !.pc = "open", !.batch = b]
  <2>2. j.batch = b /\ j.cursor = 0
    BY DEF Free
  <2>3. job' = [job EXCEPT ![w] = j] /\ queue[b] > 0 /\ UNCHANGED imported
        /\ queue' = [queue EXCEPT ![b] = @ - 1]
    BY <2>1 DEF Fetch
  <2> HIDE DEF j
  <2>4. \A c \in Batches : queue'[c] > 0 => queue[c] > 0
    BY <1>2, <2>3 DEF TypeOK, RunsTyped
  <2>5. \A v \in Workers : job'[v] = IF v = w THEN j ELSE job[v]
    BY <2>3 DEF TypeOK, JobsTyped
  <2> QED BY <2>2, <2>3, <2>4, <2>5 DEF JobsImported
<1>8. ASSUME NEW w \in Workers, AttemptFails(w) \/ Retry(w) \/ Discard(w) \/ Ack(w)
      PROVE  JobsImported'
  BY <1>5, <1>8 DEF AttemptFails, Retry, Discard, Ack, Requeue
<1>9. ASSUME NEW w \in Workers, ClassifyStep(w) PROVE JobsImported'
  <2>1. CASE RequestContext(w)
    <3> DEFINE j == [job[w] EXCEPT !.pc = "page", !.memory = vendors]
    <3>1. CASE job' = [job EXCEPT ![w].pc = "page", ![w].memory = vendors]
      <4>1. job' = [job EXCEPT ![w] = j]
        BY <2>1, <3>1, ContextMoves DEF RequestContext
      <4>2. j.batch = job[w].batch /\ j.pc = "page"
        BY <1>1 DEF JobType
      <4> HIDE DEF j
      <4> QED BY <1>3, <2>1, <4>1, <4>2 DEF RequestContext
    <3> QED BY <1>4, <2>1, <3>1 DEF RequestContext, Points
  <2>2. CASE ReadPage(w)
    <3>1. job[w].pc = "page" /\ UNCHANGED <<imported, queue>>
      BY <2>2 DEF ReadPage
    <3>2. ASSUME NEW page \in SUBSET Txns, NEW last \in Txns,
                 job' = [job EXCEPT ![w].pc = "ask", ![w].page = page, ![w].last = last]
          PROVE  JobsImported'
      <4> DEFINE j == [job[w] EXCEPT !.pc = "ask", !.page = page, !.last = last]
      <4>1. job' = [job EXCEPT ![w] = j]
        BY ZenonT(40), <3>1, <3>2, PageMoves
      <4>2. j.batch = job[w].batch /\ j.pc = "ask"
        BY <1>1 DEF JobType
      <4> HIDE DEF j
      <4> QED BY <1>3, <3>1, <4>1, <4>2
    <3>3. PageCandidates(job[w].batch, job[w].cursor) \subseteq Txns
      BY DEF PageCandidates
    <3>4. \/ Goto(w, "finish")
          \/ \E page \in SUBSET Txns, last \in Txns :
               job' = [job EXCEPT ![w].pc = "ask", ![w].page = page, ![w].last = last]
      BY <2>2, <3>3 DEF ReadPage
    <3> QED BY <1>4, <3>1, <3>2, <3>4 DEF Points
  <2>3. CASE WriteChunkCommit(w)
    <3> DEFINE j == [job[w] EXCEPT !.pc = "page", !.cursor = job[w].last, !.page = {}]
    <3>1. job' = [job EXCEPT ![w] = j] /\ job[w].pc # "idle" /\ UNCHANGED <<imported, queue>>
      BY <2>3, CursorMoves DEF WriteChunkCommit
    <3>2. j.batch = job[w].batch /\ j.pc = "page"
      BY <1>1 DEF JobType
    <3> HIDE DEF j
    <3> QED BY <1>3, <3>1, <3>2
  <2>4. CASE OpenRun(w) \/ AskEngine(w) \/ WriteChunkCheck(w) \/ FinishRun(w) \/ FailRun(w)
    <3>1. PICK pc \in Points : pc # "open" /\ Goto(w, pc)
      BY <2>4 DEF OpenRun, AskEngine, WriteChunkCheck, FinishRun, FailRun, EndRun, Points
    <3>2. job[w].pc # "idle" /\ UNCHANGED <<imported, queue>>
      BY <2>4 DEF OpenRun, AskEngine, WriteChunkCheck, FinishRun, FailRun, EndRun
    <3> QED BY <1>4, <3>1, <3>2
  <2> QED BY <1>8, <1>9, <2>1, <2>2, <2>3, <2>4 DEF ClassifyStep
<1>10. ASSUME NEW u \in Reviewers, ReviewStep(u) PROVE JobsImported'
  <2>1. UNCHANGED <<imported, queue, job>>
    BY <1>10 DEF ReviewStep, ResolveRead, ResolveRefused, ResolveCheck, ResolveCommit,
       UndoRead, UndoRetract, UndoCommit, UndoRefused
  <2> QED BY <2>1 DEF JobsImported
<1>11. CASE UNCHANGED vars
  BY <1>11 DEF vars, JobsImported
<1> QED BY <1>6, <1>7, <1>8, <1>9, <1>10, <1>11 DEF Next

\* A worker moves without writing.
LEMMA CountMove ==
  ASSUME TypeOK, TypeOK', CountInv, JobsImported',
         NEW w \in Workers, NEW j, job' = [job EXCEPT ![w] = j],
         UNCHANGED <<run, rows, classifiedCount, reviewCount>>,
         \A b \in Batches : j.batch = b => Keeps(j, job[w], b)
  PROVE  CountInv'
<1>1. \A v \in Workers : job'[v] = IF v = w THEN j ELSE job[v]
  BY DEF TypeOK, JobsTyped
<1> QED BY <1>1, CountKeeps

\* It leaves its run, or moves along it with the page in hand.
LEMMA CountGoto ==
  ASSUME TypeOK, TypeOK', CountInv, JobsImported',
         NEW w \in Workers, NEW pc \in Points, job[w].pc # "idle", Goto(w, pc),
         UNCHANGED <<run, rows, classifiedCount, reviewCount>>,
         \/ pc \notin Owning
         \/ job[w].pc \in Owning /\ pc \notin {"ask", "check", "commit", "finish"}
         \/ job[w].pc \in {"ask", "check", "commit"} /\ pc # "finish"
         \/ /\ job[w].pc \in Owning /\ pc = "finish"
            /\ \A b \in Batches : job[w].batch = b =>
                 Cardinality(Unanswered(b)) <= reviewCount[b]
  PROVE  CountInv'
<1> DEFINE j == [job[w] EXCEPT !.pc = pc]
<1>1. job' = [job EXCEPT ![w] = j]
  BY GotoMoves DEF TypeOK
<1>2. /\ j.pc = pc /\ j.batch = job[w].batch /\ j.cursor = job[w].cursor
      /\ j.page = job[w].page /\ j.last = job[w].last
  BY DEF TypeOK, JobsTyped, JobType
<1> HIDE DEF j
<1>3. pc \in Owning => job[w].pc \in Owning
  BY DEF Owning
<1>4. pc \in {"ask", "check", "commit"} => job[w].pc \in {"ask", "check", "commit"}
  BY DEF Owning
<1>5. pc = "finish" => \A b \in Batches : job[w].batch = b =>
                         Cardinality(Unanswered(b)) <= reviewCount[b]
  BY DEF Owning
<1>6. ASSUME NEW b \in Batches, j.batch = b PROVE Keeps(j, job[w], b)
  <2>1. job[w].pc \in {"ask", "check", "commit"} =>
          \A t \in Unanswered(b) :
            job[w].cursor < t /\ t <= job[w].last => t \in job[w].page
    BY <1>2, <1>6 DEF CountInv, PageLeavesNone
  <2> QED BY <1>2, <1>3, <1>4, <1>5, <1>6, <2>1 DEF Keeps
<1> QED BY <1>1, <1>6, CountMove

\* The rows a page is chosen from are all the batch's rows behind the cursor that
\* have no answer at all, and more where answers were retracted.
LEMMA CandidatesUnanswered ==
  ASSUME CountInv, NEW w \in Workers, job[w].pc # "idle", NEW b \in Batches, job[w].batch = b,
         NEW t \in Unanswered(b), job[w].cursor < t
  PROVE  t \in PageCandidates(b, job[w].cursor)
<1>1. b \in imported
  BY DEF CountInv, JobsImported
<1>2. t \in Txns /\ BatchOf[t] = b /\ \A r \in Live : r.txn # t
  BY DEF Unanswered, BatchRows, Live
<1> QED BY <1>1, <1>2 DEF PageCandidates, Unclassified

LEMMA ReadPageCounts ==
  ASSUME TypeOK, TypeOK', CountInv, JobsImported', NEW w \in Workers, ReadPage(w)
  PROVE  CountInv'
<1>0. PICK b \in Batches : job[w].batch = b
  BY DEF ReadPage, TypeOK, JobsTyped
<1> DEFINE candidates == PageCandidates(b, job[w].cursor)
<1>1. /\ job[w].pc = "page" /\ UNCHANGED <<run, rows, classifiedCount, reviewCount>>
      /\ job[w].pc \in Owning /\ job[w].pc # "idle" /\ job[w].cursor \in Nat
  BY DEF ReadPage, runVars, ledgerVars, Owning, TypeOK, JobsTyped, JobType
<1>2. \A t \in Unanswered(b) : job[w].cursor < t => t \in candidates
  BY <1>0, <1>1, CandidatesUnanswered
<1>3. Unanswered(b) \in SUBSET Txns /\ \A t \in Txns : t \in Nat
  BY DEF Unanswered, BatchRows
<1>4. CASE candidates = {} /\ Goto(w, "finish")
  <2>1. \A t \in Unanswered(b) : t <= job[w].cursor
    <3> SUFFICES ASSUME NEW t \in Unanswered(b) PROVE t <= job[w].cursor
      OBVIOUS
    <3>1. ~ (job[w].cursor < t) /\ t \in Nat
      BY <1>2, <1>3, <1>4
    <3> QED BY <1>1, <3>1
  <2>2. Unanswered(b) = Upto(Unanswered(b), job[w].cursor)
    BY <2>1 DEF Upto
  <2>3. Cardinality(Unanswered(b)) <= reviewCount[b]
    BY <1>0, <1>1, <2>2 DEF CountInv, UnansweredCounted
  <2> QED BY <1>0, <1>1, <1>4, <2>3, CountGoto DEF Points
<1>5. ASSUME NEW last \in candidates, NEW page, page = {t \in candidates : t <= last},
             job' = [job EXCEPT ![w].pc = "ask", ![w].page = page, ![w].last = last]
      PROVE  CountInv'
  <2> DEFINE j == [job[w] EXCEPT !.pc = "ask", !.page = page, !.last = last]
  <2>1. page \in SUBSET Txns /\ last \in Txns
    BY <1>5 DEF PageCandidates
  <2>2. job' = [job EXCEPT ![w] = j]
    BY ZenonT(40), <1>1, <1>5, <2>1, PageMoves
  <2>3. /\ j.pc = "ask" /\ j.batch = job[w].batch /\ j.cursor = job[w].cursor
        /\ j.page = page /\ j.last = last
    BY DEF TypeOK, JobsTyped, JobType
  <2> HIDE DEF j
  <2>4. Keeps(j, job[w], b)
    BY <1>0, <1>1, <1>2, <1>5, <2>3 DEF Keeps
  <2>5. \A c \in Batches : j.batch = c => Keeps(j, job[w], c)
    BY <1>0, <2>3, <2>4
  <2>6. UNCHANGED <<run, rows, classifiedCount, reviewCount>>
    BY <1>1
  <2> QED BY <2>2, <2>5, <2>6, CountMove
<1> QED BY <1>0, <1>4, <1>5 DEF ReadPage

LEMMA OpenCounts ==
  ASSUME TypeOK, TypeOK', CountInv, JobsImported', NEW w \in Workers, OpenRun(w)
  PROVE  CountInv'
<1>0. PICK b \in Batches : job[w].batch = b
  BY DEF OpenRun, TypeOK, JobsTyped
<1>1. /\ job[w].pc = "open" /\ UNCHANGED <<rows, classifiedCount, reviewCount>>
      /\ job[w].pc # "idle" /\ job[w].cursor = 0
  BY DEF OpenRun, ledgerVars, CountInv, JobsImported
<1>2. CASE run[b] # "absent"
  BY <1>0, <1>1, <1>2, CountGoto DEF OpenRun, Points, Owning
<1>3. CASE run[b] = "absent"
  <2>1. run' = [run EXCEPT ![b] = "running"] /\ Goto(w, "context")
    BY <1>0, <1>3 DEF OpenRun
  <2>2. /\ \A v \in Workers : v # w => job'[v] = job[v]
        /\ job'[w].pc = "context" /\ job'[w].batch = b /\ job'[w].cursor = 0
    BY <1>0, <1>1, <2>1 DEF Goto, TypeOK, JobsTyped, JobType
  <2>3. \A c \in Batches : /\ run'[c] = "absent" => run[c] = "absent"
                           /\ run'[c] = "classified" => run[c] = "classified"
    BY <2>1 DEF TypeOK, RunsTyped
  <2>4. classifiedCount[b] + reviewCount[b] = 0
    BY <1>3 DEF CountInv, CountedOnce
  <2>5. Keeps(job'[w], job[w], b)
    BY <2>2, <2>4 DEF Keeps
  <2> QED BY <1>1, <2>2, <2>3, <2>5, CountKeeps
<1> QED BY <1>2, <1>3

LEMMA CloseCounts ==
  ASSUME TypeOK, TypeOK', CountInv, JobsImported', NEW w \in Workers,
         FinishRun(w) \/ FailRun(w)
  PROVE  CountInv'
<1>0. PICK b \in Batches : job[w].batch = b
  BY DEF FinishRun, FailRun, EndRun, TypeOK, JobsTyped
<1>1. /\ UNCHANGED <<rows, classifiedCount, reviewCount>> /\ Goto(w, "ack")
      /\ \/ run' = [run EXCEPT ![b] = "failed"]
         \/ job[w].pc = "finish" /\ run' = [run EXCEPT ![b] = "classified"]
  BY <1>0 DEF FinishRun, FailRun, EndRun, ledgerVars
<1>2. /\ \A v \in Workers : v # w => job'[v] = job[v]
      /\ job'[w].pc = "ack"
  BY <1>1 DEF Goto, TypeOK, JobsTyped, JobType
<1>3. job[w].pc = "finish" => Cardinality(Unanswered(b)) <= reviewCount[b]
  BY <1>0 DEF CountInv, UnansweredCounted
<1>4. \A c \in Batches :
        /\ run'[c] = "absent" => run[c] = "absent"
        /\ run'[c] = "classified" =>
             run[c] = "classified" \/ Cardinality(Unanswered(c)) <= reviewCount[c]
  BY <1>1, <1>3 DEF TypeOK, RunsTyped
<1>5. \A c \in Batches : Keeps(job'[w], job[w], c)
  BY <1>2 DEF Keeps, Owning
<1> QED BY <1>1, <1>2, <1>4, <1>5, CountKeeps

LEMMA CountInvInductive == TypeOK /\ TypeOK' /\ RunInv /\ CountInv /\ [Next]_vars => CountInv'
<1> SUFFICES ASSUME TypeOK, TypeOK', RunInv, CountInv, [Next]_vars PROVE CountInv'
  OBVIOUS
<1> USE DEF runVars, ledgerVars
<1>0. JobsImported'
  BY JobsStayImported DEF CountInv
<1>1. ASSUME UNCHANGED <<job, run, classifiedCount, reviewCount>>, rows \subseteq rows',
             \A r \in rows' : r \in rows \/ Human(r)
      PROVE  CountInv'
  BY <1>0, <1>1, CountKeeps
<1>2. ASSUME NEW b \in Batches, PersistImport(b) PROVE CountInv'
  BY <1>1, <1>2 DEF PersistImport
<1>3. ASSUME NEW b \in Batches, FetchAny(b) PROVE CountInv'
  <2>1. PICK w \in Workers : Fetch(w, b)
    BY <1>3 DEF FetchAny
  <2> DEFINE j == [Free EXCEPT !.pc = "open", !.batch = b]
  <2>2. \A c \in Batches : Keeps(j, job[w], c)
    BY DEF Keeps, Owning, Free
  <2>3. job' = [job EXCEPT ![w] = j] /\ UNCHANGED <<run, rows, classifiedCount, reviewCount>>
    BY <2>1 DEF Fetch
  <2> HIDE DEF j
  <2> QED BY <1>0, <2>2, <2>3, CountMove
<1>4. ASSUME NEW w \in Workers, AttemptFails(w) \/ Retry(w) \/ Discard(w) \/ Ack(w)
      PROVE  CountInv'
  <2>1. \A c \in Batches : Keeps(Free, job[w], c)
    BY FreeTyped DEF Keeps, Owning
  <2>2. job' = [job EXCEPT ![w] = Free] /\ UNCHANGED <<run, rows, classifiedCount, reviewCount>>
    BY <1>4 DEF AttemptFails, Retry, Discard, Ack, Requeue
  <2> QED BY <1>0, <2>1, <2>2, CountMove
<1>5. ASSUME NEW w \in Workers, RequestContext(w) PROVE CountInv'
  <2>1. CASE Goto(w, "fail")
    BY <1>0, <1>5, <2>1, CountGoto DEF RequestContext, Points, Owning
  <2>2. CASE job' = [job EXCEPT ![w].pc = "page", ![w].memory = vendors]
    <3> DEFINE j == [job[w] EXCEPT !.pc = "page", !.memory = vendors]
    <3>1. /\ job[w].pc = "context" /\ job' = [job EXCEPT ![w] = j]
          /\ UNCHANGED <<run, rows, classifiedCount, reviewCount>>
      BY <1>5, <2>2, ContextMoves DEF RequestContext
    <3>2. j.pc = "page" /\ j.batch = job[w].batch /\ j.cursor = job[w].cursor
      BY DEF TypeOK, JobsTyped, JobType
    <3> HIDE DEF j
    <3>3. \A c \in Batches : j.batch = c => Keeps(j, job[w], c)
      BY <3>1, <3>2 DEF Keeps, Owning
    <3> QED BY <1>0, <3>1, <3>3, CountMove
  <2> QED BY <1>5, <2>1, <2>2 DEF RequestContext
<1>6. ASSUME NEW w \in Workers, AskEngine(w) PROVE CountInv'
  BY <1>0, <1>6, CountGoto DEF AskEngine, Points, Owning
<1>7. ASSUME NEW w \in Workers, WriteChunkCheck(w) PROVE CountInv'
  <2>1. Goto(w, "commit") \/ Goto(w, "error")
    BY <1>7 DEF WriteChunkCheck
  <2> QED BY <1>0, <1>7, <2>1, CountGoto DEF WriteChunkCheck, Points, Owning
<1>8. ASSUME NEW w \in Workers, ClassifyStep(w) PROVE CountInv'
  BY <1>0, <1>4, <1>5, <1>6, <1>7, <1>8, OpenCounts, ReadPageCounts, CommitCounts, CloseCounts
  DEF ClassifyStep
<1>9. ASSUME NEW u \in Reviewers, ReviewStep(u) PROVE CountInv'
  <2>1. UNCHANGED <<job, run, classifiedCount, reviewCount>>
    BY <1>9 DEF ReviewStep, ResolveRead, ResolveRefused, ResolveCheck, ResolveCommit,
       UndoRead, UndoRetract, UndoCommit, UndoRefused
  <2>2. rows \subseteq rows' /\ \A r \in rows' : r \in rows \/ Human(r)
    <3>1. CASE ResolveCommit(u)
      <4>1. PICK id \in 1 .. MaxDecisions : rows' = rows \cup HumanRows(request[u], id)
        BY <3>1 DEF ResolveCommit
      <4> QED BY <4>1, HumanRowsAre
    <3>2. CASE UNCHANGED rows
      BY <3>2
    <3> QED
      BY <1>9, <3>1, <3>2 DEF ReviewStep, ResolveRead, ResolveRefused, ResolveCheck,
         UndoRead, UndoRetract, UndoCommit, UndoRefused
  <2> QED BY <1>1, <2>1, <2>2
<1>10. CASE UNCHANGED vars
  BY <1>1, <1>10 DEF vars
<1> QED BY <1>2, <1>3, <1>4, <1>8, <1>9, <1>10 DEF Next

LEMMA CountsBegin == Init => CountInv
<1> SUFFICES ASSUME Init PROVE CountInv
  OBVIOUS
<1> USE DEF Init
<1>1. \A w \in Workers : job[w].pc = "idle"
  BY FreeTyped
<1>2. JobsImported
  BY <1>1 DEF JobsImported
<1>3. PageLeavesNone
  BY <1>1 DEF PageLeavesNone
<1>4. CountersTyped
  <2>1. \A b \in Batches : EngineRows(b) = {}
    BY DEF EngineRows
  <2> QED BY <2>1, FS_EmptySet DEF CountersTyped
<1>5. CountedOnce
  <2>1. \A b \in Batches : Cardinality(BatchRows(b)) \in Nat
    <3> SUFFICES ASSUME NEW b \in Batches PROVE Cardinality(BatchRows(b)) \in Nat
      OBVIOUS
    <3>1. BatchRows(b) \in SUBSET Txns
      BY DEF BatchRows
    <3> QED BY <3>1, RowsCounted
  <2> QED BY <1>1, <2>1 DEF CountedOnce, Owning
<1>6. UnansweredCounted
  BY <1>1 DEF UnansweredCounted, Owning
<1> QED BY <1>2, <1>3, <1>4, <1>5, <1>6 DEF CountInv

LEMMA CountInvariant == Spec => []CountInv
<1>1. (TypeOK /\ RunInv /\ ReviewInv) /\ (TypeOK /\ RunInv /\ ReviewInv)' /\ CountInv
        /\ [Next]_vars => CountInv'
  BY CountInvInductive
<1> QED BY <1>1, CountsBegin, AllInvariant, PTL DEF Spec

\* classifyrun: the counters of a run account for its batch, whatever workers,
\* reviewers, faults and retries interleave: each row is counted once at most,
\* every stored answer of the engine is counted, and a finished run has counted
\* for review every row that nobody has answered.
THEOREM RunsAccount == Spec => []RunAccounts
<1>1. CountInv => RunAccounts
  BY DEF CountInv, CountersTyped, CountedOnce, UnansweredCounted, RunAccounts, EngineRows,
     BatchRows, Unanswered
<1> QED BY <1>1, CountInvariant, PTL
=============================================================================
