------------------------ MODULE IngestPipelineProofs ------------------------
(***************************************************************************)
(* Proofs about IngestPipeline, for any number of batches, workers, files, *)
(* confirms, failed attempts and profile edits.                            *)
(***************************************************************************)
EXTENDS IngestPipeline, Sequences, TLAPS

USE ConstantsAssumption

-----------------------------------------------------------------------------
(* What the helpers do to the workers and to the queue. *)

LEMMA BusyWorker ==
  ASSUME WorkersTyped, NEW w \in Workers, job[w].pc # "idle"
  PROVE  job[w] \in Busy
BY DEF WorkersTyped, Jobs, Idle

LEMMA GotoTyped ==
  ASSUME WorkersTyped, NEW w \in Workers, job[w].pc # "idle", NEW pc \in Points,
         Goto(w, pc)
  PROVE  WorkersTyped'
<1>1. [job[w] EXCEPT !.pc = pc] \in Busy
  BY BusyWorker DEF Busy
<1> QED
  BY <1>1 DEF WorkersTyped, Goto, Jobs

LEMMA GotoFailTyped ==
  ASSUME WorkersTyped, NEW w \in Workers, job[w].pc # "idle", NEW code \in Codes,
         GotoFail(w, code)
  PROVE  WorkersTyped'
<1>1. [job[w] EXCEPT !.pc = "fail", !.code = code] \in Busy
  BY BusyWorker DEF Busy, Points
<1>2. job' = [job EXCEPT ![w] = [job[w] EXCEPT !.pc = "fail", !.code = code]]
  BY DEF GotoFail, WorkersTyped
<1> QED
  BY <1>1, <1>2 DEF WorkersTyped, Jobs

LEMMA GotoFileTyped ==
  ASSUME WorkersTyped, NEW w \in Workers, job[w].pc # "idle", NEW pc \in Points,
         NEW f \in Files \cup {NoFile},
         job' = [job EXCEPT ![w].pc = pc, ![w].file = f]
  PROVE  WorkersTyped'
<1>1. [job[w] EXCEPT !.pc = pc, !.file = f] \in Busy
  BY BusyWorker DEF Busy
<1>2. job' = [job EXCEPT ![w] = [job[w] EXCEPT !.pc = pc, !.file = f]]
  BY DEF WorkersTyped
<1> QED
  BY <1>1, <1>2 DEF WorkersTyped, Jobs

LEMMA GotoParamsTyped ==
  ASSUME WorkersTyped, NEW w \in Workers, job[w].pc # "idle", NEW pc \in Points,
         NEW p \in Params \cup {NoParams},
         job' = [job EXCEPT ![w].pc = pc, ![w].params = p]
  PROVE  WorkersTyped'
<1>1. [job[w] EXCEPT !.pc = pc, !.params = p] \in Busy
  BY BusyWorker DEF Busy
<1>2. job' = [job EXCEPT ![w] = [job[w] EXCEPT !.pc = pc, !.params = p]]
  BY DEF WorkersTyped
<1> QED
  BY <1>1, <1>2 DEF WorkersTyped, Jobs

LEMMA FetchTyped ==
  ASSUME WorkersTyped, QueueTyped, NEW w \in Workers, NEW k \in Kinds,
         NEW b \in Batches, Fetch(w, k, b)
  PROVE  WorkersTyped' /\ QueueTyped'
<1>1. [Idle EXCEPT !.pc = "start", !.kind = k, !.batch = b] \in Busy
  BY DEF Fetch, Idle, Busy, Points
<1>2. WorkersTyped'
  BY <1>1 DEF Fetch, WorkersTyped, Jobs
<1>3. queue[k][b] - 1 \in Nat
  BY DEF Fetch, QueueTyped
<1>4. QueueTyped'
  BY <1>3 DEF Fetch, QueueTyped
<1> QED BY <1>2, <1>4

LEMMA RequeueTyped ==
  ASSUME WorkersTyped, QueueTyped, NEW w \in Workers, job[w].pc # "idle", Requeue(w)
  PROVE  WorkersTyped' /\ QueueTyped'
<1>1. WorkersTyped'
  BY DEF Requeue, WorkersTyped, Jobs
<1>2. job[w].kind \in Kinds /\ job[w].batch \in Batches
  BY BusyWorker DEF Busy
<1>3. QueueTyped'
  BY <1>2 DEF Requeue, QueueTyped
<1> QED BY <1>1, <1>3

\* A step that leaves the columns, the environment or the store alone leaves
\* their types alone.
LEMMA Untouched ==
  /\ RowsTyped /\ UNCHANGED rowVars => RowsTyped'
  /\ EnvTyped /\ UNCHANGED envVars => EnvTyped'
  /\ StoreTyped /\ UNCHANGED object => StoreTyped'
  /\ QueueTyped /\ UNCHANGED queue => QueueTyped'
  /\ WorkersTyped /\ UNCHANGED job => WorkersTyped'
BY DEF RowsTyped, EnvTyped, StoreTyped, QueueTyped, WorkersTyped, rowVars, envVars

LEMMA LoadTyped ==
  ASSUME TypeOK, NEW w \in Workers, NEW k \in Kinds, NEW wanted,
         LoadBatchAndProfile(w, k, wanted)
  PROVE  TypeOK'
<1>1. job[w].pc # "idle" /\ UNCHANGED <<rowVars, envVars, object, queue>>
  BY DEF LoadBatchAndProfile, At
<1>2. CASE Goto(w, "ack")
  BY <1>1, <1>2, GotoTyped, Untouched DEF TypeOK, Points
<1>3. CASE \E p \in Params \cup {NoParams} :
             job' = [job EXCEPT ![w].pc = "parse", ![w].params = p]
  BY <1>1, <1>3, GotoParamsTyped, Untouched DEF TypeOK, Points
<1>4. Goto(w, "ack") \/ \E p \in Params \cup {NoParams} :
             job' = [job EXCEPT ![w].pc = "parse", ![w].params = p]
  BY DEF LoadBatchAndProfile, TypeOK, EnvTyped
<1> QED BY <1>2, <1>3, <1>4

LEMMA ParseTyped ==
  ASSUME TypeOK, NEW w \in Workers, NEW k \in Kinds, NEW code \in Codes,
         ReadAndParse(w, k, code)
  PROVE  TypeOK'
<1>1. job[w].pc # "idle" /\ UNCHANGED <<rowVars, envVars, object, queue>>
  BY DEF ReadAndParse, At
<1>2. job[w].batch \in Batches
  BY <1>1, BusyWorker DEF Busy, TypeOK
<1>3. CASE Goto(w, "error")
  BY <1>1, <1>3, GotoTyped, Untouched DEF TypeOK, Points
<1>4. CASE GotoFail(w, code)
  BY <1>1, <1>4, GotoFailTyped, Untouched DEF TypeOK
<1>5. CASE \E f \in Files \cup {NoFile} :
             job' = [job EXCEPT ![w].pc = "commit", ![w].file = f]
  BY <1>1, <1>5, GotoFileTyped, Untouched DEF TypeOK, Points
<1> QED
  BY <1>2, <1>3, <1>4, <1>5 DEF ReadAndParse, TypeOK, StoreTyped

\* Every step keeps every column, job and worker in its type.
LEMMA TypeOKInductive == TypeOK /\ [Next]_vars => TypeOK'
<1> SUFFICES ASSUME TypeOK, [Next]_vars PROVE TypeOK'
  OBVIOUS
<1> USE Untouched DEF TypeOK
<1>1. ASSUME NEW b \in Batches, NEW p \in BOOLEAN, CreateImportBatch(b, p)
      PROVE  TypeOK'
  BY <1>1 DEF CreateImportBatch, RowsTyped, EnvTyped, QueueTyped, Kinds,
     Lifecycle!Status
<1>2. ASSUME NEW b \in Batches, NEW f \in Files, PutObject(b, f) PROVE TypeOK'
  BY <1>2 DEF PutObject, EnvTyped, StoreTyped
<1>3. ASSUME NEW b \in Batches, ConfirmImportUpload(b) PROVE TypeOK'
  BY <1>3 DEF ConfirmImportUpload, EnvTyped, QueueTyped, Kinds
<1>4. ASSUME NEW p \in Params, UpdateImportProfile(p) PROVE TypeOK'
  BY <1>4 DEF UpdateImportProfile, EnvTyped
<1>5. ASSUME NEW w \in Workers, NEW k \in Kinds, NEW b \in Batches, Fetch(w, k, b)
      PROVE  TypeOK'
  <2>1. UNCHANGED <<rowVars, envVars, object>>
    BY <1>5 DEF Fetch
  <2> QED BY <2>1, <1>5, FetchTyped
<1>6. ASSUME NEW w \in Workers, Ack(w) \/ Discard(w) PROVE TypeOK'
  BY <1>6 DEF Ack, Discard, Jobs, WorkersTyped
<1>7. ASSUME NEW w \in Workers, AttemptFails(w) \/ Retry(w) PROVE TypeOK'
  <2>1. job[w].pc # "idle" /\ Requeue(w)
    BY <1>7 DEF AttemptFails, Retry
  <2>2. EnvTyped'
    BY <1>7 DEF AttemptFails, Retry, EnvTyped, envVars
  <2>3. UNCHANGED <<rowVars, object>>
    BY <1>7 DEF AttemptFails, Retry
  <2> QED BY <2>1, <2>2, <2>3, RequeueTyped
<1>8. ASSUME NEW w \in Workers, Fail(w) PROVE TypeOK'
  <2>1. /\ job[w].pc # "idle" /\ Goto(w, "ack") /\ "ack" \in Points
        /\ UNCHANGED <<envVars, object, queue>>
    BY <1>8 DEF Fail, Points
  <2>2. job[w].code \in Codes \cup {"none"}
    BY <2>1, BusyWorker DEF Busy
  <2>3. RowsTyped'
    BY <1>8, <2>2 DEF Fail, RowsTyped, Lifecycle!Status
  <2> QED BY <2>1, <2>3, GotoTyped
<1>9. ASSUME NEW w \in Workers, MeasureStep(w) PROVE TypeOK'
  <2>1. CASE MeasureReadStatus(w)
    BY <2>1, GotoTyped DEF MeasureReadStatus, At, Points
  <2>2. CASE MeasureStream(w)
    <3>1. /\ job[w].pc # "idle" /\ UNCHANGED <<rowVars, envVars, object, queue>>
          /\ job[w].batch \in Batches
      BY <2>2, BusyWorker DEF MeasureStream, At, Busy
    <3>2. CASE GotoFail(w, "upload_missing")
      BY <3>1, <3>2, GotoFailTyped DEF Codes
    <3>3. CASE Goto(w, "delete")
      BY <3>1, <3>3, GotoTyped DEF Points
    <3>4. CASE \E f \in Files \cup {NoFile} :
                 job' = [job EXCEPT ![w].pc = "lookup", ![w].file = f]
      BY <3>1, <3>4, GotoFileTyped DEF Points
    <3> QED BY <2>2, <3>1, <3>2, <3>3, <3>4 DEF MeasureStream, StoreTyped
  <2>3. CASE MeasureDeleteOversized(w)
    BY <2>3, GotoFailTyped DEF MeasureDeleteOversized, At, Codes, StoreTyped
  <2>4. CASE MeasureLookup(w)
    BY <2>4, GotoTyped, GotoFailTyped DEF MeasureLookup, At, Codes, Points
  <2>5. CASE MeasureRecord(w)
    <3>1. /\ job[w].pc # "idle" /\ Goto(w, "ack") /\ UNCHANGED <<envVars, object>>
          /\ job[w].batch \in Batches /\ job[w].file \in Files \cup {NoFile}
      BY <2>5, BusyWorker DEF MeasureRecord, At, Busy
    <3>2. RowsTyped'
      BY <2>5, <3>1 DEF MeasureRecord, RowsTyped, Lifecycle!Status
    <3>3. QueueTyped'
      BY <2>5, <3>1 DEF MeasureRecord, QueueTyped, Kinds
    <3> QED BY <3>1, <3>2, <3>3, GotoTyped DEF Points
  <2>6. CASE MeasureRecordRefused(w)
    BY <2>6, GotoTyped DEF MeasureRecordRefused, At, Points
  <2> QED BY <1>9, <2>1, <2>2, <2>3, <2>4, <2>5, <2>6 DEF MeasureStep
<1>10. ASSUME NEW w \in Workers, ExpireStep(w) PROVE TypeOK'
  <2>1. CASE ExpireAbandon(w)
    <3>1. /\ job[w].pc # "idle" /\ (Goto(w, "ack") \/ Goto(w, "delete"))
          /\ UNCHANGED <<envVars, object, queue>>
      BY <2>1 DEF ExpireAbandon, At
    <3>2. RowsTyped'
      BY <2>1 DEF ExpireAbandon, RowsTyped, Lifecycle!Status
    <3> QED BY <3>1, <3>2, GotoTyped DEF Points
  <2>2. CASE ExpireDelete(w)
    BY <2>2, GotoTyped DEF ExpireDelete, At, Points, StoreTyped
  <2> QED BY <1>10, <2>1, <2>2 DEF ExpireStep
<1>11. ASSUME NEW w \in Workers, ValidateStep(w) PROVE TypeOK'
  <2>1. CASE ValidateLoad(w)
    BY <2>1, LoadTyped DEF ValidateLoad, Kinds
  <2>2. CASE ValidateParse(w)
    BY <2>2, ParseTyped DEF ValidateParse, Kinds, Codes
  <2>3. CASE ValidateCommit(w)
    <3>1. /\ job[w].pc # "idle" /\ Goto(w, "ack") /\ UNCHANGED <<envVars, object>>
          /\ job[w].batch \in Batches /\ job[w].params \in Params \cup {NoParams}
      BY <2>3, BusyWorker DEF ValidateCommit, At, Busy
    <3>2. RowsTyped'
      BY <2>3, <3>1 DEF ValidateCommit, RowsTyped, Lifecycle!Status
    <3>3. QueueTyped'
      BY <2>3, <3>1 DEF ValidateCommit, QueueTyped, Kinds
    <3> QED BY <3>1, <3>2, <3>3, GotoTyped DEF Points
  <2>4. CASE ValidateRefused(w)
    BY <2>4, GotoTyped DEF ValidateRefused, At, Points
  <2> QED BY <1>11, <2>1, <2>2, <2>3, <2>4 DEF ValidateStep
<1>12. ASSUME NEW w \in Workers, PersistStep(w) PROVE TypeOK'
  <2>1. CASE PersistLoad(w)
    BY <2>1, LoadTyped DEF PersistLoad, Kinds
  <2>2. CASE PersistParse(w)
    BY <2>2, ParseTyped DEF PersistParse, Kinds, Codes
  <2>3. CASE PersistCommit(w)
    <3>1. /\ job[w].pc # "idle" /\ Goto(w, "ack") /\ UNCHANGED <<envVars, object>>
          /\ job[w].batch \in Batches /\ job[w].params \in Params \cup {NoParams}
      BY <2>3, BusyWorker DEF PersistCommit, At, Busy
    <3>2. RowsTyped'
      BY <2>3, <3>1 DEF PersistCommit, RowsTyped, Lifecycle!Status
    <3>3. QueueTyped'
      BY <2>3, <3>1 DEF PersistCommit, QueueTyped, Kinds
    <3> QED BY <3>1, <3>2, <3>3, GotoTyped DEF Points
  <2>4. CASE PersistLosesFileOnce(w)
    BY <2>4, GotoFailTyped DEF PersistLosesFileOnce, At, Codes
  <2>5. CASE PersistUndatable(w)
    BY <2>5, GotoTyped DEF PersistUndatable, At, Points
  <2> QED BY <1>12, <2>1, <2>2, <2>3, <2>4, <2>5 DEF PersistStep
<1>13. CASE UNCHANGED vars
  BY <1>13 DEF vars, rowVars, envVars
<1> QED
  BY <1>1, <1>2, <1>3, <1>4, <1>5, <1>6, <1>7, <1>8, <1>9, <1>10, <1>11, <1>12,
     <1>13 DEF Next, Request, FetchAny, Progress

LEMMA TypeOKInit == Init => TypeOK
BY DEF Init, TypeOK, RowsTyped, EnvTyped, StoreTyped, QueueTyped, WorkersTyped,
   Jobs, Lifecycle!Status

\* Type correctness of the pipeline.
THEOREM TypeCorrect == Spec => []TypeOK
BY TypeOKInit, TypeOKInductive, PTL DEF Spec

-----------------------------------------------------------------------------
(* The inductive invariant.  A worker's step changes its own place and, at   *)
(* most, the parameters, content and code it carries: never what it works on. *)

\* v works on what it worked on before; w is at pc and everyone else where
\* they were.
MovesTo(w, pc) ==
  /\ \A v \in Workers : job'[v].kind = job[v].kind /\ job'[v].batch = job[v].batch
  /\ \A v \in Workers \ {w} : job'[v] = job[v]
  /\ job'[w].pc = pc

\* w is idle and everyone else is where they were.
GoesIdle(w) == job'[w] = Idle /\ \A v \in Workers \ {w} : job'[v] = job[v]

LEMMA GotoMoves ==
  ASSUME WorkersTyped, NEW w \in Workers, job[w].pc # "idle", NEW pc, Goto(w, pc)
  PROVE  MovesTo(w, pc) /\ job'[w].file = job[w].file
<1>1. job[w] \in Busy
  BY BusyWorker
<1>2. job'[w] = [job[w] EXCEPT !.pc = pc]
  BY DEF Goto, WorkersTyped
<1> QED BY <1>1, <1>2 DEF MovesTo, Goto, WorkersTyped, Busy

LEMMA GotoFailMoves ==
  ASSUME WorkersTyped, NEW w \in Workers, job[w].pc # "idle", NEW code,
         GotoFail(w, code)
  PROVE  MovesTo(w, "fail")
<1>1. job[w] \in Busy
  BY BusyWorker
<1>2. job'[w] = [job[w] EXCEPT !.pc = "fail", !.code = code]
  BY DEF GotoFail, WorkersTyped
<1> QED BY <1>1, <1>2 DEF MovesTo, GotoFail, WorkersTyped, Busy

LEMMA GotoFileMoves ==
  ASSUME WorkersTyped, NEW w \in Workers, job[w].pc # "idle", NEW pc, NEW f,
         job' = [job EXCEPT ![w].pc = pc, ![w].file = f]
  PROVE  MovesTo(w, pc) /\ job'[w].file = f
<1>1. job[w] \in Busy
  BY BusyWorker
<1>2. job'[w] = [job[w] EXCEPT !.pc = pc, !.file = f]
  BY DEF WorkersTyped
<1> QED BY <1>1, <1>2 DEF MovesTo, WorkersTyped, Busy

LEMMA GotoParamsMoves ==
  ASSUME WorkersTyped, NEW w \in Workers, job[w].pc # "idle", NEW pc, NEW p,
         job' = [job EXCEPT ![w].pc = pc, ![w].params = p]
  PROVE  MovesTo(w, pc)
<1>1. job[w] \in Busy
  BY BusyWorker
<1>2. job'[w] = [job[w] EXCEPT !.pc = pc, !.params = p]
  BY DEF WorkersTyped
<1> QED BY <1>1, <1>2 DEF MovesTo, WorkersTyped, Busy

\* A step of a worker that touches neither columns nor queue keeps the invariant
\* unless it brings a persist job past its load.
LEMMA QuietMove ==
  ASSUME PipelineInv, TypeOK', NEW w \in Workers, NEW pc, MovesTo(w, pc),
         UNCHANGED <<rowVars, queue>>,
         pc \in {"lookup", "record"} => job'[w].file \in Files,
         \/ pc = "ack"
         \/ job[w].kind # "persist"
         \/ job[w].pc \notin {"start", "ack"}
         \/ status[job[w].batch] = "validated"
  PROVE  PipelineInv'
<1> USE DEF PipelineInv, MovesTo, rowVars
<1>1. OnePersistJob'
  BY DEF OnePersistJob, OnPersist
<1>2. PersistBehindReceipt'
  BY DEF PersistBehindReceipt, OnPersist
<1>3. WrittenIsDone'
  BY DEF WrittenIsDone, OnPersist
<1>4. ClassifyOwed' /\ MeasuredPastUpload' /\ FileOnce'
  BY DEF ClassifyOwed, MeasuredPastUpload, FileOnce
<1>5. MeasuredBehindJobs'
  BY DEF MeasuredBehindJobs, OnPersist, OnValidate
<1> QED BY <1>1, <1>2, <1>3, <1>4, <1>5

LEMMA LoadKeeps ==
  ASSUME PipelineInv, TypeOK', NEW w \in Workers, NEW k \in {"validate", "persist"},
         NEW wanted, k = "persist" => wanted = "validated",
         LoadBatchAndProfile(w, k, wanted)
  PROVE  PipelineInv'
<1>1. /\ job[w].pc = "start" /\ job[w].kind = k /\ WorkersTyped
      /\ UNCHANGED <<rowVars, envVars, object, queue>>
  BY DEF LoadBatchAndProfile, At, PipelineInv, TypeOK
<1>2. CASE status[job[w].batch] = wanted
  <2>1. PICK p : job' = [job EXCEPT ![w].pc = "parse", ![w].params = p]
    BY <1>2 DEF LoadBatchAndProfile
  <2>2. MovesTo(w, "parse")
    BY <1>1, <2>1, GotoParamsMoves
  <2> QED BY <1>1, <1>2, <2>2, QuietMove
<1>3. CASE status[job[w].batch] # wanted
  <2>1. MovesTo(w, "ack")
    BY <1>1, <1>3, GotoMoves DEF LoadBatchAndProfile
  <2> QED BY <1>1, <2>1, QuietMove
<1> QED BY <1>2, <1>3

LEMMA ParseKeeps ==
  ASSUME PipelineInv, TypeOK', NEW w \in Workers, NEW k \in Kinds, NEW code,
         ReadAndParse(w, k, code)
  PROVE  PipelineInv'
<1>1. /\ job[w].pc = "parse" /\ WorkersTyped
      /\ UNCHANGED <<rowVars, envVars, object, queue>>
  BY DEF ReadAndParse, At, PipelineInv, TypeOK
<1>2. MovesTo(w, "error") \/ MovesTo(w, "fail") \/ MovesTo(w, "commit")
  <2>1. CASE Goto(w, "error")
    BY <1>1, <2>1, GotoMoves
  <2>2. CASE GotoFail(w, code)
    BY <1>1, <2>2, GotoFailMoves
  <2>3. CASE \E f : job' = [job EXCEPT ![w].pc = "commit", ![w].file = f]
    BY <1>1, <2>3, GotoFileMoves
  <2> QED BY <2>1, <2>2, <2>3 DEF ReadAndParse
<1> QED BY <1>1, <1>2, QuietMove

\* Each kind of step keeps the invariant.
LEMMA RequestKeeps ==
  ASSUME PipelineInv, TypeOK', Request PROVE PipelineInv'
<1> USE DEF PipelineInv, TypeOK, RowsTyped, QueueTyped, Kinds
<1>1. ASSUME NEW b \in Batches, NEW p \in BOOLEAN, CreateImportBatch(b, p)
      PROVE  PipelineInv'
  BY <1>1 DEF CreateImportBatch, OnePersistJob, PersistBehindReceipt, WrittenIsDone,
     ClassifyOwed, MeasuredPastUpload, MeasuredBehindJobs, FileOnce, OnPersist,
     OnValidate
<1>2. ASSUME NEW b \in Batches, ConfirmImportUpload(b) PROVE PipelineInv'
  BY <1>2 DEF ConfirmImportUpload, OnePersistJob, PersistBehindReceipt, WrittenIsDone,
     ClassifyOwed, MeasuredPastUpload, MeasuredBehindJobs, FileOnce, OnPersist,
     OnValidate, rowVars
<1>3. ASSUME UNCHANGED <<rowVars, job, queue>> PROVE PipelineInv'
  BY <1>3 DEF OnePersistJob, PersistBehindReceipt, WrittenIsDone,
     ClassifyOwed, MeasuredPastUpload, MeasuredBehindJobs, FileOnce, OnPersist,
     OnValidate, rowVars
<1> QED BY <1>1, <1>2, <1>3 DEF Request, PutObject, UpdateImportProfile

LEMMA FetchKeeps ==
  ASSUME PipelineInv, TypeOK', NEW w \in Workers, NEW k \in Kinds, NEW b \in Batches,
         Fetch(w, k, b)
  PROVE  PipelineInv'
<1>1. /\ job'[w].pc = "start" /\ job'[w].kind = k /\ job'[w].batch = b
      /\ \A v \in Workers \ {w} : job'[v] = job[v]
      /\ job[w] = Idle
  <2>1. job[w] = Idle
    BY BusyWorker DEF Fetch, PipelineInv, TypeOK, WorkersTyped, Jobs, Busy, Points
  <2> QED BY <2>1 DEF Fetch, PipelineInv, TypeOK, WorkersTyped, Idle
<1>2. /\ queue[k][b] > 0 /\ queue'[k][b] = queue[k][b] - 1 /\ k # "classify"
      /\ \A l \in Kinds, c \in Batches : <<l, c>> # <<k, b>> => queue'[l][c] = queue[l][c]
      /\ UNCHANGED rowVars
  BY DEF Fetch, PipelineInv, TypeOK, QueueTyped
<1>3. \A l \in Kinds, c \in Batches : queue[l][c] \in Nat
  BY DEF PipelineInv, TypeOK, QueueTyped
<1>4. ~OnPersist(w, b) /\ \A c \in Batches : ~OnPersist(w, c) /\ ~OnValidate(w, c)
  BY <1>1 DEF OnPersist, OnValidate, Idle
<1> USE <1>1, <1>2, <1>3, <1>4 DEF PipelineInv, rowVars, Kinds
<1>5. OnePersistJob'
  BY DEF OnePersistJob, OnPersist
<1>6. PersistBehindReceipt'
  BY DEF PersistBehindReceipt, OnPersist
<1>7. WrittenIsDone'
  BY DEF WrittenIsDone, OnPersist
<1>8. ClassifyOwed' /\ MeasuredPastUpload' /\ FileOnce'
  BY DEF ClassifyOwed, MeasuredPastUpload, FileOnce
<1>9. MeasuredBehindJobs'
  BY DEF MeasuredBehindJobs, OnPersist, OnValidate
<1> QED BY <1>5, <1>6, <1>7, <1>8, <1>9

LEMMA IdleKeeps ==
  ASSUME PipelineInv, TypeOK', NEW w \in Workers, GoesIdle(w), UNCHANGED rowVars,
         \/ UNCHANGED queue
         \/ job[w].pc # "idle" /\ Requeue(w)
  PROVE  PipelineInv'
<1>1. \A l \in Kinds, c \in Batches : queue[l][c] \in Nat
  BY DEF PipelineInv, TypeOK, QueueTyped
<1>2. \A c \in Batches : ~OnPersist(w, c)' /\ ~OnValidate(w, c)'
  BY DEF OnPersist, OnValidate, GoesIdle, Idle
<1>3. CASE UNCHANGED queue
  BY <1>2, <1>3 DEF PipelineInv, rowVars, GoesIdle, Idle, OnePersistJob,
     PersistBehindReceipt, WrittenIsDone, ClassifyOwed, MeasuredPastUpload,
     MeasuredBehindJobs, FileOnce, OnPersist, OnValidate
<1>4. CASE job[w].pc # "idle" /\ Requeue(w)
  <2> DEFINE k == job[w].kind
             b == job[w].batch
  <2>1. k \in Kinds /\ b \in Batches
    BY <1>4, BusyWorker DEF PipelineInv, TypeOK, Busy
  <2>2. /\ queue'[k][b] = queue[k][b] + 1
        /\ \A l \in Kinds, c \in Batches : <<l, c>> # <<k, b>> => queue'[l][c] = queue[l][c]
    BY <1>4, <2>1 DEF Requeue, PipelineInv, TypeOK, QueueTyped
  <2>3. k # "classify" /\ OnPersist(w, b) = (k = "persist")
        /\ OnValidate(w, b) = (k = "validate")
    BY <1>4, BusyWorker DEF PipelineInv, TypeOK, Busy, OnPersist, OnValidate
  <2> HIDE DEF k, b
  <2> USE <1>1, <1>2, <2>1, <2>2, <2>3 DEF PipelineInv, rowVars, GoesIdle, Kinds
  <2>4. OnePersistJob'
    BY DEF OnePersistJob, OnPersist
  <2>5. PersistBehindReceipt'
    BY DEF PersistBehindReceipt, OnPersist
  <2>6. WrittenIsDone'
    BY DEF WrittenIsDone, OnPersist
  <2>7. ClassifyOwed' /\ MeasuredPastUpload' /\ FileOnce'
    BY DEF ClassifyOwed, MeasuredPastUpload, FileOnce
  <2>8. MeasuredBehindJobs'
    BY DEF MeasuredBehindJobs, OnPersist, OnValidate, Idle
  <2> QED BY <2>4, <2>5, <2>6, <2>7, <2>8
<1> QED BY <1>3, <1>4

LEMMA FailKeeps ==
  ASSUME PipelineInv, TypeOK', NEW w \in Workers, Fail(w)
  PROVE  PipelineInv'
<1>1. /\ job[w].pc = "fail" /\ WorkersTyped /\ RowsTyped
      /\ UNCHANGED <<sha, receipt, written, queue>>
  BY DEF Fail, PipelineInv, TypeOK
<1>2. MovesTo(w, "ack")
  BY <1>1, GotoMoves DEF Fail
<1>3. \A c \in Batches : status'[c] = status[c] \/ status'[c] = "failed"
  BY <1>1 DEF Fail, RowsTyped
<1> USE <1>1, <1>2, <1>3 DEF PipelineInv, MovesTo
<1>4. OnePersistJob' /\ PersistBehindReceipt' /\ WrittenIsDone'
  BY DEF OnePersistJob, PersistBehindReceipt, WrittenIsDone, OnPersist
<1>5. ClassifyOwed' /\ MeasuredPastUpload' /\ FileOnce'
  BY DEF ClassifyOwed, MeasuredPastUpload, FileOnce
<1>6. MeasuredBehindJobs'
  BY DEF MeasuredBehindJobs, OnPersist, OnValidate
<1> QED BY <1>4, <1>5, <1>6

LEMMA MeasureKeeps ==
  ASSUME PipelineInv, TypeOK', NEW w \in Workers, MeasureStep(w)
  PROVE  PipelineInv'
<1>1. job[w].pc # "idle" /\ job[w].kind = "measure" /\ WorkersTyped /\ job[w] \in Busy
  <2>1. job[w].pc # "idle" /\ job[w].kind = "measure" /\ WorkersTyped
    BY DEF MeasureStep, MeasureReadStatus, MeasureStream, MeasureDeleteOversized,
       MeasureLookup, MeasureRecord, MeasureRecordRefused, At, PipelineInv, TypeOK
  <2> QED BY <2>1, BusyWorker
<1>2. CASE MeasureReadStatus(w)
  <2>1. UNCHANGED <<rowVars, queue>> /\ (MovesTo(w, "stream") \/ MovesTo(w, "ack"))
    BY <1>1, <1>2, GotoMoves DEF MeasureReadStatus
  <2> QED BY <1>1, <2>1, QuietMove
<1>3. CASE MeasureStream(w)
  <2>1. /\ UNCHANGED <<rowVars, queue>>
        /\ \/ MovesTo(w, "fail") \/ MovesTo(w, "delete")
           \/ MovesTo(w, "lookup") /\ job'[w].file \in Files
    <3>1. CASE GotoFail(w, "upload_missing")
      BY <1>1, <1>3, <3>1, GotoFailMoves DEF MeasureStream
    <3>2. CASE Goto(w, "delete")
      BY <1>1, <1>3, <3>2, GotoMoves DEF MeasureStream
    <3>3. CASE \E f \in Files : job' = [job EXCEPT ![w].pc = "lookup", ![w].file = f]
      BY <1>1, <1>3, <3>3, GotoFileMoves DEF MeasureStream
    <3> QED BY <1>3, <3>1, <3>2, <3>3 DEF MeasureStream
  <2> QED BY <1>1, <2>1, QuietMove
<1>4. CASE MeasureDeleteOversized(w)
  <2>1. UNCHANGED <<rowVars, queue>> /\ MovesTo(w, "fail")
    BY <1>1, <1>4, GotoFailMoves DEF MeasureDeleteOversized
  <2> QED BY <1>1, <2>1, QuietMove
<1>5. CASE MeasureLookup(w)
  <2>1. /\ UNCHANGED <<rowVars, queue>>
        /\ \/ MovesTo(w, "fail")
           \/ MovesTo(w, "record") /\ job'[w].file = job[w].file
    <3>1. CASE GotoFail(w, "already_imported")
      BY <1>1, <1>5, <3>1, GotoFailMoves DEF MeasureLookup
    <3>2. CASE Goto(w, "record")
      BY <1>1, <1>5, <3>2, GotoMoves DEF MeasureLookup
    <3> QED BY <1>5, <3>1, <3>2 DEF MeasureLookup
  <2>2. job[w].file \in Files
    BY <1>5 DEF MeasureLookup, At, PipelineInv, MeasuredBehindJobs
  <2> QED BY <1>1, <2>1, <2>2, QuietMove
<1>6. CASE MeasureRecord(w)
  <2> DEFINE b == job[w].batch
  <2>1. /\ b \in Batches /\ job[w].file \in Files /\ MovesTo(w, "ack")
        /\ UNCHANGED <<receipt, written>>
    BY <1>1, <1>6, GotoMoves
       DEF MeasureRecord, At, PipelineInv, MeasuredBehindJobs, Busy
  <2>2. /\ status'[b] = "uploaded" /\ sha'[b] = job[w].file
        /\ \A c \in Batches \ {b} : status'[c] = status[c] /\ sha'[c] = sha[c]
    BY <1>6, <2>1 DEF MeasureRecord, PipelineInv, TypeOK, RowsTyped
  <2>3. \A k \in Kinds \ {"validate"}, c \in Batches : queue'[k][c] = queue[k][c]
    BY <1>6, <2>1 DEF MeasureRecord, PipelineInv, TypeOK, QueueTyped
  <2>4. \A c \in Batches \ {b} : queue'["validate"][c] = queue["validate"][c]
    BY <1>6, <2>1 DEF MeasureRecord, PipelineInv, TypeOK, QueueTyped, Kinds
  <2> HIDE DEF b
  <2> USE <2>1, <2>2, <2>3, <2>4 DEF PipelineInv, MovesTo, Kinds
  <2>5. OnePersistJob' /\ PersistBehindReceipt' /\ WrittenIsDone'
    BY DEF OnePersistJob, PersistBehindReceipt, WrittenIsDone, OnPersist
  <2>6. ClassifyOwed' /\ MeasuredPastUpload' /\ FileOnce'
    BY DEF ClassifyOwed, MeasuredPastUpload, FileOnce
  <2>7. MeasuredBehindJobs'
    BY DEF MeasuredBehindJobs, OnPersist, OnValidate
  <2> QED BY <2>5, <2>6, <2>7
<1>7. CASE MeasureRecordRefused(w)
  <2>1. UNCHANGED <<rowVars, queue>> /\ MovesTo(w, "error")
    BY <1>1, <1>7, GotoMoves DEF MeasureRecordRefused
  <2> QED BY <1>1, <2>1, QuietMove
<1> QED BY <1>2, <1>3, <1>4, <1>5, <1>6, <1>7 DEF MeasureStep

LEMMA ExpireKeeps ==
  ASSUME PipelineInv, TypeOK', NEW w \in Workers, ExpireStep(w)
  PROVE  PipelineInv'
<1>1. job[w].pc # "idle" /\ job[w].kind = "expire" /\ WorkersTyped
  BY DEF ExpireStep, ExpireAbandon, ExpireDelete, At, PipelineInv, TypeOK
<1>2. CASE ExpireAbandon(w)
  <2>1. MovesTo(w, "ack") \/ MovesTo(w, "delete")
    BY <1>1, <1>2, GotoMoves DEF ExpireAbandon
  <2>2. \A c \in Batches : status'[c] = status[c] \/ status'[c] = "abandoned"
    BY <1>2 DEF ExpireAbandon, PipelineInv, TypeOK, RowsTyped
  <2>3. UNCHANGED <<sha, receipt, written, queue>>
    BY <1>2 DEF ExpireAbandon
  <2> USE <1>1, <2>1, <2>2, <2>3 DEF PipelineInv, MovesTo
  <2>4. OnePersistJob' /\ PersistBehindReceipt' /\ WrittenIsDone'
    BY DEF OnePersistJob, PersistBehindReceipt, WrittenIsDone, OnPersist
  <2>5. ClassifyOwed' /\ MeasuredPastUpload' /\ FileOnce'
    BY DEF ClassifyOwed, MeasuredPastUpload, FileOnce
  <2>6. MeasuredBehindJobs'
    BY DEF MeasuredBehindJobs, OnPersist, OnValidate
  <2> QED BY <2>4, <2>5, <2>6
<1>3. CASE ExpireDelete(w)
  <2>1. UNCHANGED <<rowVars, queue>> /\ MovesTo(w, "ack")
    BY <1>1, <1>3, GotoMoves DEF ExpireDelete
  <2> QED BY <1>1, <2>1, QuietMove
<1> QED BY <1>2, <1>3 DEF ExpireStep

LEMMA ValidateKeeps ==
  ASSUME PipelineInv, TypeOK', NEW w \in Workers, ValidateStep(w)
  PROVE  PipelineInv'
<1>1. CASE ValidateLoad(w)
  BY <1>1, LoadKeeps DEF ValidateLoad
<1>2. CASE ValidateParse(w)
  BY <1>2, ParseKeeps DEF ValidateParse, Kinds
<1>3. CASE ValidateCommit(w)
  <2> DEFINE b == job[w].batch
  <2>1. /\ job[w].pc # "idle" /\ job[w].kind = "validate" /\ WorkersTyped
        /\ receipt[b] = "none"
    BY <1>3 DEF ValidateCommit, At, PipelineInv, TypeOK
  <2>2. b \in Batches /\ MovesTo(w, "ack") /\ UNCHANGED <<sha, written>>
    BY <1>3, <2>1, BusyWorker, GotoMoves DEF ValidateCommit, Busy
  <2>3. /\ \A c \in Batches \ {b} : status'[c] = status[c] /\ receipt'[c] = receipt[c]
        /\ \A k \in Kinds, c \in Batches : <<k, c>> # <<"persist", b>> => queue'[k][c] = queue[k][c]
    BY <1>3, <2>2 DEF ValidateCommit, PipelineInv, TypeOK, RowsTyped, QueueTyped, Kinds
  <2>4. \/ /\ receipt'[b] = "rejected" /\ status'[b] = "rejected"
           /\ queue'["persist"][b] = queue["persist"][b]
        \/ /\ receipt'[b] \in {"valid", "valid_with_warnings"} /\ status'[b] = "validated"
           /\ queue'["persist"][b] = queue["persist"][b] + 1
    BY <1>3, <2>2
       DEF ValidateCommit, PipelineInv, TypeOK, RowsTyped, QueueTyped, Kinds, Outcomes
  <2>5. /\ queue["persist"][b] = 0 /\ written[b] = 0 /\ \A v \in Workers : ~OnPersist(v, b)
        /\ sha[b] # NoFile
    <3>1. queue["persist"][b] \in Nat /\ written[b] \in Nat
      BY <2>2 DEF PipelineInv, TypeOK, QueueTyped, RowsTyped, Kinds
    <3>2. sha[b] # NoFile
      BY <2>1, <2>2 DEF PipelineInv, MeasuredBehindJobs, OnValidate
    <3> QED BY <2>1, <2>2, <3>1, <3>2 DEF PipelineInv, PersistBehindReceipt
  <2> HIDE DEF b
  <2> USE <2>2, <2>3, <2>4, <2>5 DEF PipelineInv, MovesTo, Kinds
  <2>6. OnePersistJob'
    BY DEF OnePersistJob, OnPersist
  <2>7. PersistBehindReceipt'
    BY DEF PersistBehindReceipt, OnPersist
  <2>8. WrittenIsDone'
    BY DEF WrittenIsDone, OnPersist
  <2>9. ClassifyOwed' /\ MeasuredPastUpload' /\ FileOnce'
    BY DEF ClassifyOwed, MeasuredPastUpload, FileOnce
  <2>10. MeasuredBehindJobs'
    BY DEF MeasuredBehindJobs, OnPersist, OnValidate
  <2> QED BY <2>6, <2>7, <2>8, <2>9, <2>10
<1>4. CASE ValidateRefused(w)
  <2>1. /\ job[w].pc = "commit" /\ job[w].kind = "validate" /\ WorkersTyped
        /\ UNCHANGED <<rowVars, queue>>
    BY <1>4 DEF ValidateRefused, At, PipelineInv, TypeOK
  <2>2. MovesTo(w, "error")
    BY <1>4, <2>1, GotoMoves DEF ValidateRefused
  <2> QED BY <2>1, <2>2, QuietMove
<1> QED BY <1>1, <1>2, <1>3, <1>4 DEF ValidateStep

LEMMA PersistKeeps ==
  ASSUME PipelineInv, TypeOK', NEW w \in Workers, PersistStep(w)
  PROVE  PipelineInv'
<1>1. CASE PersistLoad(w)
  BY <1>1, LoadKeeps DEF PersistLoad
<1>2. CASE PersistParse(w)
  BY <1>2, ParseKeeps DEF PersistParse, Kinds
<1>3. CASE PersistCommit(w)
  <2> DEFINE b == job[w].batch
  <2>1. /\ job[w].pc = "commit" /\ job[w].kind = "persist" /\ WorkersTyped
        /\ ~FileOnceViolation(b)
    BY <1>3 DEF PersistCommit, At, PipelineInv, TypeOK
  <2>2. /\ b \in Batches /\ MovesTo(w, "ack") /\ UNCHANGED <<sha, receipt>>
        /\ OnPersist(w, b)
    BY <1>3, <2>1, BusyWorker, GotoMoves DEF PersistCommit, Busy, OnPersist
  <2>3. written[b] = 0 /\ sha[b] # NoFile
    <3>1. written[b] \in Nat
      BY <2>2 DEF PipelineInv, TypeOK, RowsTyped
    <3> QED BY <2>1, <2>2, <3>1 DEF PipelineInv, WrittenIsDone, MeasuredBehindJobs
  <2>4. /\ status'[b] = "imported" /\ written'[b] = 1
        /\ \A c \in Batches \ {b} : status'[c] = status[c] /\ written'[c] = written[c]
    BY <1>3, <2>2, <2>3 DEF PersistCommit, PipelineInv, TypeOK, RowsTyped
  <2>5. /\ queue'["classify"][b] = queue["classify"][b] + 1
        /\ \A k \in Kinds, c \in Batches : <<k, c>> # <<"classify", b>> => queue'[k][c] = queue[k][c]
    BY <1>3, <2>2 DEF PersistCommit, PipelineInv, TypeOK, QueueTyped, Kinds
  <2>6. \A c \in Batches \ {b} : status[c] = "imported" => sha[c] # sha[b]
    BY <2>1 DEF FileOnceViolation
  <2> HIDE DEF b
  <2> USE <2>2, <2>3, <2>4, <2>5 DEF PipelineInv, MovesTo, Kinds
  <2>7. OnePersistJob'
    BY DEF OnePersistJob, OnPersist
  <2>8. PersistBehindReceipt'
    BY DEF PersistBehindReceipt, OnPersist
  <2>9. WrittenIsDone'
    BY DEF WrittenIsDone, OnPersist, OnePersistJob
  <2>10. ClassifyOwed' /\ MeasuredPastUpload'
    BY DEF ClassifyOwed, MeasuredPastUpload
  <2>11. FileOnce'
    BY <2>6 DEF FileOnce
  <2>12. MeasuredBehindJobs'
    BY DEF MeasuredBehindJobs, OnPersist, OnValidate
  <2> QED BY <2>7, <2>8, <2>9, <2>10, <2>11, <2>12
<1>4. CASE PersistLosesFileOnce(w) \/ PersistUndatable(w)
  <2>1. /\ job[w].pc = "commit" /\ WorkersTyped /\ UNCHANGED <<rowVars, queue>>
    BY <1>4 DEF PersistLosesFileOnce, PersistUndatable, At, PipelineInv, TypeOK
  <2>2. MovesTo(w, "fail") \/ MovesTo(w, "error")
    BY <1>4, <2>1, GotoMoves, GotoFailMoves DEF PersistLosesFileOnce, PersistUndatable
  <2> QED BY <2>1, <2>2, QuietMove
<1> QED BY <1>1, <1>2, <1>3, <1>4 DEF PersistStep

LEMMA PipelineInvInit == Init => PipelineInv
<1> SUFFICES ASSUME Init PROVE PipelineInv
  OBVIOUS
<1>1. TypeOK
  BY TypeOKInit
<1>2. \A w \in Workers : job[w] = Idle
  BY DEF Init
<1>3. \A k \in Kinds, b \in Batches : queue[k][b] = 0
  BY DEF Init
<1>4. \A b \in Batches : written[b] = 0 /\ status[b] = "absent"
  BY DEF Init
<1> QED
  BY <1>1, <1>2, <1>3, <1>4 DEF PipelineInv, OnePersistJob, PersistBehindReceipt,
     WrittenIsDone, ClassifyOwed, MeasuredPastUpload, MeasuredBehindJobs, FileOnce,
     OnPersist, OnValidate, Idle, Kinds

LEMMA PipelineInvInductive == PipelineInv /\ [Next]_vars => PipelineInv'
<1> SUFFICES ASSUME PipelineInv, [Next]_vars PROVE PipelineInv'
  OBVIOUS
<1>1. TypeOK'
  BY TypeOKInductive DEF PipelineInv
<1>2. CASE Request
  BY <1>1, <1>2, RequestKeeps
<1>3. ASSUME NEW w \in Workers, NEW k \in Kinds, NEW b \in Batches, Fetch(w, k, b)
      PROVE  PipelineInv'
  BY <1>1, <1>3, FetchKeeps
<1>4. ASSUME NEW w \in Workers, Ack(w) \/ Discard(w) PROVE PipelineInv'
  <2>1. GoesIdle(w) /\ UNCHANGED <<rowVars, queue>>
    BY <1>4 DEF Ack, Discard, GoesIdle, PipelineInv, TypeOK, WorkersTyped
  <2> QED BY <1>1, <2>1, IdleKeeps
<1>5. ASSUME NEW w \in Workers, AttemptFails(w) \/ Retry(w) PROVE PipelineInv'
  <2>1. job[w].pc # "idle" /\ Requeue(w) /\ UNCHANGED rowVars
    BY <1>5 DEF AttemptFails, Retry
  <2>2. GoesIdle(w)
    BY <2>1 DEF Requeue, GoesIdle, PipelineInv, TypeOK, WorkersTyped
  <2> QED BY <1>1, <2>1, <2>2, IdleKeeps
<1>6. ASSUME NEW w \in Workers, Fail(w) PROVE PipelineInv'
  BY <1>1, <1>6, FailKeeps
<1>7. ASSUME NEW w \in Workers, MeasureStep(w) PROVE PipelineInv'
  BY <1>1, <1>7, MeasureKeeps
<1>8. ASSUME NEW w \in Workers, ExpireStep(w) PROVE PipelineInv'
  BY <1>1, <1>8, ExpireKeeps
<1>9. ASSUME NEW w \in Workers, ValidateStep(w) PROVE PipelineInv'
  BY <1>1, <1>9, ValidateKeeps
<1>10. ASSUME NEW w \in Workers, PersistStep(w) PROVE PipelineInv'
  BY <1>1, <1>10, PersistKeeps
<1>11. CASE UNCHANGED vars
  BY <1>1, <1>11 DEF vars, PipelineInv, OnePersistJob, PersistBehindReceipt,
     WrittenIsDone, ClassifyOwed, MeasuredPastUpload, MeasuredBehindJobs, FileOnce,
     OnPersist, OnValidate
<1> QED
  BY <1>2, <1>3, <1>4, <1>5, <1>6, <1>7, <1>8, <1>9, <1>10, <1>11
     DEF Next, FetchAny, Progress

LEMMA PipelineInvariant == Spec => []PipelineInv
BY PipelineInvInit, PipelineInvInductive, PTL DEF Spec

\* The same bytes are never imported twice.
THEOREM FileImportedOnce == Spec => []FileOnce
<1>1. PipelineInv => FileOnce
  BY DEF PipelineInv
<1> QED BY <1>1, PipelineInvariant, PTL

\* A batch's rows are written at most once, behind a receipt that accepts them.
THEOREM RowsWrittenOnce == Spec => []RowsOnceAndReceipted
<1>1. PipelineInv => RowsOnceAndReceipted
  <2> SUFFICES ASSUME PipelineInv, NEW b \in Batches
               PROVE  /\ written[b] <= 1
                      /\ written[b] = 1 => receipt[b] \in {"valid", "valid_with_warnings"}
    BY DEF RowsOnceAndReceipted
  <2>1. written[b] \in Nat
    BY DEF PipelineInv, TypeOK, RowsTyped
  <2> QED BY <2>1 DEF PipelineInv, WrittenIsDone, PersistBehindReceipt
<1> QED BY <1>1, PipelineInvariant, PTL

\* Rows in the ledger and a classification job come into being together.
THEOREM ImportOwesClassification == Spec => []ClassifyOwed
<1>1. PipelineInv => ClassifyOwed
  BY DEF PipelineInv
<1> QED BY <1>1, PipelineInvariant, PTL

\* No stage past the upload ever runs on a file that was not measured.
THEOREM MeasuredBeforeUse == Spec => []MeasuredPastUpload
<1>1. PipelineInv => MeasuredPastUpload
  BY DEF PipelineInv
<1> QED BY <1>1, PipelineInvariant, PTL

-----------------------------------------------------------------------------
(* Statuses under every interleaving, repeated confirm and lost attempt. *)

\* A worker that goes to its fail carries the code it was given.
LEMMA GotoFailCode ==
  ASSUME WorkersTyped, NEW w \in Workers, job[w].pc # "idle", NEW code,
         GotoFail(w, code)
  PROVE  job'[w].code = code
<1>1. job[w] \in Busy
  BY BusyWorker
<1>2. job'[w] = [job[w] EXCEPT !.pc = "fail", !.code = code]
  BY DEF GotoFail, WorkersTyped
<1> QED BY <1>1, <1>2 DEF Busy

\* The steps that write a status.
LEMMA StatusWriters ==
  ASSUME [Next]_vars, status' # status
  PROVE  \/ \E b \in Batches, p \in BOOLEAN : CreateImportBatch(b, p)
         \/ \E w \in Workers : \/ Fail(w) \/ MeasureRecord(w) \/ ExpireAbandon(w)
                               \/ ValidateCommit(w) \/ PersistCommit(w)
<1>1. CASE Request
  BY <1>1 DEF Request, PutObject, ConfirmImportUpload, UpdateImportProfile, rowVars
<1>2. CASE \/ \E w \in Workers, k \in Kinds, b \in Batches : Fetch(w, k, b)
           \/ \E w \in Workers : Ack(w) \/ Discard(w) \/ AttemptFails(w) \/ Retry(w)
           \/ UNCHANGED vars
  BY <1>2 DEF Fetch, Ack, Discard, AttemptFails, Retry, rowVars, vars
<1>3. ASSUME NEW w \in Workers, Progress(w), ~Ack(w)
      PROVE  \/ Fail(w) \/ MeasureRecord(w) \/ ExpireAbandon(w)
             \/ ValidateCommit(w) \/ PersistCommit(w)
  BY <1>3 DEF Progress, MeasureStep, MeasureReadStatus, MeasureStream,
     MeasureDeleteOversized, MeasureLookup, MeasureRecordRefused, ExpireStep, ExpireDelete,
     ValidateStep, ValidateLoad, ValidateParse, ValidateRefused, PersistStep, PersistLoad,
     PersistParse, PersistLosesFileOnce, PersistUndatable, LoadBatchAndProfile,
     ReadAndParse, rowVars
<1> QED BY <1>1, <1>2, <1>3 DEF Next, FetchAny

\* Where a worker's step leaves it, its job and its code.
LEMMA WhereWorkersGo ==
  ASSUME TypeOK, NEW w \in Workers, Progress(w) \/ Ack(w)
  PROVE  /\ \A v \in Workers \ {w} : job'[v] = job[v]
         /\ \/ job'[w].pc # "fail"
            \/ job'[w].kind = job[w].kind /\ job[w].kind # "expire" /\ job'[w].code \in Codes
<1>1. CASE Ack(w)
  BY <1>1 DEF Ack, Idle, TypeOK, WorkersTyped
<1>2. CASE ~Ack(w)
  <2>1. WorkersTyped /\ job[w].pc # "idle"
    BY <1>2 DEF TypeOK, Progress, Fail, MeasureStep, MeasureReadStatus, MeasureStream,
       MeasureDeleteOversized, MeasureLookup, MeasureRecord, MeasureRecordRefused,
       ExpireStep, ExpireAbandon, ExpireDelete, ValidateStep, ValidateLoad,
       ValidateParse, ValidateCommit, ValidateRefused, PersistStep, PersistLoad,
       PersistParse, PersistCommit, PersistLosesFileOnce, PersistUndatable,
       LoadBatchAndProfile, ReadAndParse, At
  <2>2. \/ \E pc \in Points \ {"fail"} :
              Goto(w, pc) \/ \E f : job' = [job EXCEPT ![w].pc = pc, ![w].file = f]
                          \/ \E p : job' = [job EXCEPT ![w].pc = pc, ![w].params = p]
        \/ job[w].kind # "expire" /\ \E code \in Codes : GotoFail(w, code)
    <3>1. CASE MeasureStep(w)
      BY <3>1 DEF MeasureStep, MeasureReadStatus, MeasureStream, MeasureDeleteOversized,
         MeasureLookup, MeasureRecord, MeasureRecordRefused, At, Points, Codes
    <3>2. CASE ExpireStep(w) \/ Fail(w)
      BY <3>2 DEF ExpireStep, ExpireAbandon, ExpireDelete, Fail, Points
    <3>3. CASE ValidateStep(w)
      BY <3>3 DEF ValidateStep, ValidateLoad, ValidateParse, ValidateCommit, ValidateRefused,
         LoadBatchAndProfile, ReadAndParse, At, Points, Codes
    <3>4. CASE PersistStep(w)
      BY <3>4 DEF PersistStep, PersistLoad, PersistParse, PersistCommit, PersistLosesFileOnce,
         PersistUndatable, LoadBatchAndProfile, ReadAndParse, At, Points, Codes
    <3> QED BY <1>2, <3>1, <3>2, <3>3, <3>4 DEF Progress
  <2>3. CASE \E pc \in Points \ {"fail"} :
              Goto(w, pc) \/ \E f : job' = [job EXCEPT ![w].pc = pc, ![w].file = f]
                          \/ \E p : job' = [job EXCEPT ![w].pc = pc, ![w].params = p]
    <3>1. PICK pc \in Points \ {"fail"} :
             \/ Goto(w, pc)
             \/ \E f : job' = [job EXCEPT ![w].pc = pc, ![w].file = f]
             \/ \E p : job' = [job EXCEPT ![w].pc = pc, ![w].params = p]
      BY <2>3
    <3>2. Goto(w, pc) => MovesTo(w, pc)
      BY <2>1, GotoMoves
    <3>3. ASSUME NEW f, job' = [job EXCEPT ![w].pc = pc, ![w].file = f]
          PROVE  MovesTo(w, pc)
      BY <2>1, <3>3, GotoFileMoves
    <3>4. ASSUME NEW p, job' = [job EXCEPT ![w].pc = pc, ![w].params = p]
          PROVE  MovesTo(w, pc)
      BY <2>1, <3>4, GotoParamsMoves
    <3> QED BY <3>1, <3>2, <3>3, <3>4 DEF MovesTo
  <2>4. ASSUME NEW code \in Codes, job[w].kind # "expire", GotoFail(w, code)
        PROVE  /\ \A v \in Workers \ {w} : job'[v] = job[v]
               /\ job'[w].kind = job[w].kind /\ job'[w].code \in Codes
    BY <2>1, <2>4, GotoFailMoves, GotoFailCode DEF MovesTo
  <2> QED BY <2>2, <2>3, <2>4
<1> QED BY <1>1, <1>2

\* No worker fails a batch without a code of its own.
LEMMA FailsWithCodeInductive ==
  ASSUME TypeOK, FailsWithCode, [Next]_vars PROVE FailsWithCode'
<1>1. CASE Request \/ UNCHANGED vars
  BY <1>1 DEF Request, CreateImportBatch, PutObject, ConfirmImportUpload,
     UpdateImportProfile, vars, FailsWithCode
<1>2. ASSUME NEW w \in Workers, NEW k \in Kinds, NEW b \in Batches, Fetch(w, k, b)
      PROVE  FailsWithCode'
  <2>1. job'[w].pc = "start" /\ \A v \in Workers \ {w} : job'[v] = job[v]
    BY <1>2 DEF Fetch, TypeOK, WorkersTyped, Idle
  <2> QED BY <2>1 DEF FailsWithCode
<1>3. ASSUME NEW w \in Workers, Discard(w) \/ AttemptFails(w) \/ Retry(w)
      PROVE  FailsWithCode'
  <2>1. GoesIdle(w)
    BY <1>3 DEF Discard, AttemptFails, Retry, Requeue, GoesIdle, TypeOK, WorkersTyped
  <2> QED BY <2>1 DEF FailsWithCode, GoesIdle, Idle
<1>4. ASSUME NEW w \in Workers, Progress(w) PROVE FailsWithCode'
  BY <1>4, WhereWorkersGo DEF FailsWithCode
<1> QED BY <1>1, <1>2, <1>3, <1>4 DEF Next, FetchAny

\* Who writes a failure code.
LEMMA FailureWriters ==
  ASSUME [Next]_vars, failure' # failure
  PROVE  \E w \in Workers : Fail(w) \/ ValidateCommit(w) \/ PersistCommit(w)
<1>1. CASE Request
  BY <1>1 DEF Request, CreateImportBatch, PutObject, ConfirmImportUpload,
     UpdateImportProfile, rowVars
<1>2. CASE \/ \E w \in Workers, k \in Kinds, b \in Batches : Fetch(w, k, b)
           \/ \E w \in Workers : Ack(w) \/ Discard(w) \/ AttemptFails(w) \/ Retry(w)
           \/ UNCHANGED vars
  BY <1>2 DEF Fetch, Ack, Discard, AttemptFails, Retry, rowVars, vars
<1>3. ASSUME NEW w \in Workers, Progress(w), ~Ack(w)
      PROVE  Fail(w) \/ ValidateCommit(w) \/ PersistCommit(w)
  BY <1>3 DEF Progress, MeasureStep, MeasureReadStatus, MeasureStream,
     MeasureDeleteOversized, MeasureLookup, MeasureRecord, MeasureRecordRefused,
     ExpireStep, ExpireAbandon, ExpireDelete,
     ValidateStep, ValidateLoad, ValidateParse, ValidateRefused, PersistStep, PersistLoad,
     PersistParse, PersistLosesFileOnce, PersistUndatable, LoadBatchAndProfile,
     ReadAndParse, rowVars
<1> QED BY <1>1, <1>2, <1>3 DEF Next, FetchAny

\* Rows reach the ledger in PersistCommit alone.
LEMMA WrittenWriters ==
  ASSUME [Next]_vars, written' # written PROVE \E w \in Workers : PersistCommit(w)
<1>1. CASE Request
  BY <1>1 DEF Request, CreateImportBatch, PutObject, ConfirmImportUpload,
     UpdateImportProfile, rowVars
<1>2. CASE \/ \E w \in Workers, k \in Kinds, b \in Batches : Fetch(w, k, b)
           \/ \E w \in Workers : Ack(w) \/ Discard(w) \/ AttemptFails(w) \/ Retry(w)
           \/ UNCHANGED vars
  BY <1>2 DEF Fetch, Ack, Discard, AttemptFails, Retry, rowVars, vars
<1>3. ASSUME NEW w \in Workers, Progress(w), ~Ack(w)
      PROVE  PersistCommit(w)
  BY <1>3 DEF Progress, Fail, MeasureStep, MeasureReadStatus, MeasureStream,
     MeasureDeleteOversized, MeasureLookup, MeasureRecord, MeasureRecordRefused,
     ExpireStep, ExpireAbandon, ExpireDelete,
     ValidateStep, ValidateLoad, ValidateParse, ValidateCommit, ValidateRefused, PersistStep,
     PersistLoad, PersistParse, PersistLosesFileOnce, PersistUndatable,
     LoadBatchAndProfile, ReadAndParse, rowVars
<1> QED BY <1>1, <1>2, <1>3 DEF Next, FetchAny

\* What the writers of a status do to it and to the failure code.
LEMMA StatusWrites ==
  ASSUME TypeOK, FailsWithCode, NEW w \in Workers, NEW b, b = job[w].batch,
         \/ Fail(w) \/ MeasureRecord(w) \/ ExpireAbandon(w)
         \/ ValidateCommit(w) \/ PersistCommit(w)
  PROVE  /\ b \in Batches
         /\ \A c \in Batches \ {b} : status'[c] = status[c] /\ failure'[c] = failure[c]
         /\ \/ /\ Fail(w) /\ status'[b] = "failed" /\ failure'[b] \in Codes
               /\ job[w].kind \in {"measure", "validate", "persist"}
            \/ MeasureRecord(w) /\ status'[b] = "uploaded"
            \/ ExpireAbandon(w) /\ status[b] = "awaiting_upload" /\ status'[b] = "abandoned"
            \/ ExpireAbandon(w) /\ status'[b] = status[b] /\ failure'[b] = failure[b]
            \/ ValidateCommit(w) /\ status'[b] \in {"validated", "rejected"}
            \/ PersistCommit(w) /\ status'[b] = "imported"
<1>1. job[w].pc # "idle" /\ RowsTyped /\ WorkersTyped
  BY DEF TypeOK, Fail, MeasureRecord, ExpireAbandon, ValidateCommit, PersistCommit, At
<1>2. b \in Batches /\ job[w].kind \in {"measure", "expire", "validate", "persist"}
  BY <1>1, BusyWorker DEF Busy, Kinds
<1>3. CASE Fail(w)
  BY <1>1, <1>2, <1>3 DEF Fail, FailsWithCode, RowsTyped
<1>4. CASE MeasureRecord(w)
  BY <1>1, <1>2, <1>4 DEF MeasureRecord, RowsTyped
<1>5. CASE ExpireAbandon(w)
  BY <1>1, <1>2, <1>5 DEF ExpireAbandon, RowsTyped
<1>6. CASE ValidateCommit(w)
  <2>1. PICK s \in {"validated", "rejected"} : status' = [status EXCEPT ![b] = s]
    BY <1>6 DEF ValidateCommit
  <2> QED BY <1>1, <1>2, <1>6, <2>1 DEF ValidateCommit, RowsTyped
<1>7. CASE PersistCommit(w)
  BY <1>1, <1>2, <1>7 DEF PersistCommit, RowsTyped
<1> QED BY <1>3, <1>4, <1>5, <1>6, <1>7

LEMMA CodedInvInductive ==
  ASSUME TypeOK, CodedInv, [Next]_vars PROVE CodedInv'
<1>1. FailsWithCode /\ FailsWithCode' /\ FailedHasCode
  BY FailsWithCodeInductive DEF CodedInv
<1>2. FailedHasCode'
  <2> SUFFICES ASSUME NEW b \in Batches, status'[b] = "failed" PROVE failure'[b] \in Codes
    BY DEF FailedHasCode
  <2>1. ASSUME NEW w \in Workers,
               \/ Fail(w) \/ MeasureRecord(w) \/ ExpireAbandon(w)
               \/ ValidateCommit(w) \/ PersistCommit(w)
        PROVE  failure'[b] \in Codes
    BY <1>1, <2>1, StatusWrites DEF FailedHasCode
  <2>2. ASSUME NEW c \in Batches, NEW p \in BOOLEAN, CreateImportBatch(c, p)
        PROVE  failure'[b] \in Codes
    BY <1>1, <2>2 DEF CreateImportBatch, FailedHasCode, TypeOK, RowsTyped
  <2>3. CASE status' = status /\ failure' = failure
    BY <1>1, <2>3 DEF FailedHasCode
  <2> QED BY <2>1, <2>2, <2>3, StatusWriters, FailureWriters
<1> QED BY <1>1, <1>2 DEF CodedInv

LEMMA CodedInvariant == Spec => []CodedInv
<1>1. Init => CodedInv
  BY DEF Init, CodedInv, FailsWithCode, FailedHasCode, Idle
<1> QED BY <1>1, CodedInvInductive, TypeCorrect, PTL DEF Spec

\* A failed batch says why, whatever crashed or raced.
THEOREM FailedBatchesAreCoded == Spec => []FailedHasCode
<1>1. CodedInv => FailedHasCode
  BY DEF CodedInv
<1> QED BY <1>1, CodedInvariant, PTL

\* A batch whose rows are in the ledger is never rejected, abandoned or waiting.
LEMMA DisownedInductive ==
  ASSUME PipelineInv, CodedInv, RowsNeverDisowned, [Next]_vars PROVE RowsNeverDisowned'
<1> SUFFICES ASSUME NEW b \in Batches, written'[b] > 0
             PROVE  status'[b] \in {"imported", "uploaded", "failed"}
  BY DEF RowsNeverDisowned
<1>1. TypeOK /\ FailsWithCode
  BY DEF PipelineInv, CodedInv
<1>2. written[b] > 0 \/ (written' # written /\ written[b] = 0)
  BY <1>1 DEF TypeOK, RowsTyped
<1>3. ASSUME NEW w \in Workers, PersistCommit(w) PROVE status'[b] \in {"imported", "uploaded", "failed"}
  <2>1. CASE b = job[w].batch
    BY <1>1, <1>3, <2>1 DEF PersistCommit, TypeOK, RowsTyped
  <2>2. CASE b # job[w].batch
    <3>1. written'[b] = written[b] /\ status'[b] = status[b]
      BY <1>1, <1>3, <2>2, StatusWrites DEF PersistCommit, TypeOK, RowsTyped
    <3> QED BY <3>1 DEF RowsNeverDisowned
  <2> QED BY <2>1, <2>2
<1>4. ASSUME written[b] > 0, NEW w \in Workers,
             Fail(w) \/ MeasureRecord(w) \/ ExpireAbandon(w) \/ ValidateCommit(w)
      PROVE  status'[b] \in {"imported", "uploaded", "failed"}
  <2>1. status[b] \in {"imported", "uploaded", "failed"}
    BY <1>4 DEF RowsNeverDisowned
  <2>2. receipt[b] # "none"
    BY <1>4 DEF PipelineInv, PersistBehindReceipt
  <2>3. ValidateCommit(w) => job[w].batch # b
    BY <2>2 DEF ValidateCommit
  <2> QED BY <1>1, <1>4, <2>1, <2>3, StatusWrites
         DEF PersistCommit, Fail, MeasureRecord, ExpireAbandon, ValidateCommit, At
<1>5. ASSUME written[b] > 0, NEW c \in Batches, NEW p \in BOOLEAN, CreateImportBatch(c, p)
      PROVE  status'[b] \in {"imported", "uploaded", "failed"}
  BY <1>1, <1>5 DEF CreateImportBatch, RowsNeverDisowned, TypeOK, RowsTyped
<1>6. CASE written[b] > 0 /\ status' = status
  BY <1>6 DEF RowsNeverDisowned
<1>7. CASE written' # written
  BY <1>3, <1>7, WrittenWriters
<1> QED BY <1>2, <1>3, <1>4, <1>5, <1>6, <1>7, StatusWriters

THEOREM RowsAreNeverDisowned == Spec => []RowsNeverDisowned
<1>1. Init => RowsNeverDisowned
  BY DEF Init, RowsNeverDisowned
<1> QED BY <1>1, DisownedInductive, PipelineInvariant, CodedInvariant, PTL DEF Spec

-----------------------------------------------------------------------------
(* The table of state.go. *)

\* The moves of state.go's table, and of the chains a stage commits the end of,
\* that the pipeline makes.
LEMMA LegalMoves ==
  /\ Lifecycle!LegalMove("awaiting_upload", "uploaded")
  /\ Lifecycle!LegalMove("awaiting_upload", "abandoned")
  /\ Lifecycle!LegalMove("uploaded", "validated")
  /\ Lifecycle!LegalMove("uploaded", "rejected")
  /\ Lifecycle!LegalMove("validated", "imported")
  /\ \A s \in {"awaiting_upload", "uploaded", "validated"} : Lifecycle!LegalMove(s, "failed")
<1>1. \A s, t : Lifecycle!CheckTransition(s, t) => Lifecycle!LegalMove(s, t)
  BY DEF Lifecycle!LegalMove
<1>2. /\ Lifecycle!CheckTransition("awaiting_upload", "uploaded")
      /\ Lifecycle!CheckTransition("awaiting_upload", "abandoned")
      /\ Lifecycle!CheckTransition("uploaded", "parsing")
      /\ Lifecycle!CheckTransition("parsing", "parsed")
      /\ Lifecycle!CheckTransition("parsed", "validating")
      /\ Lifecycle!CheckTransition("validating", "validated")
      /\ Lifecycle!CheckTransition("validating", "rejected")
      /\ Lifecycle!CheckTransition("validated", "persisting")
      /\ Lifecycle!CheckTransition("persisting", "imported")
      /\ \A s \in {"awaiting_upload", "uploaded", "validated"} :
            Lifecycle!CheckTransition(s, "failed")
  BY DEF Lifecycle!CheckTransition, Lifecycle!transitions
<1>3. ASSUME NEW end \in {"validated", "rejected"}
      PROVE  Lifecycle!LegalMove("uploaded", end)
  <2> DEFINE c == <<"uploaded", "parsing", "parsed", "validating", end>>
  <2>1. c \in Lifecycle!Chains
    BY <1>3 DEF Lifecycle!Chains
  <2>2. Len(c) = 5 /\ Head(c) = "uploaded" /\ c[5] = end
    OBVIOUS
  <2>3. \A i \in 1 .. 4 : Lifecycle!CheckTransition(c[i], c[i + 1])
    <3>1. \A i \in 1 .. 4 : i = 1 \/ i = 2 \/ i = 3 \/ i = 4
      OBVIOUS
    <3>2. c[1] = "uploaded" /\ c[2] = "parsing" /\ c[3] = "parsed" /\ c[4] = "validating"
      OBVIOUS
    <3>3. /\ Lifecycle!CheckTransition(c[1], c[2]) /\ Lifecycle!CheckTransition(c[2], c[3])
          /\ Lifecycle!CheckTransition(c[3], c[4]) /\ Lifecycle!CheckTransition(c[4], c[5])
      BY <1>2, <1>3, <2>2, <3>2
    <3> HIDE DEF c
    <3> QED BY <3>1, <3>3
  <2>4. "uploaded" = Head(c) /\ end = c[Len(c)] /\ Len(c) - 1 = 4
    BY <2>2
  <2>5. \A i \in 1 .. Len(c) - 1 : Lifecycle!CheckTransition(c[i], c[i + 1])
    BY <2>3, <2>4
  <2> HIDE DEF c
  <2> QED BY <2>1, <2>4, <2>5 DEF Lifecycle!LegalMove
<1>4. Lifecycle!LegalMove("validated", "imported")
  <2> DEFINE c == <<"validated", "persisting", "imported">>
  <2>1. c \in Lifecycle!Chains
    BY DEF Lifecycle!Chains
  <2>2. Len(c) = 3 /\ Head(c) = "validated" /\ c[3] = "imported"
    OBVIOUS
  <2>3. \A i \in 1 .. 2 : Lifecycle!CheckTransition(c[i], c[i + 1])
    <3>1. \A i \in 1 .. 2 : i = 1 \/ i = 2
      OBVIOUS
    <3>2. c[1] = "validated" /\ c[2] = "persisting"
      OBVIOUS
    <3> HIDE DEF c
    <3> QED BY <1>2, <2>2, <3>1, <3>2
  <2> HIDE DEF c
  <2> QED BY <2>1, <2>2, <2>3 DEF Lifecycle!LegalMove
<1> QED BY <1>1, <1>2, <1>3, <1>4

\* One batch's status moves along the table, or a stale job writes it.
LEMMA OffTableStep ==
  ASSUME TypeOK, CodedInv, [Next]_vars, NEW b \in Batches
  PROVE  status'[b] = status[b] \/ OnTable(b) \/ \E w \in Workers : WritesStale(w, b)
<1>1. CASE status' = status
  BY <1>1
<1>2. ASSUME NEW c \in Batches, NEW p \in BOOLEAN, CreateImportBatch(c, p)
      PROVE  status'[b] = status[b] \/ OnTable(b)
  BY <1>2 DEF CreateImportBatch, OnTable, TypeOK, RowsTyped
<1>3. ASSUME NEW w \in Workers,
             \/ Fail(w) \/ MeasureRecord(w) \/ ExpireAbandon(w)
             \/ ValidateCommit(w) \/ PersistCommit(w)
      PROVE  status'[b] = status[b] \/ OnTable(b) \/ WritesStale(w, b)
  <2>1. FailsWithCode
    BY DEF CodedInv
  <2>2. CASE job[w].batch # b
    BY <1>3, <2>1, <2>2, StatusWrites
  <2>3. CASE job[w].batch = b
    <3>1. CASE Fail(w)
      <4>1. /\ status'[b] = "failed" /\ job[w].pc = "fail"
            /\ job[w].kind \in {"measure", "validate", "persist"}
        BY <2>1, <2>3, <3>1, BusyWorker DEF Fail, FailsWithCode, TypeOK, RowsTyped, Busy, Kinds
      <4>2. status[b] \in {"awaiting_upload", "uploaded", "validated"} \/ WritesStale(w, b)
        BY <2>3, <4>1 DEF WritesStale, Proceeds
      <4> QED BY <4>1, <4>2, LegalMoves DEF OnTable
    <3>2. CASE MeasureRecord(w)
      <4>1. status'[b] = "uploaded" /\ job[w].pc = "record" /\ job[w].kind = "measure"
        BY <2>3, <3>2 DEF MeasureRecord, At, TypeOK, RowsTyped
      <4>2. status[b] \in {"awaiting_upload", "uploaded"} \/ WritesStale(w, b)
        BY <2>3, <4>1 DEF WritesStale, Proceeds
      <4> QED BY <4>1, <4>2, LegalMoves DEF OnTable
    <3>3. CASE ExpireAbandon(w)
      BY <2>3, <3>3, LegalMoves DEF ExpireAbandon, OnTable, TypeOK, RowsTyped
    <3>4. CASE ValidateCommit(w)
      <4>1. /\ status'[b] \in {"validated", "rejected"}
            /\ job[w].pc = "commit" /\ job[w].kind = "validate"
        <5>1. PICK s \in {"validated", "rejected"} : status' = [status EXCEPT ![b] = s]
          BY <2>3, <3>4 DEF ValidateCommit
        <5> QED BY <3>4, <5>1 DEF ValidateCommit, At, TypeOK, RowsTyped
      <4>2. status[b] = "uploaded" \/ WritesStale(w, b)
        BY <2>3, <4>1 DEF WritesStale, Proceeds
      <4> QED BY <4>1, <4>2, LegalMoves DEF OnTable
    <3>5. CASE PersistCommit(w)
      <4>1. status'[b] = "imported" /\ job[w].pc = "commit" /\ job[w].kind = "persist"
        BY <2>3, <3>5 DEF PersistCommit, At, TypeOK, RowsTyped
      <4>2. status[b] = "validated" \/ WritesStale(w, b)
        BY <2>3, <4>1 DEF WritesStale, Proceeds
      <4> QED BY <4>1, <4>2, LegalMoves DEF OnTable
    <3> QED BY <1>3, <3>1, <3>2, <3>3, <3>4, <3>5
  <2> QED BY <2>2, <2>3
<1> QED BY <1>1, <1>2, <1>3, StatusWriters

\* Only the write of a job whose read no longer holds leaves state.go's table.
THEOREM OnlyStaleWritesLeaveTheTable == Spec => OffTableIsStale
<1>1. TypeOK /\ CodedInv /\ [Next]_vars => [OnTableOrStale]_vars
  BY OffTableStep DEF OnTableOrStale
<1> QED BY <1>1, TypeCorrect, CodedInvariant, PTL DEF Spec, OffTableIsStale
=============================================================================
