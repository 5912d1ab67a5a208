--------------------------- MODULE IngestPipeline ---------------------------
(***************************************************************************)
(* The upload pipeline of core/internal/ingest: an import batch is         *)
(* reserved, its file is PUT straight into the object store, and River     *)
(* jobs (measure, expire, validate, persist) carry it to a terminal state. *)
(*                                                                         *)
(* Every job runs in several transactions and object-store calls; each is  *)
(* one step here, so jobs of one batch interleave exactly where the code   *)
(* lets go of the database.  db.InTx runs at READ COMMITTED and a status   *)
(* read in one transaction is not re-checked by the UPDATE of a later one, *)
(* so what a worker read may be stale when it writes.                      *)
(***************************************************************************)
EXTENDS Naturals, FiniteSets

CONSTANTS
  Batches,      \* import batches (uuids minted by CreateImportBatch)
  NoBatch,      \* the batch of an idle worker
  Files,        \* distinct file contents; a content is its own SHA-256
  NoFile,       \* NULL file_sha256, or no object under the key
  Params,       \* parameter sets an import profile may hold
  NoParams,     \* the batch names no profile: the detector decides
  Workers,      \* River's worker slots (QueueConfig.MaxWorkers)
  Oversized,    \* contents longer than UploadMaxBytes
  Empty,        \* contents of zero bytes
  Unparseable,  \* <<content, params>> that ParseWithParams refuses
  Undatable,    \* <<content, params>> whose dates only params' DateFormat reads
  MaxPuts,      \* bound: PUTs under the presigned URL of a batch
  MaxConfirms,  \* bound: ConfirmImportUpload calls per batch
  MaxFailures,  \* bound: attempts lost to a crash, timeout, store or db error
  MaxEdits,     \* bound: UpdateImportProfile calls
  Timely        \* TRUE: no upload window closes while its batch is measured

ASSUME ConstantsAssumption ==
  /\ NoBatch \notin Batches /\ NoFile \notin Files /\ NoParams \notin Params
  /\ Oversized \subseteq Files /\ Empty \subseteq Files
  /\ Unparseable \subseteq Files \X (Params \cup {NoParams})
  /\ Undatable \subseteq Files \X Params
  /\ MaxPuts \in Nat /\ MaxConfirms \in Nat /\ MaxFailures \in Nat /\ MaxEdits \in Nat
  /\ Timely \in BOOLEAN

VARIABLES
  status,       \* import_batches.status
  failure,      \* import_batches.failure_code
  sha,          \* import_batches.file_sha256
  profiled,     \* whether import_batches.import_profile_id is set
  resolved,     \* import_batches.resolved_parameters
  receipt,      \* import_validations.outcome (with the raw_rows beside it)
  written,      \* how many persist transactions committed this batch's rows
  profile,      \* import_profiles: the parameters of the profile batches name
  object,       \* the object store: the content under the batch's key
  puts,         \* how often the browser's PUT of a batch has landed
  queue,        \* River jobs waiting to be fetched, by kind and batch
  job,          \* what each River worker is doing
  confirms, failures, edits  \* counters for the bounds

vars == <<status, failure, sha, profiled, resolved, receipt, written,
          profile, object, puts, queue, job, confirms, failures,
          edits>>

rowVars == <<status, failure, sha, resolved, receipt, written>>
envVars == <<profiled, profile, puts, confirms, failures, edits>>

-----------------------------------------------------------------------------
Lifecycle == INSTANCE BatchLifecycle

Kinds    == {"measure", "expire", "validate", "persist", "classify"}
Outcomes == {"valid", "valid_with_warnings", "rejected"}
Codes    == {"upload_missing", "file_too_large", "already_imported",
             "unrecognized_format", "persist_reparse_failed"}

\* Where a worker is: the step of its job it takes next.
Points == {"start", "stream", "delete", "lookup", "record", "parse",
           "commit", "fail", "error", "ack"}

Idle == [pc |-> "idle", kind |-> "measure", batch |-> NoBatch, file |-> NoFile,
         params |-> NoParams, code |-> "none"]

\* Classify jobs are only enqueued here; ClassifyReview works them.
Busy == [pc : Points, kind : Kinds \ {"classify"}, batch : Batches,
         file : Files \cup {NoFile}, params : Params \cup {NoParams},
         code : Codes \cup {"none"}]

Jobs == {Idle} \cup Busy

Init ==
  /\ status     = [b \in Batches |-> "absent"]
  /\ failure    = [b \in Batches |-> "none"]
  /\ sha        = [b \in Batches |-> NoFile]
  /\ profiled   = [b \in Batches |-> FALSE]
  /\ resolved   = [b \in Batches |-> NoParams]
  /\ receipt    = [b \in Batches |-> "none"]
  /\ written    = [b \in Batches |-> 0]
  /\ profile \in Params
  /\ object     = [b \in Batches |-> NoFile]
  /\ puts       = [b \in Batches |-> 0]
  /\ queue      = [k \in Kinds |-> [b \in Batches |-> 0]]
  /\ job        = [w \in Workers |-> Idle]
  /\ confirms   = [b \in Batches |-> 0]
  /\ failures   = 0
  /\ edits      = 0

-----------------------------------------------------------------------------
(* Requests and the browser. *)

\* Mutant: the batch is inserted without its expiry job.
CreateImportBatchNoExpiry(b, withProfile) ==
  /\ status[b] = "absent"
  /\ status' = [status EXCEPT ![b] = "awaiting_upload"]
  /\ profiled' = [profiled EXCEPT ![b] = withProfile]
  /\ UNCHANGED <<failure, sha, resolved, receipt, written, profile,
                 object, puts, queue, job, confirms, failures, edits>>

\* The insert and the expiry job's enqueue share one transaction.
CreateImportBatch(b, withProfile) ==
  /\ status[b] = "absent"
  /\ status' = [status EXCEPT ![b] = "awaiting_upload"]
  /\ profiled' = [profiled EXCEPT ![b] = withProfile]
  /\ queue' = [queue EXCEPT !["expire"][b] = @ + 1]
  /\ UNCHANGED <<failure, sha, resolved, receipt, written, profile,
                 object, puts, job, confirms, failures, edits>>

\* The browser's presigned PUT.  The URL stays good until it expires, so a
\* second PUT may replace what was measured, and one may land after expiry ran.
PutObject(b, f) ==
  /\ status[b] # "absent" /\ puts[b] < MaxPuts
  /\ object' = [object EXCEPT ![b] = f]
  /\ puts' = [puts EXCEPT ![b] = @ + 1]
  /\ UNCHANGED <<rowVars, profiled, profile, queue, job, confirms, failures,
                 edits>>

\* Reads the batch, whatever its status, and enqueues a measurement each time.
ConfirmImportUpload(b) ==
  /\ status[b] # "absent" /\ confirms[b] < MaxConfirms
  /\ confirms' = [confirms EXCEPT ![b] = @ + 1]
  /\ queue' = [queue EXCEPT !["measure"][b] = @ + 1]
  /\ UNCHANGED <<rowVars, profiled, profile, object, puts, job, failures, edits>>

UpdateImportProfile(p) ==
  /\ edits < MaxEdits /\ p # profile
  /\ profile' = p
  /\ edits' = edits + 1
  /\ UNCHANGED <<rowVars, profiled, object, puts, queue, job, confirms, failures>>

-----------------------------------------------------------------------------
(* River: a worker fetches a job, works it, and acknowledges it. *)

Running(k, b) == \E w \in Workers : /\ job[w].pc # "idle"
                                    /\ job[w].kind = k /\ job[w].batch = b

\* With Timely, measuring a batch and expiring it do not overlap in time.
WindowAllows(k, b) ==
  Timely => CASE k = "expire"  -> ~Running("measure", b) /\ queue["measure"][b] = 0
              [] k = "measure" -> ~Running("expire", b)
              [] OTHER         -> TRUE

Fetch(w, k, b) ==
  /\ job[w].pc = "idle" /\ queue[k][b] > 0 /\ k # "classify"
  /\ WindowAllows(k, b)
  /\ queue' = [queue EXCEPT ![k][b] = @ - 1]
  /\ job' = [job EXCEPT ![w] = [Idle EXCEPT !.pc = "start", !.kind = k, !.batch = b]]
  /\ UNCHANGED <<rowVars, envVars, object>>

\* Work returned nil: River marks the job completed.
Ack(w) ==
  /\ job[w].pc = "ack"
  /\ job' = [job EXCEPT ![w] = Idle]
  /\ UNCHANGED <<rowVars, envVars, object, queue>>

Requeue(w) ==
  /\ queue' = [queue EXCEPT ![job[w].kind][job[w].batch] = @ + 1]
  /\ job' = [job EXCEPT ![w] = Idle]

\* The process dies, the job times out, or a database or store call fails: the
\* open transaction rolls back, what earlier ones committed stays, River retries.
AttemptFails(w) ==
  /\ job[w].pc \notin {"idle", "error"} /\ failures < MaxFailures
  /\ failures' = failures + 1
  /\ Requeue(w)
  /\ UNCHANGED <<rowVars, object, profiled, profile, puts, confirms, edits>>

\* Work returned an error of its own: retried, until the attempts run out.
Retry(w) ==
  /\ job[w].pc = "error"
  /\ Requeue(w)
  /\ UNCHANGED <<rowVars, envVars, object>>

Discard(w) ==
  /\ job[w].pc = "error"
  /\ job' = [job EXCEPT ![w] = Idle]
  /\ UNCHANGED <<rowVars, envVars, object, queue>>
-----------------------------------------------------------------------------
(* Steps every job shares. *)

At(w, k, pc) == job[w].pc = pc /\ job[w].kind = k

Goto(w, pc) == job' = [job EXCEPT ![w].pc = pc]

\* Mutants: the code that explains the failure is lost, or is no code of ours.
GotoFailUncoded(w, code) == job' = [job EXCEPT ![w].pc = "fail"]
GotoFailMiscoded(w, code) ==
  job' = [job EXCEPT ![w].pc = "fail", ![w].code = "error"]

GotoFail(w, code) == job' = [job EXCEPT ![w].pc = "fail", ![w].code = code]

\* SetImportBatchStatus(failed, code), the fail of each of the three workers:
\* the UPDATE names the batch's id and nothing about its current status.
Fail(w) ==
  /\ job[w].pc = "fail"
  /\ status' = [status EXCEPT ![job[w].batch] = "failed"]
  /\ failure' = [failure EXCEPT ![job[w].batch] = job[w].code]
  /\ Goto(w, "ack")
  /\ UNCHANGED <<sha, resolved, receipt, written, envVars, object, queue>>

-----------------------------------------------------------------------------
(* ingest_measure_upload *)

MeasureReadStatus(w) ==
  /\ At(w, "measure", "start")
  /\ Goto(w, IF status[job[w].batch] \in {"awaiting_upload", "uploaded"}
             THEN "stream" ELSE "ack")
  /\ UNCHANGED <<rowVars, envVars, object, queue>>

\* Head, Get and the bounded read: an object gone at either is upload_missing.
MeasureStream(w) ==
  LET f == object[job[w].batch] IN
  /\ At(w, "measure", "stream")
  /\ \/ f = NoFile /\ GotoFail(w, "upload_missing")
     \/ f \in Oversized /\ Goto(w, "delete")
     \/ /\ f \in Files \ Oversized
        /\ job' = [job EXCEPT ![w].pc = "lookup", ![w].file = f]
  /\ UNCHANGED <<rowVars, envVars, object, queue>>

MeasureDeleteOversized(w) ==
  /\ At(w, "measure", "delete")
  /\ object' = [object EXCEPT ![job[w].batch] = NoFile]
  /\ GotoFail(w, "file_too_large")
  /\ UNCHANGED <<rowVars, envVars, queue>>

\* FindImportedBatchAlreadyHoldingThisFile: any imported batch of the
\* organisation with this SHA-256, the worker's own batch not excepted.
ImportedHolds(f) == \E b \in Batches : status[b] = "imported" /\ sha[b] = f

MeasureLookup(w) ==
  /\ At(w, "measure", "lookup")
  /\ IF ImportedHolds(job[w].file) THEN GotoFail(w, "already_imported")
                                  ELSE Goto(w, "record")
  /\ UNCHANGED <<rowVars, envVars, object, queue>>

\* Mutant: the status moves on and the hash is not stored with it.
MeasureRecordWithoutHash(w) ==
  LET b == job[w].batch IN
  /\ At(w, "measure", "record")
  /\ job[w].file \notin Empty
  /\ status' = [status EXCEPT ![b] = "uploaded"]
  /\ queue' = [queue EXCEPT !["validate"][b] = @ + 1]
  /\ Goto(w, "ack")
  /\ UNCHANGED <<failure, sha, resolved, receipt, written, envVars,
                 object>>

\* RecordUploadMeasurement and the validate job, in one transaction; the UPDATE
\* has no status guard, and a zero byte_length violates its CHECK.
MeasureRecord(w) ==
  LET b == job[w].batch IN
  /\ At(w, "measure", "record")
  /\ job[w].file \notin Empty
  /\ status' = [status EXCEPT ![b] = "uploaded"]
  /\ sha' = [sha EXCEPT ![b] = job[w].file]
  /\ queue' = [queue EXCEPT !["validate"][b] = @ + 1]
  /\ Goto(w, "ack")
  /\ UNCHANGED <<failure, resolved, receipt, written, envVars, object>>

MeasureRecordRefused(w) ==
  /\ At(w, "measure", "record")
  /\ job[w].file \in Empty
  /\ Goto(w, "error")
  /\ UNCHANGED <<rowVars, envVars, object, queue>>

-----------------------------------------------------------------------------
(* ingest_expire_batch *)

\* Mutants: the UPDATE with too wide a predicate.
ExpireAbandonFrom(w, statuses) ==
  LET b == job[w].batch IN
  /\ At(w, "expire", "start")
  /\ IF status[b] \in statuses
     THEN status' = [status EXCEPT ![b] = "abandoned"] /\ Goto(w, "delete")
     ELSE UNCHANGED status /\ Goto(w, "ack")
  /\ UNCHANGED <<failure, sha, resolved, receipt, written, envVars,
                 object, queue>>

ExpireAbandonImported(w) == ExpireAbandonFrom(w, {"awaiting_upload", "imported"})

ExpireAbandonUploaded(w) == ExpireAbandonFrom(w, {"awaiting_upload", "uploaded"})

\* AbandonExpiredBatch: the predicate and the write are one UPDATE.
ExpireAbandon(w) ==
  LET b == job[w].batch IN
  /\ At(w, "expire", "start")
  /\ IF status[b] = "awaiting_upload"
     THEN status' = [status EXCEPT ![b] = "abandoned"] /\ Goto(w, "delete")
     ELSE UNCHANGED status /\ Goto(w, "ack")
  /\ UNCHANGED <<failure, sha, resolved, receipt, written, envVars,
                 object, queue>>

ExpireDelete(w) ==
  /\ At(w, "expire", "delete")
  /\ object' = [object EXCEPT ![job[w].batch] = NoFile]
  /\ Goto(w, "ack")
  /\ UNCHANGED <<rowVars, envVars, queue>>
-----------------------------------------------------------------------------
(* ingest_validate_import *)

\* loadBatchAndProfile: the status, and the profile as it stands at this moment.
LoadBatchAndProfile(w, k, wanted) ==
  LET b == job[w].batch IN
  /\ At(w, k, "start")
  /\ IF status[b] = wanted
     THEN job' = [job EXCEPT ![w].pc = "parse",
                             ![w].params = IF profiled[b] THEN profile ELSE NoParams]
     ELSE Goto(w, "ack")
  /\ UNCHANGED <<rowVars, envVars, object, queue>>

\* readObject and ParseWithParams: a missing object is an error River retries,
\* a parse error fails the batch.
ReadAndParse(w, k, code) ==
  LET f == object[job[w].batch] IN
  /\ At(w, k, "parse")
  /\ \/ f = NoFile /\ Goto(w, "error")
     \/ <<f, job[w].params>> \in Unparseable /\ GotoFail(w, code)
     \/ /\ f # NoFile /\ <<f, job[w].params>> \notin Unparseable
        /\ job' = [job EXCEPT ![w].pc = "commit", ![w].file = f]
  /\ UNCHANGED <<rowVars, envVars, object, queue>>

ValidateLoad(w)  == LoadBatchAndProfile(w, "validate", "uploaded")
ValidateParse(w) == ReadAndParse(w, "validate", "unrecognized_format")

\* Mutants: the receipt is not unique per batch; a file with warnings waits for
\* somebody to override it.
ValidateCommitIf(w, allowed, persisted) ==
  LET b == job[w].batch IN
  /\ At(w, "validate", "commit")
  /\ allowed
  /\ \E outcome \in Outcomes :
       /\ receipt' = [receipt EXCEPT ![b] = outcome]
       /\ status' = [status EXCEPT ![b] = IF outcome = "rejected" THEN "rejected"
                                                               ELSE "validated"]
       /\ queue' = IF outcome \in persisted
                   THEN [queue EXCEPT !["persist"][b] = @ + 1] ELSE queue
  /\ failure' = [failure EXCEPT ![b] = "none"]
  /\ resolved' = [resolved EXCEPT ![b] = job[w].params]
  /\ Goto(w, "ack")
  /\ UNCHANGED <<sha, written, envVars, object>>

ValidateCommitNotUnique(w) ==
  ValidateCommitIf(w, TRUE, {"valid", "valid_with_warnings"})

ValidateCommitHoldsWarnings(w) ==
  ValidateCommitIf(w, receipt[job[w].batch] = "none", {"valid"})

\* One transaction: raw rows, resolved parameters, the receipt, the status, and
\* for a file that is not rejected the persist job.  The outcome depends on the
\* rows, today's date and the accounts on file.
ValidateCommit(w) ==
  LET b == job[w].batch IN
  /\ At(w, "validate", "commit")
  /\ receipt[b] = "none"
  /\ \E outcome \in Outcomes :
       /\ receipt' = [receipt EXCEPT ![b] = outcome]
       /\ status' = [status EXCEPT ![b] = IF outcome = "rejected" THEN "rejected"
                                                               ELSE "validated"]
       /\ queue' = IF outcome = "rejected" THEN queue
                   ELSE [queue EXCEPT !["persist"][b] = @ + 1]
  /\ failure' = [failure EXCEPT ![b] = "none"]
  /\ resolved' = [resolved EXCEPT ![b] = job[w].params]
  /\ Goto(w, "ack")
  /\ UNCHANGED <<sha, written, envVars, object>>

\* UNIQUE (org_id, batch_id) on import_validations and UNIQUE (org_id, batch_id,
\* line_no) on raw_rows refuse a second validation: the transaction rolls back.
ValidateRefused(w) ==
  /\ At(w, "validate", "commit")
  /\ receipt[job[w].batch] # "none"
  /\ Goto(w, "error")
  /\ UNCHANGED <<rowVars, envVars, object, queue>>

-----------------------------------------------------------------------------
(* ingest_persist_import *)

PersistLoad(w)  == LoadBatchAndProfile(w, "persist", "validated")
PersistParse(w) == ReadAndParse(w, "persist", "persist_reparse_failed")

\* Mutant: no such index; MeasureLookup is the only guard left.
FileOnceNoIndex(b) == FALSE

\* import_batches_file_once: another imported batch has this file_sha256.
FileOnceViolation(b) ==
  \E o \in Batches \ {b} : status[o] = "imported" /\ sha[o] = sha[b]

\* Mutant: the classify job is left to be enqueued after the commit.
PersistCommitNoClassify(w) ==
  LET b == job[w].batch IN
  /\ At(w, "persist", "commit")
  /\ <<job[w].file, job[w].params>> \notin Undatable
  /\ ~FileOnceViolation(b)
  /\ status' = [status EXCEPT ![b] = "imported"]
  /\ failure' = [failure EXCEPT ![b] = "none"]
  /\ written' = [written EXCEPT ![b] = @ + 1]
  /\ Goto(w, "ack")
  /\ UNCHANGED <<sha, resolved, receipt, envVars, object, queue>>

\* One transaction: every line inserted or recorded as a skip, transfers paired,
\* status imported, the classify job enqueued.
PersistCommit(w) ==
  LET b == job[w].batch IN
  /\ At(w, "persist", "commit")
  /\ <<job[w].file, job[w].params>> \notin Undatable
  /\ ~FileOnceViolation(b)
  /\ status' = [status EXCEPT ![b] = "imported"]
  /\ failure' = [failure EXCEPT ![b] = "none"]
  /\ written' = [written EXCEPT ![b] = @ + 1]
  /\ queue' = [queue EXCEPT !["classify"][b] = @ + 1]
  /\ Goto(w, "ack")
  /\ UNCHANGED <<sha, resolved, receipt, envVars, object>>

\* The unique index refuses the status: everything rolls back, then fail.
PersistLosesFileOnce(w) ==
  /\ At(w, "persist", "commit")
  /\ <<job[w].file, job[w].params>> \notin Undatable
  /\ FileOnceViolation(job[w].batch)
  /\ GotoFail(w, "already_imported")
  /\ UNCHANGED <<rowVars, envVars, object, queue>>

\* buildTransaction reads booked_on with ParseDate alone, whatever the profile's
\* DateFormat: a date it cannot read is an error, not a failed batch.
PersistUndatable(w) ==
  /\ At(w, "persist", "commit")
  /\ <<job[w].file, job[w].params>> \in Undatable
  /\ Goto(w, "error")
  /\ UNCHANGED <<rowVars, envVars, object, queue>>

-----------------------------------------------------------------------------
Request ==
  \/ \E b \in Batches : \/ \E withProfile \in BOOLEAN : CreateImportBatch(b, withProfile)
                       \/ \E f \in Files : PutObject(b, f)
                       \/ ConfirmImportUpload(b)
  \/ \E p \in Params : UpdateImportProfile(p)

MeasureStep(w) ==
  \/ MeasureReadStatus(w) \/ MeasureStream(w) \/ MeasureDeleteOversized(w)
  \/ MeasureLookup(w) \/ MeasureRecord(w) \/ MeasureRecordRefused(w)

ExpireStep(w) == ExpireAbandon(w) \/ ExpireDelete(w)

ValidateStep(w) ==
  ValidateLoad(w) \/ ValidateParse(w) \/ ValidateCommit(w) \/ ValidateRefused(w)

PersistStep(w) ==
  \/ PersistLoad(w) \/ PersistParse(w) \/ PersistCommit(w)
  \/ PersistLosesFileOnce(w) \/ PersistUndatable(w)

\* A step the worker takes by itself: the code between two waits.
Progress(w) ==
  \/ MeasureStep(w) \/ ExpireStep(w) \/ ValidateStep(w) \/ PersistStep(w)
  \/ Fail(w) \/ Ack(w)

FetchAny(k, b) == \E w \in Workers : Fetch(w, k, b)

Next ==
  \/ Request
  \/ \E k \in Kinds, b \in Batches : FetchAny(k, b)
  \/ \E w \in Workers : Progress(w) \/ AttemptFails(w) \/ Retry(w) \/ Discard(w)

Spec == Init /\ [][Next]_vars

\* Workers never stop of themselves; River fetches by schedule, so a waiting job
\* is not overtaken for ever; its attempts are bounded, so a job that errs on
\* every attempt is discarded in the end.
Fairness ==
  /\ \A w \in Workers : WF_vars(Progress(w)) /\ WF_vars(Retry(w) \/ Discard(w))
                        /\ SF_vars(Discard(w))
  /\ \A k \in Kinds, b \in Batches : SF_vars(FetchAny(k, b))

FairSpec == Spec /\ Fairness
-----------------------------------------------------------------------------
(* Properties. *)

RowsTyped ==
  /\ status \in [Batches -> Lifecycle!Status]
  /\ failure \in [Batches -> Codes \cup {"none"}]
  /\ sha \in [Batches -> Files \cup {NoFile}]
  /\ resolved \in [Batches -> Params \cup {NoParams}]
  /\ receipt \in [Batches -> Outcomes \cup {"none"}]
  /\ written \in [Batches -> Nat]

EnvTyped ==
  /\ profiled \in [Batches -> BOOLEAN]
  /\ profile \in Params
  /\ puts \in [Batches -> Nat]
  /\ confirms \in [Batches -> Nat] /\ failures \in Nat /\ edits \in Nat

StoreTyped   == object \in [Batches -> Files \cup {NoFile}]
QueueTyped   == queue \in [Kinds -> [Batches -> Nat]]
WorkersTyped == job \in [Workers -> Jobs]

\* Every column, object, job and worker holds a value of its kind; a worker that
\* is not idle works on a batch.
TypeOK == RowsTyped /\ EnvTyped /\ StoreTyped /\ QueueTyped /\ WorkersTyped

\* Two batches holding the same bytes are never both imported, however their
\* measurements and persists interleave (persistjob.go: "D1's actual backstop").
FileOnce ==
  \A b, c \in Batches :
     status[b] = "imported" /\ status[c] = "imported" /\ sha[b] = sha[c] => b = c

\* The rows of a batch reach the ledger at most once, however often its upload
\* is confirmed, its jobs are retried or a late measurement moves its status
\* back, and only behind a receipt that did not reject the file.
RowsOnceAndReceipted ==
  \A b \in Batches :
     /\ written[b] <= 1
     /\ written[b] = 1 => receipt[b] \in {"valid", "valid_with_warnings"}

\* Exactly the batches whose rows are in the ledger have a classification job:
\* a crash between the two facts loses neither (persistjob.go's last enqueue).
ClassifyOwed ==
  \A b \in Batches : /\ queue["classify"][b] = written[b]
                     /\ status[b] = "imported" => written[b] = 1

\* import_batches_measured_past_upload never refuses a write: every stage past
\* the upload runs on a batch whose file was measured, so no NULL hash is ever
\* read as "no duplicate found".
MeasuredPastUpload ==
  \A b \in Batches :
     status[b] \in {"absent", "awaiting_upload", "abandoned", "failed"} \/ sha[b] # NoFile

\* The strengthening that makes the four invariants above inductive: a batch has
\* at most one persist job, queued or running; that job stands behind a receipt
\* that did not reject the file; and once the rows are written neither the job
\* nor the status can lead to a second commit.
OnPersist(w, b)  == job[w].kind = "persist" /\ job[w].batch = b
OnValidate(w, b) == job[w].kind = "validate" /\ job[w].batch = b

OnePersistJob ==
  \A b \in Batches :
     /\ queue["persist"][b] <= 1
     /\ queue["persist"][b] > 0 => \A w \in Workers : ~OnPersist(w, b)
     /\ \A v, w \in Workers : OnPersist(v, b) /\ OnPersist(w, b) => v = w

PersistBehindReceipt ==
  \A b \in Batches :
     queue["persist"][b] > 0 \/ written[b] > 0 \/ (\E w \in Workers : OnPersist(w, b))
       => receipt[b] \in {"valid", "valid_with_warnings"}

WrittenIsDone ==
  \A b \in Batches :
     written[b] > 0 =>
        /\ written[b] = 1 /\ status[b] # "validated"
        /\ \A w \in Workers : OnPersist(w, b) => job[w].pc \in {"start", "ack"}

MeasuredBehindJobs ==
  /\ \A b \in Batches :
       (\/ queue["validate"][b] > 0 \/ queue["persist"][b] > 0
        \/ \E w \in Workers : OnValidate(w, b) \/ OnPersist(w, b))
       => sha[b] # NoFile
  /\ \A w \in Workers : job[w].pc \in {"lookup", "record"} => job[w].file \in Files

PipelineInv ==
  /\ TypeOK /\ OnePersistJob /\ PersistBehindReceipt /\ WrittenIsDone
  /\ ClassifyOwed /\ MeasuredPastUpload /\ MeasuredBehindJobs /\ FileOnce

\* A batch whose rows are in the ledger says so for ever.
LedgerRowsMeanImported ==
  \A b \in Batches : written[b] > 0 => status[b] = "imported"

\* However measurements, expiry and lost attempts cross, a failed batch says why,
\* and with a code of its own.
FailedHasCode ==
  \A b \in Batches : status[b] = "failed" => failure[b] \in Codes

\* What is left of LedgerRowsMeanImported when stale measurements and lost
\* attempts are allowed: a batch whose rows are in the ledger may be taken back
\* to uploaded, or be shown as failed, but is never shown as refused by
\* validation, abandoned, or waiting for its upload or its persist job.
RowsNeverDisowned ==
  \A b \in Batches :
     written[b] > 0 => status[b] \in {"imported", "uploaded", "failed"}

\* The statuses in which each job goes on past its first read.
Proceeds(kind) == CASE kind = "measure"  -> {"awaiting_upload", "uploaded"}
                    [] kind = "validate" -> {"uploaded"}
                    [] kind = "persist"  -> {"validated"}
                    [] OTHER             -> {}

OnTable(b) ==
  \/ status[b] = "absent" /\ status'[b] = "awaiting_upload"
  \/ Lifecycle!LegalMove(status[b], status'[b])

WritesStale(w, b) ==
  /\ job[w].batch = b /\ job[w].kind \in {"measure", "validate", "persist"}
  /\ job[w].pc \in {"record", "commit", "fail"}
  /\ status[b] \notin Proceeds(job[w].kind)

OnTableOrStale ==
  \A b \in Batches :
     status'[b] = status[b] \/ OnTable(b) \/ \E w \in Workers : WritesStale(w, b)

\* Every step off the table of state.go is the late write of a job whose first
\* read no longer holds: the batch has left the statuses the job proceeds in.
\* Nothing else the pipeline does, expiry included, leaves the table.
OffTableIsStale == [][OnTableOrStale]_vars

\* The pipeline moves a batch only along the table of state.go, and never out
\* of a terminal state: the refinement of BatchLifecycle.
LifecycleTable == Lifecycle!Spec

\* A reserved batch does not wait for its upload for ever.
LeavesAwaiting ==
  \A b \in Batches : status[b] = "awaiting_upload" ~> status[b] # "awaiting_upload"

\* An upload that was accepted reaches a terminal state.
Settles ==
  \A b \in Batches :
     status[b] \in {"uploaded", "validated"} ~> status[b] \in Lifecycle!Terminal

-----------------------------------------------------------------------------
(* The strengthenings behind FailedHasCode and OffTableIsStale. *)

\* Only the jobs that have codes get to Fail, and they bring one.
FailsWithCode ==
  \A w \in Workers : job[w].pc = "fail" => job[w].code \in Codes /\ job[w].kind # "expire"

CodedInv == FailsWithCode /\ FailedHasCode
=============================================================================
