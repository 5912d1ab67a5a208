----------------------------- MODULE WebImports ----------------------------
(***************************************************************************)
(* The import screens of the browser (web/src/app/Upload.tsx,              *)
(* ImportsScreen.tsx, BatchScreen.tsx, data/imports.ts): a file that is    *)
(* picked and sent, the list of batches, and one batch opened from it,     *)
(* next to batches that the server moves on its own (BatchLifecycle).      *)
(*                                                                         *)
(* A batch opened is read in two rounds: the batch, then its report and    *)
(* its summary, and its rows by a query of their own.  The server moves    *)
(* between the reads.                                                      *)
(***************************************************************************)
EXTENDS Naturals, FiniteSets

CONSTANTS
  Files,           \* the files of this entity; a file names its batch
  NoFile, Absent,
  RowsOf,          \* rows a file has once imported
  ErrorsOf,        \* errors a rejected file has
  SHOWN,           \* how many of them the list shows
  MaxImportTroubles   \* bound: failures, other people, focus and a changed mind

ASSUME ImportConstants ==
  /\ RowsOf \in Nat \ {0} /\ ErrorsOf \in Nat \ {0} /\ SHOWN \in Nat
  /\ NoFile \notin Files /\ MaxImportTroubles \in Nat

VARIABLES
  wire,          \* the server's batches, with what is kept beside each
  importTroubles,
  batches, batchesFetch, batchesError,   \* the query ["batches"]
  opened,                                \* the batch of the screen, or NoFile
  detail, detailFetch, detailError,      \* the query ["batch", opened]
  rows, rowsAsked,                       \* the query ["batchTransactions", opened]
  sourceKind, busy, uploads,             \* Upload's state and its calls
  unlisted       \* history: files moved by others since the list was last served

listVars   == <<batches, batchesFetch, batchesError, unlisted>>
detailVars == <<opened, detail, detailFetch, detailError, rows, rowsAsked>>
uploadVars == <<sourceKind, busy, uploads>>
importVars == <<wire, importTroubles, listVars, detailVars, uploadVars>>

-----------------------------------------------------------------------------
\* The wire: what the generated messages carry, as far as a screen tells it.
ImportStatus == {"UNSPECIFIED", "absent", "awaiting_upload", "uploaded", "parsing", "parsed",
  "validating", "validated", "persisting", "rejected", "abandoned", "failed", "imported"}

SourceKind == {"bank", "ledger"}

ImportBatch == [status : ImportStatus, kind : SourceKind]

BalanceMismatchDetail == [opening : Nat, movements : Nat, closing : Nat]
ValidationReport == [errors : {0, ErrorsOf}, mismatch : BOOLEAN]

DedupSummary == [importedRows : {0, RowsOf}, skipped : Nat]

\* A statement whose movements do not lead from its opening to its closing.
Mismatch == [opening |-> 1, movements |-> 2, closing |-> 4]

Unreported == [errors |-> 0, mismatch |-> FALSE]
Reported(b) == b.status \in {"validated", "rejected", "persisting", "imported"} \/ b.validated

\* What the server answers of one batch at one moment.
BatchOf(b) == [status |-> b.status, kind |-> b.kind]
ReportOf(b) == IF Reported(b) THEN b.report ELSE Absent
SummaryOf(b) == [importedRows |-> IF b.status = "imported" THEN RowsOf ELSE 0, skipped |-> 0]
RowsIn(b) == SummaryOf(b).importedRows

Listed == {f \in Files : wire[f].status # "absent"}

LC == INSTANCE BatchLifecycle WITH Batches <- Files, status <- [f \in Files |-> wire[f].status]

-----------------------------------------------------------------------------
\* Mutant: a validated file is shown as imported.
STATE_BY_STATUS_Early(s) ==
  CASE s \in {"UNSPECIFIED", "awaiting_upload", "uploaded"} -> "pending"
    [] s \in {"parsing", "parsed", "validating", "persisting"} -> "parsing"
    [] s \in {"rejected", "abandoned", "failed"} -> "rejected"
    [] s \in {"validated", "imported"} -> "imported"

\* Eleven states onto four words.
STATE_BY_STATUS(s) ==
  CASE s \in {"UNSPECIFIED", "awaiting_upload", "uploaded"} -> "pending"
    [] s \in {"parsing", "parsed", "validating", "validated", "persisting"} -> "parsing"
    [] s \in {"rejected", "abandoned", "failed"} -> "rejected"
    [] s = "imported" -> "imported"

\* A batch as a screen tells it.  A list that was read, or a detail, is not
\* the mark that none was.
Told == [state : {"pending", "parsing", "rejected", "imported"}, kind : SourceKind, reasoned : BOOLEAN]
ASSUME AbsentIsNothing ==
  /\ \A S \in SUBSET Files : Absent \notin [S -> Told]
  /\ Absent \notin [batch : Told, errors : {0, ErrorsOf}, reported : BOOLEAN,
                    counts : {0, RowsOf, Absent}, balance : {[closing |-> 3, declared |-> 4], Absent}]

\* A failure code is written on `failed` alone: the reason shown, if any.
batchFromProto(b) ==
  [state |-> STATE_BY_STATUS(b.status), kind |-> b.kind, reasoned |-> b.status = "failed"]

\* `closing` is computed; what the statement declared is the wire's closing.
balanceCheckFromProto(bm) ==
  [closing |-> bm.opening + bm.movements, declared |-> bm.closing]

\* getBatch's answer, of the batch, the report and the summary it read; a
\* report or a summary that could not be read is left out.
BatchDetail(b, report, summary) ==
  [batch    |-> batchFromProto(b),
   errors   |-> IF report = Absent THEN 0 ELSE report.errors,
   reported |-> report # Absent,
   counts   |-> IF summary = Absent THEN Absent ELSE summary.importedRows,
   balance  |-> IF report # Absent /\ report.mismatch
                THEN balanceCheckFromProto(Mismatch) ELSE Absent]

\* The error list, capped, and how many are left to the download.
Errors(n) ==
  [shown |-> IF n <= SHOWN THEN n ELSE SHOWN, more |-> IF n <= SHOWN THEN 0 ELSE n - SHOWN]

\* What the batch screen shows: the first of its early returns that holds, or
\* the parts there is data for.
BatchScreen ==
  IF detail = Absent /\ ~detailError THEN [page |-> "loading"]
  ELSE IF detailError THEN [page |-> "error"]
  ELSE [page |-> "batch", chip |-> detail.batch.state, reason |-> detail.batch.reasoned,
        counts |-> detail.counts, balance |-> detail.balance,
        rows |-> IF rows = Absent THEN 0 ELSE rows, errors |-> Errors(detail.errors)]

-----------------------------------------------------------------------------
DetailIdle == [st |-> "idle", left |-> {}, batch |-> Absent, report |-> Absent, summary |-> Absent]
DetailStart == [DetailIdle EXCEPT !.st = "batch", !.left = {"report", "summary"}]
NoUpload == [st |-> "none", kind |-> "bank"]

ImportsInit ==
  /\ wire = [f \in Files |-> [status |-> "absent", kind |-> "bank", report |-> Unreported,
                              validated |-> FALSE, confirmed |-> FALSE]]
  /\ importTroubles = 0
  /\ batches = Absent /\ batchesFetch = [st |-> "asked", got |-> Absent]
  /\ batchesError = FALSE /\ unlisted = {}
  /\ opened = NoFile /\ detail = Absent /\ detailFetch = DetailIdle /\ detailError = FALSE
  /\ rows = Absent /\ rowsAsked = FALSE
  /\ sourceKind = "none" /\ busy = FALSE /\ uploads = [f \in Files |-> NoUpload]

ImportTrouble ==
  importTroubles < MaxImportTroubles /\ importTroubles' = importTroubles + 1

\* The states the jobs' transactions leave for a reader: those in between are
\* passed inside one (BatchLifecycle!Chains).
Committed == {"uploaded", "validated", "rejected", "imported", "abandoned", "failed"}

\* The server's jobs move a batch; validation leaves its report with it.
BatchMoves(f, to) ==
  /\ wire[f].status # "absent" /\ to \in Committed /\ LC!LegalMove(wire[f].status, to)
  /\ to \in {"uploaded", "failed"} /\ wire[f].status = "awaiting_upload" => wire[f].confirmed
  /\ to = "abandoned" => ~wire[f].confirmed
  /\ \E r \in IF to = "rejected" THEN {[errors |-> ErrorsOf, mismatch |-> FALSE]}
              ELSE IF to = "validated" THEN [errors : {0}, mismatch : BOOLEAN]
              ELSE {wire[f].report} :
       wire' = [wire EXCEPT ![f].status = to, ![f].report = r,
                            ![f].validated = @ \/ to = "validated"]
  /\ unlisted' = unlisted \cup {f}
  /\ UNCHANGED <<importTroubles, batches, batchesFetch, batchesError, detailVars, uploadVars>>

\* A file sent from another tab.
SentElsewhere(f) ==
  /\ ImportTrouble /\ wire[f].status = "absent" /\ uploads[f].st = "none"
  /\ wire' = [wire EXCEPT ![f].status = "uploaded", ![f].confirmed = TRUE]
  /\ unlisted' = unlisted \cup {f}
  /\ UNCHANGED <<batches, batchesFetch, batchesError, detailVars, uploadVars>>

-----------------------------------------------------------------------------
\* listBatches.
BatchesServed ==
  /\ batchesFetch.st = "asked"
  /\ batchesFetch' = [st |-> "served", got |-> [f \in Listed |-> batchFromProto(BatchOf(wire[f]))]]
  /\ unlisted' = {}
  /\ UNCHANGED <<wire, importTroubles, batches, batchesError, detailVars, uploadVars>>

BatchesArrive ==
  /\ batchesFetch.st = "served"
  /\ batches' = batchesFetch.got /\ batchesError' = FALSE
  /\ batchesFetch' = [st |-> "idle", got |-> Absent]
  /\ UNCHANGED <<wire, importTroubles, detailVars, uploadVars, unlisted>>

BatchesFail ==
  /\ ImportTrouble /\ batchesFetch.st # "idle"
  /\ batchesError' = TRUE /\ batchesFetch' = [st |-> "idle", got |-> Absent]
  /\ UNCHANGED <<wire, batches, detailVars, uploadVars, unlisted>>

\* The window gets the focus back, or the list is shown again.
BatchesAgain ==
  /\ ImportTrouble /\ batchesFetch.st = "idle"
  /\ batchesFetch' = [st |-> "asked", got |-> Absent]
  /\ batchesError' = (batchesError /\ batches # Absent)    \* without data, pending again
  /\ UNCHANGED <<wire, batches, detailVars, uploadVars, unlisted>>

-----------------------------------------------------------------------------
\* A batch is opened from the list: both of its queries start.
Open(f) ==
  /\ opened = NoFile /\ batches # Absent /\ f \in DOMAIN batches
  /\ opened' = f /\ detailFetch' = DetailStart /\ rowsAsked' = TRUE
  /\ UNCHANGED <<wire, importTroubles, listVars, uploadVars, detail, detailError, rows>>

\* getBatch, first round.
DetailBatchRead ==
  /\ detailFetch.st = "batch"
  /\ detailFetch' = [detailFetch EXCEPT !.st = "rest", !.batch = BatchOf(wire[opened])]
  /\ UNCHANGED <<wire, importTroubles, listVars, opened, detail, detailError, rows, rowsAsked, uploadVars>>

\* Mutant: the calls start together, none waits for the batch.
DetailSummaryReadEarly ==
  /\ "summary" \in detailFetch.left
  /\ detailFetch' = [detailFetch EXCEPT !.left = @ \ {"summary"}, !.summary = SummaryOf(wire[opened])]
  /\ UNCHANGED <<wire, importTroubles, listVars, opened, detail, detailError, rows, rowsAsked, uploadVars>>

\* getBatch, second round: two calls side by side.
DetailSummaryRead ==
  /\ detailFetch.st = "rest" /\ "summary" \in detailFetch.left
  /\ detailFetch' = [detailFetch EXCEPT !.left = @ \ {"summary"}, !.summary = SummaryOf(wire[opened])]
  /\ UNCHANGED <<wire, importTroubles, listVars, opened, detail, detailError, rows, rowsAsked, uploadVars>>

DetailReportRead ==
  /\ detailFetch.st = "rest" /\ "report" \in detailFetch.left
  /\ detailFetch' = [detailFetch EXCEPT !.left = @ \ {"report"}, !.report = ReportOf(wire[opened])]
  /\ UNCHANGED <<wire, importTroubles, listVars, opened, detail, detailError, rows, rowsAsked, uploadVars>>

\* One of the two fails and counts as absent.
DetailPartFails ==
  /\ ImportTrouble /\ detailFetch.st = "rest"
  /\ \E part \in detailFetch.left : detailFetch' = [detailFetch EXCEPT !.left = @ \ {part}]
  /\ UNCHANGED <<wire, listVars, opened, detail, detailError, rows, rowsAsked, uploadVars>>

DetailArrive ==
  /\ detailFetch.st = "rest" /\ detailFetch.left = {}
  /\ detail' = BatchDetail(detailFetch.batch, detailFetch.report, detailFetch.summary)
  /\ detailError' = FALSE /\ detailFetch' = DetailIdle
  /\ UNCHANGED <<wire, importTroubles, listVars, opened, rows, rowsAsked, uploadVars>>

\* The batch could not be read; what was shown before is hidden by the error.
DetailFail ==
  /\ ImportTrouble /\ detailFetch.st = "batch"
  /\ detailError' = TRUE /\ detailFetch' = DetailIdle
  /\ UNCHANGED <<wire, listVars, opened, detail, rows, rowsAsked, uploadVars>>

\* listBatchTransactions, read and shown in a step: nothing else waits for
\* it.  A failure shows nothing and says nothing.
RowsArrive ==
  /\ rowsAsked /\ rowsAsked' = FALSE
  /\ rows' \in {RowsIn(wire[opened]), rows}
  /\ UNCHANGED <<wire, importTroubles, listVars, opened, detail, detailFetch, detailError, uploadVars>>

\* The focus comes back to the open batch.  Nothing else refetches it: nobody
\* polls.
DetailAgain ==
  /\ ImportTrouble /\ opened # NoFile /\ detailFetch.st = "idle" /\ ~rowsAsked
  /\ detailFetch' = DetailStart /\ rowsAsked' = TRUE
  /\ detailError' = (detailError /\ detail # Absent)
  /\ UNCHANGED <<wire, listVars, opened, detail, rows, uploadVars>>

-----------------------------------------------------------------------------
\* The tag first: there is no file input without it.
ChooseSource(k) ==
  /\ \E f \in Files : uploads[f].st \notin {"done", "failed"}    \* bound: something to tag
  /\ sourceKind' = k
  /\ IF sourceKind = "none" THEN UNCHANGED importTroubles ELSE ImportTrouble
  /\ UNCHANGED <<wire, listVars, detailVars, busy, uploads>>

\* onPick.  `busy` is only shown: another file can be picked meanwhile.
Pick(f) ==
  /\ sourceKind # "none" /\ uploads[f].st = "none" /\ wire[f].status = "absent"
  /\ uploads' = [uploads EXCEPT ![f] = [st |-> "reserve", kind |-> sourceKind]]
  /\ busy' = TRUE
  /\ UNCHANGED <<wire, importTroubles, listVars, detailVars, sourceKind>>

\* createImportBatch: the batch exists from here on.
CreateImportBatch(f) ==
  /\ uploads[f].st = "reserve"
  /\ wire' = [wire EXCEPT ![f].status = "awaiting_upload", ![f].kind = uploads[f].kind]
  /\ uploads' = [uploads EXCEPT ![f].st = "put"]
  /\ UNCHANGED <<importTroubles, listVars, detailVars, sourceKind, busy>>

\* putUpload: the store keeps the object; core hears of nothing.
PutUpload(f) ==
  /\ uploads[f].st = "put" /\ uploads' = [uploads EXCEPT ![f].st = "confirm"]
  /\ UNCHANGED <<wire, importTroubles, listVars, detailVars, sourceKind, busy>>

\* confirmImportUpload: the measuring job is enqueued.
ConfirmImportUpload(f) ==
  /\ uploads[f].st = "confirm"
  /\ wire' = [wire EXCEPT ![f].confirmed = TRUE]
  /\ uploads' = [uploads EXCEPT ![f].st = "readback"]
  /\ UNCHANGED <<importTroubles, listVars, detailVars, sourceKind, busy>>

\* Mutant: the list is not told.
UploadedUnlisted(f) ==
  /\ uploads[f].st = "readback"
  /\ uploads' = [uploads EXCEPT ![f].st = "done"]
  /\ sourceKind' = "none" /\ busy' = FALSE
  /\ UNCHANGED <<wire, importTroubles, listVars, detailVars>>

\* The batch was read back: the list is invalidated, and the choice and the
\* busy mark are cleared, whatever else is in flight or was chosen meanwhile.
Uploaded(f) ==
  /\ uploads[f].st = "readback"
  /\ batchesFetch' = IF batches = Absent /\ batchesFetch.st # "idle" THEN batchesFetch
                     ELSE [st |-> "asked", got |-> Absent]
  /\ batchesError' = (batchesError /\ batches # Absent)
  /\ uploads' = [uploads EXCEPT ![f].st = "done"]
  /\ unlisted' = IF batches = Absent /\ batchesFetch.st = "served" THEN unlisted \cup {f} ELSE unlisted
  /\ sourceKind' = "none" /\ busy' = FALSE
  /\ UNCHANGED <<wire, importTroubles, batches, detailVars>>

\* Any of the calls fails: the choice stays, nothing is said, the list is not
\* asked for again, and what was reserved stays reserved.
UploadFails(f) ==
  /\ ImportTrouble /\ uploads[f].st \in {"reserve", "put", "confirm", "readback"}
  /\ uploads' = [uploads EXCEPT ![f].st = "failed"] /\ busy' = FALSE
  /\ UNCHANGED <<wire, listVars, detailVars, sourceKind>>

ImportsNext ==
  \/ BatchesServed \/ BatchesArrive \/ BatchesFail \/ BatchesAgain
  \/ DetailBatchRead \/ DetailReportRead \/ DetailSummaryRead \/ DetailArrive
  \/ DetailPartFails \/ DetailFail \/ DetailAgain \/ RowsArrive
  \/ \E k \in SourceKind : ChooseSource(k)
  \/ \E f \in Files :
       \/ \E to \in Committed : BatchMoves(f, to)
       \/ SentElsewhere(f) \/ Open(f) \/ Pick(f)
       \/ CreateImportBatch(f) \/ PutUpload(f) \/ ConfirmImportUpload(f)
       \/ Uploaded(f) \/ UploadFails(f)

ImportsSpec == ImportsInit /\ [][ImportsNext]_importVars

-----------------------------------------------------------------------------
ImportsTypeOK ==
  /\ \A f \in Files :
       /\ wire[f].report \in ValidationReport /\ BatchOf(wire[f]) \in ImportBatch
       /\ SummaryOf(wire[f]) \in DedupSummary
  /\ sourceKind \in SourceKind \cup {"none"} /\ opened \in Files \cup {NoFile}
  /\ rows \in {Absent, 0, RowsOf} /\ Mismatch \in BalanceMismatchDetail
  /\ detailFetch.st # "idle" => opened # NoFile

Chip(f) == IF batches # Absent /\ f \in DOMAIN batches THEN batches[f].state ELSE "unlisted"
DetailChip == IF detail = Absent THEN "unlisted" ELSE detail.batch.state

Forward(a, b) ==
  \/ a = b \/ a = "unlisted"
  \/ a = "pending" /\ b \in {"parsing", "rejected", "imported"}
  \/ a = "parsing" /\ b \in {"rejected", "imported"}

(* What a person is told of a file only moves forward, in the list and on  *)
(* its own screen, however refetches and the server's jobs interleave: a   *)
(* file said to be imported or rejected is never anything else again, and  *)
(* none goes back to pending.  imports.ts:18-24 and 46-59, over the table  *)
(* of core/internal/ingest/state.go.                                       *)
ChipsForward ==
  [][/\ \A f \in Files : Forward(Chip(f), Chip(f)')
     /\ Forward(DetailChip, DetailChip')]_importVars

(* The parts of an open batch agree though they are read at different      *)
(* moments: one shown imported counts its final rows and lists no error,   *)
(* one rejected for what it holds lists every error or points to the rest, *)
(* a balance is shown only where it does not close.  And with no           *)
(* fetch or failure outstanding, the list has every file sent from here as *)
(* the server has it, unless others moved it since the list was read, or   *)
(* the upload joined the list's first fetch after that was served.         *)
(* imports.ts:132-139, 174-179, Upload.tsx:23-34, BatchScreen.tsx.         *)
DetailAgrees ==
  /\ BatchScreen.page = "batch" =>
       /\ BatchScreen.chip = "imported" =>
            BatchScreen.counts \in {Absent, RowsOf} /\ detail.errors = 0
       /\ BatchScreen.chip = "rejected" /\ detail.reported /\ ~BatchScreen.reason =>
            BatchScreen.errors.shown + BatchScreen.errors.more = ErrorsOf
       /\ BatchScreen.balance # Absent => BatchScreen.balance.closing # BatchScreen.balance.declared
       /\ BatchScreen.reason => BatchScreen.chip = "rejected"
  /\ batches # Absent /\ batchesFetch.st = "idle" /\ ~batchesError =>
       \A f \in Files \ unlisted :
         uploads[f].st \in {"none", "done"} =>
           /\ f \in DOMAIN batches <=> f \in Listed
           /\ f \in Listed => batches[f] = batchFromProto(BatchOf(wire[f]))
=============================================================================
