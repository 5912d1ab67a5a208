# Vekst: TLA+ models, checks and proofs

Vekst turns bank statements and accounting exports into a management profit and
loss account. A Go core receives files, checks and imports them, has every row
classified by an engine and, where the engine has no answer, by a person, and
reports over the result. State lives in PostgreSQL and one object store; work
that is not answered inside a request runs as River jobs, at least once, on
several workers.

The parts whose correctness depends on the order of steps are modelled here: in
the core, the import pipeline, the transaction that writes a statement into the
ledger, classification and review, and sign-in; in the browser client, the
review, import and report screens, the shell around them and the charts. TLC
checks each on a small instance; eight proof modules hold theorems that TLAPS
checks for every instance.

## 1. Inventory

| Component | State | Operations | What is hard | What makes it correct |
|---|---|---|---|---|
| Batch lifecycle (`core/internal/ingest/state.go`) | `import_batches.status` | `CheckTransition` | every writer checks the table itself | no move outside the table, none out of a terminal state |
| Import pipeline (`core/internal/ingest`) | batches, receipts, raw rows, profiles, the uploaded object, jobs | create, upload, confirm, edit profile; measure, expire, validate, persist jobs | several transactions and store calls per job; duplicate confirms; retries; expiry against a late upload; the same file twice | rows written once and behind a receipt; one import per file; everything settles |
| Persist transaction (`ingest/persistjob.go`, `dedup`, `ledger`) | transactions, dedup skips, internal transfers and members | look up, insert, pair, commit, dismiss | overlapping files persisted at once under READ COMMITTED; two jobs reaching for one candidate; deadlock | each line accounted for; a row in one pair at most; pairs cancel |
| Classification (`classifyrun`, `classifier`) | runs with counters, classifications | open, page, ask, write a chunk, finish, fail | a chunk is computed from memory and unclassified rows read earlier; retry after an error | each row answered once; the counters add up; the run ends |
| Review (`review`) | decisions, vendor memory, classifications | resolve, undo | two reviewers on one counterparty; a resolve during a classification; undo during either | one live decision per counterparty; memory and answers agree with it; undo clears what it saw |
| Identity (`identity`) | sign-in flows, users, identities, sessions, two cookies | start, callback, sign-out, sweep | callbacks repeated, late or in another browser; two first sign-ins at once; half-finished provisioning | one session per sign-in, in the right browser, for the right account |
| Organisations (`tenancy`) | organisations, memberships | create | check and creation are two transactions | a second one only through a race |
| Job queue (River, external) | jobs, attempts | enqueue in a transaction, fetch, retry, discard | at-least-once | used as the environment of the jobs |
| Reports (`report`) | none of its own | P&L, selection, drill-down | several statements at READ COMMITTED, with imports and classifications landing between them | the figures of one report are one account; a row with two live answers is counted twice, and that is all that is |
| Statement parsing and validation (`ingest`, `money`, `normalize`) | none | parse, balance and completeness checks | decimal widths, dates, missing columns | the accepted rows reproduce the statement |
| Review screen and badge (`web/src/app/ReviewScreen.tsx`, `AppLayout.tsx`, `categoryTree.ts`, `data/review.ts`) | two cached queries of one queue; index, choice, filter, calls in flight | move, browse, choose, decide; refetch, invalidate, focus | the list changes under a standing choice; answers older than a decision; keys that work while an error hides the list | a category is filed only for the group it was chosen under; list and badge settle on the queue |
| Import screens (`Upload.tsx`, `ImportsScreen.tsx`, `BatchScreen.tsx`, `data/imports.ts`) | the list, one open batch in four calls, an upload in three | pick, create, put, confirm; open, read the parts | the batch moves between the reads | a chip never goes back; the parts of an open batch agree |
| Report screens (`ReportScreen.tsx`, `PnlTable.tsx`, `DrilldownPanel.tsx`, `charts/*.tsx`, `data/report.ts`) | one report, one open figure | read, derive tiles, strip, months and cards; open a figure | report and figure are read at different moments; the basis once more for each | one account in every presentation, rows with two live answers reckoned apart; a figure is the cell it was opened from |
| Shell (`router.tsx`, `AppLayout.tsx`, `data/session.ts`, `ui/period*.ts`) | the session in module state, the range, theme and locale | links, sign-in and out, first organisation, period choice | the tenant is set during render, beside queries that read it; the cookie changes from other tabs | screens call for the organisation of the person they show; a range reads as itself |
| Charts (`web/src/components/charts`) | phase, domain and path tweens, pointer and tooltip | props, timers, animations that end, frames, pointer | each waits for a callback another may have made moot | rests in the phase of its status; the tooltip is over the nearest datum; marks stay inside and apart |

`PROJECT.json` lists every component of the repository, the unmodelled ones
with the reason, and the hazards of the code line by line.

How they interact. A request inserts a job in the transaction that makes it
due (confirm → measure; measure → validate; validate → persist; persist →
classify). The persist job and the classify job meet only through `transactions`;
the classify job and the reviewers share `classifications` and the vendor
memory; a session names the user whose membership every other request is bound
to. The browser is told of nothing: it learns what jobs and other people did when
one of its queries is asked again, by a focus, a return to a screen or an
invalidation after a call of its own.

## 2. Modules

| Module | Models | Composes or uses |
|---|---|---|
| `BatchLifecycle` | the transition table as an abstract specification | |
| `IngestPipeline` | batches from reservation to the ledger, one process per River worker | implements `BatchLifecycle` (`Lifecycle == INSTANCE BatchLifecycle`) |
| `LedgerPersist` | the persist transaction, statement by statement, for several batches | opens up `IngestPipeline!PersistCommit` |
| `ClassifyReview` | classify jobs and reviewers over the shared tables | takes over the job `IngestPipeline` leaves queued |
| `Accounts` | sign-in, sessions, sign-out, sweep, organisation creation | |
| `WebPicker`, `WebReview` | the category tree; the review screen and the badge beside the queue | `WebReview` extends `WebPicker` |
| `WebImports` | the import screens beside batches that the server moves | the server's moves are those of `BatchLifecycle` |
| `WebShell` | who is signed in, the tenant, the period, the preferences | |
| `WebReport` | a report and an open figure, read statement by statement | the statements of `core/internal/report` as the browser's server |
| `WebLoading`, `WebMotion` | what a chart draws in each phase; a chart over time | `WebMotion` extends `WebLoading` |
| `WebScales`, `WebBars`, `WebTicks`, `WebTooltip`, `WebMoney` | what a chart draws and says, as operators over its props | |
| `WebDrawing` | one drawing after another | the five above and `WebLoading` |
| `Web` | the browser: each screen from the page load that opens it | all of the `Web` modules |
| `MC*` | instances for TLC; `MCTransferOrder` runs two copies of `LedgerPersist` | |
| `*Proofs` | theorems and proofs about the module they extend | |

### IngestPipeline

A batch is a column entry of each variable: `status`, `failure`, `sha`,
`profiled`, `resolved`, `receipt`; `written` counts the persist transactions
that committed its rows; `object` is what the store holds under its key. A
worker is a record with a program counter: each transaction and each
object-store call of a job is one step, because a job holds nothing locked
between two of them.

| Action | Code |
|---|---|
| `CreateImportBatch`, `PutObject`, `ConfirmImportUpload`, `UpdateImportProfile` | the RPCs and the browser's presigned PUT |
| `MeasureReadStatus` … `MeasureRecord`, `MeasureRecordRefused` | measure job: read status, stream and hash, delete an oversized object, look the hash up, write |
| `ExpireAbandon`, `ExpireDelete` | expire job |
| `LoadBatchAndProfile`, `ValidateParse`, `ValidateCommit`, `ValidateRefused` | validate job |
| `PersistParse`, `PersistCommit`, `PersistLosesFileOnce`, `PersistUndatable` | persist job |
| `Fail` | each worker's `fail`, a transaction of its own |
| `Fetch`, `Ack`, `AttemptFails`, `Retry`, `Discard` | River |

A file is a model value; which files are oversized, empty, unparseable under
given parameters or undatable are constants. The browser may PUT `MaxPuts` times
under the same URL. `Timely` keeps the measurement of a batch and its expiry apart
in time; the code does not, and the runs that ask what their race does set it
FALSE.

### LedgerPersist

`ledger` holds transactions named by batch and line; a line's hash is the
content key and the number of equal lines before it in its file, as in
`dedup.Partition`. `Begin`, `Lookup` (per line), `Insert`, `PairRead`,
`PairNone`, `PairWrite`, `Commit` are the statements of the transaction in
order. What others committed is visible at once (READ COMMITTED); what this
transaction wrote is not visible to others until `Commit`. A unique key held by
an open transaction makes the second writer wait (`WaitsFor`), and a cycle of
waits ends in `DeadlockVictim`. `PairRefused`, `CommitRefused` and `Crash` roll
back; `FailAlreadyImported` marks the batch. `Nearest` is a set: equal
candidates are ordered by random ids. Amounts are of one currency: the persist job
fills in no base amount (`persistjob.go:248`), and the transfers across currencies
that the specification asks for (`dedup-and-matching/spec.md:112`) are not covered. `base` is a history variable: the batches
already imported when the transaction began.

`IngestPipeline` proves that a batch never has two persist jobs
(`OnePersistJob`), which is why a batch has one attempt at a time here. Rows
with an undatable date never reach this transaction, and the account exists
because validation resolved it. The inequality of ids in the candidate query
follows from the inequality of accounts.

### ClassifyReview

`rows` is the append-only `classifications` table, `retracted` those with
`retracted_at`; a row is live when it is not retracted. A worker opens a run
(`OpenRun`), reads vendor memory (`RequestContext`), then pages by keyset
(`ReadPage`), calls the engine (`AskEngine`), and writes the chunk in two steps:
`WriteChunkCheck` is the deferred one-live trigger, `WriteChunkCommit` the
commit. `FinishRun` and `FailRun` end it. A reviewer's `Resolve` is read, check
and commit (`ResolveRead`, `ResolveCheck`, `ResolveCommit`, `ResolveRefused`);
`Undo` is `UndoRead`, `UndoRetract` and `UndoCommit` or `UndoRefused`. The UPDATE
of `UndoRetract` takes the answers live when it runs (`held`); a chunk that had
passed its check may commit before the undo does, so the two are steps of their
own. The memory delete, the stamp and the commit are one: between them nobody
else writes what they touch. An UPDATE waits while another undo holds one of its
answers.

The engine's layers are kept (vendor memory, then rules); what a rule answers
for a row is a constant. The role check in front of a resolve is left out: a
`Reviewers` member is a person who passed it.

### Accounts

`flows`, `users`, `identities`, `sessions` and `orgs` are the tables; `jar` is
each browser's two cookies; `req` is the request in the hands of the server,
which runs at most one transaction per step. `resolveOrProvision`'s transaction
alone is opened to statements (`FindIdentity`, `InsertUser`, `Bind`), because two
of them can meet on the address key or the subject key. `Lost` is an answer that
never reaches the browser, `Fails` a database or provider error, `Expire` the
sweep, `Tick` the clock.

Merged on purpose: the code exchange with `Consume` (the provider's claim is an
input there, a failed exchange is `Fails`), and the session lookup with the
membership lookup in `RequestOrganisation` (a session's user never changes). One
clock stands for the server's and the database's. Cookies do not expire in the
browser; the server refuses them all the same. A callback without a flow cookie
and a sign-out without a session cookie change nothing and are not actions.
`last_seen_at` and `locale` are left out.

### The browser client

A query of react-query is three variables: what is cached, the fetch (`idle`,
`asked`, `served`, with what was read of the server when it was served) and the
error shown. *Served* and *arrives* are two steps, so an answer may be older than
anything that happened in between. `Refetch` joins a fetch in flight, `Invalidate`
drops it where there is data to fall back on. Retries inside one fetch are one
step, since they end in an answer or in the last failure (`...Fail`).

| Module | State | Actions | Code |
|---|---|---|---|
| `WebReview` | `queue` (the server's), `groups`, `badge`, `index`, `selected`, `browsing`, `showAllSides`, `calls` | `Others`; `GroupsServed` … `BadgeFail`, `Refocus`, `Leave`, `Return`; `Move`, `Browse`, `Choose`, `Escape`, `ToggleSides`; `Decide`, `Resolve`, `Resolved`, `Refused`, `RefreshBadge` | `ReviewScreen.tsx`, `data/review.ts`, `AppLayout.tsx:66`. `Scoped` is the effect on the group's key |
| `WebPicker` | `cats` | none but another list (`Relist` in `Web`) | `categoryTree.ts` |
| `WebImports` | `wire` (the server's batches), the list, one batch open with report, summary and rows, `uploads` | `BatchMoves`, `SentElsewhere`; `Batches…`, `Detail…`, `RowsArrive`; `Pick`, `CreateImportBatch`, `PutUpload`, `ConfirmImportUpload`, `Uploaded`, `UploadFails` | `data/imports.ts`, `Upload.tsx`, `ImportsScreen.tsx`, `BatchScreen.tsx` |
| `WebShell` | `account`, `founded`, `user`, `session`, `summary`, `search`, `remembered`, `stored`, `theme`; `met` (history) | `OpenLink`, `Navigate`, `ChoosePeriod`, `SignIn`, `UserServed` … `SummaryTry`, `CreateOrganisation` …, `SignOut` …; other tabs: `CookieChanges`, `FoundedElsewhere`, `StoredElsewhere` | `router.tsx`, `AppLayout.tsx`, `data/session.ts`, `ui/periodPreference.ts` |
| `WebReport` | `imported`, `classified` (live answers, a row may have several), `report`, `panel` with what each statement saw | `Import`, `AnswersLand`, `AnswersTaken`; `ReportBasisRead`, `ReportServed` (one statement at a time), `ReportArrive`; `OpenCell`, `PanelBasisRead`, `PanelReportRead`, `PanelTotal`, `PanelArrive`, … | `data/report.ts`, `ReportScreen.tsx`, `app/charts`, `core/internal/report/service.go`, `db/query/report.sql` |
| `WebMotion` | the props, `chart` (phase, timer, domain, tween, path), the pointer and the tooltip | `SetStatus`, `SetData`, `Replay`, `Retune`; `RevealTimer`, `notify…`, `DomainFrame`, `DomainSettled`, `PathSettled`, `TooltipFrame`; pointer events | `use-chart-phase-orchestrator.ts`, `use-animated-y-domains.ts`, `use-chart-interaction.ts`, … |

The shell is one page; the cookie and the storage are the browser's. Another tab
may sign out, or in as anybody, found an organisation or store a range at any
step, and this page learns of it with its next answer about the user or its next
load. A person's organisation is named after them, so a session of somebody
else's is told apart from one's own.

A report's statements join rows to their live classifications (`Joined`): a row
comes once for each. A landing answers any set of rows (`Chunks`), a row that
has an answer included, since the commit check does not see a transaction beside
it (run `classify_two_live`), and an undo takes back the answers its UPDATE saw
and no later one (*Known differences*).

`Web` puts them side by side. A tab shows one screen at a time, with queries of
its own, so `screen` names the one that is followed and the others stand still:
the states of a product of screens would say nothing more. A chart counts as a
screen twice, for what it does (`motion`) and for what it draws (`drawing`).
Drawings are computed whole from props, so `WebDrawing` has one variable, the
props, and its properties are about operators: what the operator of each part
returns must lie where a reference definition beside it says.

Numbers are exact: money in minor units, pixels and positions as integers on a
scale fine enough for the divisions that occur. Wording, icons, CSS and the
fixtures of `data/*` are left out. The home screen's cards appear as links.

## 3. Runs

| Run | Instance | Distinct states | Checks |
|---|---|---|---|
| `ingest_overlap` | 1 batch, 4 kinds of file, 3 workers, 2 PUTs, 2 confirms, 1 lost attempt, expiry at any time | 1,692,013 | `TypeOK`, `RowsOnceAndReceipted`, `ClassifyOwed`, `MeasuredPastUpload`, `FailedHasCode`, `RowsNeverDisowned`, `OffTableIsStale` |
| `ingest_lifecycle` | 2 batches, 2 files, 2 workers | 122,065 | `FileOnce`, `LifecycleTable` |
| `ingest_settles` | 1 batch, 4 files, 2 parameter sets, 1 profile edit, fair | 4,756 | `LeavesAwaiting`, `Settles` |
| `ingest_double_confirm` | 1 batch, 2 confirms | violation | `LedgerRowsMeanImported` |
| `ledger_persist` | 3 batches over 6 uploads, window 3, 1 crash | 730,568 | `TypeOK`, `LinesAccounted`, `DuplicatesRaced`, `OnePairEach`, `PairsCancel`, `MissedPairsRaced` |
| `transfer_order` | 3 batches persisted twice | violation | `PairsOrderFree` |
| `review_races` | 1 batch of 2 rows, 1 worker, 2 reviewers, 2 decisions | 340,963 | `OneLiveDecision`, `DecisionStands`, `MemoryIsTheDecision`, `UndoClearsWhatItSaw` |
| `classify_overlap` | 3 rows in 2 batches, 2 workers, pages of 1, 1 reviewer, 1 lost attempt | 2,759,132 | `TypeOK`, `EngineAnswersOnce`, `RunAccounts` |
| `classify_retry` | an engine that is unavailable, fair | violation | `RunEnds` |
| `classify_two_live` | 1 worker, 1 reviewer | violation | `OneLive` |
| `accounts` | 2 browsers, 2 requests, 4 claims of 2 people, 2 flows, 2 organisations | 2,062,157 | `TypeOK`, `OneSessionPerFlow`, `SessionIsTheSigners`, `AccountsWhole`, `OrganisationsRaced`, `SessionEnds` |
| `web` | every screen and 1,600 drawings, see below | 1,067,934 | `WebTypeOK`, `ChoiceScoped`, `QueueSettles`, `TreeWhole`, `DetailAgrees`, `ReportAgrees`, `ShellGate`, `ChartGeometry`, `ChartMotion`, `ChipsForward` |

Why the bounds are enough for the question each run asks:

- `ingest_overlap`: two confirms give two measurements and so two validate jobs
  that can meet; the third worker lets expiry run beside both. One lost attempt
  makes each job run twice over any step of itself, and the second PUT changes
  the object under any of them. Every race the code allows is in this run.
- `ingest_lifecycle`: two batches are what the file-once rule is about. It is the
  run of the ordinary course: one PUT, one confirm, no attempt lost and no window
  that closes under a measurement. That the pipeline then implements the table
  (`LifecycleTable`) is true of that course only; `FailedHasCode`,
  `RowsNeverDisowned` and `OffTableIsStale` in `ingest_overlap` say what holds
  outside it.
- `ingest_settles`: `MaxFailures` is 0 for the same reason (a measurement that
  runs again after a lost acknowledgement acts like a second confirm), and every
  date is readable (see *Known differences*).
- `ledger_persist`: two payments out of one account, a file that repeats one of
  their lines, the money coming in on two other accounts in opposite line
  orders (so that two jobs can wait for each other), a row outside the window, a
  row of amount zero, and an upload of another source kind. Three batches are
  two racing and one before or after.
- `review_races` and `classify_overlap`: two reviewers, two workers or one of
  each is every pair of actors that can meet on a row; a page of one row makes
  every page boundary occur.
- `accounts`: the clock reaches 3 with lifetimes of 1, so a session is issued,
  expires and is swept. The claims are a person with an address, the same person
  after giving it up, another person who now has it, and an unverified address.
- `web`: *review*: a queue of two and a third to come; the page asked for is
  more than core gives, which answers with two, so the list and the badge differ; two decisions in flight, so one answers under the
  next group; one trouble (another reviewer's decision or import, a sign that
  turns, a failure, a focus, a screen change, a second decision) is one event
  the screen did not expect. *Picker*: all 128 subsets of seven leaves with
  chains, forks, mixed sections and a code that does not fit its path.
  *Imports*: one file, read in four calls, each of which may fall before or after
  any move of the batch. *Shell*: two people, of whom symmetry makes one the first
  on the page; the month 13 with the first page loaded in month 12, so ranges cross
  a year's end and run the wrong way round; two tries of the badge in place of
  four; and two troubles (a focus, a failure, a page load, a sign-in, a toggle, a
  month's end, a step of another tab), so that another tab signs in as somebody
  else and the focus that finds out follows. *Report*: two batches of both sources
  with every kind of line and bucket, transfers, both signs and a row before the
  range, opened empty, or imported and answered with three rows answered twice;
  one landing (an import, an answer to three rows, a second answer, an undo) falls
  between any two statements of the report and of the open figure. The cells are a
  cost line with a doubly answered row and a computed line. An open figure of the
  other basis, whose join repeats a row the report's bucket counts once, is covered
  by the proof only.
  *Motion*: seven placements (bar; line, as it comes or with one of animation,
  preview or pulse, the grid's tween, or that and the line's own move turned
  off), data of
  three points, one and none, two changes. *Drawing*: props at the edges of each
  part (nothing, one point, all zero, negative values, more marks than pixels).

Deadlock checking is off in all runs: each system may rest once its bounded work
is done.

**Fairness** (`FairSpec` of `IngestPipeline` and `ClassifyReview`). A worker that
can take a step takes one (weak fairness per worker): a Go worker never waits for
another except inside PostgreSQL. River fetches in schedule order, so a job that
is waiting again and again is fetched (strong fairness of the fetch). A job has a
bounded number of attempts, so one that errs on each is discarded in the end
(strong fairness of `Discard`). Requests have no fairness: nobody need upload,
confirm or review. The browser has none either: nothing polls, so nothing on
screen need ever move, and its properties say what holds once no call is under way.

## 4. Findings

Four runs show the code doing something other than a comment or document says.

1. `ingest_double_confirm`. The measurement reads the status in one transaction
   and writes `uploaded` in a later one without a status predicate, so a second
   confirm's measurement takes an imported batch back to `uploaded`
   (`ingest/measure.go:81`; `state.go:48` and `measure.go:76` say otherwise).
   The ledger itself is not harmed: `RowsOnceAndReceipted` holds in that setting.
2. `classify_retry`. A retried classify job meets the unique key of the run it
   opened itself, takes it for another job's and succeeds; the run stays
   `running` (`classifyrun.go:181` against `:199` and `docs/ARCHITECTURE.md:190`).
3. `classify_two_live`. The one-live trigger counts what its transaction can
   see; a resolve and a chunk that commit together each see one row
   (`00007_transaction_ledger.sql:363` against `:328`, `classifyrun.go:157`).
4. `transfer_order`. Pairing is greedy in import order, so two orders leave
   different pairs (`dedup/transfer.go:78` against the dedup specification's
   line 131).

### Known differences without a run of their own

Where the models take the step the code takes and a comment says otherwise:

- Expiry decides on the status in one transaction and deletes the object after it.
  A measurement that read `awaiting_upload` before and records after the decision
  leaves an uploaded batch without a source (`ingest/expire.go:73` against `:37`
  and `:39`). `IngestPipeline` takes these steps unless `Timely`; no property
  claims that the source is kept.
- The presigned URL can be used again while it lasts, so the object is not
  immutable: the rows that land may not be those of the bytes that were hashed and
  compared (`blob/s3.go:88` against `ingest/measure.go:79`). `PutObject` may occur
  twice in `ingest_overlap`.
- A chunk past its count of live rows commits between an undo's UPDATE and the
  undo's commit: its answer is live on a row that was to have none
  (`review.go:603` against `:566`). `UndoRetract` and `UndoCommit` are two steps, and
  `UndoClearsWhatItSaw` says what the undo does keep.
- The report joins live classifications, so a row that kept two of them (finding
  3) is in two lines, or twice in one, while the strip counts it once
  (`db/query/report.sql:48` against `report/pnl.go:116`, which has `Compute` assert
  the opposite; it is given sums per category and cannot). `ReportAgrees` states
  the accounts that hold all the same, with the surplus as a term of its own.
- The tenant of the data modules is cleared by this page's own sign-out only.
  Another tab signs in as a person without an organisation, a focus asks for the
  user again, and the first-run screen is shown with the session of the person
  before still set (`AppLayout.tsx:99` against the comment above it: "the session
  is never set"). `ShellGate` says what does hold: such a session is never that
  person's, and no screen of the app is on the page then.
- The review screen asks for 500 groups; core takes any limit above 200 for none
  named and answers with 50 (`server/review.go:50` against `data/review.ts:44`:
  "The whole queue arrives on one page"). A longer queue is shown short, beside a
  badge that counts all of it, until decisions shorten it; `QueueSettles` allows
  for it.

Met while modelling, and left out of the instances named:

- Persist parses dates with one layout, validation with the profile's
  (`persistjob.go:234`, `validate.go:88`): with `Undatable` non-empty, `Settles`
  fails. `ingest_overlap` includes such files.
- A profile edited between validate and persist changes what is imported
  (`persistjob.go:64`).
- A classification keeps using the vendor memory it read at its start
  (`classifyrun.go:245-258`).
- A counterparty that was skipped or decided before refuses a later resolve of
  its new rows (`review.go:75`).
- Overlapping files persisted at once import a row twice; `DuplicatesRaced` says
  it happens only then. Creating an organisation twice at once makes two
  (`tenancy.go:112` against `docs/ARCHITECTURE.md:729`); `OrganisationsRaced`
  says the same of it.
- A person's own concurrent first sign-in can be refused as a taken address
  (`signin.go:266`), and an older tab's refusal clears a newer tab's flow cookie
  (`signin.go:147`).
- The P&L does not leave paired transfers out (`report.sql:48` against
  `transfer.go:49`), and reads in several statements (`report/service.go:144`).
- An override of a validation reads and writes in two steps
  (`validationreport.go:126`).

In the browser, met while modelling and kept in the models as the code has them:

- Reports. Core sends a share of revenue times a hundred
  (`report/pnl.go:397`, `pnl_test.go:284`) and `PnlTable.tsx:58` formats it as a
  ratio, a hundred times too large. A cost is shown positive and its open figure
  in the stored sign; a computed line's open figure has no currency and shows a
  dash. `MoneyFlowChart.tsx:26` leaves credits out of the diagram, so its
  remainder is the net result only without them; `RevenueExpenseChart.tsx:47`
  strips a minus. An open figure asks for one page of 500 rows (`report.ts:465`).
  Its basis is derived once more (`:450`), beside the report's own (`:353`).
- Review. Keys decide while an error hides the list (`ReviewScreen.tsx:223`, `:277`).
  A failed decision is shown under whatever group is on screen by then (`:178`).
  A group whose sign turns in a refetch keeps its choice armed, unseen (`:121`,
  `:360`): `ChoiceScoped` names this case and excepts it.
- Imports. `imports.ts:147` says its caller polls; nothing does. A reason is shown
  for a balance mismatch only (`i18n.ts:176`). A failed upload says nothing
  (`Upload.tsx:23`), and one whose invalidation joins a list fetch already served
  is missing from the list until the next one. Counts of duplicates read before
  the rows are written are zero.
- Shell. The badge is asked for before the tenant is set (`AppLayout.tsx:69`,
  `:96`) and may use up its tries. Sign-out drops the session before its call
  (`auth.ts:11`). After another tab signed in as somebody else, the badge and the
  queries of the person before stay until they are asked again; calls with the
  old organisation are refused by core. The two ends of a range are stored one by
  one (`periodPreference.ts:83`), so two tabs storing at once may leave one end of
  each, which the model leaves out. A link may put a range's ends the wrong way round
  (`router.tsx:140`).
- Charts. A chart rests in no phase of its status in three cases (`Stranded`): it
  leaves loading without a pulse to end, goes to loading with one point or a
  preview and so nothing to conceal, or has its duration changed during a tween
  of the scale. A line whose data change during that tween keeps its old shape;
  an unchanged tooltip key keeps old figures. Stacked bars are scaled by the
  largest single value (`bar-chart.tsx:297`), horizontal stacks have wrong
  widths (`bar.tsx:287`), thinning may keep one point too many
  (`decimate-time-series.ts:39`), and month labels repeat beyond a year
  (`NetResultChart.tsx:116`, `CashFlowChart.tsx:161`).

## 5. Proofs

Every theorem below is about the unbounded module: any sets of batches, workers,
reviewers, rows, files and requests, and any values of the bounds, under the
assumptions named in the module that declares the constants.

**`IngestPipelineProofs`**: `TypeCorrect`, `FileImportedOnce`, `RowsWrittenOnce`,
`ImportOwesClassification`, `MeasuredBeforeUse`. The invariants are not inductive:
nothing in the status alone stops a second commit, because a late measurement may
move it. `PipelineInv` adds what does: a batch has at most one persist job, queued
or running (`OnePersistJob`, from the receipt's uniqueness), that job stands
behind an accepting receipt (`PersistBehindReceipt`), once rows are written it is
at its start or its end and the status is never `validated` again
(`WrittenIsDone`), and every job past measurement is of a measured batch
(`MeasuredBehindJobs`).

`FailedBatchesAreCoded` (`FailedHasCode`), `RowsAreNeverDisowned`
(`RowsNeverDisowned`) and `OnlyStaleWritesLeaveTheTable` (`OffTableIsStale`) say
what holds when measurements, expiry, repeated confirms and PUTs and lost attempts
cross; none of them assumes a bound or `Timely`. The first rests on
`FailsWithCode` (who comes to `Fail` brings a code, and expiry never comes there),
the second on `PipelineInv` (rows in the ledger have a receipt, so no validation
writes again), the third on `LegalMoves` (the moves of the table and of the chains
a stage commits the end of) and a case for each writer of a status
(`StatusWriters`): where the write is off the table, the status is none of those
in which that job goes on past its read (`Proceeds`).

**`LedgerPersistProofs`**: `TypeCorrect`, `LinesAreAccounted`,
`DuplicatesNeedARace`, `PairedOnce`, `PairsAreTransfers`, `MissesNeedARace`.
`LedgerInv` is the type invariant, what holds of the committed tables
(`StoreInv`), that the pairs of two open transactions are apart (`Apart`), and
for each batch what its attempt knows where it stands (`WorkInv`): `Loop` (the
lines behind the loop are kept or found), `Hashes` (a kept line's hash was in no
batch of `base`), `Matches` (a found line names a stored row), `Missed` (a row
passed over had no free candidate among the batches of `base`).

**`ClassifyReviewProofs`**: `TypeCorrect`, `EngineOnce`, `DecisionUnique`,
`MemoryFollows`, `DecisionsStand`, `UndoClears`, `RunsAccount`. Three
strengthenings, since the two halves share only the ledger. `RunInv`: a worker inside a run is its only worker
and the run is open, stored engine answers lie behind its cursor, its page in
front of it. `ReviewInv`: a resolve that passed its check has the key to itself,
human rows are exactly those of decisions and live while they stand, and an open
undo has read every row of the decision it names and holds, past its UPDATE, the
decision's answers. `UndoClears` (`UndoClearsWhatItSaw`) follows: a human answer
left on such a row would be of another decision that stands on the same key. `CountInv` is the argument behind
`RunAccounts`, by cardinalities of subsets of a batch: stored engine answers are
as many as `classified_count` (`CountersTyped`); both counters together are at
most the rows up to the cursor (`CountedOnce`), so a chunk, whose rows lie
between the cursor and the page's end, has room for its own; a page leaves out
no unanswered row (`PageLeavesNone`); and so the unanswered rows up to the
cursor are at most `review_count` (`UnansweredCounted`), which at the end of the
keyset is all of them. Reviewers only add answers, so they can make rows fewer
and never more. The lemmas about sums and bounds of cardinalities (`MoreRows`,
`OnePerRow`, `MoreAnswers`) rest on the finite-set theorems of the library; `Txns`
is finite, as a ledger is, and so is every set counted.

**`AccountsProofs`**: `TypeCorrect`, `SignInOnce`, `SessionsAreTheSigners`,
`AccountsAreWhole`, `SecondOrganisationNeedsARace`, `AccessEnds`. `AccountsInv`
adds that a flow is in one place only (the table, or one request that consumed
it, or a session), that a browser's cookies were set for it, that a request
between two steps of the provisioning transaction carries what it read
(`SignInInv`), that two open transactions never hold one address
(`AddressesHeldOnce`), and that an organisation's creator is recorded with what
existed when its memberships were read (`OwnersApart`).

**`WebDataProofs`**, the review screen: `ChoiceKept` and `QueueKept`, for every queue,
page size and number of decisions in flight. `Inv` adds to `ChoiceScoped` that a screen not
shown holds no choice (`Away`) and that what is listed is a list of groups
wherever it is kept; the argument is `ScopedKeeps`, used for the three ways the
group on screen can move. `SettleInv` says why the list and the badge settle:
unless a decision is still to be followed by a refetch (`ListDue`, `BadgeDue`) or
something was missed (`unasked`), what a fetch carries and what is shown without
one are the queue's own (`ListFresh`, `BadgeFresh`). An invalidation that joins a
fetch would break the first, but nothing is decided before there is a list
(`ListFirst`).

The import screens: `ImportsInOrder` and `ImportsForward`. A chip alone is not inductive, since a fetch may carry something older than the screen shows. The
invariant orders every reading of a batch: shown, carried, current.
`ImportsAgree` (`DetailAgrees`) adds `AgreeInv`: what the server keeps beside a
batch follows its status (`WireTells`); a fetch that read a status which ends a
file read its report and its summary under that same status, since it stays
(`FetchTells`, `EndWords`); and a list that was served has each settled file as the
server has it, because a move by anyone else puts the file in `unlisted` and a
move of one's own ends in an invalidation (`ListTells`).

The picker, for every finite list of categories, however deep and whether or not
codes and names line up (`PickerTree`, which `TabTree` uses). Everything the tree
says of a node is said of the way down to it: the i-th node of the way to `n` is the
branch of its key cut to `i` parts, or `n` itself (`Way`), so hanging under a
node, being its child and being its leaf are each an equation between ways
(`UnderBranch`, `BelowIs`). What `Folded` chooses is then the first node of some
way down that is a leaf or has not exactly one child (`FoldOf`): there is such a
node, taken on the way to a leaf (`FoldsSome`), and whichever is chosen is of this
form (`FoldsDown`). A chain has one way out, by the least place at which a
leaf's way would leave it (`FoldKeeps`), so folding keeps what lies below, and a
leaf lies behind the one option its way goes through (`BehindOne`). Where
folding stops at a branch, that branch has two children at least, and these
fold into different nodes, since a node is on the way to what it folds into
(`RealChoice`).

**`WebReportProofs`**, the shell: `ShellKept`, `GateKept` (`ShellGate`) and `ShellTyped`,
for any people and months, with other tabs changing the cookie, the founders and
the storage at every step. What core would answer by now says nothing of what is
on the page, so the invariant is about what the page was told. `TenantKnown`: who
is shown, whose organisation is set and whose queue the badge counts are among
those a served answer named (`met`). `TenantShown`: where screens are on the page,
the session is the organisation of the person they show, unless a sign-out
cleared it, because every step that can bring a screen onto the page is followed
by a render that sets it (`RenderedStep`, `ArriveStep`). The three copies of the
range (address, header, storage) stay months in order (`RangeInv`).

The report: `ReportKept`, `ReportTyped` and `ReportNumbers` (`ReportAgrees`), for
every finite set of rows in each batch and any run of months. The arithmetic
comes first. A sum is the community modules' fold over a set, which is a
recursive function on subsets; that it may be taken in any order, one element
at a time, is proved from that definition by the smallest subset that would
disagree, and with it that a sum over two disjoint parts, over a part that
contributes nothing, or of a sum of functions is what it should be. From these
come the parts of `FiguresAgree`: an answer lies in one place, so lines and
buckets add up to the rows as they are joined; of the several of one row one is
kept and the others are `Again`, so the joined rows make the money and that
surplus (`RowsTotal`, by `RowsOnce` and `SameTotal`); the chain of computed lines is the sums of the
lines it names; a total is the sum of its months, and one month's closing is
the next one's opening; what the cost charts keep and fold is the costs; the
remainder of the diagram is the net result less the credits it leaves out.
`ReportInv` is what makes them apply: what a fetch carries, what the page holds
and what the open figure shows are always answers computed of what the
statements saw, each at a moment of its own, and where `ReportAgrees` compares
two of them it says that the moments were the same.

**`WebMotionProofs`**: `MotionInvariant` and `ChartsRest` (`ChartMotion`). The
property speaks of a chart at rest, so it says nothing of the steps in between.
`LineShape` does: the phase of a line decides its status, whether it is loaded,
its timer, its plot and whether a tween runs, and where no tween runs a live line
is on the scale of its data, or its tween is headed there. One lemma for each
way to change a chart (`StatusShape`, `DataShape`, `RevealShape`, `TweenShape`,
`SettledShape`, …) carries it from phase to phase, and `LineRests` reads the three
places of `Stranded` off it. `TipTells` does the same for the tooltip: of a live
chart, what is due in the next frame, or shown with no frame due, is what the
pointer last seen resolves to in the data of now; of a chart that is not live it
asks only that a tooltip once had a pointer, and `Anchor` restores the rest when
the chart is live again (`Reanchors`).

**`WebProofs`** is the tab. `TabShows`: it implements each screen that shares
nothing with another (`ImportsSpec`, `ShellSpec`, `ReportSpec`, `MotionSpec`), because
a step of the tab is a step of the screen shown or leaves it alone; so what the
screens keep the tab keeps (`TabForward`, `TabAgrees`). The review screen does
share something, the list of categories, which the picker is given anew; off
screen its queue stands as it was opened, with nothing chosen and nothing in
flight (`QueueHeld`), and that does not depend on the list (`TabScopes`,
`TabSettles`). `OnTab` adds what the picker and a drawing were given, for `TabTree`
(`TreeWhole`) and `TabTyped` (`WebTypeOK`), which puts the screens' types
together (`ReviewTyped`, `ImportsTyped`, `ShellTyped`, `ReportTyped`, `ChartsTyped`).

`TabDraws` is `ChartGeometry` of the five kinds of drawing that are arithmetic and
cases alone, for all props. A line in a phase: it is drawn or pulses, never both,
it does not dim for its own row of the legend, and its dashes begin within it
(`PhasesDrawn`). Markers come in the order of the reveal (`MarkersInOrder`): a
larger place gives no smaller delay, since whole division keeps order (`DelayOf`).
The bars of a chart to come lie side by side in their plot, whatever heights and
signs are drawn (`SkeletonsInside`). A column of squares ends where its bar ends
when it is to fit, and within half a step otherwise (`SquaresInside`), because as
many squares as fit leave a gap that is not negative (`RoomForAll`), and rounding
to whole steps is off by half of one at most (`NearestStep`). Bars beside each
other keep to their slot, and a tooltip to its chart (`BoxesInside`).

What these proofs assume of the constants, beyond sizes and types: a batch has
finitely many rows, each with an identity no other row has and a whole amount,
stored without an answer (`ReportRows`); an answer says where it puts each row
(`ReportAnswers`), and any number of a finite set of answers may be live for one
row; what has landed when a screen is opened answers rows that are imported
(`ReportOpened`); the range is of months on end, and a cell is of one of
them (`ReportRange`); a
list of categories is finite (`ListsOfCategories`); the props of those five
drawings have their types, the lines of a chart different keys, and a chart to
come two pixels of height and one of width for each of its bars, without which
its bars, a pixel high at least, would not fit (`DrawingProps`). All are evaluated on the
instance of the run `web`.

**Only model-checked.** `ChartGeometry` of the other eight kinds of drawing (lines,
bars, ticks, thinned rows, layers, tooltips' rows, pulses, amounts), over the
drawings of the run: pure functions of props, built of folds over rows, ranks and
chosen minima, where what is returned for every input needs induction over the
data; their variable only moves from one set of props to another, so no invariant
would help. Liveness (`LeavesAwaiting`, `Settles`, `RunEnds`), which TLAPS does not
reach, and the properties of the four violation runs, which do not hold.

## 6. Not modelled, and why

- Statement parsing, balance and completeness arithmetic and normalisation of
  names: pure functions, used by the models through their outcomes. Of `money`,
  the writing of an amount is modelled (`WebMoney`), the parsing is not.
- The override of a validation report: an unconditional update that nothing else
  reads.
- Of `report`, which statement sees what and how lines, buckets and open figures
  come of it are modelled through the browser (`WebReport`); periods by quarter
  or year, cursors past the first page (`selection.go`) and shares of revenue are
  not.
- Industry templates, the classifier's RPC client, the evaluation harness, the
  mock server and deployment scripts.
- Row-level security, grants and policies are PostgreSQL's; the models work
  inside one organisation, and `Accounts` says who may enter it.
- RPC translation, gRPC transport, the S3 client, configuration, migrations,
  start-up, landing page and generated code keep no state of their own; the
  generated messages are modelled where a screen keeps what they carry.
- Progress of the persist transaction: it needs fairness of PostgreSQL's lock
  hand-over, which nothing in the code states.

## 7. Plan

Done: `BatchLifecycle`, `IngestPipeline`, `ClassifyReview`, `LedgerPersist`,
`Accounts` with their runs and proofs; the browser client (`Web` and the modules
it is made of) with the run `web` and proofs for every screen and for the tab
that shows them; the refinement of `BatchLifecycle`.

Left, in this order:

1. `Statement`: parsing outcomes, balance, completeness and money conversion as
   operators, against reference definitions over small statements.
2. The validation report and its override, as actions beside the validate job,
   and what a profile edited between validate and persist changes.
3. `WebReport` over `ClassifyReview` in place of its own `AnswersLand`, in one run
   that follows a row from the ledger to the figure.
4. The other eight kinds of `ChartGeometry` for every drawing: bands and bars
   first, which need the rank of a label, then the ticks.
