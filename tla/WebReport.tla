----------------------------- MODULE WebReport -----------------------------
(***************************************************************************)
(* The management P&L as the browser shows it (web/src/data/report.ts,     *)
(* app/ReportScreen.tsx, PnlTable.tsx, StatTiles.tsx, Reconciliation.tsx,  *)
(* app/charts, DrilldownPanel.tsx): one report and one open figure, read   *)
(* in several calls while imports land, and every number derived from them.*)
(*                                                                         *)
(* Core reads a report in several statements, each of which sees what is   *)
(* committed by then (core/internal/report/service.go), and an open figure *)
(* in two.  What they read is kept, and the figures are operators over it. *)
(* A row is answered by what was committed for it: nothing, one live       *)
(* classification or, when two transactions passed each other's check      *)
(* (migrations/00007_transaction_ledger.sql:363), several.                 *)
(* Money is an integer of minor units in a currency the exponent table     *)
(* knows.                                                                  *)
(***************************************************************************)
EXTENDS Integers, Sequences, FiniteSetsExt

CONSTANTS
  Contents,    \* the batches that may land, each with its [source, rows]
  Verdicts,    \* the answers a row may be given, as numbers
  Says,        \* where each of them puts each row, by <<row id, verdict>>
  Chunks,      \* the sets of rows one transaction answers, or takes back
  Opened,      \* what may have landed when the screen is opened
  Periods,     \* the months of the range, a sequence
  Cells,       \* the figures that may be opened, <<line or bucket, month>>
  Charts,      \* the cards whose toggle is used
  Limit,       \* how many rows the panel asks for
  Slots,       \* how many bars and flows before the rest is folded
  NoReport, NoCell, NoPanel, NoAnswer,
  MaxLandings,        \* bound: imports, answers and undos while the screen is open
  MaxReportTroubles   \* bound: failures, focus, and figures opened while one is read

ASSUME ReportConstants ==
  /\ Limit \in Nat \ {0} /\ Slots \in Nat \ {0} /\ {MaxLandings, MaxReportTroubles} \subseteq Nat
  /\ \A b \in DOMAIN Contents : Contents[b].source \in {"bank", "ledger"}
  /\ NoCell \notin Cells
  /\ IsFiniteSet(DOMAIN Contents)
  /\ Verdicts \subseteq Nat \ {0} /\ IsFiniteSet(Verdicts)

VARIABLES
  imported,       \* the batches in state imported
  classified,     \* the live classifications, <<row id, verdict>>
  landings,       \* how much landed since the screen was opened
  reportTroubles,
  report, reportFetch, reportError,     \* the query ["report", from, to]
  view, asTable,                        \* the route's tab; each card's toggle
  cell, panel, panelFetch, panelError   \* the route's cell; ["drilldown", cell]

contentVars == <<imported, classified, landings>>
reportOnly == <<report, reportFetch, reportError>>
panelOnly  == <<cell, panel, panelFetch, panelError>>
reportVars == <<contentVars, reportTroubles, reportOnly, view, asTable, panelOnly>>

-----------------------------------------------------------------------------
\* core/internal/report: the table, its chain and what stands below it.
Sections == <<"01", "02", "03", "04", "05", "06", "07">>
Order == <<"01", "02", "91", "03", "92", "04", "05", "93", "06", "94", "07", "95">>
Chain ==
  [c \in {"91", "92", "93", "94", "95"} |->
     CASE c = "91" -> [plus |-> {"01"}, minus |-> {"02"}]
       [] c = "92" -> [plus |-> {"91"}, minus |-> {"03"}]
       [] c = "93" -> [plus |-> {"92"}, minus |-> {"04", "05"}]
       [] c = "94" -> [plus |-> {"93"}, minus |-> {"06"}]
       [] c = "95" -> [plus |-> {"94"}, minus |-> {"07"}]]

ReportBucketKind == {"unclassified", "non_pnl", "unallocated", "other_basis"}
ReportBasis == {"bank", "ledger"}
ReportAnswerKind == {"transactions", "operands"}

Imports == DOMAIN Contents
Elems(s) == {s[i] : i \in DOMAIN s}

\* A row has an identity of its own and a whole amount.  It is stored without
\* an answer; one puts it in a section or in one of two buckets.
Places == Elems(Sections) \cup (ReportBucketKind \ {"other_basis"})
ReportRow ==
  [id : Nat, by : Verdicts \cup {0}, month : Int, place : Places, minor : Int, transfer : BOOLEAN]
ASSUME ReportRows ==
  \A b \in Imports :
    /\ IsFiniteSet(Contents[b].rows)
    /\ Contents[b].rows \subseteq {r \in ReportRow : r.by = 0 /\ r.place = "unclassified"}
    /\ \A a \in Imports : \A r \in Contents[b].rows, q \in Contents[a].rows :
         r.id = q.id => a = b /\ r = q
ASSUME ReportAnswers ==
  \A b \in Imports : \A r \in Contents[b].rows, v \in Verdicts :
    Says[<<r.id, v>>] \in Places \ {"unclassified"}

\* The rows of some imports, and what was known of them by a moment.
RowIds(of) == {r.id : r \in UNION {Contents[b].rows : b \in of}}
Seen == {x \in [imported : SUBSET Imports, classified : SUBSET (Nat \X Verdicts)] :
           x.classified \subseteq RowIds(x.imported) \X Verdicts}
ASSUME ReportOpened == Opened \subseteq Seen

ASSUME ReportRange ==
  /\ Periods \in Seq(Int) /\ Len(Periods) > 0
  /\ \A i \in 1..(Len(Periods) - 1) : Periods[i + 1] = Periods[i] + 1
  /\ Cells \subseteq (Elems(Order) \cup ReportBucketKind) \X Elems(Periods)

Total(rows) == SumFunctionOnSet([r \in rows |-> r.minor], rows)

\* What one statement sees, and the rows it selects: as they are stored, or
\* joined to their live classifications, where a row comes once for each of
\* its answers and as it is stored when it has none.
Landed == [imported |-> imported, classified |-> classified]
Transactions(of, basis) == UNION {Contents[b].rows : b \in {x \in of : Contents[x].source = basis}}
LiveOf(r, seen) == {v \in Verdicts : <<r.id, v>> \in seen.classified}
Joined(r, seen) ==
  IF LiveOf(r, seen) = {} THEN {r}
  ELSE {[r EXCEPT !.by = v, !.place = Says[<<r.id, v>>]] : v \in LiveOf(r, seen)}
RowsOfImports(seen, basis) == UNION {Joined(r, seen) : r \in Transactions(seen.imported, basis)}

\* The other basis is counted apart.
OtherKind(basis) == IF basis = "ledger" THEN "bank" ELSE "ledger"
CountedApart(rows) == {[r EXCEPT !.place = "other_basis"] : r \in rows}

\* Compute: where a row lands, its line or its bucket.
In(rows, place, m) == {r \in rows : r.place = place /\ r.month = m}

Stored(rows, code, m) == Total(In(rows, code, m))

\* Compute: the chain in order, in stored signs: a cost is negative there, so
\* an operand a line subtracts is added.
Value(rows, m) ==
  LET value[c \in Elems(Order)] ==
        IF c \in DOMAIN Chain
        THEN SumFunctionOnSet(value, Chain[c].plus \cup Chain[c].minus)
        ELSE Stored(rows, c, m)
  IN  value

\* present: a cost is negative in the store and positive on the page.
Figure(rows, code, m) ==
  IF code \in Elems(Sections) \ {"01"} THEN 0 - Value(rows, m)[code] ELSE Value(rows, m)[code]

\* reconciliation: balances at the seams, and one aggregation per period.
Balance(rows, m) == Total({r \in rows : r.month < m})
ReconciliationLine(balances, movements, m) ==
  LET own == {r \in movements : r.month = m}
  IN  [opening |-> Balance(balances, m),
       in |-> Total({r \in own : ~r.transfer /\ r.minor > 0}),
       out |-> 0 - Total({r \in own : ~r.transfer /\ r.minor < 0}),
       transfers |-> 0 - Total({r \in own : r.transfer}),
       closing |-> Balance(balances, m + 1)]

\* The statements of a report in their order; the balances at the seams are
\* taken as one, and so are the movements of the periods.
Statements == <<"lines", "unclassified", "other", "balances", "movements">>
StatementOf(bucket) ==
  CASE bucket = "unclassified" -> "unclassified"
    [] bucket = "other_basis" -> "other"
    [] OTHER -> "lines"
BucketRows(bucket, seen, basis) ==
  IF bucket = "other_basis" THEN CountedApart(Transactions(seen.imported, OtherKind(basis)))
  ELSE RowsOfImports(seen, basis)

\* The two statements of an open figure, which join whatever the place.
RowsRead(place, seen, basis) ==
  IF place = "other_basis" THEN CountedApart(RowsOfImports(seen, OtherKind(basis)))
  ELSE RowsOfImports(seen, basis)

\* A line of figures and its total.
SumOver(values) == SumFunctionOnSet(values, Elems(Periods))
Totalled(values) == [values |-> values, total |-> SumOver(values)]

\* What the server answers, of what each of its statements saw.
GetManagementPNL(read, basis) ==
  LET lines == RowsOfImports(read["lines"], basis)
      balances == Transactions(read["balances"].imported, basis)
      movements == Transactions(read["movements"].imported, basis)
      bucket(k) == BucketRows(k, read[StatementOf(k)], basis)
  IN  [basis   |-> basis,
       lines   |-> [c \in Elems(Order) |-> Totalled([m \in Elems(Periods) |-> Figure(lines, c, m)])],
       buckets |-> [k \in ReportBucketKind |-> Totalled([m \in Elems(Periods) |-> Stored(bucket(k), k, m)])],
       strip   |-> [m \in Elems(Periods) |-> ReconciliationLine(balances, movements, m)]]

\* A computed line answers with what it is made of and no amount; any other
\* with its amount as it is stored, and, of another statement, the first rows.
ListLineTransactions(total, page, basis, c) ==
  LET rows == In(RowsRead(c[1], page, basis), c[1], c[2])
      ahead(r) == {q \in rows : q.id < r.id \/ (q.id = r.id /\ q.by < r.by)}
  IN  IF c[1] \in DOMAIN Chain
      THEN [kind |-> "operands", plus |-> Chain[c[1]].plus, minus |-> Chain[c[1]].minus,
            amount |-> 0, rows |-> {}]
      ELSE [kind |-> "transactions", plus |-> {}, minus |-> {},
            amount |-> Stored(RowsRead(c[1], total, basis), c[1], c[2]),
            rows |-> {r \in rows : Cardinality(ahead(r)) < Limit}]

-----------------------------------------------------------------------------
\* reportFromProto, over an answer w.
ReportLine(w, code) == w.lines[code]
ReportBucket(w, kind) == w.buckets[kind]

Tiles(w) ==
  [revenue |-> ReportLine(w, "01").total,
   expenses |-> ReportLine(w, "01").total - ReportLine(w, "93").total,
   net |-> ReportLine(w, "95").total,
   unreviewed |-> ReportBucket(w, "unclassified").total]

expensesByPeriod(w, m) == ReportLine(w, "01").values[m] - ReportLine(w, "93").values[m]

\* Mutant: transfers added to the closing figure instead of taken from it.
aggregateReconciliation_Added(w) ==
  LET opening == w.strip[Periods[1]].opening
      in == SumOver([m \in Elems(Periods) |-> w.strip[m].in])
      out == SumOver([m \in Elems(Periods) |-> w.strip[m].out])
      transfers == SumOver([m \in Elems(Periods) |-> w.strip[m].transfers])
  IN  [opening |-> opening, in |-> in, out |-> 0 - out,
       transfers |-> 0 - transfers, closing |-> opening + in - out + transfers]

\* aggregateReconciliation: one strip, its closing derived from the other four.
aggregateReconciliation(w) ==
  LET opening == w.strip[Periods[1]].opening
      in == SumOver([m \in Elems(Periods) |-> w.strip[m].in])
      out == SumOver([m \in Elems(Periods) |-> w.strip[m].out])
      transfers == SumOver([m \in Elems(Periods) |-> w.strip[m].transfers])
  IN  [opening |-> opening, in |-> in, out |-> 0 - out,
       transfers |-> 0 - transfers, closing |-> opening + in - out - transfers]

cashByPeriod(w, m) ==
  LET line == w.strip[m]
  IN  [in |-> line.in, out |-> 0 - line.out, net |-> line.in - line.out]

LineTotals(w) == [c \in Elems(Order) |-> ReportLine(w, c).total]

\* The lines a cost chart may draw: sections that are a cost in this range.
Costs(w) == {c \in Elems(Sections) \ {"01"} : ReportLine(w, c).total > 0}

\* foldTopN: the largest stay, the rest become one.
Kept(w) ==
  LET before(d, c) == \E i \in DOMAIN Order : Order[i] = d /\ \E j \in DOMAIN Order : i < j /\ Order[j] = c
      larger(d, c) == ReportLine(w, d).total > ReportLine(w, c).total
      level(d, c)  == ReportLine(w, d).total = ReportLine(w, c).total
      ahead(c) == {d \in Costs(w) : larger(d, c) \/ (level(d, c) /\ before(d, c))}
  IN  {c \in Costs(w) : Cardinality(ahead(c)) < Slots}
Other(w) == SumFunctionOnSet(LineTotals(w), Costs(w) \ Kept(w))

\* MoneyFlowChart: no revenue, no diagram; what is left over is its own flow.
MoneyFlow(w) ==
  LET in == ReportLine(w, "01").total
      out == SumFunctionOnSet(LineTotals(w), Kept(w)) + Other(w)
  IN  IF in <= 0 THEN [drawn |-> FALSE]
      ELSE [drawn |-> TRUE, in |-> in, out |-> out, remainder |-> IF in > out THEN in - out ELSE 0]

\* NetResultChart: two magnitudes, one of them zero.
netResultRow(w, m) ==
  LET net == ReportLine(w, "95").values[m]
  IN  [profit |-> IF net > 0 THEN net ELSE 0, loss |-> IF net < 0 THEN 0 - net ELSE 0]

\* RevenueExpenseChart: both as magnitudes, a credit losing its sign.
revenueExpenseRow(w, m) ==
  LET e == expensesByPeriod(w, m)
  IN  [revenue |-> ReportLine(w, "01").values[m], expenses |-> IF e < 0 THEN 0 - e ELSE e]

\* CategoryTrendChart: cost lines with anything in them, signed.
Facets(w) == {c \in Elems(Sections) \ {"01"} : \E m \in Elems(Periods) : ReportLine(w, c).values[m] # 0}

\* Which cards have something to draw.
HasData(w, c) ==
  CASE c = "flow" -> ReportLine(w, "01").total > 0
    [] c = "cash" -> \E m \in Elems(Periods) : cashByPeriod(w, m).in # 0 \/ cashByPeriod(w, m).out # 0
    [] c = "expenses" -> Costs(w) # {}
    [] c = "net" -> \E m \in Elems(Periods) : ReportLine(w, "95").values[m] # 0
    [] c = "revenue" -> \E m \in Elems(Periods) :
         revenueExpenseRow(w, m).revenue # 0 \/ revenueExpenseRow(w, m).expenses # 0
    [] c = "trend" -> Facets(w) # {}

\* One card: the toggle is the reader's where there is a chart to draw, and
\* the table stands where there is none.
ChartShell(w, c) == IF asTable[c] \/ ~HasData(w, c) THEN "table" ELSE "chart"

\* What the screen shows: its early returns in order.
ReportScreen ==
  CASE report = NoReport /\ reportError = "none" -> "loading"
    [] reportError = "mixed" -> "blocked"
    [] reportError = "failed" -> "error"
    [] reportError = "none" /\ report # NoReport ->
         IF /\ \A c \in Elems(Order) : ReportLine(report.answer, c).total = 0
            /\ \A k \in ReportBucketKind : ReportBucket(report.answer, k).total = 0
         THEN "empty" ELSE "report"

\* The table: a figure opens the cell of its own line and month.
PnlTable(w) ==
  [c \in Elems(Order) |-> [figures |-> ReportLine(w, c).values, opens |-> {c} \X Elems(Periods)]]

\* An error stands above the answer there was, if there was one.
DrilldownPanel ==
  IF cell = NoCell \/ ReportScreen # "report" THEN [page |-> "closed"]
  ELSE IF panel[cell] = NoPanel THEN [page |-> IF panelError[cell] THEN "error" ELSE "loading"]
  ELSE [page |-> "answer", body |-> panel[cell].answer, error |-> panelError[cell]]

-----------------------------------------------------------------------------
Unseen == [imported |-> {}, classified |-> {}]
NoReading == [read |-> [s \in Elems(Statements) |-> Unseen], basis |-> "bank", answer |-> NoAnswer]
NoPage == [total |-> Unseen, page |-> Unseen, basis |-> "bank", answer |-> NoAnswer]
ReportAsked == [st |-> "basis", w |-> NoReading]
ReportIdle == [st |-> "idle", w |-> NoReading]
PanelIdle == [st |-> "idle", left |-> {}, w |-> NoPage]
PanelDue == [PanelIdle EXCEPT !.st = "due"]
PanelReads == [PanelIdle EXCEPT !.st = "reads", !.left = {"basis", "report"}]

\* A link may open the screen on a cell and on either tab.
ReportInit ==
  /\ \E o \in Opened : imported = o.imported /\ classified = o.classified
  /\ landings = 0
  /\ reportTroubles = 0
  /\ report = NoReport /\ reportFetch = ReportAsked /\ reportError = "none"
  /\ view \in {"table", "charts"} /\ asTable = [c \in Charts |-> FALSE]
  /\ cell \in Cells \cup {NoCell}
  /\ panel = [c \in Cells |-> NoPanel] /\ panelError = [c \in Cells |-> FALSE]
  /\ panelFetch = [c \in Cells |-> IF c = cell THEN PanelDue ELSE PanelIdle]

ReportTrouble ==
  reportTroubles < MaxReportTroubles /\ reportTroubles' = reportTroubles + 1

\* A batch is imported, and its rows are answered and taken back: nothing
\* tells the screen.
Landing == landings < MaxLandings /\ landings' = landings + 1
Import(b) ==
  /\ Landing /\ b \notin imported /\ imported' = imported \cup {b}
  /\ UNCHANGED <<classified, reportTroubles, reportOnly, view, asTable, panelOnly>>

\* A transaction answers rows.  The check at its commit does not see the
\* answers of one that commits beside it, so a row may have one already.
AnswersLand(rows, v) ==
  /\ Landing /\ rows \subseteq RowIds(imported) /\ rows \X {v} \cap classified = {}
  /\ classified' = classified \cup (rows \X {v})
  /\ UNCHANGED <<imported, reportTroubles, reportOnly, view, asTable, panelOnly>>

\* An undo takes back the answers its UPDATE saw; one that landed since stays.
AnswersTaken(rows, saw) ==
  /\ Landing /\ rows \X saw \cap classified # {}
  /\ classified' = classified \ (rows \X saw)
  /\ UNCHANGED <<imported, reportTroubles, reportOnly, view, asTable, panelOnly>>

-----------------------------------------------------------------------------
\* deriveBasis, over one reading of the batches.
deriveBasis(of) ==
  LET kinds == {Contents[b].source : b \in of}
  IN  IF Cardinality(kinds) > 1 THEN "mixed" ELSE IF "ledger" \in kinds THEN "ledger" ELSE "bank"

\* The cards start again whenever they come into the page: as a table where
\* there is nothing to draw at that moment.
CardsMounted == ReportScreen = "report" /\ view = "charts"
Cards ==
  asTable' = IF ~CardsMounted' THEN [c \in Charts |-> FALSE]
             ELSE IF CardsMounted THEN asTable
             ELSE [c \in Charts |-> ~HasData(report'.answer, c)]

\* The panel under a screen that comes back asks again.
PanelBack ==
  panelFetch' = IF cell # NoCell /\ ReportScreen # "report" /\ panelFetch[cell].st = "idle"
                THEN [panelFetch EXCEPT ![cell] = PanelDue] ELSE panelFetch

\* getReport, first call: which batches are imported.
ReportBasisRead ==
  /\ reportFetch.st = "basis"
  /\ IF deriveBasis(imported) = "mixed"
     THEN reportFetch' = ReportIdle /\ reportError' = "mixed"
     ELSE /\ reportFetch' = [st |-> Statements[1], w |-> [NoReading EXCEPT !.basis = deriveBasis(imported)]]
          /\ UNCHANGED reportError
  /\ UNCHANGED <<contentVars, reportTroubles, report, view, panelOnly>>
  /\ Cards

\* Second call: the report itself, statement by statement.
ReportServed ==
  \E i \in DOMAIN Statements :
    /\ reportFetch.st = Statements[i]
    /\ LET read == [reportFetch.w.read EXCEPT ![Statements[i]] = Landed]
           last == i = Len(Statements)
       IN  reportFetch' =
             [st |-> IF last THEN "arrives" ELSE Statements[i + 1],
              w |-> [reportFetch.w EXCEPT !.read = read,
                       !.answer = IF last THEN GetManagementPNL(read, reportFetch.w.basis) ELSE @]]
    /\ UNCHANGED <<contentVars, reportTroubles, report, reportError, view, asTable, panelOnly>>

ReportArrive ==
  /\ reportFetch.st = "arrives"
  /\ report' = reportFetch.w /\ reportError' = "none" /\ reportFetch' = ReportIdle
  /\ UNCHANGED <<contentVars, reportTroubles, view, cell, panel, panelError>>
  /\ Cards /\ PanelBack

\* The last of the tries fails; the error takes the place of a report shown.
ReportFail ==
  /\ ReportTrouble /\ reportFetch.st # "idle"
  /\ reportError' = "failed" /\ reportFetch' = ReportIdle
  /\ UNCHANGED <<contentVars, report, view, panelOnly>> /\ Cards

\* The focus comes back to the screen.
ReportAgain ==
  /\ ReportTrouble /\ reportFetch.st = "idle" /\ reportFetch' = ReportAsked
  /\ reportError' = IF report = NoReport THEN "none" ELSE reportError    \* pending again
  /\ UNCHANGED <<contentVars, report, view, asTable, panelOnly>>

-----------------------------------------------------------------------------
\* ViewTabs: links to the route without a cell.
ShowView(v) ==
  /\ ReportScreen = "report" /\ view' = v /\ cell' = NoCell
  /\ UNCHANGED <<contentVars, reportTroubles, reportOnly, panel, panelFetch, panelError>>
  /\ Cards

\* A card's own button, there only with something to draw.
ToggleCard(c) ==
  /\ CardsMounted /\ HasData(report.answer, c)
  /\ asTable' = [asTable EXCEPT ![c] = ~@]
  /\ UNCHANGED <<contentVars, reportTroubles, reportOnly, view, panelOnly>>

\* A figure of the table is opened, or an operand of the open panel; what was
\* read of it before is shown while it is read again.
OpenCell(c) ==
  /\ ReportScreen = "report" /\ c # cell
  /\ \/ view = "table" /\ cell = NoCell
     \/ /\ DrilldownPanel.page = "answer" /\ c[2] = cell[2]
        /\ c[1] \in DrilldownPanel.body.plus \cup DrilldownPanel.body.minus
  /\ cell' = c
  /\ panelFetch' = IF panelFetch[c].st = "idle" THEN [panelFetch EXCEPT ![c] = PanelDue] ELSE panelFetch
  /\ IF \A d \in Cells : panelFetch[d].st = "idle" THEN UNCHANGED reportTroubles ELSE ReportTrouble
  /\ UNCHANGED <<contentVars, reportOnly, view, asTable, panel, panelError>>

CloseCell ==
  /\ cell # NoCell /\ ReportScreen = "report" /\ cell' = NoCell
  /\ UNCHANGED <<contentVars, reportTroubles, reportOnly, view, asTable, panel, panelFetch, panelError>>

\* The panel is on the page: its query starts with two readings of the
\* batches side by side, its own and the report's.
PanelStart ==
  /\ cell # NoCell /\ ReportScreen = "report" /\ panelFetch[cell].st = "due"
  /\ panelFetch' = [panelFetch EXCEPT ![cell] = PanelReads]
  /\ panelError' = [panelError EXCEPT ![cell] = @ /\ panel[cell] # NoPanel]
  /\ UNCHANGED <<contentVars, reportTroubles, reportOnly, view, asTable, cell, panel>>

PanelRejected(c) ==
  /\ panelError' = [panelError EXCEPT ![c] = TRUE]
  /\ panelFetch' = [panelFetch EXCEPT ![c] = PanelIdle]

PanelBasisRead(c) ==
  /\ panelFetch[c].st = "reads" /\ "basis" \in panelFetch[c].left
  /\ IF deriveBasis(imported) = "mixed" THEN PanelRejected(c)
     ELSE /\ panelFetch' = [panelFetch EXCEPT ![c].left = @ \ {"basis"},
                              ![c].w.basis = deriveBasis(imported)]
          /\ UNCHANGED panelError
  /\ UNCHANGED <<contentVars, reportTroubles, reportOnly, view, asTable, cell, panel>>

\* The report read for its label and its versions; only its refusal counts.
PanelReportRead(c) ==
  /\ panelFetch[c].st = "reads" /\ "report" \in panelFetch[c].left
  /\ IF deriveBasis(imported) = "mixed" THEN PanelRejected(c)
     ELSE /\ panelFetch' = [panelFetch EXCEPT ![c].left = @ \ {"report"}]
          /\ UNCHANGED panelError
  /\ UNCHANGED <<contentVars, reportTroubles, reportOnly, view, asTable, cell, panel>>

\* ListLineTransactions: the total of the figure, then its rows.
PanelTotal(c) ==
  /\ panelFetch[c].st = "reads" /\ panelFetch[c].left = {}
  /\ panelFetch' = [panelFetch EXCEPT ![c].st = "rows", ![c].w.total = Landed]
  /\ UNCHANGED <<contentVars, reportTroubles, reportOnly, view, asTable, cell, panel, panelError>>

\* Its rows, and the answer on the page.
PanelArrive(c) ==
  /\ panelFetch[c].st = "rows"
  /\ LET w == panelFetch[c].w
     IN  panel' = [panel EXCEPT ![c] = [w EXCEPT !.page = Landed,
                     !.answer = ListLineTransactions(w.total, Landed, w.basis, c)]]
  /\ panelError' = [panelError EXCEPT ![c] = FALSE]
  /\ panelFetch' = [panelFetch EXCEPT ![c] = PanelIdle]
  /\ UNCHANGED <<contentVars, reportTroubles, reportOnly, view, asTable, cell>>

PanelFail(c) ==
  /\ ReportTrouble /\ panelFetch[c].st \in {"reads", "rows"} /\ PanelRejected(c)
  /\ UNCHANGED <<contentVars, reportOnly, view, asTable, cell, panel>>

ReportNext ==
  \/ \E b \in Imports : Import(b)
  \/ \E rows \in Chunks : \/ \E v \in Verdicts : AnswersLand(rows, v)
                          \/ \E saw \in SUBSET Verdicts : AnswersTaken(rows, saw)
  \/ ReportBasisRead \/ ReportServed \/ ReportArrive \/ ReportFail \/ ReportAgain
  \/ \E v \in {"table", "charts"} : ShowView(v)
  \/ \E c \in Charts : ToggleCard(c)
  \/ \E c \in Cells : OpenCell(c)
  \/ CloseCell \/ PanelStart
  \/ \E c \in Cells :
       PanelBasisRead(c) \/ PanelReportRead(c) \/ PanelTotal(c) \/ PanelArrive(c) \/ PanelFail(c)

ReportSpec == ReportInit /\ [][ReportNext]_reportVars

-----------------------------------------------------------------------------
ReportTypeOK ==
  /\ Landed \in Seen /\ reportError \in {"none", "mixed", "failed"}
  /\ cell \in Cells \cup {NoCell}
  /\ report # NoReport => report.basis \in ReportBasis /\ report.read \in [Elems(Statements) -> Seen]
  /\ \A c \in Cells : panel[c] # NoPanel =>
       panel[c].total \in Seen /\ panel[c].answer.kind \in ReportAnswerKind

Credits(w) ==
  0 - SumFunctionOnSet(LineTotals(w), {c \in Elems(Sections) \ {"01"} : ReportLine(w, c).total < 0})

\* The rows a join brings more than once, but for the first time, and what
\* they make in some months.
Again(rows) == {q \in rows : \E p \in rows : p.id = q.id /\ p.by < q.by}
CountedAgain(seen, basis, M) == Total({q \in Again(RowsOfImports(seen, basis)) : q.month \in M})

\* One report: what is derived of the lines alone is one account whatever
\* landed meanwhile; the strip is, of statements that saw the same imports;
\* and the strip and the lines together, of statements that saw the same, but
\* for the rows the lines count again.
LinesAgree(w) ==
  /\ Tiles(w).net = Tiles(w).revenue - Tiles(w).expenses
                      - ReportLine(w, "06").total - ReportLine(w, "07").total
  /\ Tiles(w).expenses = SumOver([m \in Elems(Periods) |-> expensesByPeriod(w, m)])
  /\ SumOver([m \in Elems(Periods) |-> netResultRow(w, m).profit - netResultRow(w, m).loss]) = Tiles(w).net
  /\ Cardinality(Kept(w)) <= Slots /\ Kept(w) \subseteq Costs(w) /\ Costs(w) \subseteq Facets(w)
  /\ MoneyFlow(w).drawn /\ MoneyFlow(w).in >= MoneyFlow(w).out =>
       MoneyFlow(w).remainder + Credits(w) = Tiles(w).net

StripAgrees(w) ==
  LET strip == aggregateReconciliation(w)
  IN  /\ strip.closing = w.strip[Periods[Len(Periods)]].closing
      /\ strip.in + strip.out = SumOver([m \in Elems(Periods) |-> cashByPeriod(w, m).net])

WholeAgrees(w) ==
  LET strip == aggregateReconciliation(w.answer)
      again == CountedAgain(w.read["lines"], w.basis, Elems(Periods))
  IN  strip.closing - strip.opening + again =
        Tiles(w.answer).net + Tiles(w.answer).unreviewed
          + ReportBucket(w.answer, "non_pnl").total + ReportBucket(w.answer, "unallocated").total

FiguresAgree(w) ==
  /\ LinesAgree(w.answer)
  /\ w.read["balances"].imported = w.read["movements"].imported => StripAgrees(w.answer)
  /\ (\A s, t \in Elems(Statements) : w.read[s] = w.read[t]) => WholeAgrees(w)

\* An open figure and the report under it.
PanelAgrees(c) ==
  LET p == panel[c]
      body == p.answer
      shown == [d \in Elems(Order) |-> report.answer.lines[d].values[c[2]]]
      bucket == c[1] \in ReportBucketKind
      figure == IF bucket THEN report.answer.buckets[c[1]].values[c[2]] ELSE shown[c[1]]
      under == report.read[IF bucket THEN StatementOf(c[1]) ELSE "lines"]
      again == IF c[1] # "other_basis" THEN 0
               ELSE CountedAgain(p.total, OtherKind(p.basis), {c[2]})
  IN  IF body.kind = "operands"
      THEN figure = SumFunctionOnSet(shown, body.plus) - SumFunctionOnSet(shown, body.minus)
      ELSE /\ p.basis = report.basis /\ p.total = under =>
                body.amount = (IF c[1] \in Elems(Sections) \ {"01"} THEN 0 - figure ELSE figure) + again
           /\ p.total = p.page /\ Cardinality(body.rows) < Limit => Total(body.rows) = body.amount

(* Whatever is imported, answered or taken back between the statements of  *)
(* a report and between its calls: the tiles, the months and the charts    *)
(* are one account of the lines (the diagram's remainder is the net result *)
(* less the credits it leaves out); the strip's derived closing is the one *)
(* the server counted, unless an import landed between the two; the strip  *)
(* moves by the net result and the buckets, less what the lines count more *)
(* than once of rows with several live answers, unless anything landed;    *)
(* and an open figure is the cell it was opened from (a cost with the      *)
(* opposite sign, the other basis with the rows its join repeats), made of *)
(* the operands or the rows below it, unless the two were read of          *)
(* different moments.  data/report.ts:122-157, 264-345, 429-479,           *)
(* app/charts, DrilldownPanel; core/internal/report/service.go:89, 117-219.*)
ReportAgrees ==
  /\ reportFetch.st = "arrives" => FiguresAgree(reportFetch.w)
  /\ DrilldownPanel.page = "answer" => PanelAgrees(cell)
=============================================================================
