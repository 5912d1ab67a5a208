------------------------------- MODULE WebTicks -------------------------------
(***************************************************************************)
(* The time axis of a chart of the browser and the line above it           *)
(* (web/src/components/charts): which of its points are labelled           *)
(* (x-axis.tsx), which are drawn when they are too many                    *)
(* (decimate-time-series.ts), and where they are on their way from one     *)
(* drawing to the next (series-path-utils.ts).                             *)
(*                                                                         *)
(* Points are numbered from 0 as in the code; one unit of time is one of   *)
(* width, for a choice of labels depends on proportions alone.             *)
(***************************************************************************)
EXTENDS Integers, Sequences
LOCAL INSTANCE FiniteSetsExt
LOCAL INSTANCE SequencesExt

Apart(a, b) == IF a < b THEN b - a ELSE a - b
Lower(a, b) == IF a < b THEN a ELSE b
Higher(a, b) == IF a < b THEN b ELSE a
Ascending(S) ==
  [i \in 1..Cardinality(S) |-> CHOOSE x \in S : Cardinality({y \in S : y < x}) = i - 1]

\* Two times of a day have one label, and so have a day and its anniversary.
Day == 2
Days == 60
shortDate(t) == (t \div Day) % Days
dateLabels(times) == [i \in 0..(Len(times) - 1) |-> shortDate(times[i + 1])]

-----------------------------------------------------------------------------
MAX_GAP_LAYOUTS == 400

binomial(n, k) ==
  LET r[i \in 0..k] == IF i = 0 THEN 1 ELSE (r[i - 1] * (n - i + 1)) \div i
  IN  IF k < 0 \/ k > n THEN 0 ELSE r[k]

\* A layout is the set of the points it labels.  The ways to split the span
\* into positive gaps are the ways to choose what is between its ends.
composePositiveSum(span, parts) == {S \cup {0, span} : S \in kSubset(parts - 1, 1..(span - 1))}

indicesForTickCount(n, count) ==
  LET span == n - 1    \* halves are rounded up
  IN  {(2 * i * span + count - 1) \div (2 * (count - 1)) : i \in 0..(count - 1)} \cup {0, span}

allIndexLayouts(n, count) ==
  IF binomial(n - 2, count - 2) > MAX_GAP_LAYOUTS THEN {indicesForTickCount(n, count)}
  ELSE composePositiveSum(n - 1, count - 1)

dedupeIndicesByLabel(layout, labels) ==
  {i \in layout : \A j \in layout : j < i => labels[j] # labels[i]}

indexGaps(layout) ==
  LET at == Ascending(layout) IN [i \in 1..(Len(at) - 1) |-> at[i + 1] - at[i]]
Smallest(gaps) ==
  Min({i \in DOMAIN gaps : \A j \in DOMAIN gaps : gaps[i] <= gaps[j]})

\* 0 when the smallest gap is the last, 1 when it is the first, else 2.
smallestGapEdgePreference(layout) ==
  LET gaps == indexGaps(layout) IN
  CASE Smallest(gaps) = Len(gaps) -> 0
    [] Smallest(gaps) = 1 /\ Len(gaps) > 1 -> 1
    [] Smallest(gaps) \notin {1, Len(gaps)} -> 2

\* The penalties as a fraction: the spread of the gaps on the screen over
\* their mean, a tenth for every label off the target, 8/100 for a smallest
\* gap inside and 2/100 of the mean asymmetry.
scoreTickLayout(layout, times, target) ==
  LET at == Ascending(layout)
      g == Len(at) - 1
      px == {times[at[i + 1] + 1] - times[at[i] + 1] : i \in 1..g}
      total == times[at[g + 1] + 1] - times[at[1] + 1]
      gaps == indexGaps(layout)
      mirror == FoldLeftDomain(LAMBDA s, i : s + Apart(gaps[i], gaps[g + 1 - i]), 0, gaps)
      interior == IF Smallest(gaps) \in 2..(g - 1) THEN 1 ELSE 0
      off == Apart(g + 1, target)
  IN  [num |-> 50 * g * g * (Max(px) - Min(px)) + 5 * off * total * g
                 + 4 * interior * total * g + mirror * total,
       den |-> 50 * total * g, off |-> off, mirror |-> mirror, gaps |-> g,
       edge |-> smallestGapEdgePreference(layout)]

\* Scores a millionth apart are one.
isBetterTickLayout(a, b) ==
  LET less == a.num * b.den < b.num * a.den - (a.den * b.den) \div 1000000
      more == b.num * a.den < a.num * b.den - (a.den * b.den) \div 1000000
      rank == <<a.off - b.off, a.mirror * b.gaps - b.mirror * a.gaps, a.edge - b.edge>>
  IN  \/ less
      \/ ~more /\ \E i \in 1..3 : rank[i] < 0 /\ \A j \in 1..(i - 1) : rank[j] = 0

\* One of the layouts that no other beats.  The one to start from is the
\* even one, its labels not told apart.
selectEvenlySpacedIndices(times, target) ==
  LET n == Len(times)
      counts == Higher(2, target - 1)..Lower(n, target + 1)
      deduped == {dedupeIndicesByLabel(l, dateLabels(times)) :
                    l \in UNION {allIndexLayouts(n, c) : c \in counts}}
      tried == {l \in deduped : \E i, j \in l : i # j} \cup {indicesForTickCount(n, target)}
      score == [l \in tried |-> scoreTickLayout(l, times, target)]
  IN  IF n <= target \/ n = 1 THEN {0..(n - 1)}
      ELSE {l \in tried : \A o \in tried : ~isBetterTickLayout(score[o], score[l])}

-----------------------------------------------------------------------------
Tick(t) == [t |-> t, label |-> shortDate(t)]

\* The ticks of some times in order, each label once.
Labelled(times, seen) ==
  FoldLeft(LAMBDA ticks, t :
             IF shortDate(t) \in seen \cup {ticks[i].label : i \in DOMAIN ticks} THEN ticks
             ELSE Append(ticks, Tick(t)), <<>>, times)

buildDataAlignedTicks(times, layout) ==
  LET at == Ascending(layout) IN Labelled([i \in DOMAIN at |-> times[at[i] + 1]], {})

\* A date is cut to the whole.
buildDomainTicks(dom, n) ==
  LET count == Higher(2, n) IN
  Labelled([i \in 1..count |-> dom.lo + ((i - 1) * (dom.hi - dom.lo)) \div (count - 1)], {})

domainExtendsPastData(d) == d.domain.hi > Last(d.times)

\* Behind the data: up to three labels and the end.
appendProjectionTailTicks(d, ticks, max) ==
  LET start == Last(d.times)
      count == Lower(max, 3)
      extra == Labelled([i \in 1..(count + 1) |->
                           start + (i * (d.domain.hi - start)) \div (count + 1)],
                        {ticks[i].label : i \in DOMAIN ticks})
  IN  ticks \o extra    \* in order, for all of these are later

XAxis(d, layout) ==
  LET aligned == buildDataAlignedTicks(d.times, layout) IN
  CASE d.mode = "domain" \/ (domainExtendsPastData(d) /\ ~d.brushed) -> buildDomainTicks(d.domain, d.target)
    [] d.mode = "data" /\ ~domainExtendsPastData(d) -> aligned
    [] d.mode = "data" /\ domainExtendsPastData(d) /\ d.brushed ->
         appendProjectionTailTicks(d, aligned, Higher(1, d.target - Len(aligned) + 1))

\* In twentieths: a label under the crosshair's own gives way to it.
XAxisLabel(distance, half, hovered) ==
  CASE distance < half \/ hovered -> 0
    [] distance >= half /\ ~hovered /\ distance < half + 20 -> distance - half
    [] distance >= half + 20 /\ ~hovered -> 20

(* However points crowd and labels repeat, the axis reads in order, never  *)
(* says a label twice, starts with the first point shown, has at most one  *)
(* label more than asked for, names the last point when no other point has *)
(* its label, and past the data reaches the domain's end; no label shows   *)
(* through the crosshair's.                                                *)
TicksRead(d) ==
  LET choices == selectEvenlySpacedIndices(d.times, d.target)
      n == Len(d.times)
      labels == dateLabels(d.times)
      apart == \A i, j \in DOMAIN labels : labels[i] = labels[j] => i = j
  IN
  /\ choices # {}
  /\ \A c \in choices :
       LET ticks == XAxis(d, c) IN
       /\ \A i, j \in DOMAIN ticks : i < j => ticks[i].t < ticks[j].t /\ ticks[i].label # ticks[j].label
       /\ Head(ticks).t = (IF d.mode = "domain" \/ (domainExtendsPastData(d) /\ ~d.brushed)
                           THEN d.domain.lo ELSE Head(d.times))
       /\ d.mode = "data" /\ ~domainExtendsPastData(d) =>
            /\ Len(ticks) <= Higher(2, d.target) + 1
            /\ apart => Last(ticks).t = Last(d.times)
            /\ apart /\ n <= d.target => Len(ticks) = n
       /\ d.mode = "data" /\ domainExtendsPastData(d) =>
            \/ Last(ticks).t = d.domain.hi
            \/ \E i \in DOMAIN ticks : ticks[i].label = shortDate(d.domain.hi)
  /\ \A far \in 0..80, hovered \in BOOLEAN :
       XAxisLabel(far, 50, hovered) > 0 => far > 50 /\ ~hovered

-----------------------------------------------------------------------------
\* Decimation.  A point is its place and its value; areas are compared scaled
\* by the size of the next bucket, so that its mean is whole.
maxRenderPointsForWidth(w) == Higher(64, (3 * w + 1) \div 2)

SumOf(f, S) == FoldSet(LAMBDA j, s : f[j] + s, 0, S)

decimateTimeSeries(y, max) ==
  LET len == Len(y)
      at == [j \in 0..(len - 1) |-> y[j + 1]]
      edge(i) == (i * (len - 2)) \div (max - 2) + 1    \* where the i-th bucket starts
      bucket(i) == edge(i)..(Lower(edge(i + 1), len - 1) - 1)
      after(i) ==
        LET next == edge(i)..(Lower(edge(i + 1), len) - 1) IN
        IF next = {} THEN [c |-> 1, x |-> len - 1, y |-> at[len - 1]]
        ELSE [c |-> Cardinality(next), x |-> SumOf([j \in next |-> j], next), y |-> SumOf(at, next)]
      area(a, j, m) ==
        Apart((a * m.c - m.x) * (at[j] - at[a]), (a - j) * (m.y - at[a] * m.c))
      best(a, i) ==    \* the first of the largest, the bucket's start if it is empty
        LET b == bucket(i)
            m == after(i + 1)
        IN  IF b = {} THEN edge(i)
            ELSE Min({j \in b : \A k \in b : area(a, k, m) <= area(a, j, m)})
      picked[i \in 0..(max - 2)] == IF i = 0 THEN 0 ELSE best(picked[i - 1], i)
  IN  IF max >= len \/ max < 3 THEN [i \in 1..len |-> i - 1]
      ELSE [i \in 1..(max - 1) |-> picked[i - 1]] \o <<len - 1>>

\* A candle is [open, high, low, close].
decimateOhlcData(rows, max) ==
  LET len == Len(rows)
      slice(i) == SubSeq(rows, ((i - 1) * len) \div max + 1, Lower(len, (i * len) \div max))
      candle(b) == [open |-> Head(b).open, close |-> Last(b).close,
                    high |-> Max({b[j].high : j \in DOMAIN b}),
                    low |-> Min({b[j].low : j \in DOMAIN b})]
  IN  IF max >= len \/ max < 2 THEN rows ELSE [i \in 1..max |-> candle(slice(i))]

\* Between two drawings, in sixteenths of the way: a point that is new comes
\* from where its neighbour was.  A point is [key, x, y], its place scaled by 16.
interpolateSeriesPathPoints(from, to, progress) ==
  LET was(k) == {i \in DOMAIN from : from[i].key = k}
      source(i) ==
        CASE was(to[i].key) # {} -> from[Max(was(to[i].key))]
          [] was(to[i].key) = {} /\ i > 1 /\ was(to[Higher(1, i - 1)].key) # {} ->
               from[Max(was(to[i - 1].key))]
          [] was(to[i].key) = {} /\ ~(i > 1 /\ was(to[Higher(1, i - 1)].key) # {}) ->
               IF i < Len(to) /\ was(to[Lower(Len(to), i + 1)].key) # {}
               THEN from[Max(was(to[i + 1].key))] ELSE Head(from \o <<to[i]>>)
      way(a, b) == 16 * a + (b - a) * progress
      scaled(p) == [p EXCEPT !.x = 16 * @, !.y = 16 * @]
  IN  CASE progress >= 16 \/ (progress <= 0 /\ from = <<>>) -> [i \in DOMAIN to |-> scaled(to[i])]
        [] progress <= 0 /\ from # <<>> -> [i \in DOMAIN from |-> scaled(from[i])]
        [] progress \in 1..15 ->
             [i \in DOMAIN to |-> [key |-> to[i].key, x |-> way(source(i).x, to[i].x),
                                   y |-> way(source(i).y, to[i].y)]]

(* A thinned line has the size asked for, keeps its ends and never turns   *)
(* back; a thinned candle chart keeps its extremes, its first opening and  *)
(* its last closing; a line under way has the points of where it goes and  *)
(* stays between where they were and where they will be.                   *)
LinesThin(d) ==
  LET kept == decimateTimeSeries(d.y, d.max)
      rows == [i \in DOMAIN d.y |-> [open |-> d.y[i], high |-> d.y[i] + 1,
                                     low |-> d.y[i] - 1, close |-> d.y[i]]]
      candles == decimateOhlcData(rows, d.max)
      path(keep) == LET at == Ascending(ToSet(keep)) IN
                    [i \in DOMAIN at |-> [key |-> at[i], x |-> at[i], y |-> d.y[at[i] + 1]]]
      whole == path([i \in DOMAIN d.y |-> i - 1])
      ys == {16 * d.y[i] : i \in DOMAIN d.y}
  IN
  /\ Len(kept) = (IF d.max < 3 THEN Len(d.y) ELSE Lower(d.max, Len(d.y)))
  /\ Head(kept) = 0 /\ Last(kept) = Len(d.y) - 1
  /\ \A i \in 1..(Len(kept) - 1) : kept[i] <= kept[i + 1] /\ (i < Len(kept) - 1 => kept[i] < kept[i + 1])
  /\ Head(candles).open = Head(rows).open /\ Last(candles).close = Last(rows).close
  /\ Max({candles[i].high : i \in DOMAIN candles}) = Max({d.y[i] + 1 : i \in DOMAIN d.y})
  /\ Min({candles[i].low : i \in DOMAIN candles}) = Min({d.y[i] - 1 : i \in DOMAIN d.y})
  /\ \A p \in {0, 5, 16}, there \in BOOLEAN :
       LET from == IF there THEN whole ELSE path(kept)
           to == IF there THEN path(kept) ELSE whole
           now == interpolateSeriesPathPoints(from, to, p)
       IN  /\ p > 0 => [i \in DOMAIN now |-> now[i].key] = [i \in DOMAIN to |-> to[i].key]
           /\ \A i \in DOMAIN now : now[i].y \in Min(ys)..Max(ys) /\ now[i].x \in 0..(16 * Len(d.y))
=============================================================================
