------------------------------- MODULE WebBars -------------------------------
(***************************************************************************)
(* Where a bar chart of the browser puts its bars, its labels, the dots of *)
(* its tooltip and the tooltip itself (web/src/components/charts:          *)
(* bar-chart.tsx, bar.tsx, bar-x-axis.tsx, bar-squares.tsx,                *)
(* bar-squares-layout.ts, tooltip/tooltip-box.tsx).                        *)
(*                                                                         *)
(* A chart is [horizontal, stacked, width, height, rows]: its inside and,  *)
(* for every row, a label and one value for every series.  Lengths are     *)
(* exact: along the categories a pixel counts Fine(d), along the values    *)
(* one pixel counts as much as the value axis is long.                     *)
(***************************************************************************)
EXTENDS WebScales
LOCAL INSTANCE FiniteSetsExt
LOCAL INSTANCE SequencesExt

N(d) == Len(d.rows)
Series(d) == Len(Head(d.rows).values)
Sum(values, n) == FoldLeft(+, 0, SubSeq(values, 1, n))

-----------------------------------------------------------------------------
\* scaleBand with a padding of a fifth: rows of one label share a band.
Labels(d) == {d.rows[i].label : i \in DOMAIN d.rows}
Fine(d) == Series(d) * (5 * Cardinality(Labels(d)) + 1)
Across(d) == IF d.horizontal THEN d.height ELSE d.width

BandOf(d, i) ==
  LET firsts == {j \in DOMAIN d.rows : \A k \in 1..(j - 1) : d.rows[k].label # d.rows[j].label}
      first == CHOOSE j \in firsts : d.rows[j].label = d.rows[i].label
  IN  Cardinality({j \in firsts : j < first})
categoryScale(d, i) == Across(d) * Series(d) * (1 + 5 * BandOf(d, i))

\* Mutant: bands as wide as their steps.
bandWidth_Unpadded(d) == 5 * Across(d) * Series(d)

bandWidth(d) == 4 * Across(d) * Series(d)

tooltipAcross(d, i) == categoryScale(d, i) + bandWidth(d) \div 2

\* The bars of a group share the band, four pixels apart.
groupGap(d) == IF Series(d) > 1 THEN 4 * Fine(d) ELSE 0
barWidth(d) ==
  IF d.stacked THEN bandWidth(d) ELSE (bandWidth(d) - groupGap(d) * (Series(d) - 1)) \div Series(d)
barStart(d, i, s) ==
  categoryScale(d, i) + (IF d.stacked THEN 0 ELSE (s - 1) * (barWidth(d) + groupGap(d)))

-----------------------------------------------------------------------------
\* A tenth above the largest: of the sums when the bars are stacked along a
\* row, of the single values otherwise, stacked or not.
maxValue(d) ==
  Max({0} \cup IF d.stacked THEN {Sum(r.values, Series(d)) : r \in ToSet(d.rows)}
               ELSE UNION {ToSet(r.values) : r \in ToSet(d.rows)})
yScales(d) == Max({0} \cup UNION {ToSet(r.values) : r \in ToSet(d.rows)})
valueScale(d) ==
  LET max == IF d.horizontal THEN maxValue(d) ELSE yScales(d)
      of == IF max = 0 THEN 100 ELSE max
  IN  niceYDomain(FromNought[of * Unit]).hi
Along(d) == IF d.horizontal THEN d.width ELSE d.height
at(d, v) == v * Unit * Along(d)    \* from the baseline

stackOffsets(d, i, s) == Sum(d.rows[i].values, s - 1)

\* From where to where a bar reaches along the values.  A stacked one that
\* lies starts at its offset, and is as long as what is left of its value.
VerticalBar(d, i, s) ==
  LET from == IF d.stacked THEN stackOffsets(d, i, s) ELSE 0
  IN  [from |-> at(d, from), to |-> at(d, from + d.rows[i].values[s])]
HorizontalBar(d, i, s) ==
  IF d.stacked THEN [from |-> at(d, stackOffsets(d, i, s)),
                     to |-> Greatest(at(d, stackOffsets(d, i, s)), at(d, d.rows[i].values[s]))]
  ELSE [from |-> 0, to |-> at(d, d.rows[i].values[s])]
Bar(d, i, s) == IF d.horizontal THEN HorizontalBar(d, i, s) ELSE VerticalBar(d, i, s)

-----------------------------------------------------------------------------
\* handleMouseMove: the row under the pointer, by columns of one width.
columnWidth(d, p) == (p * N(d)) \div (Across(d) * Fine(d))
PointedRow(d, p) == 1 + Greatest(0, Least(N(d) - 1, columnWidth(d, p)))

\* A dot stands in the middle of its bar's end, or of the pile so far; a
\* chart of squares has it in the middle of the top one.
DotsHorizontal(d, i, s) ==
  [across |-> IF d.stacked THEN tooltipAcross(d, i) ELSE barStart(d, i, s) + barWidth(d) \div 2,
   along |-> at(d, IF d.stacked THEN Sum(d.rows[i].values, s) ELSE d.rows[i].values[s])]
DotsVertical(d, i, s) ==
  [across |-> IF d.stacked THEN tooltipAcross(d, i) ELSE barStart(d, i, s) + barWidth(d) \div 2,
   along |-> at(d, IF d.stacked THEN Sum(d.rows[i].values, s) ELSE d.rows[i].values[s])]
Dot(d, i, s) == IF d.horizontal THEN DotsHorizontal(d, i, s) ELSE DotsVertical(d, i, s)

\* The tooltip of bars that lie is at the end of the longest.
tooltipAlong(d, i) == Max({0} \cup {Dot(d, i, s).along : s \in 1..Series(d)})

-----------------------------------------------------------------------------
\* Every so many labels when there are more than max, each under its band.
BarXAxis(d, max) ==
  LET step == IF N(d) <= max THEN 1 ELSE (N(d) + max - 1) \div max
  IN  {i \in 1..N(d) : (i - 1) % step = 0}
BarYAxis(d, max, all) == IF all THEN 1..N(d) ELSE BarXAxis(d, max)

\* In twentieths.
BarXAxisLabel(distance, half) ==
  CASE distance < half -> 0
    [] distance >= half /\ distance < half + 20 -> distance - half
    [] distance >= half + 20 -> 20

hideEdgeTicks(ticks, hide) ==
  IF hide /\ Len(ticks) > 2 THEN SubSeq(ticks, 2, Len(ticks) - 1) ELSE ticks

\* The rows a grid draws, if it is told; <<>> leaves them to the scale.
resolveRowTickValues(ticks, own, hide) ==
  LET shown == hideEdgeTicks(ticks, hide) IN IF ~own /\ ~hide THEN <<>> ELSE shown

-----------------------------------------------------------------------------
\* A column of squares: [len, size, gap, fit].  Heights count `per` to a pixel.
computeSquareColumn(c) ==
  LET step == c.size + c.gap
      fit == Greatest(1, (c.len + c.gap) \div step)
      round == Greatest(1, (2 * c.len + step) \div (2 * step))
      per == Greatest(1, fit - 1)
  IN  CASE c.len <= 0 \/ c.size <= 0 -> [count |-> 0, height |-> 0, gap |-> c.gap, per |-> 1]
        [] c.len > 0 /\ c.size > 0 /\ c.fit ->    \* the gap shares what is left
             [count |-> fit, height |-> c.len * per, per |-> per,
              gap |-> IF fit > 1 THEN Greatest(0, c.len - fit * c.size) ELSE 0]
        [] c.len > 0 /\ c.size > 0 /\ ~c.fit ->
             [count |-> round, height |-> round * c.size + (round - 1) * c.gap, per |-> 1, gap |-> c.gap]

\* The top of the i-th square from below, as seen from the column's top.
Square(c, i) ==
  LET l == computeSquareColumn(c) IN l.height - c.size * l.per - (i - 1) * (c.size * l.per + l.gap)

\* Twice as far above the baseline as the middle of the top square.
topSquareCenterY(c) ==
  LET l == computeSquareColumn(c) IN
  IF l.count = 0 THEN 0 ELSE 2 * l.height - c.size * l.per

TrackColumn(c, plot) ==
  LET l == computeSquareColumn(c) IN Greatest(0, plot * l.per - l.height)

\* Two fifths of the duration are spread over the squares, from below; the
\* track comes down as long as the last of them grows.  Times count 5 to one
\* and as many again as squares follow the first.
SpreadOf(c) == Greatest(1, computeSquareColumn(c).count - 1)
squareCascadeStepSeconds(c, duration) ==
  IF computeSquareColumn(c).count <= 1 THEN 0 ELSE 2 * duration
SquareColumn(c, i, duration, delay) ==
  [start |-> 5 * SpreadOf(c) * delay + (i - 1) * squareCascadeStepSeconds(c, duration),
   lasts |-> 5 * SpreadOf(c) * duration]
cascadeColumnTransition(c, duration, delay) ==
  LET l == computeSquareColumn(c) IN
  [start |-> 5 * SpreadOf(c) * delay,
   lasts |-> 5 * SpreadOf(c) * duration
               + (IF l.count <= 1 THEN 0 ELSE (l.count - 1) * squareCascadeStepSeconds(c, duration))]

\* Bars beside each other on a line chart: [slot, bars, size, max, gap], the last three in
\* hundredths of a pixel; size and max may be NoSize.
NoSize == -1
computeSeriesBarWidth(b) ==
  LET wish == IF b.size # NoSize THEN b.size
              ELSE IF b.max = NoSize THEN b.slot * 88 ELSE Least(b.slot * 88, b.max)
      width == IF b.max = NoSize THEN wish ELSE Least(wish, b.max)
      group == b.slot * 92
      gaps == (b.bars - 1) * b.gap
  IN  Greatest(200, IF b.bars > 1 /\ b.bars * width + gaps > group /\ group > 0
                    THEN Greatest(400, (group - gaps) \div b.bars) ELSE width)
computeSeriesBarRevealClipPadding(b) ==
  LET width == computeSeriesBarWidth(b) IN
  ((b.bars * width + (b.bars - 1) * b.gap) + 199) \div 200

\* The tooltip box beside a point: [x, y, w, h] in a chart of a size, in halves.
TooltipBox(t, width, height, offset) ==
  [left |-> IF t.x + t.w + offset > width THEN 2 * (t.x - offset - t.w) ELSE 2 * (t.x + offset),
   top |-> Greatest(2 * offset, Least(2 * t.y - t.h, 2 * (height - t.h - offset)))]

-----------------------------------------------------------------------------
(* Bars of rows told apart by their labels stay in their band and their    *)
(* plot and clear of each other; a longer bar is a larger value; whichever *)
(* bar is pointed at is the one that answers, with its dots at its end and *)
(* its label among the few that are written under a band of their own.     *)
(* A pile of several bars may leave the plot, a lying one misses its       *)
(* lengths: both are kept out (bar-chart.tsx:297, bar.tsx:293).            *)
BarsFit(d) ==
  LET n == N(d)
      k == 1..Series(d)
      single(i) == Cardinality({s \in k : d.rows[i].values[s] # 0}) <= 1
      plain == ~d.stacked \/ (~d.horizontal /\ \A i \in 1..n : single(i))
  IN
  Cardinality(Labels(d)) = n =>
  /\ \A i \in 1..n :
       /\ categoryScale(d, i) >= 0 /\ categoryScale(d, i) + bandWidth(d) <= Across(d) * Fine(d)
       /\ i < n => categoryScale(d, i) + bandWidth(d) < categoryScale(d, i + 1)
       /\ \A s \in k :
            /\ categoryScale(d, i) <= barStart(d, i, s)
            /\ barStart(d, i, s) + barWidth(d) <= categoryScale(d, i) + bandWidth(d)
            /\ ~d.stacked /\ s > 1 => barStart(d, i, s - 1) + barWidth(d) < barStart(d, i, s)
            /\ \A p \in {barStart(d, i, s), barStart(d, i, s) + barWidth(d)} : PointedRow(d, p) = i
            /\ plain => /\ 0 <= Bar(d, i, s).from /\ Bar(d, i, s).to < Along(d) * valueScale(d)
                        /\ Bar(d, i, s).to = Dot(d, i, s).along
                        /\ Dot(d, i, s).along <= tooltipAlong(d, i)
            /\ barStart(d, i, s) <= Dot(d, i, s).across
            /\ Dot(d, i, s).across <= barStart(d, i, s) + barWidth(d)
  /\ plain => \A i, j \in 1..n, s \in k :
       d.rows[i].values[s] < d.rows[j].values[s] =>
         Bar(d, i, s).to - Bar(d, i, s).from < Bar(d, j, s).to - Bar(d, j, s).from
  /\ \A max \in {2, 12}, all \in BOOLEAN :
       1 \in BarXAxis(d, max) /\ BarXAxis(d, max) \subseteq BarYAxis(d, max, all)
         /\ Cardinality(BarXAxis(d, max)) <= max
  /\ \A far \in 0..80 : (BarXAxisLabel(far, 50) = 20) <=> far >= 70

\* What a column of squares and the bars beside each other may be given.
SquareColumnInput(c) ==
  c.len \in Int /\ c.size \in Nat /\ c.gap \in Nat /\ c.fit \in BOOLEAN /\ c.plot \in Int
SeriesBarInput(b) ==
  /\ b.slot \in Nat /\ b.bars \in Nat \ {0} /\ b.gap \in Nat
  /\ b.size \in Nat \cup {NoSize} /\ b.max \in Nat \cup {NoSize}

(* Squares stand on the baseline, apart, and reach as high as the column   *)
(* says, which is the bar's own height when they are to fit it and within  *)
(* half a step otherwise; what is above them is the track's; the track     *)
(* arrives when the last square does, two fifths of a duration late.       *)
SquaresFit(c) ==
  LET l == computeSquareColumn(c) IN
  /\ l.count > 0 => Square(c, 1) + c.size * l.per = l.height
  /\ \A i \in 2..l.count : Square(c, i) + c.size * l.per <= Square(c, i - 1)
  /\ l.count > 0 /\ c.len >= c.size =>
       /\ Square(c, l.count) = 0 \/ (c.fit /\ l.count = 1)
       /\ c.fit => l.height = c.len * l.per
       /\ ~c.fit => 2 * (l.height - c.len) <= c.size + c.gap /\ 2 * (c.len - l.height) <= c.size + 3 * c.gap
       /\ ~c.fit \/ l.count > 1 => topSquareCenterY(c) = 2 * (l.height - Square(c, l.count)) - c.size * l.per
  /\ TrackColumn(c, c.plot) + l.height >= c.plot * l.per
  /\ l.count > 0 =>
       LET top == SquareColumn(c, l.count, 10, 3)
           track == cascadeColumnTransition(c, 10, 3)
       IN  /\ top.start + top.lasts = track.start + track.lasts
           /\ 5 * (track.lasts - top.lasts) <= 2 * top.lasts

(* Bars of a line chart keep to their slot while they can be seen there,   *)
(* and the reveal's clip is as wide as they are; a tooltip stays in a      *)
(* chart that has room for it on either side, never over its point.        *)
BoxesFit(b) ==
  LET width == computeSeriesBarWidth(b)
      group == b.bars * width + (b.bars - 1) * b.gap
  IN
  /\ width > 400 /\ b.size = NoSize => group <= b.slot * 100
  /\ 200 * computeSeriesBarRevealClipPadding(b) >= group
  /\ \A x \in 0..b.slot, y \in {0, 10, b.slot} :
       LET box == TooltipBox([x |-> x, y |-> y, w |-> 9, h |-> 7], b.slot, b.slot, 3) IN
       b.slot >= 24 =>
         /\ 0 <= box.left /\ box.left + 18 <= 2 * b.slot
         /\ 0 <= box.top /\ box.top + 14 <= 2 * b.slot
         /\ box.left >= 2 * x + 6 \/ box.left + 18 <= 2 * x - 6
=============================================================================
