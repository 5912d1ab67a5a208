------------------------------ MODULE WebScales ------------------------------
(***************************************************************************)
(* Where a chart of the browser puts its values                            *)
(* (web/src/components/charts): the y-axis of every group of lines, what a *)
(* brush leaves of the data, the projection drawn past its end and how far *)
(* both axes stretch for it.                                               *)
(*                                                                         *)
(* Numbers are exact: a value is an integer, a scale counts Unit to one, so *)
(* that the paddings of a tenth and a twentieth and the slope through up   *)
(* to four evenly spaced points are whole.                                 *)
(***************************************************************************)
EXTENDS Integers, Sequences
LOCAL INSTANCE FiniteSetsExt
LOCAL INSTANCE SequencesExt

Unit == 200

Least(a, b) == IF a < b THEN a ELSE b
Greatest(a, b) == IF a < b THEN b ELSE a
Rows(s) == DOMAIN s

-----------------------------------------------------------------------------
\* d3's nice: a tenth of the span, to the geometrically nearest of 1, 2 and 5
\* by a power of ten; the ends go out to it until it no longer changes.
NiceSteps == <<2, 4, 10, 20, 40, 100, 200, 400, 1000, 2000, 4000, 10000, 20000>>
tickIncrement(span) ==
  LET near == {i \in 1..(Len(NiceSteps) - 1) : (span * span) \div 100 < NiceSteps[i] * NiceSteps[i + 1]}
  IN  NiceSteps[IF near = {} THEN Len(NiceSteps) ELSE Min(near)]

Widened(d, step) == [lo |-> step * (d.lo \div step), hi |-> step * ((d.hi + step - 1) \div step)]
niceYDomain(dom) ==
  FoldLeft(LAMBDA d, n : Widened(d, tickIncrement(d.hi - d.lo)), dom, [n \in 1..10 |-> n])

\* The clamp of a wanted number of ticks.
resolveYAxisTickCount(n) == Greatest(1, Least(10, n))

\* A scale keeps still when neither end moves by a hundredth of the span.
shouldTweenYDomain(from, to, hundredths) ==
  LET apart(x, y) == IF x < y THEN y - x ELSE x - y
      span == Greatest(Unit, Greatest(apart(to.hi, to.lo), apart(from.hi, from.lo)))
  IN  \/ 100 * apart(to.lo, from.lo) >= hundredths * span
      \/ 100 * apart(to.hi, from.hi) >= hundredths * span

-----------------------------------------------------------------------------
\* A line is [key, axis], a row [t, at], at a function of some keys.
normalizeYAxisId(a) == IF a = "" THEN "left" ELSE a
Axes(lines) == {normalizeYAxisId(lines[i].axis) : i \in Rows(lines)}
groupLinesByYAxisId(lines) ==
  [a \in Axes(lines) |-> {lines[i].key : i \in {j \in Rows(lines) : normalizeYAxisId(lines[j].axis) = a}}]

collectNumericExtents(rows, keys) ==
  LET values == UNION {{rows[i].at[k] : k \in keys \cap DOMAIN rows[i].at} : i \in Rows(rows)}
  IN  IF values = {} THEN [lo |-> 0, hi |-> 100] ELSE [lo |-> Min(values), hi |-> Max(values)]

\* A tenth above what starts at nought, else a twentieth on both sides.
Padded[lo \in Int, hi \in Int] ==
  LET pad == IF lo = hi THEN Unit ELSE (hi - lo) \div 20 IN [lo |-> lo - pad, hi |-> hi + pad]
FromNought[hi \in Int] == [lo |-> 0, hi |-> IF hi <= 0 THEN 100 * Unit ELSE (hi * 11) \div 10]

resolveTimeSeriesYDomain(rows, keys, top) ==
  LET e == collectNumericExtents(rows, keys) IN
  CASE top > 0 -> FromNought[top * Unit]
    [] top = 0 /\ e.lo >= 0 -> FromNought[e.hi * Unit]
    [] top = 0 /\ e.lo < 0 -> Padded[e.lo * Unit, e.hi * Unit]

computeYDomainsByAxis(lines, rows, top) ==
  LET groups == groupLinesByYAxisId(lines) IN
  [a \in Axes(lines) \cup {"left"} |->
     niceYDomain(IF a \in Axes(lines) THEN resolveTimeSeriesYDomain(rows, groups[a], top)
                 ELSE [lo |-> 0, hi |-> 100 * Unit])]

-----------------------------------------------------------------------------
\* buildProjectionPath's options: [key, axis, mode, auto, density, start,
\* horizon, end], start 0 for the last row, `end` in units.  Rows may lack the key.
resolveStartIndex(rows, start) == IF start = 0 THEN Len(rows) ELSE Least(start, Len(rows))

\* Days between two rows, else on average, else one.
resolveIntervalMs(rows, start) ==
  LET back == IF start < 2 THEN 0 ELSE rows[start].t - rows[start - 1].t
      span == IF Len(rows) < 2 THEN 0 ELSE Last(rows).t - Head(rows).t
  IN  IF back > 0 THEN back ELSE IF span > 0 THEN span \div (Len(rows) - 1) ELSE 1

historyPoints(rows, key, start) ==
  LET read(r) == [t |-> r.t, y |-> r.at[key] * Unit]
      has(r) == key \in DOMAIN r.at
      read_all == SelectSeq(SubSeq(rows, 1, start), has)
  IN  [i \in DOMAIN read_all |-> read(read_all[i])]

\* A slope is a numerator over a denominator.
linearRegressionSlope(points) ==
  LET n == Len(points)
      sum(f(_)) == FoldLeft(LAMBDA s, p : s + f(p), 0, points)
      t == sum(LAMBDA p : p.t)
      denom == n * sum(LAMBDA p : p.t * p.t) - t * t
  IN  IF n < 2 \/ denom = 0 THEN [num |-> 0, den |-> 1]
      ELSE [num |-> n * sum(LAMBDA p : p.t * p.y) - t * sum(LAMBDA p : p.y), den |-> denom]

computeProjectionAnchorTangentSlope(points) ==
  LET n == Len(points) IN
  IF n < 2 \/ points[n].t = points[n - 1].t THEN [num |-> 0, den |-> 1]
  ELSE [num |-> points[n].y - points[n - 1].y, den |-> points[n].t - points[n - 1].t]

buildAutoFutureValues(o, anchor, history, interval) ==
  LET slope == IF o.auto = "lastSegment" THEN computeProjectionAnchorTangentSlope(history)
               ELSE linearRegressionSlope(history)
      at(i) == [t |-> anchor.t + interval * i,
                y |-> anchor.y + (slope.num * interval * i) \div slope.den]
  IN  IF o.density = "endpoints" THEN <<anchor, at(o.horizon)>>
      ELSE [i \in 1..(o.horizon + 1) |-> at(i - 1)]

buildTargetPath(o, anchor, interval) ==
  <<anchor, [t |-> anchor.t + interval * o.horizon, y |-> o.end]>>

buildProjectionPath(rows, o) ==
  LET start == resolveStartIndex(rows, o.start)
      anchor == [t |-> rows[start].t, y |-> rows[start].at[o.key] * Unit]
      interval == resolveIntervalMs(rows, start)
  IN  CASE o.mode = "manual" -> o.points
        [] o.mode # "manual" /\ (rows = <<>> \/ o.key \notin DOMAIN rows[start].at) -> <<>>
        [] o.mode = "target" /\ rows # <<>> /\ o.key \in DOMAIN rows[start].at ->
             buildTargetPath(o, anchor, interval)
        [] o.mode = "auto" /\ rows # <<>> /\ o.key \in DOMAIN rows[start].at ->
             buildAutoFutureValues(o, anchor, historyPoints(rows, o.key, start), interval)

\* A path of two points or more stretches the axes.
extractProjectionLineConfigs(rows, projections) ==
  SelectSeq([i \in Rows(projections) |->
               [axis |-> normalizeYAxisId(projections[i].axis),
                path |-> buildProjectionPath(rows, projections[i])]],
            LAMBDA c : Len(c.path) >= 2)

projectionValueExtents(configs, axis) ==
  UNION {{configs[i].path[j].y : j \in DOMAIN configs[i].path} :
           i \in {k \in Rows(configs) : configs[k].axis = axis}}
projectionDateExtents(configs) ==
  UNION {{configs[i].path[j].t : j \in DOMAIN configs[i].path} : i \in Rows(configs)}

\* A domain with the values projected on its axis.
Stretched(dom, values) ==
  LET lo == Min(values \cup {dom.lo})
      hi == Max(values \cup {dom.hi})
  IN  IF values = {} THEN dom ELSE IF lo >= 0 THEN FromNought[hi] ELSE Padded[lo, hi]

mergeProjectionYDomain(dom, configs, axis) == Stretched(dom, projectionValueExtents(configs, axis))

mergeProjectionXDomainMax(max, configs) ==
  LET ends == projectionDateExtents(configs) IN
  IF ends = {} THEN max ELSE Greatest(max, Max(ends))

-----------------------------------------------------------------------------
\* What a brush shows, whichever end was dragged first.
filterDataByXDomain(rows, brush) ==
  LET lo == Least(brush.lo, brush.hi)
      hi == Greatest(brush.lo, brush.hi)
  IN  SelectSeq(rows, LAMBDA r : lo <= r.t /\ r.t <= hi)

resolveDataXExtent(rows) ==
  LET times == {rows[i].t : i \in Rows(rows)} IN [lo |-> Min(times), hi |-> Max(times)]

\* The brush's own track reaches past the rows, as far as what is projected.
resolveBrushTrackXExtent(rows, max) ==
  [resolveDataXExtent(rows) EXCEPT !.hi = Greatest(@, max)]

visiblePlotData(d) == IF d.brushed THEN filterDataByXDomain(d.rows, d.brush) ELSE d.rows
projectionConfigs(d) == extractProjectionLineConfigs(d.rows, d.projections)

xScale(d) ==
  LET all == resolveDataXExtent(d.rows) IN
  IF d.brushed THEN d.brush
  ELSE [all EXCEPT !.hi = mergeProjectionXDomainMax(@, projectionConfigs(d))]

yDomainTargetByAxis(d) ==
  LET base == computeYDomainsByAxis(d.lines, visiblePlotData(d), d.top)
      configs == projectionConfigs(d)
      own == Axes(d.lines) \cup {"left"}
      more == {configs[i].axis : i \in Rows(configs)}
  IN  [a \in own \cup more |->
         mergeProjectionYDomain(IF a \in own THEN base[a] ELSE [lo |-> 0, hi |-> 100 * Unit],
                                configs, a)]

\* One scale for every axis of a line, and the left one whatever the lines.
buildYScalesFromDomains(d) ==
  LET domains == yDomainTargetByAxis(d) IN [a \in Axes(d.lines) \cup {"left"} |-> domains[a]]
getPrimaryYScale(scales) == scales["left"]

-----------------------------------------------------------------------------
\* A computed projection leaves from the row it is anchored at, forward, and
\* a target is reached.
LeavesForward(path, p, start) ==
  /\ path # <<>> => <<path[1].t, path[1].y>> = <<start.t, start.at[p.key] * Unit>>
  /\ \A j \in 2..Len(path) : path[j].t > path[j - 1].t
  /\ p.mode = "target" /\ path # <<>> => Last(path).y = p.end

\* Lines d drawn on such scales, as seen there.
LinesHold(d, scales, configs, seen, x) ==
  /\ \A a \in DOMAIN scales : scales[a].lo < scales[a].hi
  /\ \A l \in Rows(d.lines), i \in Rows(seen) :
       LET s == scales[normalizeYAxisId(d.lines[l].axis)] IN
       d.lines[l].key \in DOMAIN seen[i].at /\ d.top = 0 =>
         /\ s.lo <= seen[i].at[d.lines[l].key] * Unit
         /\ seen[i].at[d.lines[l].key] * Unit < s.hi
  /\ \A c \in Rows(configs) : \A j \in DOMAIN configs[c].path :
       configs[c].axis \in DOMAIN scales =>
         /\ scales[configs[c].axis].lo <= configs[c].path[j].y
         /\ configs[c].path[j].y < scales[configs[c].axis].hi
  /\ \A a \in DOMAIN scales :
       /\ \A i \in Rows(seen) : \A k \in DOMAIN seen[i].at : seen[i].at[k] >= 0
       /\ \A y \in projectionValueExtents(configs, a) : y >= 0
       => scales[a].lo = 0
  /\ ~d.brushed =>
       \A t \in {d.rows[i].t : i \in Rows(d.rows)} \cup projectionDateExtents(configs) :
         /\ x.lo <= t /\ t <= x.hi
         /\ t <= resolveBrushTrackXExtent(d.rows, x.hi).hi
  /\ \A p \in Rows(d.projections) :
       d.projections[p].mode # "manual" =>
         \A path \in {buildProjectionPath(d.rows, d.projections[p])} :
           LeavesForward(path, d.projections[p], d.rows[resolveStartIndex(d.rows, d.projections[p].start)])

(* Whatever the lines, their axes, the brush and the projections: a scale  *)
(* has an inside and holds every value plotted or projected on its axis;   *)
(* it starts at nought when nothing is below; the time axis holds every    *)
(* row and every projected point unless a brush cuts it; and a projection  *)
(* leaves from the row it is anchored at, forward.                         *)
LinesFit(d) ==
  \A scales \in {buildYScalesFromDomains(d)}, configs \in {projectionConfigs(d)},
     seen \in {visiblePlotData(d)}, x \in {xScale(d)} : LinesHold(d, scales, configs, seen, x)
=============================================================================
