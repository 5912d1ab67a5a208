------------------------------ MODULE WebLoading ------------------------------
(***************************************************************************)
(* What a chart of the browser draws in each of its phases, and what it    *)
(* draws in place of what is not there yet (web/src/components/charts:     *)
(* line.tsx, line-loading-pulse.tsx, loading-sweep.tsx, grid.tsx,          *)
(* use-grid-shimmer.ts, series-markers.tsx, chart-reveal-clip.tsx).        *)
(* Pixels and milliseconds are whole, a progress counts to a hundred.      *)
(***************************************************************************)
EXTENDS Integers, Sequences
LOCAL INSTANCE FiniteSetsExt
LOCAL INSTANCE SequencesExt

ChartPhase == {"loading", "exiting", "gridTweenReady", "revealing", "ready",
               "exitingReady", "gridTweenLoading"}
ChartStatus == {"loading", "ready"}

resolveLineLoadingPulseMode(p) ==
  CASE p = "loading" -> "loop" [] p = "exiting" -> "exit" [] OTHER -> "none"
showSeriesStroke(p) == p \in {"revealing", "ready", "exitingReady"}
showLoadingLabel(p) == p \in {"loading", "exiting", "gridTweenReady"}
isLoadingChromePhase(p) == p = "loading"
isLoadingGridChromePhase(p) == p \in {"loading", "exiting", "gridTweenLoading"}

AtLeast(a, b) == IF a < b THEN b ELSE a
Half == 50

-----------------------------------------------------------------------------
\* A line is [phase, loading, style, wide, traced, dash, n, key, keys,
\* legend, hovering]: `loading` "", "on" or "off", as it was told; `traced`
\* when its path is known; dash -1 for none; `legend` the row of the legend
\* that is pointed at, 0 for none.
pulseMode(l) ==
  CASE l.loading = "off" -> "none"
    [] l.loading = "on" -> "loop"
    [] l.loading = "" -> resolveLineLoadingPulseMode(l.phase)
LineLoadingOverlays(l) ==
  CASE pulseMode(l) = "none" \/ l.wide <= 0 -> "none"
    [] pulseMode(l) # "none" /\ l.wide > 0 /\ l.style = "sweep" -> "sweep"
    [] pulseMode(l) # "none" /\ l.wide > 0 /\ l.style = "pulse" -> IF l.traced THEN "pulse" ELSE "none"

resolveDashTailBounds(l) == l.dash >= 0 /\ l.dash < l.n - 1
visibleStroke(l) == showSeriesStroke(l.phase) /\ ~resolveDashTailBounds(l)

\* The solid head up to the dash, by the share of its index, in hundredths.
SeriesDashTailOverlay(l) ==
  IF ~resolveDashTailBounds(l) \/ ~l.traced THEN <<>>
  ELSE <<[head |-> (100 * l.dash) \div AtLeast(1, l.n - 1), tail |-> (l.wide * l.dash) \div (l.n - 1)]>>

seriesIndex(l) == LET at == {i \in DOMAIN l.keys : l.keys[i] = l.key} IN IF at = {} THEN 1 ELSE Min(at)
effectiveShowHighlight(l) == pulseMode(l) = "none"
SeriesHoverDim(l) ==
  effectiveShowHighlight(l) /\ (l.hovering \/ (l.legend # 0 /\ l.legend # seriesIndex(l)))

-----------------------------------------------------------------------------
\* The strokes of the grid's rows.
Grid(l, shimmer) ==
  [muted |-> isLoadingGridChromePhase(l.phase),
   shimmers |-> shimmer /\ isLoadingChromePhase(l.phase) /\ l.wide > 0]

-----------------------------------------------------------------------------
\* Animations are legs [from, to, ms]; the next one starts when one ends.
LINE_LOADING_PULSE_CYCLE_MS == 2200
LINE_LOADING_LOOP_PAUSE_MS == 280
LOADING_LABEL_EXIT_MS == 450
CLIP_PADDING == 10

Leg(from, to, ms) == [from |-> from, to |-> to, ms |-> ms]
useGrowExitClip(mode, at) ==
  LET half == LINE_LOADING_PULSE_CYCLE_MS \div 2
      shrink(from) == Leg(from, 100, AtLeast((half * (100 - from)) \div Half, 10))
  IN  CASE mode = "loop" -> <<Leg(0, 100, LINE_LOADING_PULSE_CYCLE_MS)>>
        [] mode = "enter" -> <<Leg(0, Half, half)>>
        [] mode = "exit" /\ at < Half ->
             <<Leg(at, Half, AtLeast((half * (Half - at)) \div Half, 10)), shrink(Half)>>
        [] mode = "exit" /\ at >= Half -> <<shrink(at)>>

\* The window on the pulse opens to the right, then closes to the right.
ClipOf(p, wide) ==
  LET padded == wide + 2 * CLIP_PADDING
      w == IF p <= Half THEN (p * padded) \div Half ELSE padded - ((p - Half) * padded) \div Half
  IN  [x |-> IF p <= Half THEN -CLIP_PADDING ELSE wide + CLIP_PADDING - w, wide |-> w]

\* Of a chart that comes and goes: where its window starts and ends.
ChartRevealClip(mode, animating, wide, padding) ==
  LET full == AtLeast(0, wide + 2 * padding)
      at(x, w) == [x |-> x, wide |-> w]
  IN  CASE ~animating -> <<at(-padding, full)>>
        [] animating /\ mode = "conceal" -> <<at(-padding, full), at(-padding + full, 0)>>
        [] animating /\ mode = "reveal" -> <<at(-padding, 0), at(-padding, full)>>

useGridShimmer(speed, sync, oneShot) ==
  LET cycle == (10 * LINE_LOADING_PULSE_CYCLE_MS) \div AtLeast(speed, 1)    \* speed in tenths
  IN  IF sync /\ oneShot THEN [leg |-> Leg(0, 100, cycle \div 2), again |-> -1]
      ELSE [leg |-> Leg(0, 100, cycle), again |-> IF sync THEN LINE_LOADING_LOOP_PAUSE_MS ELSE 0]
shimmerX(p, wide, length) == (p * (wide + 2 * length)) \div 100 - length

\* The sweep: its band goes from -100 to 200 and over again; each frame has
\* its place.  What it passes over changes when it has left it.
LoadingSweepMask(frames, loops) ==
  FoldLeft(LAMBDA s, x : [last |-> x, rolls |-> s.rolls + IF loops /\ x >= 100 /\ s.last < 100 THEN 1 ELSE 0],
           [last |-> -100, rolls |-> 0], frames)
\* When a sweep that does not loop hands over to the chart; never is -1.
LineLoadingSweep(mode, reduceMotion) ==
  CASE mode = "loop" -> -1
    [] mode # "loop" /\ reduceMotion -> 0
    [] mode # "loop" /\ ~reduceMotion -> LOADING_LABEL_EXIT_MS

-----------------------------------------------------------------------------
\* Any heights of 20 to 79 hundredths, any signs: [left, wide, top, high].
getSkeletonHeights(count) == [1..count -> {20, 79}]
getSkeletonSigns(count) == [1..count -> {-1, 1}]
SkeletonBars(heights, signs, wide, high, baseline, fraction) ==
  LET band == wide \div Len(heights)
      base == IF baseline = "center" THEN high \div 2 ELSE high
  IN  [i \in DOMAIN heights |->
         LET tall == AtLeast(1, (base * heights[i]) \div 100) IN
         [left |-> (i - 1) * band + (band * (10 - fraction)) \div 20, wide |-> (band * fraction) \div 10,
          top |-> IF baseline = "center" /\ signs[i] = -1 THEN base ELSE base - tall, high |-> tall]]
BarLoadingSkeleton(d) ==
  IF d.wide <= 0 \/ d.high <= 0 THEN {}
  ELSE {SkeletonBars(h, s, d.wide, d.high, d.baseline, 7) :
          h \in getSkeletonHeights(d.count), s \in getSkeletonSigns(d.count)}

-----------------------------------------------------------------------------
\* Markers, in twentieths of a pixel: [radius, stroke, gap, outline, lifts].
MarkerCircles(m) == m.radius + (IF m.stroke > 0 THEN m.gap + m.stroke ELSE 0) + m.outline
getSeriesMarkerVisualExtent(m) ==
  MarkerCircles(m) + (IF m.lifts THEN (m.radius * 7) \div 20 ELSE 0) + 40

\* A marker for every datum that has a value, in at: [index, at, delay], as
\* far behind the reveal as it stands, by its near edge.
SeriesMarkers(at, wide, revealing, ms, extent) ==
  LET seen == {i \in DOMAIN at : at[i] >= 0}
  IN  {[index |-> i, at |-> at[i],
        delay |-> IF wide > 0 /\ revealing THEN (AtLeast(0, at[i] - extent) * ms) \div wide ELSE 0] : i \in seen}
SeriesMarkersActiveHighlight(points, index) == {p \in points : p.index = index}

-----------------------------------------------------------------------------
\* What a line, its markers and the bars of a chart to come may be given:
\* the lines of a chart have keys of their own, and the bars to come have a
\* pixel each, on either side of a base line.
LineProps(d) ==
  /\ d.line \in [phase : ChartPhase, loading : {"", "on", "off"}, style : {"pulse", "sweep"}, wide : Nat,
                 traced : BOOLEAN, dash : Int, n : Nat, key : STRING, keys : Seq(STRING), legend : Nat,
                 hovering : BOOLEAN]
  /\ \A i, j \in DOMAIN d.line.keys : d.line.keys[i] = d.line.keys[j] => i = j
  /\ d.shimmer \in BOOLEAN
SeriesMarkersProps(d) ==
  /\ d.at \in Seq(Int) /\ d.wide \in Nat /\ d.ms \in Nat /\ d.revealing \in BOOLEAN
  /\ d.marker \in [radius : Nat, stroke : Nat, gap : Nat, outline : Nat, lifts : BOOLEAN]
BarLoadingSkeletonProps(d) ==
  /\ d.wide \in Nat /\ d.high \in Nat /\ d.high > 1 /\ d.count \in Nat /\ d.count > 0
  /\ d.wide = 0 \/ d.count <= d.wide
  /\ d.baseline \in {"bottom", "center"}

(* In every phase a line is drawn or pulses, never both, and what answers  *)
(* a pointer is drawn; only what loads shimmers, under the loading label;  *)
(* a line dims for a hover, or for another's row of the legend, and not    *)
(* for its own; the dashes begin at their datum, within the line.          *)
(* line.tsx:259-315, grid.tsx:123-138, series-hover-dim.tsx:38-46.         *)
PhaseDrawn(d) ==
  LET l == d.line
      g == Grid(l, d.shimmer)
  IN
  /\ l.loading # "on" => ~(visibleStroke(l) /\ LineLoadingOverlays(l) # "none")
  /\ l.phase = "ready" /\ l.loading # "on" /\ ~resolveDashTailBounds(l) => visibleStroke(l)
  /\ SeriesHoverDim(l) /\ l.loading = "" => l.phase \notin {"loading", "exiting"}
  /\ l.loading = "" /\ LineLoadingOverlays(l) # "none" => g.muted /\ showLoadingLabel(l.phase)
  /\ g.shimmers => g.muted /\ ~showSeriesStroke(l.phase)
  /\ ~l.hovering /\ l.key \in ToSet(l.keys) /\ l.legend \in DOMAIN l.keys /\ l.keys[l.legend] = l.key
       => ~SeriesHoverDim(l)
  /\ \A t \in ToSet(SeriesDashTailOverlay(l)) : t.head < 100 /\ t.tail < AtLeast(1, l.wide)

(* Whenever a chart that loads is told to be ready, its pulse goes on from *)
(* where it was, without a jump, and is out of sight in at most a cycle,   *)
(* having shown the whole width; a pulse, a reveal and a conceal stay in   *)
(* the same window; a band begins and ends out of sight; and what is swept *)
(* changes only between two passes, and only as long as it loops.          *)
(* line-loading-pulse.tsx:48-151, chart-reveal-clip.tsx:57-72,             *)
(* loading-sweep.tsx:122-133.                                              *)
PulsesRun(d) ==
  LET legs == useGrowExitClip(d.mode, d.at)
      inside(c) == c.x >= -CLIP_PADDING /\ c.wide >= 0 /\ c.x + c.wide <= d.wide + CLIP_PADDING
      spent == FoldLeft(LAMBDA ms, leg : ms + leg.ms, 0, legs)
      conceal == ChartRevealClip("conceal", TRUE, d.wide, CLIP_PADDING)
      reveal == ChartRevealClip("reveal", TRUE, d.wide, CLIP_PADDING)
  IN
  /\ \A i \in 1..(Len(legs) - 1) : legs[i].to = legs[i + 1].from
  /\ \A i \in DOMAIN legs : inside(ClipOf(legs[i].from, d.wide)) /\ inside(ClipOf(legs[i].to, d.wide))
  /\ \A p, q \in 0..100 : p < q =>
       LET a == ClipOf(p, d.wide) b == ClipOf(q, d.wide) IN a.x <= b.x /\ a.x + a.wide <= b.x + b.wide
  /\ d.mode = "exit" =>
       /\ legs[1].from = d.at /\ ClipOf(legs[Len(legs)].to, d.wide) = conceal[2]
       /\ spent <= LINE_LOADING_PULSE_CYCLE_MS + 10
       /\ d.at < Half => \E i \in DOMAIN legs : ClipOf(legs[i].to, d.wide) = conceal[1]
  /\ d.mode = "enter" => ClipOf(legs[Len(legs)].to, d.wide) = reveal[2]
  /\ \A m \in {"reveal", "conceal"} :
       Cardinality({c.x + c.wide : c \in ToSet(ChartRevealClip(m, TRUE, d.wide, 0))} \cup {0, d.wide}) <= 2
  /\ \A sync, once \in BOOLEAN, speed \in {0, 10, 30} :
       LET run == useGridShimmer(speed, sync, once) IN
       /\ shimmerX(run.leg.from, d.wide, 140) + 140 <= 0 /\ shimmerX(run.leg.to, d.wide, 140) >= d.wide
       /\ sync /\ ~once /\ speed = 10 =>
            run.leg.ms + run.again = useGrowExitClip("loop", 0)[1].ms + LINE_LOADING_LOOP_PAUSE_MS
  /\ LET passes == 1 + Cardinality({i \in 1..(Len(d.frames) - 1) : d.frames[i + 1] < d.frames[i]})
         rolls == LoadingSweepMask(d.frames, d.mode = "loop").rolls
     IN  rolls <= passes /\ (d.mode # "loop" => rolls = 0)
  /\ \A reduce \in BOOLEAN : LineLoadingSweep(d.mode, reduce) >= 0 <=> d.mode # "loop"

(* Whatever heights are drawn, the bars that stand for a chart to come lie *)
(* in the plot, side by side and on their base line, and stand out.        *)
(* loading-sweep.tsx:355-403.                                              *)
SkeletonsFit(d) ==
  \A bars \in BarLoadingSkeleton(d) : \A i \in DOMAIN bars :
    LET b == bars[i] base == IF d.baseline = "center" THEN d.high \div 2 ELSE d.high IN
    /\ b.left >= 0 /\ b.left + b.wide <= d.wide /\ b.top >= 0 /\ b.top + b.high <= d.high
    /\ b.high >= 1 /\ (b.top = base \/ b.top + b.high = base)
    /\ i > 1 => bars[i - 1].left + bars[i - 1].wide < b.left

(* Markers come in the order in which the reveal reaches them, none after  *)
(* it has ended and none at all late once it has; one is lifted, at the    *)
(* datum pointed at if that has a value; and a marker, lifted or not, has  *)
(* the room the chart leaves for it while its rings are slim.              *)
(* series-markers.tsx:101-140, series-point-marker.tsx:190-209.            *)
MarkersCome(d) ==
  LET extent == getSeriesMarkerVisualExtent(d.marker)
      points == SeriesMarkers(d.at, d.wide, d.revealing, d.ms, extent)
      outer == MarkerCircles(d.marker)
  IN
  /\ \A p, q \in points : p.at <= q.at => p.delay <= q.delay
  /\ \A p \in points : (p.at <= d.wide => p.delay <= d.ms) /\ (~d.revealing => p.delay = 0)
  /\ \A i \in DOMAIN d.at : SeriesMarkersActiveHighlight(points, i) = {} <=> d.at[i] < 0
  /\ outer <= extent
  /\ d.marker.lifts /\ 7 * (outer - d.marker.radius) <= 800 => 20 * extent + 20 >= 27 * outer
=============================================================================
