------------------------------ MODULE WebTooltip ------------------------------
(***************************************************************************)
(* What a chart of the browser is put together from and what the tooltip   *)
(* above it says (web/src/components/charts: time-series-chart-shell.tsx,  *)
(* bar-chart.tsx, chart-child-passthrough.ts, chart-defs.ts,               *)
(* tooltip/chart-tooltip.tsx, tooltip-indicator.tsx, date-ticker.tsx).     *)
(***************************************************************************)
EXTENDS WebBars
LOCAL INSTANCE FiniteSetsExt
LOCAL INSTANCE SequencesExt

-----------------------------------------------------------------------------
\* A child of a chart: [name, key, post, wrapped, inside], a series if it has
\* a key, `wrapped` inside a wrapper that shows or hides it, and with children
\* of its own when it is a fragment.
NoKey == ""
CLIP_EXCLUDED_COMPONENT_NAMES == {"Background", "Grid", "XAxis", "YAxis", "BarXAxis", "BarYAxis"}
UNDERLAY_COMPONENT_NAMES == {"ReferenceArea", "BarColumnTrack"}
LINE_DOMAIN_EXCLUDED_NAMES ==
  {"ProfitLossLine", "LineSeriesTerminalMarker", "Area", "SeriesBar", "Scatter", "Candlestick", "Bar", "PatternArea"}

resolveChartChildElement(c) == [c EXCEPT !.wrapped = FALSE]
nameOf(c) == IF c.wrapped THEN "" ELSE c.name

isGradientDefComponent(c) == nameOf(c) \in {"LinearGradient", "RadialGradient"}
isPatternDefComponent(c) == nameOf(c) \in {"PatternLines", "PatternArea", "Lines", "Circles"}
isPostOverlayComponent(c) == c.post \/ nameOf(c) \in {"ChartMarkers", "MarkerGroup", "ChartBrush"}
isClipExcludedComponent(c) == nameOf(c) \in CLIP_EXCLUDED_COMPONENT_NAMES
isUnderlayComponent(c) == nameOf(c) \in UNDERLAY_COMPONENT_NAMES

\* The layers from behind.  `as` is what tells definitions apart: a bar chart
\* asks the child as it is, wrapped or not.
Layers == <<"defs", "axes", "under", "series", "over">>
LayerOf(c, as) ==
  LET r == resolveChartChildElement(c) IN
  CASE isGradientDefComponent(as) -> "defs"
    [] ~isGradientDefComponent(as) /\ isPatternDefComponent(as) -> "series"
    [] ~isGradientDefComponent(as) /\ ~isPatternDefComponent(as) ->
         CASE isPostOverlayComponent(r) -> "over"
           [] ~isPostOverlayComponent(r) /\ isClipExcludedComponent(r) -> "axes"
           [] ~isPostOverlayComponent(r) /\ isUnderlayComponent(r) -> "under"
           [] OTHER -> "series"

\* A bar chart looks into fragments, a line chart takes one for a series.
forEachChartChild(children) ==
  FlattenSeq([i \in DOMAIN children |->
                IF children[i].name = "Fragment" THEN children[i].inside ELSE <<children[i]>>])
LineLayers(children) ==
  [l \in ToSet(Layers) |->
     SelectSeq([i \in DOMAIN children |-> resolveChartChildElement(children[i])],
               LAMBDA c : LayerOf(c, c) = l)]
BarLayers(children, loading) ==
  [l \in ToSet(Layers) |-> IF l = "series" /\ loading THEN <<>>
     ELSE SelectSeq(forEachChartChild(children), LAMBDA c : LayerOf(c, c) = l)]

\* The series that make the axes and the rows of the tooltip.
registersLineDomain(c) == c.key # NoKey /\ (c.name = "Line" \/ c.name \notin LINE_DOMAIN_EXCLUDED_NAMES)
extractLineConfigs(children) ==
  LET found(c) == IF registersLineDomain(c) THEN <<c>> ELSE SelectSeq(c.inside, registersLineDomain)
  IN  FlattenSeq([i \in DOMAIN children |-> found(children[i])])
extractBarConfigs(children) == SelectSeq(forEachChartChild(children), LAMBDA c : c.key # NoKey)

(* Whatever children a chart has: the axes lie behind every series and the *)
(* markers before, in the order given; nothing is drawn twice, nothing is  *)
(* lost but the bars of a chart that loads; and what makes the axes and    *)
(* the tooltip's rows is drawn among the series, above the axes.           *)
LayersHold(d) ==
  LET layers == IF d.chart = "line" THEN LineLayers(d.children) ELSE BarLayers(d.children, d.loading)
      all == IF d.chart = "line" THEN d.children ELSE forEachChartChild(d.children)
      drawn == FlattenSeq([i \in DOMAIN Layers |-> layers[Layers[i]]])
      series == IF d.chart = "line" THEN extractLineConfigs(d.children) ELSE extractBarConfigs(d.children)
      within(c) == {c.key} \cup {c.inside[i].key : i \in DOMAIN c.inside}
  IN
  /\ d.chart = "line" \/ ~d.loading => Len(drawn) = Len(all)
  /\ \A i, j \in DOMAIN drawn : i < j =>
       /\ drawn[j].name \in CLIP_EXCLUDED_COMPONENT_NAMES /\ ~drawn[j].post =>
            drawn[i].name \in CLIP_EXCLUDED_COMPONENT_NAMES \cup {"LinearGradient", "RadialGradient"}
       /\ drawn[i].post => drawn[j].post \/ isPostOverlayComponent(drawn[j])
  /\ ~d.loading => \A s \in ToSet(series) :
       \/ s.post
       \/ \E c \in ToSet(layers["series"]) : s.key \in within(c)

-----------------------------------------------------------------------------
\* indicator-fade: [offset, opacity], top to bottom, in hundredths.
resolveVerticalFadeSides(fade) == [top |-> fade \in {"both", "top"}, bottom |-> fade \in {"both", "bottom"}]
indicatorFadeGradientStops(sides, length) ==
  LET fade == Least(40, Greatest(2, length))
      stop(o, v) == [offset |-> o, opacity |-> v]
  IN  CASE ~sides.top /\ ~sides.bottom -> <<stop(0, 1)>>
        [] sides.top /\ sides.bottom ->
             <<stop(0, 0), stop(fade, 1), stop(50, 1), stop(100 - fade, 1), stop(100, 0)>>
        [] sides.top /\ ~sides.bottom -> <<stop(0, 0), stop(fade, 1), stop(100, 1)>>
        [] ~sides.top /\ sides.bottom -> <<stop(0, 1), stop(100 - fade, 1), stop(100, 0)>>

\* A slider for how the box follows: less damping, more of a spring.
resolveTooltipBoxMotion(damping) ==
  [animate |-> damping # 0,
   stiffness |-> CASE damping = 0 -> 100
                   [] damping > 0 /\ damping < 20 -> 100 + (20 - damping) * 20
                   [] damping >= 20 -> Greatest(12, 100 - ((damping - 20) * 85) \div 80)]

-----------------------------------------------------------------------------
\* The pill's label is a month and a day, [month, day].  A long series has one
\* label, a short one two stacks that scroll.
monthSegments(labels) ==
  SelectSeq([i \in DOMAIN labels |-> i],
            LAMBDA i : i = 1 \/ labels[Greatest(1, i - 1)].month # labels[i].month)
currentMonthIndex(labels, index) ==
  LET starts == monthSegments(labels) IN
  IF index \notin DOMAIN labels THEN 1 ELSE Max({s \in DOMAIN starts : starts[s] <= index})
discreteInteraction(labels) == Len(labels) > 60
DateTickerInner(labels, index) ==
  [month |-> labels[monthSegments(labels)[currentMonthIndex(labels, index)]].month, day |-> labels[index].day]
DateTickerCompact(labels, index) == IF index \in DOMAIN labels THEN labels[index] ELSE labels[1]
DateTicker(labels, index) ==
  IF discreteInteraction(labels) THEN DateTickerCompact(labels, index) ELSE DateTickerInner(labels, index)

\* A tooltip over row t.index of the bar chart t.of, ringed or dotted.  The
\* gap of squares is in the chart's context, and not in what is kept of it:
\* every chart has the gap of four here.
ChartProvider(t) == [t EXCEPT !.groupGap = 4]
resolvedDotSize(t) ==
  LET k == Series(t.of)
      gap == IF k > 1 THEN ChartProvider(t).groupGap * Fine(t.of) ELSE 0
  IN  ((bandWidth(t.of) - gap * (k - 1)) \div k) \div 2
tooltipRows(t) ==
  IF t.rows # <<>> THEN t.rows
  ELSE [s \in 1..Series(t.of) |-> [color |-> <<"stroke", s>>, label |-> s, value |-> t.of.rows[t.index].values[s]]]
resolveDotColor(t, s) == IF t.rows # <<>> /\ s <= Len(t.rows) THEN t.rows[s].color ELSE <<"stroke", s>>
title(t) == t.of.rows[t.index].label

\* The crosshair stands over the point, a line wide or so many columns.
TooltipIndicator(t) ==
  LET wide == IF t.span = 0 THEN 1 ELSE t.span * ((Across(t.of) * Fine(t.of)) \div N(t.of))
  IN  [from |-> 2 * tooltipAcross(t.of, t.index) - wide, wide |-> 2 * wide]
ChartTooltip(t) ==
  [dots |-> IF t.of.horizontal THEN <<>>
            ELSE [s \in 1..Series(t.of) |-> Dot(t.of, t.index, s)],
   pill |-> IF t.of.horizontal THEN <<>> ELSE <<DateTicker(t.labels, t.index)>>]

(* Whichever bar is pointed at, the tooltip says that row: its title, one  *)
(* row for every series with that series' value, a dot in its colour, a    *)
(* pill that reads its label however the labels repeat; the crosshair's    *)
(* middle is the point's; rings frame their bars, where bars keep the gap  *)
(* of four; and fades and springs stay in their ranges.                    *)
TooltipsTell(t) ==
  LET shown == ChartTooltip(t)
      own == t.of.rows[t.index]
  IN
  /\ title(t) = own.label
  /\ t.rows = <<>> =>
       [s \in DOMAIN own.values |-> tooltipRows(t)[s].value] = own.values
  /\ \A s \in DOMAIN shown.dots :
       /\ s <= Len(tooltipRows(t)) => resolveDotColor(t, s) = tooltipRows(t)[s].color
       /\ t.ring /\ ~t.of.stacked /\ t.groupGap = 4 =>
            LET slack == shown.dots[s].across - resolvedDotSize(t) - barStart(t.of, t.index, s)
            IN  slack \in -1..1
  /\ \A p \in ToSet(shown.pill) : p = t.labels[t.index]
  /\ LET i == TooltipIndicator(t) IN 2 * i.from + i.wide = 4 * tooltipAcross(t.of, t.index)
  /\ \A fade \in {"both", "none", "top", "bottom"}, length \in {0, 10, 90} :
       LET stops == indicatorFadeGradientStops(resolveVerticalFadeSides(fade), length) IN
       /\ \A i \in 1..(Len(stops) - 1) : stops[i].offset < stops[i + 1].offset
       /\ Len(stops) > 1 =>
            ((stops[1].opacity = 0) <=> fade \in {"both", "top"})
              /\ ((stops[Len(stops)].opacity = 0) <=> fade \in {"both", "bottom"})
  /\ \A a, b \in 1..100 : a < b =>
       resolveTooltipBoxMotion(a).stiffness >= resolveTooltipBoxMotion(b).stiffness
=============================================================================
