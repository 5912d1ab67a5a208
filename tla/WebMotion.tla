------------------------------ MODULE WebMotion ------------------------------
(***************************************************************************)
(* A chart of the browser over time (web/src/components/charts): a line    *)
(* chart's phases between loading and ready (use-chart-phase-orchestrator, *)
(* use-animated-y-domains, use-animated-series-path, chart-reveal-clip), a *)
(* bar chart's reveal, and the pointer above either one                    *)
(* (use-chart-interaction, use-scheduled-tooltip).                         *)
(*                                                                         *)
(* A step is one event, a prop that changed, a timer, an animation that    *)
(* ended, a frame or the pointer, with every effect React runs for it; an  *)
(* effect that sets the next phase is followed to where it rests.          *)
(***************************************************************************)
EXTENDS WebLoading

CONSTANTS
  Datas,       \* what the chart is given: [v, n, top], n points up to `top`
  ChartOptions,    \* how it may be placed: [kind, animates, grid,
                   \* moves, preview, pulses]
  NoTip,
  MaxChartTroubles   \* bound: props that change

ASSUME ChartConstants ==
  /\ \A d \in Datas : d.n \in {0, 1, 3} /\ d.top \in Nat
  /\ ChartOptions \subseteq [kind : {"line", "bar"}, animates : BOOLEAN, grid : BOOLEAN,
                           moves : BOOLEAN, preview : BOOLEAN, pulses : BOOLEAN]
  /\ NoTip \notin Int /\ MaxChartTroubles \in Nat
  /\ NoTip \notin [index : Int, x : Int, v : {d.v : d \in Datas}]    \* it is no tooltip

VARIABLES
  options,     \* as the chart was placed
  status, data, chartTroubles,       \* props
  chart,       \* [phase, plot, loaded, timer, domain, tween, to, path]
  tip,         \* [shown, pending, frame, last]: the tooltip and its refs
  hovered, dragging, selection       \* the pointer as last seen

propVars == <<options, status, data, chartTroubles>>
pointerVars == <<hovered, dragging, selection>>
motionVars == <<propVars, chart, tip, pointerVars>>

-----------------------------------------------------------------------------
resolveRestingChartPhase(s) == IF s = "loading" THEN "loading" ELSE "ready"
isYDomainTweenPhase(p) == p \in {"gridTweenLoading", "gridTweenReady"}

\* The y-domains of the data and of the placeholder drawn in its stead.
Target(d) == <<"target", d.top>>
Skeleton(d) == <<"skeleton", d.n>>
Between == <<"between", 0>>

resolveAnimatedYDestination(p, d) ==
  IF p \in {"loading", "exiting", "gridTweenLoading"} THEN Skeleton(d) ELSE Target(d)

Points(c, d) == IF c.plot = "skeleton" /\ d.n = 0 THEN 7 ELSE d.n

\* There is a clip to conceal the series with.
useClipReveal(c, d) == ~options.preview /\ Points(c, d) > 1 /\ options.animates

\* Mutant: the reveal's timer outlives its phase.
LeftTimed(c, p) == [c EXCEPT !.phase = p, !.tween = "none", !.path = "target"]

\* Every phase that is left stops its timer, its tween and the line's move.
Left(c, p) == [c EXCEPT !.phase = p, !.timer = FALSE, !.tween = "none", !.path = "target"]

\* Phases in which the domain is held: snapped when entered.
Held(c, p, d) ==
  [Left(c, p) EXCEPT !.domain = resolveAnimatedYDestination(p, d),
     !.plot = IF p \in {"loading", "exiting"} THEN "skeleton" ELSE "target"]

Revealing(c, d) ==
  IF options.animates THEN [Held(c, "revealing", d) EXCEPT !.timer = TRUE]
  ELSE [Held(c, "ready", d) EXCEPT !.loaded = TRUE]

\* notifyYDomainTweenComplete.
Settled(c, d) ==
  CASE c.phase = "gridTweenLoading" -> Held(c, "loading", d)
    [] c.phase = "gridTweenReady" -> Revealing(c, d)
    [] OTHER -> c

\* tweenDomains: nothing to move, or not to be moved, settles at once.  The
\* orchestrator's own short cut, of no duration, ends in the same place.
GridTween(c, p, d) ==
  LET to == resolveAnimatedYDestination(p, d)
      in == [Left(c, p) EXCEPT !.plot = "target", !.to = to]
  IN  IF c.domain = to \/ ~options.grid THEN Settled([in EXCEPT !.domain = to], d)
      ELSE [in EXCEPT !.tween = "running"]

\* The effect on the status: out of whatever phase the chart is in.
StatusChanged(c, s, d) ==
  LET off == [c EXCEPT !.loaded = FALSE] IN
  CASE s = "ready" /\ options.animates -> Held(off, "exiting", d)
    [] s = "ready" /\ ~options.animates -> GridTween(off, "gridTweenReady", d)
    [] s = "loading" /\ options.animates -> Held(off, "exitingReady", d)
    [] s = "loading" /\ ~options.animates -> GridTween(off, "gridTweenLoading", d)

\* The effect on the target: only a live chart follows it, and only a ready
\* one by moving; a line that has points moves from them, whether or not the
\* grid does.
DataChanged(c, from, d) ==
  LET line == [c EXCEPT !.path = IF c.phase = "ready" /\ options.moves /\ from.n > 0 /\ d.n > 0
                                    /\ from.v # d.v THEN "moving" ELSE @]
  IN  IF c.phase \notin {"ready", "revealing"} \/ Target(from) = Target(d) THEN line
      ELSE IF c.phase = "ready" /\ options.grid /\ c.domain # Target(d)
      THEN [line EXCEPT !.tween = "running", !.to = Target(d)]
      ELSE [line EXCEPT !.domain = Target(d), !.tween = "none",
                        !.path = "target"]   \* a new scale ends the move it starts with

\* A bar chart has no phases but the reveal: one timer for all its bars.
Bars(s) ==
  [phase |-> "revealing", plot |-> IF s = "loading" THEN "skeleton" ELSE "target",
   loaded |-> FALSE, timer |-> s = "ready", domain |-> Between, tween |-> "none",
   to |-> Between, path |-> "target"]

-----------------------------------------------------------------------------
canInteract == chart.loaded /\ chart.phase = "ready"

\* The datum nearest to a third of the width; a single one stands halfway.
Index(p, d) == IF d.n < 3 THEN 0 ELSE p
resolveTooltipFromX(p, d) ==
  IF d.n = 0 THEN NoTip ELSE [index |-> Index(p, d), x |-> IF d.n = 1 THEN 1 ELSE p, v |-> d.v]

\* Two tooltips are one when they stand at one place.
Key(t) == IF t = NoTip THEN NoTip ELSE <<t.index, t.x>>

NoTooltip == [shown |-> NoTip, pending |-> NoTip, frame |-> FALSE, last |-> NoTip]

scheduleTooltip(t, new) ==
  [t EXCEPT !.pending = new, !.frame = @ \/ Key(new) # t.last]

\* commitTooltip, in the frame asked for.
CommitTooltip(t) ==
  IF t.pending = NoTip \/ Key(t.pending) = t.last THEN [t EXCEPT !.frame = FALSE]
  ELSE [t EXCEPT !.frame = FALSE, !.last = Key(t.pending), !.shown = t.pending]

\* The effect that anchors a line chart's tooltip again, when its data, its
\* scales or its readiness changed.
Reanchored(t, live, d) ==
  IF ~live \/ hovered = NoTip THEN t
  ELSE IF d.n = 0 THEN NoTooltip ELSE scheduleTooltip(t, resolveTooltipFromX(hovered, d))

Anchor ==
  tip' = IF options.kind = "line" THEN Reanchored(tip, canInteract', data') ELSE tip

-----------------------------------------------------------------------------
\* A chart placed ready plays its reveal, unless it is a still preview.
Mounted(s, d) ==
  LET rest == [phase |-> resolveRestingChartPhase(s),
               plot |-> IF s = "loading" THEN "skeleton" ELSE "target",
               loaded |-> s = "ready", timer |-> FALSE, tween |-> "none", to |-> Between,
               domain |-> resolveAnimatedYDestination(resolveRestingChartPhase(s), d),
               path |-> "target"]
  IN  IF options.kind = "bar" THEN Bars(s)
      ELSE IF s = "ready" /\ ~options.preview THEN Revealing([rest EXCEPT !.loaded = FALSE], d)
      ELSE rest

MotionInit ==
  /\ options \in ChartOptions
  /\ status \in ChartStatus /\ data \in Datas /\ chartTroubles = 0
  /\ chart = Mounted(status, data)
  /\ tip = NoTooltip /\ hovered = NoTip /\ dragging = NoTip /\ selection = NoTip

PropChange == chartTroubles < MaxChartTroubles /\ chartTroubles' = chartTroubles + 1

\* Often at once: a query that starts again has no data.
SetStatus(d) ==
  /\ PropChange /\ status' \in ChartStatus \ {status} /\ data' = d
  /\ chart' = IF options.kind = "bar" THEN Bars(status') ELSE StatusChanged(chart, status', d)
  /\ UNCHANGED <<options, pointerVars>> /\ Anchor

SetData(d) ==
  /\ PropChange /\ d # data /\ data' = d
  /\ chart' = IF options.kind = "bar" THEN chart ELSE DataChanged(chart, data, d)
  /\ UNCHANGED <<options, status, pointerVars>> /\ Anchor

\* revealSignature: a chart at rest plays its reveal again.
Replay ==
  /\ PropChange
  /\ chart' = IF options.kind = "bar" THEN Bars(status)
              ELSE IF ~options.preview /\ status = "ready" /\ chart.phase = "ready"
              THEN Revealing([chart EXCEPT !.loaded = FALSE], data) ELSE chart
  /\ UNCHANGED <<options, status, data, pointerVars>> /\ Anchor

\* A new tween duration stops the tween under way, and starts none.
Retune ==
  /\ chart.tween = "running" /\ chart' = [chart EXCEPT !.tween = "stopped"]
  /\ UNCHANGED <<propVars, tip, pointerVars>>

-----------------------------------------------------------------------------
RevealTimer ==
  /\ chart.timer
  /\ chart' = [chart EXCEPT !.phase = "ready", !.loaded = TRUE, !.timer = FALSE]
  /\ UNCHANGED <<propVars, pointerVars>> /\ Anchor

\* Line: the exit pulse ended.  A line told not to pulse has none.
notifyLoadingPulseComplete ==
  /\ chart.phase = "exiting" /\ options.pulses
  /\ chart' = GridTween(chart, "gridTweenReady", data)
  /\ UNCHANGED <<propVars, pointerVars>> /\ Anchor

\* ChartRevealClip: the conceal ended.
notifyRevealConcealComplete ==
  /\ chart.phase = "exitingReady" /\ useClipReveal(chart, data)
  /\ chart' = GridTween(chart, "gridTweenLoading", data)
  /\ UNCHANGED <<propVars, tip, pointerVars>>

\* A frame of the tween: each one is a new scale, and a line that was moving
\* to its new place is left where it is.
DomainFrame ==
  /\ chart.tween = "running" /\ chart.domain # Between
  /\ chart' = [chart EXCEPT !.domain = Between, !.path = IF @ = "moving" THEN "frozen" ELSE @]
  /\ UNCHANGED <<propVars, pointerVars>> /\ Anchor

DomainSettled ==
  /\ chart.tween = "running" /\ chart.domain = Between
  /\ chart' = Settled([chart EXCEPT !.tween = "none", !.domain = chart.to], data)
  /\ UNCHANGED <<propVars, pointerVars>> /\ Anchor

PathSettled ==
  /\ chart.path = "moving" /\ chart.tween # "running" /\ chart' = [chart EXCEPT !.path = "target"]
  /\ UNCHANGED <<propVars, tip, pointerVars>>

TooltipFrame ==
  /\ tip.frame /\ tip' = CommitTooltip(tip)
  /\ UNCHANGED <<propVars, chart, pointerVars>>

-----------------------------------------------------------------------------
Thirds == 0..2
Line == options.kind = "line"

\* A move of the mouse or of one finger.
Hover(p) ==
  /\ canInteract /\ (Line => dragging = NoTip)
  /\ hovered' = IF Line THEN p ELSE hovered
  /\ tip' = IF data.n = 0 THEN tip ELSE scheduleTooltip(tip, resolveTooltipFromX(p, data))
  /\ UNCHANGED <<propVars, chart, dragging, selection>>

Span(p, q, d) ==
  [start |-> Index(IF p < q THEN p ELSE q, d), end |-> Index(IF p < q THEN q ELSE p, d)]

Press(p) ==
  /\ canInteract /\ Line
  /\ dragging' = p /\ selection' = NoTip /\ tip' = NoTooltip
  /\ UNCHANGED <<propVars, chart, hovered>>

Drag(p) ==
  /\ canInteract /\ dragging # NoTip /\ selection' = Span(dragging, p, data)
  /\ UNCHANGED <<propVars, chart, tip, hovered, dragging>>

Release ==
  /\ canInteract /\ Line /\ dragging' = NoTip /\ selection' = NoTip
  /\ UNCHANGED <<propVars, chart, tip, hovered>>

\* Two fingers.
Pinch(p, q) ==
  /\ canInteract /\ Line /\ tip' = NoTooltip /\ selection' = Span(p, q, data)
  /\ UNCHANGED <<propVars, chart, hovered, dragging>>

\* The finger leaves, and where it was is remembered.
TouchEnd ==
  /\ canInteract /\ Line /\ tip' = NoTooltip /\ selection' = NoTip
  /\ UNCHANGED <<propVars, chart, hovered, dragging>>

\* Nobody is told of a pointer that leaves a chart that is not ready.
Leave_Chart ==
  /\ canInteract
  /\ tip' = NoTooltip /\ hovered' = NoTip /\ dragging' = NoTip /\ selection' = NoTip
  /\ UNCHANGED <<propVars, chart>>

MotionNext ==
  \/ \E d \in Datas : SetStatus(d) \/ SetData(d)
  \/ Replay \/ Retune
  \/ RevealTimer \/ notifyLoadingPulseComplete \/ notifyRevealConcealComplete
  \/ DomainFrame \/ DomainSettled \/ PathSettled \/ TooltipFrame
  \/ \E p \in Thirds : Hover(p) \/ Press(p) \/ Drag(p) \/ \E q \in Thirds : Pinch(p, q)
  \/ Release \/ TouchEnd \/ Leave_Chart

MotionSpec == MotionInit /\ [][MotionNext]_motionVars

-----------------------------------------------------------------------------
\* The band a hover or a selection brightens, by indices of the data.
computeSegmentBounds ==
  LET at(i) == IF i < 0 THEN 0 ELSE IF i > data.n - 1 THEN data.n - 1 ELSE i IN
  CASE data.n = 0 -> NoTip
    [] data.n > 0 /\ selection # NoTip -> selection
    [] data.n > 0 /\ selection = NoTip /\ tip.shown = NoTip -> NoTip
    [] data.n > 0 /\ selection = NoTip /\ tip.shown # NoTip ->
         IF tip.shown.index > data.n THEN NoTip    \* no point there any more
         ELSE [start |-> at(tip.shown.index - 1), end |-> at(tip.shown.index + 1)]

MotionTypeOK ==
  /\ chart.phase \in ChartPhase /\ status \in ChartStatus /\ data \in Datas
  /\ chart.plot \in {"skeleton", "target"} /\ chart.path \in {"target", "moving", "frozen"}
  /\ chart.tween \in {"none", "running", "stopped"}
  /\ hovered \in Thirds \cup {NoTip} /\ dragging \in Thirds \cup {NoTip}

UnderWay ==
  \/ chart.timer \/ chart.tween = "running" \/ chart.path = "moving"
  \/ chart.phase = "exiting" /\ options.pulses
  \/ chart.phase = "exitingReady" /\ useClipReveal(chart, data)

\* The phases that wait for what never comes: a pulse no line plays, a clip
\* that is not there, a tween that was stopped.
Stranded ==
  \/ chart.phase = "exiting" /\ ~options.pulses
  \/ chart.phase = "exitingReady" /\ ~useClipReveal(chart, data)
  \/ isYDomainTweenPhase(chart.phase) /\ chart.tween = "stopped"

(* However props, timers, animations and the pointer interleave: a chart   *)
(* answers the pointer only when it is drawn ready; once nothing is under  *)
(* way a line chart rests in the phase of its status, with the series or   *)
(* the placeholder and their own scale, or is in one of three places that  *)
(* wait for nothing; a line stands off its data only where the scale moved *)
(* under it; and once no frame is due the tooltip stands over the datum    *)
(* nearest to the pointer last seen, never past the end of the data.       *)
(* use-chart-phase-orchestrator.ts, use-animated-y-domains.ts:128-242,     *)
(* use-chart-interaction.ts:311-321, use-scheduled-tooltip.ts.             *)
ChartMotion ==
  /\ chart.loaded => status = "ready" /\ chart.phase = "ready"
  /\ Line /\ ~UnderWay /\ ~Stranded =>
       /\ chart.phase = resolveRestingChartPhase(status)
       /\ chart.loaded <=> status = "ready"
       /\ chart.plot = (IF status = "ready" THEN "target" ELSE "skeleton")
       /\ status = "ready" /\ chart.tween # "stopped" => chart.domain = Target(data)
       /\ showSeriesStroke(chart.phase) <=> status = "ready"
       /\ resolveLineLoadingPulseMode(chart.phase) = "loop" <=> status = "loading"
  /\ chart.path = "frozen" => canInteract
  /\ Line /\ canInteract /\ ~tip.frame /\ tip.shown # NoTip =>
       /\ Key(tip.shown) = Key(resolveTooltipFromX(hovered, data))
       /\ selection = NoTip => computeSegmentBounds.start <= tip.shown.index
                               /\ tip.shown.index <= computeSegmentBounds.end
=============================================================================
