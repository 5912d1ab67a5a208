------------------------------ MODULE WebDrawing ------------------------------
(***************************************************************************)
(* The charts of the browser drawn: one drawing after another, each        *)
(* computed whole from its props as a render does.                         *)
(***************************************************************************)
EXTENDS WebBars, WebTicks, WebTooltip, WebLoading, WebMoney

CONSTANTS
  Drawings,    \* the props to draw with, by kind
  NoDrawing    \* no chart on the page

ASSUME DrawingConstants ==
  NoDrawing \notin Drawings /\
  \A d \in Drawings : d.kind \in {"lines", "bars", "column", "box", "ticks", "thin", "layers", "tip",
                              "phase", "pulse", "skeleton", "markers", "money"}

\* The props of the drawings that are arithmetic and cases alone.
ASSUME DrawingProps ==
  \A d \in Drawings :
    /\ d.kind = "column" => SquareColumnInput(d)
    /\ d.kind = "box" => SeriesBarInput(d)
    /\ d.kind = "phase" => LineProps(d)
    /\ d.kind = "skeleton" => BarLoadingSkeletonProps(d)
    /\ d.kind = "markers" => SeriesMarkersProps(d)

VARIABLE drawing

DrawingInit == drawing \in Drawings
\* Other props for the same chart.
Redraw == drawing' \in {d \in Drawings : d.kind = drawing.kind}

(* Whatever a chart is given to draw, it draws it where it belongs, and    *)
(* what it says of a point is that point: the operators below say where.   *)
(* web/src/components/charts.                                              *)
ChartGeometry == drawing # NoDrawing =>
  CASE drawing.kind = "lines" -> LinesFit(drawing)
    [] drawing.kind = "bars" -> BarsFit(drawing)
    [] drawing.kind = "column" -> SquaresFit(drawing)
    [] drawing.kind = "box" -> BoxesFit(drawing)
    [] drawing.kind = "ticks" -> TicksRead(drawing)
    [] drawing.kind = "thin" -> LinesThin(drawing)
    [] drawing.kind = "layers" -> LayersHold(drawing)
    [] drawing.kind = "tip" -> TooltipsTell(drawing)
    [] drawing.kind = "phase" -> PhaseDrawn(drawing)
    [] drawing.kind = "pulse" -> PulsesRun(drawing)
    [] drawing.kind = "skeleton" -> SkeletonsFit(drawing)
    [] drawing.kind = "markers" -> MarkersCome(drawing)
    [] drawing.kind = "money" -> MoneyReads(drawing)
=============================================================================
