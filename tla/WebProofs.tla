------------------------------ MODULE WebProofs ------------------------------
(***************************************************************************)
(* What is proved of each screen holds of the tab that shows it.           *)
(*                                                                         *)
(* A tab shows one screen: its steps are that screen's, and what the       *)
(* others hold does not move.  So a tab implements each of them, and what  *)
(* a screen keeps the tab keeps.  Only the review screen shares something: *)
(* the list of categories is the picker's too, which is given another list *)
(* with every organisation.  Off screen its queue is as it was opened,     *)
(* with nothing chosen, whatever that list is (QueueHeld).                 *)
(*                                                                         *)
(* A drawing holds nothing but its props: what is proved of it is what its *)
(* operators make of any props (TabDraws).                                 *)
(***************************************************************************)
EXTENDS Web, WebDataProofs, WebMotionProofs, WebReportProofs, TLAPS

-----------------------------------------------------------------------------
(* A tab starts as each of its screens does. *)
LEMMA StartsShell == Init => ShellInit
BY DEF Init, Offscreen

LEMMA StartsReport == Init => ReportInit
BY DEF Init, Offscreen

LEMMA StartsMotion == Init => MotionInit
BY DEF Init, Offscreen

(* A step of the tab is one of the screen shown, and leaves the others. *)
LEMMA StepsImports == [Next]_vars => [ImportsNext]_importVars
BY DEF Next, vars

LEMMA StepsShell == [Next]_vars => [ShellNext]_shellVars
BY DEF Next, vars

LEMMA StepsReport == [Next]_vars => [ReportNext]_reportVars
BY DEF Next, vars

LEMMA StepsMotion == [Next]_vars => [MotionNext]_motionVars
BY DEF Next, vars

(* The tab implements the screens that share nothing.  web/src/router.tsx. *)
THEOREM TabShows == Spec => ImportsSpec /\ ShellSpec /\ ReportSpec /\ MotionSpec
<1>1. Init => ImportsInit
  BY DEF Init
<1> QED
  BY <1>1, StartsShell, StartsReport, StartsMotion, StepsImports, StepsShell, StepsReport, StepsMotion,
     PTL DEF Spec, ImportsSpec, ShellSpec, ReportSpec, MotionSpec

-----------------------------------------------------------------------------
(* The review screen, or what it holds while another one is shown. *)
QueueHeld ==
  IF screen = "review" THEN SettleInv /\ FlagInv /\ KeyInv ELSE QueueInit

LEMMA HeldInit == Init => QueueHeld
<1> SUFFICES ASSUME Init  PROVE QueueHeld
  OBVIOUS
<1>1. CASE screen = "review"
  <2>1. ReviewInit
    BY <1>1 DEF Init, Offscreen, ReviewInit
  <2> QED  BY <1>1, <2>1, SettleInit, FlagInit, KeyInit DEF QueueHeld
<1>2. CASE screen # "review"
  BY <1>2 DEF Init, QueueHeld
<1> QED  BY <1>1, <1>2

LEMMA HeldStep == QueueHeld /\ [Next]_vars => QueueHeld'
<1> SUFFICES ASSUME QueueHeld, [Next]_vars  PROVE QueueHeld'
  OBVIOUS
<1>1. screen' = screen
  BY DEF Next, vars
<1>2. CASE screen = "review"
  <2>1. [ReviewNext]_reviewVars
    BY <1>2 DEF Next, vars
  <2>2. SettleInv /\ FlagInv /\ KeyInv /\ ReviewInv
    BY <1>2 DEF QueueHeld, SettleInv
  <2>3. SettleInv' /\ FlagInv' /\ KeyInv'
    BY <2>1, <2>2, SettleNext, FlagStep, KeyStep
  <2> QED  BY <1>1, <1>2, <2>3 DEF QueueHeld
<1>3. CASE screen # "review"
  <2>1. UNCHANGED queueVars
    BY <1>3 DEF Next, vars, reviewVars
  <2>2. QueueInit'
    BY <1>3, <2>1 DEF QueueHeld, QueueInit, queueVars, serverVars, groupsVars, badgeVars, choiceVars,
                      Asked
  <2> QED  BY <1>1, <1>3, <2>2 DEF QueueHeld
<1> QED  BY <1>2, <1>3

(* Nothing is chosen, and nothing read, on a screen that is not shown. *)
LEMMA HeldScoped == QueueHeld => ChoiceScoped /\ QueueSettles
<1> SUFFICES ASSUME QueueHeld  PROVE ChoiceScoped /\ QueueSettles
  OBVIOUS
<1>1. CASE screen = "review"
  BY <1>1, FreshSettles DEF QueueHeld, SettleInv, ReviewInv
<1>2. CASE screen # "review"
  <2>1. /\ selected = NoCode /\ browsing = NoGroup /\ groupsFetch = Asked /\ badgeFetch = Asked
        /\ \A c \in Calls : calls[c] = NoCall
    BY <1>2 DEF QueueHeld, QueueInit
  <2>2. ChoiceScoped
    BY <2>1 DEF ChoiceScoped, NoCall
  <2>3. QueueSettles
    BY <2>1 DEF QueueSettles, Asked
  <2> QED  BY <2>2, <2>3
<1> QED  BY <1>1, <1>2

LEMMA TabHolds == Spec => []QueueHeld
BY HeldInit, HeldStep, PTL DEF Spec

-----------------------------------------------------------------------------
(* On whatever screen a tab is opened: a category stands armed only for    *)
(* the group it was chosen under, and what is sent for a group was chosen  *)
(* there.  ReviewScreen.tsx:192-205.                                       *)
THEOREM TabScopes == Spec => []ChoiceScoped
BY TabHolds, HeldScoped, PTL

(* The list and the badge settle on the server's queue.  AppLayout.tsx:    *)
(* 66-68, ReviewScreen.tsx:183-187.                                        *)
THEOREM TabSettles == Spec => []QueueSettles
BY TabHolds, HeldScoped, PTL

(* What is told of a file only moves forward.  data/imports.ts:18-59.      *)
THEOREM TabForward == Spec => ChipsForward
BY TabShows, ImportsForward, PTL

(* The parts of an open batch agree, the shell is a gate, the numbers of   *)
(* the report are one account, a chart rests where its props say.          *)
(* data/imports.ts:132-179, AppLayout.tsx:38-114, data/report.ts:122-345,  *)
(* use-chart-phase-orchestrator.ts.                                        *)
THEOREM TabAgrees == Spec => [](DetailAgrees /\ ShellGate /\ ReportAgrees /\ ChartMotion)
BY TabShows, ImportsAgree, GateKept, ReportNumbers, ChartsRest, PTL

(* The screen shown, and what it was given. *)
OnTab ==
  /\ screen \in Screens
  /\ screen = "picker" => cats \in Lists
  /\ screen = "drawing" => drawing \in Drawings

LEMMA GivenInit == Init => OnTab
BY DEF Init, Offscreen, DrawingInit, OnTab

LEMMA GivenStep == OnTab /\ [Next]_vars => OnTab'
<1> SUFFICES ASSUME OnTab, [Next]_vars  PROVE OnTab'
  OBVIOUS
<1>1. screen' = screen
  BY DEF Next, vars
<1>2. screen = "picker" => cats' \in Lists
  BY DEF Next, vars, Relist, OnTab, reviewVars
<1>3. screen = "drawing" => drawing' \in Drawings
  BY DEF Next, vars, Redraw, OnTab
<1> QED  BY <1>1, <1>2, <1>3 DEF OnTab

(* The picker's tree is whole: every leaf lies behind one option of every  *)
(* level above it, and every folded branch is a real choice.               *)
(* categoryTree.ts:15-20.                                                  *)
THEOREM TabTree == Spec => []TreeWhole
<1>1. ASSUME OnTab  PROVE TreeWhole
  <2>1. screen = "picker" => cats \in SUBSET Category /\ IsFiniteSet(cats)
    BY <1>1, ListsOfCategories DEF OnTab
  <2> QED  BY <2>1, PickerTree DEF TreeWhole
<1> QED  BY <1>1, GivenInit, GivenStep, PTL DEF Spec

(* Every screen's state stays of its types.  web/src/app, web/src/data.    *)
THEOREM TabTyped == Spec => []WebTypeOK
<1>1. ASSUME OnTab, QueueHeld, ImportsTypeOK, ShellTypeOK, ReportTypeOK, MotionTypeOK
      PROVE  WebTypeOK
  <2>1. screen = "review" => ReviewTypeOK
    BY <1>1, HeldTyped DEF QueueHeld, SettleInv
  <2> QED  BY <1>1, <2>1 DEF WebTypeOK, OnTab, Screens
<1>2. Spec => []OnTab
  BY GivenInit, GivenStep, PTL DEF Spec
<1> QED
  BY <1>1, <1>2, TabHolds, TabShows, ImportsTyped, ShellTyped, ReportTyped, ChartsTyped, PTL

-----------------------------------------------------------------------------
(* The drawings that are arithmetic and cases alone: lines in their        *)
(* phases, markers, bars to come, columns of squares, bars beside each     *)
(* other and the tooltip.                                                  *)
(* Whole division. *)
LEMMA DivIs ==
  ASSUME NEW x \in Int, NEW y \in Nat \ {0}
  PROVE  x \div y \in Int /\ y * (x \div y) <= x /\ x < y * (x \div y) + y
OBVIOUS

(* A least element is the one Min chooses. *)
LEMMA MinIs ==
  ASSUME NEW S \in SUBSET Int, NEW m \in S, \A y \in S : m <= y
  PROVE  Min(S) = m
<1>1. m \in S /\ \A y \in S : m =< y
  OBVIOUS
<1>2. Min(S) \in S /\ \A y \in S : Min(S) =< y
  BY <1>1 DEF Min
<1>3. Min(S) \in Int /\ m \in Int /\ Min(S) <= m /\ m <= Min(S)
  BY <1>1, <1>2
<1> QED  BY <1>3

LEMMA AtLeastIs ==
  \A a, b \in Int : /\ AtLeast(a, b) \in Int /\ AtLeast(a, b) >= a /\ AtLeast(a, b) >= b
                    /\ AtLeast(a, b) = a \/ AtLeast(a, b) = b
BY DEF AtLeast

(* An index's share of a width lies short of it. *)
LEMMA ShareOf ==
  ASSUME NEW w \in Nat, NEW i \in Nat, NEW n \in Nat, i < n
  PROVE  (w * i) \div n \in Nat /\ (w * i) \div n <= w /\ (w > 0 => (w * i) \div n < w)
OBVIOUS

(* line.tsx:259-315, grid.tsx:123-138, series-hover-dim.tsx:38-46. *)
LEMMA PhasesDrawn ==
  ASSUME NEW d, LineProps(d)
  PROVE  PhaseDrawn(d)
<1>1. PICK l : l = d.line
  OBVIOUS
<1>2. /\ l.phase \in ChartPhase /\ l.loading \in {"", "on", "off"} /\ l.style \in {"pulse", "sweep"}
      /\ l.wide \in Nat /\ l.traced \in BOOLEAN /\ l.dash \in Int /\ l.n \in Nat /\ l.hovering \in BOOLEAN
      /\ l.keys \in Seq(STRING) /\ l.legend \in Nat
      /\ \A i, j \in DOMAIN l.keys : l.keys[i] = l.keys[j] => i = j
  BY <1>1 DEF LineProps
<1> DEFINE g == Grid(l, d.shimmer)
<1>3. g.muted = isLoadingGridChromePhase(l.phase)
      /\ g.shimmers = (d.shimmer /\ isLoadingChromePhase(l.phase) /\ l.wide > 0)
  BY DEF Grid
<1> HIDE DEF g
<1>4. l.loading # "on" => ~(visibleStroke(l) /\ LineLoadingOverlays(l) # "none")
  BY <1>2 DEF visibleStroke, showSeriesStroke, LineLoadingOverlays, pulseMode, resolveLineLoadingPulseMode
<1>5. l.phase = "ready" /\ l.loading # "on" /\ ~resolveDashTailBounds(l) => visibleStroke(l)
  BY DEF visibleStroke, showSeriesStroke
<1>6. SeriesHoverDim(l) /\ l.loading = "" => l.phase \notin {"loading", "exiting"}
  BY DEF SeriesHoverDim, effectiveShowHighlight, pulseMode, resolveLineLoadingPulseMode
<1>7. l.loading = "" /\ LineLoadingOverlays(l) # "none" => g.muted /\ showLoadingLabel(l.phase)
  BY <1>2, <1>3 DEF LineLoadingOverlays, pulseMode, resolveLineLoadingPulseMode, isLoadingGridChromePhase,
     showLoadingLabel
<1>8. g.shimmers => g.muted /\ ~showSeriesStroke(l.phase)
  BY <1>3 DEF isLoadingChromePhase, isLoadingGridChromePhase, showSeriesStroke
<1>9. ~l.hovering /\ l.key \in ToSet(l.keys) /\ l.legend \in DOMAIN l.keys /\ l.keys[l.legend] = l.key
       => ~SeriesHoverDim(l)
  <2>1. SUFFICES ASSUME ~l.hovering, l.legend \in DOMAIN l.keys, l.keys[l.legend] = l.key
                 PROVE  ~SeriesHoverDim(l)
    OBVIOUS
  <2>2. {i \in DOMAIN l.keys : l.keys[i] = l.key} = {l.legend}
    BY <1>2, <2>1
  <2>3. Min({l.legend}) = l.legend
    <3>1. {l.legend} \in SUBSET Int /\ l.legend \in {l.legend} /\ \A y \in {l.legend} : l.legend <= y
      <4>1. l.legend \in Nat
        BY <1>2
      <4> QED  BY <4>1
    <3> QED  BY <3>1, MinIs
  <2>4. seriesIndex(l) = l.legend
    BY <2>2, <2>3 DEF seriesIndex
  <2> QED  BY <2>1, <2>4 DEF SeriesHoverDim
<1>10. \A t \in ToSet(SeriesDashTailOverlay(l)) : t.head < 100 /\ t.tail < AtLeast(1, l.wide)
  <2>1. CASE ~resolveDashTailBounds(l) \/ ~l.traced
    BY <2>1 DEF SeriesDashTailOverlay, ToSet
  <2>2. CASE resolveDashTailBounds(l) /\ l.traced
    <3> DEFINE h == (100 * l.dash) \div AtLeast(1, l.n - 1)
               t == (l.wide * l.dash) \div (l.n - 1)
    <3>1. ToSet(SeriesDashTailOverlay(l)) = {[head |-> h, tail |-> t]}
      BY <2>2 DEF SeriesDashTailOverlay, ToSet
    <3>2. l.dash >= 0 /\ l.dash < l.n - 1
      BY <2>2 DEF resolveDashTailBounds
    <3>3. l.dash \in Nat /\ l.n - 1 \in Nat /\ l.n - 1 >= 1 /\ l.wide \in Nat
      <4>1. l.dash \in Int /\ l.n \in Nat /\ l.wide \in Nat
        BY <1>2
      <4> QED  BY <3>2, <4>1
    <3>4. AtLeast(1, l.n - 1) = l.n - 1
      BY <3>3 DEF AtLeast
    <3>5. h < 100
      BY <3>2, <3>3, <3>4, ShareOf
    <3>6. t < AtLeast(1, l.wide)
      <4>1. t <= l.wide /\ (l.wide > 0 => t < l.wide) /\ t \in Nat
        BY <3>2, <3>3, ShareOf
      <4> HIDE DEF t
      <4>2. /\ AtLeast(1, l.wide) \in Int /\ AtLeast(1, l.wide) >= 1 /\ AtLeast(1, l.wide) >= l.wide
        <5>1. 1 \in Int /\ l.wide \in Int
          BY <3>3
        <5> QED  BY <5>1, AtLeastIs
      <4> QED  BY <3>3, <4>1, <4>2
    <3> HIDE DEF h, t
    <3> QED  BY <3>1, <3>5, <3>6
  <2> QED  BY <2>1, <2>2
<1> QED  BY <1>1, <1>4, <1>5, <1>6, <1>7, <1>8, <1>9, <1>10 DEF PhaseDrawn, g

-----------------------------------------------------------------------------
(* What stands further right comes later, and not after the reveal. *)
LEMMA DelayOf ==
  ASSUME NEW a \in Int, NEW b \in Int, NEW e \in Int, NEW ms \in Nat, NEW w \in Nat \ {0}, e >= 0
  PROVE  /\ a <= b => (AtLeast(0, a - e) * ms) \div w <= (AtLeast(0, b - e) * ms) \div w
         /\ a <= w => (AtLeast(0, a - e) * ms) \div w <= ms
<1>1. AtLeast(0, a - e) \in Nat /\ AtLeast(0, b - e) \in Nat /\ (a <= b => AtLeast(0, a - e) <= AtLeast(0, b - e))
      /\ (a <= w => AtLeast(0, a - e) <= w)
  BY DEF AtLeast
<1>2. \A x, y \in Nat : x <= y => (x * ms) \div w <= (y * ms) \div w
  <2> SUFFICES ASSUME NEW x \in Nat, NEW y \in Nat, x <= y  PROVE (x * ms) \div w <= (y * ms) \div w
    OBVIOUS
  <2>1. x * ms \in Nat /\ y * ms \in Nat /\ x * ms <= y * ms
    OBVIOUS
  <2> QED  BY <2>1
<1>3. (w * ms) \div w = ms
  OBVIOUS
<1> QED  BY <1>1, <1>2, <1>3

(* series-markers.tsx:101-140, series-point-marker.tsx:190-209. *)
LEMMA MarkersInOrder ==
  ASSUME NEW d, SeriesMarkersProps(d)
  PROVE  MarkersCome(d)
<1> DEFINE m == d.marker
           outer == MarkerCircles(m)
           extent == getSeriesMarkerVisualExtent(m)
           late(i) == IF d.wide > 0 /\ d.revealing THEN (AtLeast(0, d.at[i] - extent) * d.ms) \div d.wide ELSE 0
           points == SeriesMarkers(d.at, d.wide, d.revealing, d.ms, extent)
<1>1. /\ d.at \in Seq(Int) /\ d.wide \in Nat /\ d.ms \in Nat /\ d.revealing \in BOOLEAN
  BY DEF SeriesMarkersProps
<1>2. m.radius \in Nat /\ m.stroke \in Nat /\ m.gap \in Nat /\ m.outline \in Nat /\ m.lifts \in BOOLEAN
  BY DEF SeriesMarkersProps
<1>3. /\ outer \in Nat /\ extent \in Nat /\ outer <= extent
      /\ m.lifts /\ 7 * (outer - m.radius) <= 800 => 20 * extent + 20 >= 27 * outer
  BY <1>2 DEF MarkerCircles, getSeriesMarkerVisualExtent
<1>4. \A i \in DOMAIN d.at : d.at[i] \in Int
  BY <1>1
<1>5. points = {[index |-> i, at |-> d.at[i], delay |-> late(i)] : i \in {j \in DOMAIN d.at : d.at[j] >= 0}}
  BY DEF SeriesMarkers
<1> HIDE DEF extent, outer, points
<1>6. \A i, j \in DOMAIN d.at : d.at[i] <= d.at[j] => late(i) <= late(j)
  <2> SUFFICES ASSUME NEW i \in DOMAIN d.at, NEW j \in DOMAIN d.at, d.at[i] <= d.at[j]  PROVE late(i) <= late(j)
    OBVIOUS
  <2>1. CASE d.wide > 0 /\ d.revealing
    BY <1>1, <1>3, <1>4, <2>1, DelayOf
  <2>2. CASE ~(d.wide > 0 /\ d.revealing)
    BY <2>2
  <2> QED  BY <2>1, <2>2
<1>7. \A i \in DOMAIN d.at : (d.at[i] <= d.wide => late(i) <= d.ms) /\ (~d.revealing => late(i) = 0)
  <2> SUFFICES ASSUME NEW i \in DOMAIN d.at, d.at[i] <= d.wide  PROVE late(i) <= d.ms
    OBVIOUS
  <2>1. CASE d.wide > 0 /\ d.revealing
    BY <1>1, <1>3, <1>4, <2>1, DelayOf
  <2>2. CASE ~(d.wide > 0 /\ d.revealing)
    BY <1>1, <2>2
  <2> QED  BY <2>1, <2>2
<1> HIDE DEF late
<1>8. \A p, q \in points : p.at <= q.at => p.delay <= q.delay
  BY <1>5, <1>6
<1>9. \A p \in points : (p.at <= d.wide => p.delay <= d.ms) /\ (~d.revealing => p.delay = 0)
  BY <1>5, <1>7
<1>10. \A i \in DOMAIN d.at : SeriesMarkersActiveHighlight(points, i) = {} <=> d.at[i] < 0
  <2> SUFFICES ASSUME NEW i \in DOMAIN d.at
               PROVE  SeriesMarkersActiveHighlight(points, i) = {} <=> d.at[i] < 0
    OBVIOUS
  <2>1. SeriesMarkersActiveHighlight(points, i) # {} <=> \E p \in points : p.index = i
    BY DEF SeriesMarkersActiveHighlight
  <2>2. ASSUME NEW p \in points, p.index = i  PROVE d.at[i] >= 0
    <3>1. PICK j \in {k \in DOMAIN d.at : d.at[k] >= 0} : p = [index |-> j, at |-> d.at[j], delay |-> late(j)]
      BY <1>5
    <3>2. p.index = j
      BY <3>1
    <3> QED  BY <2>2, <3>1, <3>2
  <2>3. ASSUME d.at[i] >= 0  PROVE \E p \in points : p.index = i
    <3>1. [index |-> i, at |-> d.at[i], delay |-> late(i)] \in points
      BY <1>5, <2>3
    <3>2. [index |-> i, at |-> d.at[i], delay |-> late(i)].index = i
      OBVIOUS
    <3> QED  BY <3>1, <3>2
  <2>4. d.at[i] \in Int
    BY <1>4
  <2> QED  BY <2>1, <2>2, <2>3, <2>4
<1> QED  BY <1>3, <1>8, <1>9, <1>10 DEF MarkersCome, points, extent, outer, m

-----------------------------------------------------------------------------
(* loading-sweep.tsx:355-403. *)
LEMMA SkeletonsInside ==
  ASSUME NEW d, BarLoadingSkeletonProps(d)
  PROVE  SkeletonsFit(d)
<1> SUFFICES ASSUME NEW bars \in BarLoadingSkeleton(d), NEW i \in DOMAIN bars
             PROVE  LET b == bars[i] base == IF d.baseline = "center" THEN d.high \div 2 ELSE d.high IN
                    /\ b.left >= 0 /\ b.left + b.wide <= d.wide /\ b.top >= 0 /\ b.top + b.high <= d.high
                    /\ b.high >= 1 /\ (b.top = base \/ b.top + b.high = base)
                    /\ i > 1 => bars[i - 1].left + bars[i - 1].wide < b.left
  BY DEF SkeletonsFit
<1>1. /\ d.wide \in Nat /\ d.high \in Nat /\ d.high > 1 /\ d.count \in Nat /\ d.count > 0
      /\ d.wide = 0 \/ d.count <= d.wide
  BY DEF BarLoadingSkeletonProps
<1>2. d.wide > 0
  BY <1>1 DEF BarLoadingSkeleton
<1>3. PICK heights \in [1..d.count -> {20, 79}], signs \in [1..d.count -> {-1, 1}] :
        bars = SkeletonBars(heights, signs, d.wide, d.high, d.baseline, 7)
  BY <1>1, <1>2 DEF BarLoadingSkeleton, getSkeletonHeights, getSkeletonSigns
<1>4. Len(heights) = d.count /\ DOMAIN heights = 1..d.count
  <2>1. DOMAIN heights = 1..d.count
    BY <1>3
  <2>2. Len(heights) = d.count
    BY <1>1, <1>3, <2>1, LenProperties, SeqDef
  <2> QED  BY <2>1, <2>2
<1> DEFINE band == d.wide \div d.count
           base == IF d.baseline = "center" THEN d.high \div 2 ELSE d.high
           tall(j) == AtLeast(1, (base * heights[j]) \div 100)
<1>5. /\ DOMAIN bars = 1..d.count
      /\ \A j \in 1..d.count :
           /\ bars[j].left = (j - 1) * band + (band * 3) \div 20 /\ bars[j].wide = (band * 7) \div 10
           /\ bars[j].top = (IF d.baseline = "center" /\ signs[j] = -1 THEN base ELSE base - tall(j))
           /\ bars[j].high = tall(j)
  <2>1. bars = [j \in DOMAIN heights |->
         [left |-> (j - 1) * band + (band * (10 - 7)) \div 20, wide |-> (band * 7) \div 10,
          top |-> IF d.baseline = "center" /\ signs[j] = -1 THEN base ELSE base - tall(j), high |-> tall(j)]]
    BY <1>3, <1>4 DEF SkeletonBars
  <2>2. 10 - 7 = 3
    OBVIOUS
  <2> HIDE DEF tall, band, base
  <2> QED  BY <1>4, <2>1, <2>2
<1>6. band \in Nat /\ band > 0 /\ d.count * band <= d.wide
  <2>1. \A w, n \in Nat : 0 < n /\ n <= w => w \div n \in Nat /\ w \div n > 0 /\ n * (w \div n) <= w
    OBVIOUS
  <2>2. d.wide \in Nat /\ d.count \in Nat /\ 0 < d.count /\ d.count <= d.wide
    BY <1>1, <1>2
  <2> QED  BY <2>1, <2>2
<1>7. base \in Nat /\ base > 0 /\ base <= d.high /\ (d.baseline = "center" => 2 * base <= d.high)
  BY <1>1
<1> HIDE DEF band, base
<1>8. \A j \in 1..d.count : tall(j) \in Nat /\ tall(j) >= 1 /\ tall(j) <= base
  <2> SUFFICES ASSUME NEW j \in 1..d.count  PROVE tall(j) \in Nat /\ tall(j) >= 1 /\ tall(j) <= base
    OBVIOUS
  <2>1. CASE heights[j] = 20
    BY <1>7, <2>1 DEF AtLeast
  <2>2. CASE heights[j] = 79
    BY <1>7, <2>2 DEF AtLeast
  <2> QED  BY <2>1, <2>2
<1> HIDE DEF tall
<1>9. /\ (band * 3) \div 20 \in Nat /\ (band * 7) \div 10 \in Nat
      /\ (band * 3) \div 20 + (band * 7) \div 10 <= band /\ (band * 7) \div 10 < band
  BY <1>6
<1>10. \A j \in 1..d.count : (j - 1) * band \in Nat /\ (j - 1) * band + band <= d.wide
  <2> SUFFICES ASSUME NEW j \in 1..d.count
               PROVE  (j - 1) * band \in Nat /\ (j - 1) * band + band <= d.wide
    OBVIOUS
  <2>1. \A n, b, w \in Nat : \A k \in 1..n : n * b <= w => (k - 1) * b \in Nat /\ (k - 1) * b + b <= w
    <3> SUFFICES ASSUME NEW n \in Nat, NEW b \in Nat, NEW w \in Nat, NEW k \in 1..n, n * b <= w
                 PROVE  (k - 1) * b \in Nat /\ (k - 1) * b + b <= w
      OBVIOUS
    <3>1. (k - 1) * b \in Nat /\ (k - 1) * b + b = k * b /\ k * b <= n * b
      OBVIOUS
    <3> QED  BY <3>1
  <2> QED  BY <1>1, <1>6, <2>1
<1>11. i \in 1..d.count
  BY <1>5
<1>12. bars[i].left >= 0 /\ bars[i].left + bars[i].wide <= d.wide
  <2>1. /\ bars[i].left = (i - 1) * band + (band * 3) \div 20 /\ bars[i].wide = (band * 7) \div 10
    BY <1>5, <1>11
  <2>2. (i - 1) * band \in Nat /\ (i - 1) * band + band <= d.wide
    BY <1>10, <1>11
  <2> DEFINE x == (i - 1) * band
             y == (band * 3) \div 20
             z == (band * 7) \div 10
  <2>3. x \in Nat /\ x + band <= d.wide /\ y \in Nat /\ z \in Nat /\ y + z <= band /\ band \in Nat /\ d.wide \in Nat
    BY <1>1, <1>6, <1>9, <2>2
  <2> HIDE DEF x, y, z
  <2>4. x + y >= 0 /\ x + y + z <= d.wide
    BY <2>3
  <2> QED  BY <2>1, <2>4 DEF x, y, z
<1>13. /\ bars[i].top >= 0 /\ bars[i].top + bars[i].high <= d.high /\ bars[i].high >= 1
       /\ bars[i].top = base \/ bars[i].top + bars[i].high = base
  BY <1>1, <1>5, <1>7, <1>8, <1>11
<1>14. ASSUME i > 1  PROVE bars[i - 1].left + bars[i - 1].wide < bars[i].left
  <2>1. i - 1 \in 1..d.count
    BY <1>1, <1>11, <1>14
  <2>2. (i - 1) * band = (i - 1 - 1) * band + band /\ (i - 1 - 1) * band \in Nat
    BY <1>6, <1>10, <1>11, <2>1
  <2> QED  BY <1>5, <1>6, <1>9, <1>11, <2>1, <2>2
<1> QED  BY <1>12, <1>13, <1>14 DEF base

-----------------------------------------------------------------------------
(* Squares that share what is left of a bar reach its end exactly. *)
LEMMA SharedEnd ==
  ASSUME NEW x \in Int, NEW s \in Int, NEW n \in Int
  PROVE  x * (n - 1) - s * (n - 1) - (n - 1) * (s * (n - 1) + (x - n * s)) = 0
OBVIOUS

LEMMA SteppedEnd ==
  ASSUME NEW g \in Int, NEW s \in Int, NEW n \in Int
  PROVE  (n * s + (n - 1) * g) - s * 1 - (n - 1) * (s * 1 + g) = 0
OBVIOUS

(* As many squares as fit leave room for all of them. *)
LEMMA RoomForAll ==
  ASSUME NEW x \in Int, NEW s \in Nat \ {0}, NEW g \in Nat, NEW n, n = (x + g) \div (s + g), n > 1
  PROVE  x - n * s >= 0
<1> DEFINE y == x + g
           step == s + g
<1>1. y \in Int /\ step \in Nat \ {0}
  OBVIOUS
<1>2. n = y \div step
  OBVIOUS
<1> HIDE DEF y, step
<1>3. n \in Int /\ step * n <= y
  BY <1>1, <1>2, DivIs
<1>4. step * n = n * s + n * g /\ n * s \in Int /\ n * g \in Int
  BY <1>3 DEF step
<1>5. n * g >= g
  BY <1>3
<1> QED  BY <1>3, <1>4, <1>5 DEF y

(* Whole steps come within half a step of a length. *)
LEMMA NearestStep ==
  ASSUME NEW x \in Int, NEW s \in Nat \ {0}, NEW g \in Nat, x >= s,
         NEW n, n = Greatest(1, (2 * x + (s + g)) \div (2 * (s + g)))
  PROVE  /\ n \in Int
         /\ 2 * ((n * s + (n - 1) * g) - x) <= s + g /\ 2 * (x - (n * s + (n - 1) * g)) <= s + 3 * g
<1> DEFINE q == (2 * x + (s + g)) \div (2 * (s + g))
           qs == q * s
           qg == q * g
<1>1. q \in Int /\ 2 * (s + g) * q <= 2 * x + (s + g) /\ 2 * x + (s + g) < 2 * (s + g) * q + 2 * (s + g)
  <2>1. 2 * x + (s + g) \in Int /\ 2 * (s + g) \in Nat \ {0}
    OBVIOUS
  <2> QED  BY <2>1, DivIs
<1>2. n = Greatest(1, q)
  OBVIOUS
<1> HIDE DEF q
<1>3. n \in Int /\ (n = q \/ (n = 1 /\ q < 1))
  BY <1>1, <1>2 DEF Greatest
<1>4. 2 * (s + g) * q = 2 * (q * s) + 2 * (q * g)
  BY <1>1
<1>5. n * s + (n - 1) * g = n * s + n * g - g
  BY <1>3
<1>6. qs \in Int /\ qg \in Int /\ 2 * (s + g) * q = 2 * qs + 2 * qg
  BY <1>1, <1>4
<1>7. CASE n = q
  <2>1. n * s + (n - 1) * g = qs + qg - g
    BY <1>5, <1>7
  <2> HIDE DEF qs, qg
  <2>2. 2 * qs + 2 * qg <= 2 * x + (s + g) /\ 2 * x + (s + g) < 2 * qs + 2 * qg + 2 * (s + g)
    BY <1>1, <1>6
  <2>3. 2 * ((qs + qg - g) - x) <= s + g /\ 2 * (x - (qs + qg - g)) <= s + 3 * g
    BY <1>6, <2>2
  <2> QED  BY <1>3, <2>1, <2>3
<1>8. CASE n = 1 /\ q < 1
  <2>1. qs <= 0 /\ qg <= 0
    <3>1. q <= 0 /\ q \in Int
      BY <1>1, <1>8
    <3> QED  BY <3>1
  <2>2. n * s + (n - 1) * g = s
    BY <1>8
  <2> HIDE DEF qs, qg
  <2>3. 2 * (s - x) <= s + g /\ 2 * (x - s) <= s + 3 * g
    BY <1>1, <1>6, <2>1
  <2> QED  BY <1>3, <2>2, <2>3
<1> QED  BY <1>3, <1>7, <1>8

(* bar-squares-layout.ts:24-72, bar-squares.tsx:222-275. *)
LEMMA SquaresInside ==
  ASSUME NEW c, SquareColumnInput(c)
  PROVE  SquaresFit(c)
<1>1. PICK x, s, g, f, p : x = c.len /\ s = c.size /\ g = c.gap /\ f = c.fit /\ p = c.plot
  OBVIOUS
<1>2. x \in Int /\ s \in Nat /\ g \in Nat /\ f \in BOOLEAN /\ p \in Int
  BY <1>1 DEF SquareColumnInput
<1>3. PICK l : l = computeSquareColumn(c)
  OBVIOUS
<1>4. PICK n, h, k, e : n = l.count /\ h = l.height /\ k = l.gap /\ e = l.per
  OBVIOUS
<1>5. x > 0 /\ s > 0 /\ f =>
        /\ n = Greatest(1, (x + g) \div (s + g)) /\ e = Greatest(1, n - 1) /\ h = x * e
        /\ k = (IF n > 1 THEN Greatest(0, x - n * s) ELSE 0)
  BY <1>1, <1>3, <1>4 DEF computeSquareColumn
<1>6. x > 0 /\ s > 0 /\ ~f =>
        /\ n = Greatest(1, (2 * x + (s + g)) \div (2 * (s + g))) /\ e = 1
        /\ h = n * s + (n - 1) * g /\ k = g
  BY <1>1, <1>3, <1>4 DEF computeSquareColumn
<1>7. x <= 0 \/ s <= 0 => n = 0 /\ h = 0 /\ k = g /\ e = 1
  BY <1>1, <1>2, <1>3, <1>4 DEF computeSquareColumn
\* What is drawn is a count, a height, a gap, and a scale; the top square ends at the top.
<1>8. /\ n \in Nat /\ h \in Int /\ k \in Nat /\ e \in Nat \ {0}
      /\ n > 0 => x > 0 /\ s > 0
      /\ n > 0 /\ x >= s /\ (~f \/ n > 1) => h - s * e - (n - 1) * (s * e + k) = 0
      /\ n > 0 /\ f => h = x * e
      /\ n > 0 /\ ~f /\ x >= s => 2 * (h - x) <= s + g /\ 2 * (x - h) <= s + 3 * g
  <2>1. CASE x <= 0 \/ s <= 0
    BY <1>2, <1>7, <2>1
  <2>2. CASE x > 0 /\ s > 0 /\ f
    <3>1. n \in Nat /\ n >= 1 /\ (n > 1 => n = (x + g) \div (s + g))
      <4>1. (x + g) \div (s + g) \in Int
        BY <1>2, <2>2, DivIs
      <4> QED  BY <1>5, <2>2, <4>1 DEF Greatest
    <3>2. e \in Nat \ {0} /\ h = x * e /\ h \in Int /\ (n > 1 => e = n - 1)
      BY <1>2, <1>5, <2>2, <3>1 DEF Greatest
    <3>3. CASE n > 1
      <4>1. x - n * s >= 0
        BY <1>2, <2>2, <3>1, <3>3, RoomForAll
      <4>2. x - n * s \in Int
        BY <1>2, <3>1
      <4>3. k = x - n * s
        BY <1>5, <2>2, <3>3, <4>1, <4>2 DEF Greatest
      <4>4. x * (n - 1) - s * (n - 1) - (n - 1) * (s * (n - 1) + (x - n * s)) = 0
        BY <1>2, <3>1, SharedEnd
      <4> QED  BY <2>2, <3>1, <3>2, <3>3, <4>1, <4>2, <4>3, <4>4
    <3>4. CASE n = 1
      BY <1>5, <2>2, <3>1, <3>2, <3>4
    <3> QED  BY <3>1, <3>3, <3>4
  <2>3. CASE x > 0 /\ s > 0 /\ ~f
    <3>1. n \in Nat /\ n >= 1
      <4>1. 2 * x + (s + g) \in Int /\ 2 * (s + g) \in Nat \ {0}
        BY <1>2, <2>3
      <4>2. (2 * x + (s + g)) \div (2 * (s + g)) \in Int
        BY <4>1, DivIs
      <4> QED  BY <1>6, <2>3, <4>2 DEF Greatest
    <3>2. h = n * s + (n - 1) * g /\ h \in Int /\ e = 1 /\ k = g
      BY <1>2, <1>6, <2>3, <3>1
    <3>3. (n * s + (n - 1) * g) - s * 1 - (n - 1) * (s * 1 + g) = 0
      BY <1>2, <3>1, SteppedEnd
    <3>4. x >= s => 2 * (h - x) <= s + g /\ 2 * (x - h) <= s + 3 * g
      <4>1. n = Greatest(1, (2 * x + (s + g)) \div (2 * (s + g)))
        BY <1>6, <2>3
      <4>2. s \in Nat \ {0}
        BY <1>2, <2>3
      <4> QED  BY <1>2, <3>2, <4>1, <4>2, NearestStep
    <3> QED  BY <1>2, <2>3, <3>1, <3>2, <3>3, <3>4
  <2> QED  BY <1>2, <2>1, <2>2, <2>3
\* The squares, from below.
<1>9. \A i \in Int : Square(c, i) = h - s * e - (i - 1) * (s * e + k)
  BY <1>1, <1>3, <1>4 DEF Square
<1>10. n > 0 => Square(c, 1) + s * e = h
  <2>1. Square(c, 1) = h - s * e - (1 - 1) * (s * e + k)
    BY <1>9
  <2>2. s * e \in Int /\ (1 - 1) * (s * e + k) = 0
    BY <1>2, <1>8
  <2> QED  BY <1>8, <2>1, <2>2
<1>11. \A i \in 2..n : Square(c, i) + s * e <= Square(c, i - 1)
  <2> SUFFICES ASSUME NEW i \in 2..n  PROVE Square(c, i) + s * e <= Square(c, i - 1)
    OBVIOUS
  <2> DEFINE z == s * e
  <2>1. z \in Int
    BY <1>2, <1>8
  <2>2. i \in Int /\ i - 1 \in Int
    BY <1>8
  <2>3. Square(c, i) = h - z - (i - 1) * (z + k) /\ Square(c, i - 1) = h - z - (i - 1 - 1) * (z + k)
    BY <1>9, <2>2
  <2> HIDE DEF z
  <2>4. (i - 1) * (z + k) = (i - 1 - 1) * (z + k) + z + k /\ (i - 1 - 1) * (z + k) \in Int
    BY <1>8, <2>1, <2>2
  <2>5. Square(c, i) + z <= Square(c, i - 1)
    BY <1>8, <2>1, <2>3, <2>4
  <2> QED  BY <2>5 DEF z
<1>12. n > 0 /\ x >= s => Square(c, n) = 0 \/ (f /\ n = 1)
  BY <1>2, <1>8, <1>9
<1>13. n > 0 /\ x >= s /\ (~f \/ n > 1) => topSquareCenterY(c) = 2 * (h - Square(c, n)) - s * e
  <2>1. SUFFICES ASSUME n > 0, x >= s, ~f \/ n > 1  PROVE topSquareCenterY(c) = 2 * (h - Square(c, n)) - s * e
    OBVIOUS
  <2>2. topSquareCenterY(c) = 2 * h - s * e
    BY <1>1, <1>3, <1>4, <1>8, <2>1 DEF topSquareCenterY
  <2>3. Square(c, n) = 0
    BY <1>8, <1>9, <2>1
  <2> QED  BY <1>8, <2>2, <2>3
<1>14. TrackColumn(c, p) + h >= p * e
  <2>1. TrackColumn(c, p) = Greatest(0, p * e - h)
    BY <1>3, <1>4 DEF TrackColumn
  <2>2. p * e \in Int /\ h \in Int
    BY <1>2, <1>8
  <2>3. \A v, w \in Int : Greatest(0, v - w) + w >= v
    BY DEF Greatest
  <2> QED  BY <2>1, <2>2, <2>3
\* The cascade.
<1>15. ASSUME n > 0
       PROVE  LET top == SquareColumn(c, n, 10, 3)
                  track == cascadeColumnTransition(c, 10, 3)
              IN  /\ top.start + top.lasts = track.start + track.lasts
                  /\ 5 * (track.lasts - top.lasts) <= 2 * top.lasts
  <2>1. PICK r : r = SpreadOf(c)
    OBVIOUS
  <2>2. r \in Nat /\ r >= 1 /\ r >= n - 1
    BY <1>3, <1>4, <1>8, <2>1 DEF SpreadOf, Greatest
  <2>3. squareCascadeStepSeconds(c, 10) = (IF n <= 1 THEN 0 ELSE 20)
    BY <1>3, <1>4 DEF squareCascadeStepSeconds
  <2>4. /\ SquareColumn(c, n, 10, 3).start = 5 * r * 3 + (n - 1) * (IF n <= 1 THEN 0 ELSE 20)
        /\ SquareColumn(c, n, 10, 3).lasts = 5 * r * 10
    BY <2>1, <2>3 DEF SquareColumn
  <2>5. /\ cascadeColumnTransition(c, 10, 3).start = 5 * r * 3
        /\ cascadeColumnTransition(c, 10, 3).lasts = 5 * r * 10 + (IF n <= 1 THEN 0 ELSE (n - 1) * 20)
    BY <1>3, <1>4, <2>1, <2>3 DEF cascadeColumnTransition
  <2> QED  BY <1>8, <1>15, <2>2, <2>4, <2>5
<1> QED
  BY <1>1, <1>3, <1>4, <1>8, <1>10, <1>11, <1>12, <1>13, <1>14, <1>15 DEF SquaresFit

-----------------------------------------------------------------------------
(* series-bar-layout.ts:1-61, tooltip/tooltip-box.tsx:94-145. *)
LEMMA BoxesInside ==
  ASSUME NEW b, SeriesBarInput(b)
  PROVE  BoxesFit(b)
<1>1. PICK slot, n, g, size, max : slot = b.slot /\ n = b.bars /\ g = b.gap /\ size = b.size /\ max = b.max
  OBVIOUS
<1>2. /\ slot \in Nat /\ n \in Nat /\ n >= 1 /\ g \in Nat
      /\ size \in Nat \cup {NoSize} /\ max \in Nat \cup {NoSize}
  BY <1>1 DEF SeriesBarInput
<1>3. PICK w : w = computeSeriesBarWidth(b)
  OBVIOUS
<1> DEFINE gaps == (n - 1) * g
           wish == IF size # NoSize THEN size ELSE IF max = NoSize THEN slot * 88 ELSE Least(slot * 88, max)
           width == IF max = NoSize THEN wish ELSE Least(wish, max)
           share == (slot * 92 - gaps) \div n
<1>4. w = Greatest(200, IF n > 1 /\ n * width + gaps > slot * 92 /\ slot * 92 > 0
                        THEN Greatest(400, share) ELSE width)
  BY <1>1, <1>3 DEF computeSeriesBarWidth
<1>5. gaps \in Nat
  BY <1>2
<1>6. width \in Int /\ (size = NoSize => width <= slot * 88)
  BY <1>2 DEF NoSize, Least
<1>7. share \in Int /\ n * share <= slot * 92 - gaps
  <2>1. slot * 92 - gaps \in Int /\ n \in Nat \ {0}
    BY <1>2, <1>5
  <2> QED  BY <2>1, DivIs
<1> HIDE DEF width, share
<1>8. w \in Int
  BY <1>4, <1>6, <1>7 DEF Greatest
<1>9. n * w \in Int /\ n * width \in Int
  BY <1>2, <1>6, <1>8
<1>10. w > 400 /\ size = NoSize => n * w + gaps <= slot * 100
  <2>1. SUFFICES ASSUME w > 400, size = NoSize  PROVE n * w + gaps <= slot * 100
    OBVIOUS
  <2>2. CASE n > 1 /\ n * width + gaps > slot * 92 /\ slot * 92 > 0
    <3>1. w = share
      BY <1>4, <1>7, <2>1, <2>2 DEF Greatest
    <3> QED  BY <1>2, <1>5, <1>7, <1>9, <3>1
  <2>3. CASE ~(n > 1 /\ n * width + gaps > slot * 92 /\ slot * 92 > 0)
    <3>1. w = width
      BY <1>4, <1>6, <2>1, <2>3 DEF Greatest
    <3>2. slot > 0
      BY <1>2, <1>6, <2>1, <3>1
    <3>3. CASE n = 1
      <4>1. gaps = 0 /\ n * w = w
        BY <1>2, <1>8, <3>3
      <4> QED  BY <1>2, <1>6, <2>1, <3>1, <4>1
    <3>4. CASE n > 1
      BY <1>2, <1>5, <1>9, <2>3, <3>1, <3>2, <3>4
    <3> QED  BY <1>2, <3>3, <3>4
  <2> QED  BY <2>2, <2>3
<1>11. 200 * computeSeriesBarRevealClipPadding(b) >= n * w + gaps
  <2>1. computeSeriesBarRevealClipPadding(b) = ((n * w + gaps) + 199) \div 200
    BY <1>1, <1>3 DEF computeSeriesBarRevealClipPadding
  <2>2. \A v \in Int : 200 * ((v + 199) \div 200) >= v
    OBVIOUS
  <2>3. n * w + gaps \in Int
    BY <1>5, <1>9
  <2> QED  BY <2>1, <2>2, <2>3
<1>12. ASSUME NEW x \in 0..slot, NEW y \in {0, 10, slot}, slot >= 24
       PROVE  LET box == TooltipBox([x |-> x, y |-> y, w |-> 9, h |-> 7], slot, slot, 3) IN
              /\ 0 <= box.left /\ box.left + 18 <= 2 * slot
              /\ 0 <= box.top /\ box.top + 14 <= 2 * slot
              /\ box.left >= 2 * x + 6 \/ box.left + 18 <= 2 * x - 6
  <2> DEFINE box == TooltipBox([x |-> x, y |-> y, w |-> 9, h |-> 7], slot, slot, 3)
  <2>1. /\ box.left = (IF x + 9 + 3 > slot THEN 2 * (x - 3 - 9) ELSE 2 * (x + 3))
        /\ box.top = Greatest(6, Least(2 * y - 7, 2 * (slot - 7 - 3)))
    BY DEF TooltipBox
  <2> HIDE DEF box
  <2>2. x \in Int /\ y \in Int /\ 0 <= x /\ x <= slot
    BY <1>2
  <2>3. /\ 0 <= box.left /\ box.left + 18 <= 2 * slot
        /\ box.left >= 2 * x + 6 \/ box.left + 18 <= 2 * x - 6
    BY <1>2, <1>12, <2>1, <2>2
  <2>4. 0 <= box.top /\ box.top + 14 <= 2 * slot
    BY <1>2, <1>12, <2>1, <2>2 DEF Greatest, Least
  <2> QED  BY <2>3, <2>4 DEF box
<1> QED
  BY <1>1, <1>3, <1>10, <1>11, <1>12 DEF BoxesFit

-----------------------------------------------------------------------------
LEMMA OneDrawing ==
  ASSUME NEW d \in Drawings, d.kind \in {"phase", "markers", "skeleton", "column", "box"}
  PROVE  /\ d.kind = "phase" => PhaseDrawn(d)
         /\ d.kind = "markers" => MarkersCome(d)
         /\ d.kind = "skeleton" => SkeletonsFit(d)
         /\ d.kind = "column" => SquaresFit(d)
         /\ d.kind = "box" => BoxesFit(d)
BY DrawingProps, PhasesDrawn, MarkersInOrder, SkeletonsInside, SquaresInside, BoxesInside

(* Whatever props a line's phase, markers, bars to come, squares, bars     *)
(* beside each other or a tooltip are drawn with, and drawn again, they    *)
(* lie where they belong.  web/src/components/charts.                      *)
THEOREM TabDraws ==
  Spec => [](drawing # NoDrawing /\ drawing.kind \in {"phase", "markers", "skeleton", "column", "box"}
               => ChartGeometry)
<1> DEFINE Drawn == drawing \in Drawings \cup {NoDrawing}
<1>1. Init => Drawn
  BY DEF Init, Offscreen, DrawingInit
<1>2. Drawn /\ [Next]_vars => Drawn'
  BY DEF Next, vars, Redraw
<1>3. ASSUME Drawn, drawing # NoDrawing, drawing.kind \in {"phase", "markers", "skeleton", "column", "box"}
      PROVE  ChartGeometry
  <2>1. drawing \in Drawings
    BY <1>3
  <2> QED  BY <1>3, <2>1, OneDrawing DEF ChartGeometry
<1> QED  BY <1>1, <1>2, <1>3, PTL DEF Spec
=============================================================================
