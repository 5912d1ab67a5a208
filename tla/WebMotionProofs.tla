--------------------------- MODULE WebMotionProofs ---------------------------
(***************************************************************************)
(* That a chart over time is drawn as its props and its pointer say        *)
(* (ChartMotion), for any data, placements and number of props that        *)
(* change.  The phase of a line decides the rest of it: the timer, the     *)
(* plot, the tween, where the scale is and where it goes (LineShape); and  *)
(* of a tooltip it is enough to know where it was asked for last, as long  *)
(* as the chart is live (TipTells).                                        *)
(***************************************************************************)
EXTENDS WebMotion, TLAPS

-----------------------------------------------------------------------------
\* The strengthening, of a chart c under the status s and over the data d.

Scale == {"target", "skeleton", "between"} \X Int
ChartRecord ==
  [phase : ChartPhase, plot : {"skeleton", "target"}, loaded : BOOLEAN, timer : BOOLEAN,
   domain : Scale, tween : {"none", "running", "stopped"}, to : Scale,
   path : {"target", "moving", "frozen"}]

ReadyPhase == {"exiting", "gridTweenReady", "revealing", "ready"}

(* A line: what its phase says of the rest of it.                          *)
LineShape(c, s, d) ==
  /\ c \in ChartRecord
  /\ c.phase \in ReadyPhase <=> s = "ready"
  /\ c.loaded <=> c.phase = "ready"
  /\ c.timer <=> c.phase = "revealing"
  /\ c.plot = IF c.phase \in {"loading", "exiting"} THEN "skeleton" ELSE "target"
  /\ isYDomainTweenPhase(c.phase) => c.tween # "none"
  /\ c.tween # "none" => isYDomainTweenPhase(c.phase) \/ c.phase = "ready"
  /\ c.phase \in {"ready", "revealing"} /\ c.tween = "none" => c.domain = Target(d)
  /\ c.phase = "ready" /\ c.tween = "running" => c.to = Target(d)
  /\ c.path # "target" => c.phase = "ready"

(* A bar chart: revealing until its timer is over.                         *)
BarShape(c, s) ==
  /\ c \in ChartRecord /\ c.phase \in {"revealing", "ready"}
  /\ c.tween = "none" /\ c.path = "target"
  /\ c.timer => s = "ready"
  /\ c.loaded => s = "ready" /\ c.phase = "ready"

ShapeInv ==
  \A c, s, d : c = chart /\ s = status /\ d = data =>
    IF Line THEN LineShape(c, s, d) ELSE BarShape(c, s)

Tooltip == [index : Int, x : Int, v : {d.v : d \in Datas}]
TipRecord ==
  [shown : Tooltip \cup {NoTip}, pending : Tooltip \cup {NoTip}, frame : BOOLEAN,
   last : (Int \X Int) \cup {NoTip}]

(* The tooltip t of a line that is `live`, over the data d, with the       *)
(* pointer last seen at h.                                                 *)
TipTells(t, live, h, d) ==
  /\ t \in TipRecord /\ t.last = Key(t.shown)
  /\ t.frame => t.pending # NoTip
  /\ h = NoTip => t.shown = NoTip /\ t.pending = NoTip
  /\ live /\ d.n = 0 => t = NoTooltip
  /\ live /\ t.frame => Key(t.pending) = Key(resolveTooltipFromX(h, d))
  /\ live /\ ~t.frame /\ t.shown # NoTip => Key(t.shown) = Key(resolveTooltipFromX(h, d))

TipInv ==
  \A t, live, h, d : t = tip /\ live = canInteract /\ h = hovered /\ d = data /\ Line =>
    TipTells(t, live, h, d)

PropsTyped ==
  /\ options \in ChartOptions /\ status \in ChartStatus /\ data \in Datas
  /\ hovered \in Thirds \cup {NoTip} /\ dragging \in Thirds \cup {NoTip}

MotionInv == PropsTyped /\ ShapeInv /\ TipInv

-----------------------------------------------------------------------------
\* What the steps of a line chart make of its shape.

LEMMA Given ==
  ASSUME NEW d \in Datas
  PROVE  /\ d.n \in {0, 1, 3} /\ d.top \in Nat
         /\ Target(d) \in Scale /\ Skeleton(d) \in Scale /\ Between \in Scale
         /\ \A p \in ChartPhase : resolveAnimatedYDestination(p, d) \in Scale
<1>1. d.n \in {0, 1, 3} /\ d.top \in Nat
  BY ChartConstants
<1>2. Target(d) \in Scale /\ Skeleton(d) \in Scale /\ Between \in Scale
  BY <1>1 DEF Target, Skeleton, Between, Scale
<1> QED
  BY <1>1, <1>2 DEF resolveAnimatedYDestination

(* A phase that holds the domain is entered on it, with its own plot.      *)
LEMMA HeldPlots ==
  ASSUME NEW c \in ChartRecord, NEW d \in Datas
  PROVE  /\ Held(c, "loading", d).plot = "skeleton" /\ Held(c, "exiting", d).plot = "skeleton"
         /\ Held(c, "exitingReady", d).plot = "target" /\ Held(c, "ready", d).plot = "target"
         /\ Held(c, "revealing", d).plot = "target"
         /\ Held(c, "ready", d).domain = Target(d) /\ Held(c, "revealing", d).domain = Target(d)
  BY DEF Held, Left, ChartRecord, resolveAnimatedYDestination

(* The phases that wait, for a pulse, for a conceal or for the status.     *)
LEMMA WaitingShape ==
  ASSUME NEW c \in ChartRecord, NEW d \in Datas, c.loaded = FALSE
  PROVE  /\ LineShape(Held(c, "exiting", d), "ready", d)
         /\ LineShape(Held(c, "exitingReady", d), "loading", d)
         /\ LineShape(Held(c, "loading", d), "loading", d)
<1>1. LineShape(Held(c, "exiting", d), "ready", d)
  <2> DEFINE h == Held(c, "exiting", d)
  <2>1. "exiting" \in ChartPhase
    BY DEF ChartPhase
  <2>2. /\ h \in ChartRecord /\ h.phase = "exiting" /\ h.loaded = FALSE /\ h.timer = FALSE
        /\ h.tween = "none" /\ h.path = "target"
    BY <2>1, Given DEF Held, Left, ChartRecord
  <2>3. h.plot = "skeleton"
    BY HeldPlots
  <2> HIDE DEF h
  <2>4. LineShape(h, "ready", d)
    BY <2>2, <2>3 DEF LineShape, ReadyPhase, isYDomainTweenPhase
  <2> QED
    BY <2>4 DEF h
<1>2. LineShape(Held(c, "exitingReady", d), "loading", d)
  <2> DEFINE h == Held(c, "exitingReady", d)
  <2>1. "exitingReady" \in ChartPhase
    BY DEF ChartPhase
  <2>2. /\ h \in ChartRecord /\ h.phase = "exitingReady" /\ h.loaded = FALSE /\ h.timer = FALSE
        /\ h.tween = "none" /\ h.path = "target"
    BY <2>1, Given DEF Held, Left, ChartRecord
  <2>3. h.plot = "target"
    BY HeldPlots
  <2> HIDE DEF h
  <2>4. LineShape(h, "loading", d)
    BY <2>2, <2>3 DEF LineShape, ReadyPhase, isYDomainTweenPhase
  <2> QED
    BY <2>4 DEF h
<1>3. LineShape(Held(c, "loading", d), "loading", d)
  <2> DEFINE h == Held(c, "loading", d)
  <2>1. "loading" \in ChartPhase
    BY DEF ChartPhase
  <2>2. /\ h \in ChartRecord /\ h.phase = "loading" /\ h.loaded = FALSE /\ h.timer = FALSE
        /\ h.tween = "none" /\ h.path = "target"
    BY <2>1, Given DEF Held, Left, ChartRecord
  <2>3. h.plot = "skeleton"
    BY HeldPlots
  <2> HIDE DEF h
  <2>4. LineShape(h, "loading", d)
    BY <2>2, <2>3 DEF LineShape, ReadyPhase, isYDomainTweenPhase
  <2> QED
    BY <2>4 DEF h
<1> QED
  BY <1>1, <1>2, <1>3

(* A line that reveals, or need not, stands on the scale of its data.      *)
LEMMA RevealShape ==
  ASSUME NEW c \in ChartRecord, NEW d \in Datas, c.loaded = FALSE
  PROVE  LineShape(Revealing(c, d), "ready", d)
<1> DEFINE a == Held(c, "revealing", d)
           b == Held(c, "ready", d)
<1>1. "revealing" \in ChartPhase /\ "ready" \in ChartPhase
  BY DEF ChartPhase
<1>2. LineShape([a EXCEPT !.timer = TRUE], "ready", d)
  <2>1. /\ a \in ChartRecord /\ a.phase = "revealing" /\ a.loaded = FALSE /\ a.tween = "none"
        /\ a.path = "target"
    BY <1>1, Given DEF Held, Left, ChartRecord
  <2>2. a.plot = "target" /\ a.domain = Target(d)
    BY HeldPlots
  <2> HIDE DEF a
  <2> QED
    BY <2>1, <2>2 DEF LineShape, ReadyPhase, isYDomainTweenPhase, ChartRecord
<1>3. LineShape([b EXCEPT !.loaded = TRUE], "ready", d)
  <2>1. /\ b \in ChartRecord /\ b.phase = "ready" /\ b.timer = FALSE /\ b.tween = "none"
        /\ b.path = "target"
    BY <1>1, Given DEF Held, Left, ChartRecord
  <2>2. b.plot = "target" /\ b.domain = Target(d)
    BY HeldPlots
  <2> HIDE DEF b
  <2> QED
    BY <2>1, <2>2 DEF LineShape, ReadyPhase, isYDomainTweenPhase, ChartRecord
<1> QED
  BY <1>2, <1>3 DEF Revealing

(* A grid that moves, or has nowhere to move.                              *)
LEMMA TweenShape ==
  ASSUME NEW c \in ChartRecord, NEW d \in Datas, c.loaded = FALSE
  PROVE  /\ LineShape(GridTween(c, "gridTweenReady", d), "ready", d)
         /\ LineShape(GridTween(c, "gridTweenLoading", d), "loading", d)
<1>1. ASSUME NEW p \in {"gridTweenReady", "gridTweenLoading"}
      PROVE  LineShape(GridTween(c, p, d), IF p = "gridTweenReady" THEN "ready" ELSE "loading", d)
  <2> DEFINE to == resolveAnimatedYDestination(p, d)
             in == [Left(c, p) EXCEPT !.plot = "target", !.to = to]
             at == [in EXCEPT !.domain = to]
             move == [in EXCEPT !.tween = "running"]
  <2>1. p \in ChartPhase /\ to \in Scale
    BY Given DEF ChartPhase
  <2>2. /\ in \in ChartRecord /\ in.phase = p /\ in.loaded = FALSE /\ in.timer = FALSE
        /\ in.plot = "target" /\ in.path = "target"
    BY <2>1 DEF Left, ChartRecord
  <2>3. GridTween(c, p, d) = IF c.domain = to \/ ~options.grid THEN Settled(at, d) ELSE move
    BY DEF GridTween
  <2> HIDE DEF to, in
  <2>4. at \in ChartRecord /\ at.phase = p /\ at.loaded = FALSE
    BY <2>1, <2>2 DEF ChartRecord
  <2>5. LineShape(Settled(at, d), IF p = "gridTweenReady" THEN "ready" ELSE "loading", d)
    <3> HIDE DEF at
    <3> QED
      BY <2>4, RevealShape, WaitingShape DEF Settled
  <2>6. LineShape(move, IF p = "gridTweenReady" THEN "ready" ELSE "loading", d)
    BY <2>2 DEF LineShape, ReadyPhase, isYDomainTweenPhase, ChartRecord
  <2> QED
    BY <2>3, <2>5, <2>6
<1>2. LineShape(GridTween(c, "gridTweenReady", d), "ready", d)
  BY <1>1
<1>3. LineShape(GridTween(c, "gridTweenLoading", d), "loading", d)
  BY <1>1
<1> QED
  BY <1>2, <1>3

(* Out of whatever phase, the status leads to a phase of its own.          *)
LEMMA StatusShape ==
  ASSUME NEW c \in ChartRecord, NEW d \in Datas, NEW s \in ChartStatus, options \in ChartOptions
  PROVE  LineShape(StatusChanged(c, s, d), s, d)
<1> DEFINE off == [c EXCEPT !.loaded = FALSE]
<1>1. off \in ChartRecord /\ off.loaded = FALSE
  BY DEF ChartRecord
<1>2. options.animates \in BOOLEAN
  BY ChartConstants
<1>3. CASE s = "ready" /\ options.animates
  <2>1. StatusChanged(c, s, d) = Held(off, "exiting", d)
    BY <1>3 DEF StatusChanged
  <2> QED
    BY <2>1, <1>1, <1>3, WaitingShape
<1>4. CASE s = "ready" /\ ~options.animates
  <2>1. StatusChanged(c, s, d) = GridTween(off, "gridTweenReady", d)
    BY <1>4 DEF StatusChanged
  <2> QED
    BY <2>1, <1>1, <1>4, TweenShape
<1>5. CASE s = "loading" /\ options.animates
  <2>1. StatusChanged(c, s, d) = Held(off, "exitingReady", d)
    BY <1>5 DEF StatusChanged
  <2> QED
    BY <2>1, <1>1, <1>5, WaitingShape
<1>6. CASE s = "loading" /\ ~options.animates
  <2>1. StatusChanged(c, s, d) = GridTween(off, "gridTweenLoading", d)
    BY <1>6 DEF StatusChanged
  <2> QED
    BY <2>1, <1>1, <1>6, TweenShape
<1> QED
  BY <1>2, <1>3, <1>4, <1>5, <1>6 DEF ChartStatus

(* A live chart follows its data, by moving or at once.                    *)
LEMMA DataShape ==
  ASSUME NEW c, NEW s \in ChartStatus, NEW from \in Datas, NEW d \in Datas, LineShape(c, s, from)
  PROVE  LineShape(DataChanged(c, from, d), s, d)
<1> DEFINE line == [c EXCEPT !.path =
                      IF c.phase = "ready" /\ options.moves /\ from.n > 0 /\ d.n > 0
                         /\ from.v # d.v THEN "moving" ELSE @]
<1>1. c \in ChartRecord /\ Target(d) \in Scale
  BY Given DEF LineShape
<1>2. /\ line \in ChartRecord /\ (line.path # "target" => c.phase = "ready")
      /\ line.phase = c.phase /\ line.loaded = c.loaded /\ line.timer = c.timer
      /\ line.plot = c.plot /\ line.tween = c.tween /\ line.domain = c.domain /\ line.to = c.to
  BY <1>1 DEF ChartRecord, LineShape
<1>3. CASE c.phase \notin {"ready", "revealing"} \/ Target(from) = Target(d)
  <2>1. DataChanged(c, from, d) = line
    BY <1>3 DEF DataChanged
  <2> HIDE DEF line
  <2>2. LineShape(line, s, d)
    BY <1>1, <1>2, <1>3 DEF LineShape, ChartRecord
  <2> QED
    BY <2>1, <2>2
<1>4. CASE /\ ~(c.phase \notin {"ready", "revealing"} \/ Target(from) = Target(d))
           /\ c.phase = "ready" /\ options.grid /\ c.domain # Target(d)
  <2> DEFINE move == [line EXCEPT !.tween = "running", !.to = Target(d)]
  <2>1. DataChanged(c, from, d) = move
    BY <1>4 DEF DataChanged
  <2> HIDE DEF line
  <2>2. LineShape(move, s, d)
    BY <1>1, <1>2, <1>4 DEF LineShape, ChartRecord
  <2> QED
    BY <2>1, <2>2
<1>5. CASE /\ ~(c.phase \notin {"ready", "revealing"} \/ Target(from) = Target(d))
           /\ ~(c.phase = "ready" /\ options.grid /\ c.domain # Target(d))
  <2> DEFINE snap == [line EXCEPT !.domain = Target(d), !.tween = "none", !.path = "target"]
  <2>1. DataChanged(c, from, d) = snap
    BY <1>5 DEF DataChanged
  <2> HIDE DEF line
  <2>2. LineShape(snap, s, d)
    BY <1>1, <1>2, <1>5 DEF LineShape, ChartRecord, isYDomainTweenPhase
  <2> QED
    BY <2>1, <2>2
<1> QED
  BY <1>3, <1>4, <1>5

(* A tween that ended: a grid's hands over, a line's scale has arrived.    *)
LEMMA SettledShape ==
  ASSUME NEW c, NEW s \in ChartStatus, NEW d \in Datas, LineShape(c, s, d), c.tween = "running"
  PROVE  LineShape(Settled([c EXCEPT !.tween = "none", !.domain = c.to], d), s, d)
<1> DEFINE at == [c EXCEPT !.tween = "none", !.domain = c.to]
<1>1. c \in ChartRecord
  BY DEF LineShape
<1>2. at \in ChartRecord /\ at.phase = c.phase /\ at.loaded = c.loaded
  BY <1>1 DEF ChartRecord
<1>3. CASE c.phase = "gridTweenLoading"
  <2>1. Settled(at, d) = Held(at, "loading", d) /\ at.loaded = FALSE /\ s = "loading"
    BY <1>1, <1>2, <1>3 DEF Settled, LineShape, ChartRecord, ReadyPhase, ChartStatus
  <2> QED
    BY <2>1, <1>2, WaitingShape
<1>4. CASE c.phase = "gridTweenReady"
  <2>1. Settled(at, d) = Revealing(at, d) /\ at.loaded = FALSE /\ s = "ready"
    BY <1>1, <1>2, <1>4 DEF Settled, LineShape, ChartRecord, ReadyPhase
  <2> QED
    BY <2>1, <1>2, RevealShape
<1>5. CASE c.phase \notin {"gridTweenLoading", "gridTweenReady"}
  <2>1. Settled(at, d) = at
    BY <1>2, <1>5 DEF Settled
  <2>2. LineShape(at, s, d)
    BY <1>1, <1>5 DEF LineShape, ChartRecord, isYDomainTweenPhase
  <2> QED
    BY <2>1, <2>2
<1> QED
  BY <1>3, <1>4, <1>5

-----------------------------------------------------------------------------
\* What the steps of a pointer make of its tooltip.

LEMMA Resolves ==
  ASSUME NEW d \in Datas, d.n # 0, NEW h \in Thirds
  PROVE  resolveTooltipFromX(h, d) \in Tooltip /\ resolveTooltipFromX(h, d) # NoTip
<1> DEFINE at == [index |-> Index(h, d), x |-> IF d.n = 1 THEN 1 ELSE h, v |-> d.v]
<1>1. Index(h, d) \in Int /\ (IF d.n = 1 THEN 1 ELSE h) \in Int
  BY DEF Index, Thirds
<1>2. at \in Tooltip
  BY <1>1 DEF Tooltip
<1>3. resolveTooltipFromX(h, d) = at
  BY DEF resolveTooltipFromX
<1> QED
  BY <1>2, <1>3, ChartConstants DEF Tooltip

LEMMA Keyed ==
  ASSUME NEW t \in Tooltip \cup {NoTip}
  PROVE  Key(t) \in (Int \X Int) \cup {NoTip}
  BY DEF Key, Tooltip

LEMMA Cleared ==
  ASSUME NEW live, NEW h, NEW d
  PROVE  TipTells(NoTooltip, live, h, d)
  BY DEF TipTells, NoTooltip, TipRecord, Key

(* A tooltip that was asked for, where the pointer is.                     *)
LEMMA Schedules ==
  ASSUME NEW t \in TipRecord, NEW live, NEW h \in Thirds, NEW d \in Datas, d.n # 0,
         t.last = Key(t.shown)
  PROVE  TipTells(scheduleTooltip(t, resolveTooltipFromX(h, d)), live, h, d)
<1> DEFINE new == resolveTooltipFromX(h, d)
<1>1. new \in Tooltip /\ new # NoTip /\ h # NoTip
  BY Resolves, ChartConstants DEF Thirds
<1> HIDE DEF new
<1> DEFINE u == [t EXCEPT !.pending = new, !.frame = @ \/ Key(new) # t.last]
<1>2. scheduleTooltip(t, new) = u
  BY DEF scheduleTooltip
<1>3. /\ u.shown = t.shown /\ u.pending = new /\ u.last = t.last
      /\ u.frame <=> t.frame \/ Key(new) # t.last
  BY DEF TipRecord
<1>4. u \in TipRecord
  BY <1>1 DEF TipRecord
<1> HIDE DEF u
<1>5. TipTells(u, live, h, d)
  BY <1>1, <1>3, <1>4 DEF TipTells, new
<1> QED
  BY <1>2, <1>5 DEF new

(* Anchored again, when the chart, its data or its scales changed.         *)
LEMMA Reanchors ==
  ASSUME NEW t, NEW was, NEW from, NEW live \in BOOLEAN, NEW d \in Datas,
         hovered \in Thirds \cup {NoTip}, TipTells(t, was, hovered, from)
  PROVE  TipTells(Reanchored(t, live, d), live, hovered, d)
<1>1. CASE ~live
  BY <1>1 DEF Reanchored, TipTells
<1>2. CASE live /\ hovered = NoTip
  <2>1. Reanchored(t, live, d) = t /\ t.shown = NoTip /\ t.pending = NoTip /\ ~t.frame
    BY <1>2 DEF Reanchored, TipTells, TipRecord
  <2>2. t = NoTooltip
    BY <2>1 DEF TipTells, TipRecord, NoTooltip, Key
  <2> QED
    BY <2>1, <2>2, Cleared
<1>3. CASE live /\ hovered # NoTip /\ d.n = 0
  BY <1>3, Cleared DEF Reanchored
<1>4. CASE live /\ hovered # NoTip /\ d.n # 0
  <2>1. Reanchored(t, live, d) = scheduleTooltip(t, resolveTooltipFromX(hovered, d))
    BY <1>4 DEF Reanchored
  <2>2. t \in TipRecord /\ t.last = Key(t.shown) /\ hovered \in Thirds
    BY <1>4 DEF TipTells
  <2> QED
    BY <2>1, <2>2, <1>4, Schedules
<1> QED
  BY <1>1, <1>2, <1>3, <1>4

(* The frame shows what was asked for last.                                *)
LEMMA Commits ==
  ASSUME NEW t, NEW live \in BOOLEAN, NEW h, NEW d \in Datas, TipTells(t, live, h, d), t.frame
  PROVE  TipTells(CommitTooltip(t), live, h, d)
<1>1. /\ t \in TipRecord /\ t.last = Key(t.shown) /\ t.pending # NoTip
      /\ t.pending \in Tooltip
  BY DEF TipTells, TipRecord
<1>2. live => d.n # 0
  BY DEF TipTells, NoTooltip
<1>3. CASE Key(t.pending) = t.last
  <2> DEFINE u == [t EXCEPT !.frame = FALSE]
  <2>1. CommitTooltip(t) = u
    BY <1>3, <1>1 DEF CommitTooltip
  <2>2. /\ u \in TipRecord /\ u.shown = t.shown /\ u.pending = t.pending /\ u.last = t.last
        /\ u.frame = FALSE
    BY <1>1 DEF TipRecord
  <2> HIDE DEF u
  <2>3. TipTells(u, live, h, d)
    BY <1>1, <1>2, <1>3, <2>2 DEF TipTells
  <2> QED
    BY <2>1, <2>3
<1>4. CASE Key(t.pending) # t.last
  <2> DEFINE u == [t EXCEPT !.frame = FALSE, !.last = Key(t.pending), !.shown = t.pending]
  <2>1. CommitTooltip(t) = u
    BY <1>4, <1>1 DEF CommitTooltip
  <2>2. /\ u \in TipRecord /\ u.shown = t.pending /\ u.pending = t.pending
        /\ u.last = Key(t.pending) /\ u.frame = FALSE
    BY <1>1, Keyed DEF TipRecord
  <2> HIDE DEF u
  <2>3. TipTells(u, live, h, d)
    BY <1>1, <1>2, <1>4, <2>2 DEF TipTells
  <2> QED
    BY <2>1, <2>3
<1> QED
  BY <1>3, <1>4

-----------------------------------------------------------------------------
\* Every step of the chart keeps the shape and the tooltip.

Shaped(c, s, d) == IF Line THEN LineShape(c, s, d) ELSE BarShape(c, s)

LEMMA BarsShape ==
  ASSUME NEW s \in ChartStatus
  PROVE  BarShape(Bars(s), s)
<1>1. Between \in Scale
  BY DEF Between, Scale
<1> QED
  BY <1>1 DEF BarShape, Bars, ChartRecord, ChartStatus, ChartPhase

LEMMA MountedShape ==
  ASSUME NEW s \in ChartStatus, NEW d \in Datas, options \in ChartOptions
  PROVE  Shaped(Mounted(s, d), s, d)
<1> DEFINE p == resolveRestingChartPhase(s)
           rest == [phase |-> p, plot |-> IF s = "loading" THEN "skeleton" ELSE "target",
                    loaded |-> s = "ready", timer |-> FALSE, tween |-> "none", to |-> Between,
                    domain |-> resolveAnimatedYDestination(p, d), path |-> "target"]
<1>1. CASE ~Line
  <2>1. Mounted(s, d) = Bars(s)
    BY <1>1, ChartConstants DEF Mounted, Line
  <2> QED
    BY <1>1, <2>1, BarsShape DEF Shaped
<1>2. CASE Line
  <2>1. p \in ChartPhase /\ p = IF s = "loading" THEN "loading" ELSE "ready"
    BY DEF resolveRestingChartPhase, ChartPhase
  <2>2. rest \in ChartRecord
    BY <2>1, Given DEF ChartRecord
  <2>3. LineShape(rest, s, d)
    <3>1. p = "ready" => rest.domain = Target(d)
      BY DEF resolveAnimatedYDestination
    <3> HIDE DEF p
    <3> QED
      BY <3>1, <2>1, <2>2 DEF LineShape, ReadyPhase, isYDomainTweenPhase, ChartStatus
  <2>4. LineShape(Revealing([rest EXCEPT !.loaded = FALSE], d), "ready", d)
    <3> HIDE DEF rest
    <3>1. [rest EXCEPT !.loaded = FALSE] \in ChartRecord /\ [rest EXCEPT !.loaded = FALSE].loaded = FALSE
      BY <2>2 DEF ChartRecord
    <3> QED
      BY <3>1, RevealShape
  <2>5. Mounted(s, d) = IF s = "ready" /\ ~options.preview
                        THEN Revealing([rest EXCEPT !.loaded = FALSE], d) ELSE rest
    BY <1>2 DEF Mounted, Line
  <2> HIDE DEF rest, p
  <2> QED
    BY <1>2, <2>3, <2>4, <2>5 DEF Shaped
<1> QED
  BY <1>1, <1>2

(* A tween that is stopped, a reveal that is over, a frame and a move that *)
(* ended: the steps of a line that stay in its phase, or leave it by time. *)
LEMMA StopShape ==
  ASSUME NEW c, NEW s, NEW d, LineShape(c, s, d), c.tween = "running"
  PROVE  LineShape([c EXCEPT !.tween = "stopped"], s, d)
  BY DEF LineShape, ChartRecord

LEMMA TimerShape ==
  ASSUME NEW c, NEW s, NEW d, LineShape(c, s, d), c.timer
  PROVE  LineShape([c EXCEPT !.phase = "ready", !.loaded = TRUE, !.timer = FALSE], s, d)
  BY DEF LineShape, ChartRecord, ReadyPhase, isYDomainTweenPhase, ChartPhase

LEMMA FrameShape ==
  ASSUME NEW c, NEW s, NEW d, LineShape(c, s, d), c.tween = "running"
  PROVE  LineShape([c EXCEPT !.domain = Between,
                             !.path = IF @ = "moving" THEN "frozen" ELSE @], s, d)
<1>1. Between \in Scale
  BY DEF Between, Scale
<1> QED
  BY <1>1 DEF LineShape, ChartRecord

LEMMA PathShape ==
  ASSUME NEW c, NEW s, NEW d, LineShape(c, s, d)
  PROVE  LineShape([c EXCEPT !.path = "target"], s, d)
  BY DEF LineShape, ChartRecord

LEMMA ShapeOf == ShapeInv <=> Shaped(chart, status, data)
  BY DEF ShapeInv, Shaped, Line

(* Every action keeps the shape, and the types of the props.               *)
LEMMA ShapeStep ==
  ASSUME PropsTyped, ShapeInv, MotionNext
  PROVE  options' = options /\ PropsTyped' /\ Shaped(chart', status', data')
<1>1. /\ options \in ChartOptions /\ status \in ChartStatus /\ data \in Datas
      /\ Shaped(chart, status, data) /\ chart \in ChartRecord
  <2>1. Shaped(chart, status, data)
    BY ShapeOf
  <2> QED
    BY <2>1 DEF PropsTyped, Shaped, LineShape, BarShape
<1>2. Line <=> options.kind # "bar"
  BY <1>1, ChartConstants DEF Line
<1>3. ASSUME NEW d \in Datas, SetStatus(d)
      PROVE  options' = options /\ PropsTyped' /\ Shaped(chart', status', data')
  <2>1. /\ options' = options /\ data' = d /\ status' \in ChartStatus
        /\ hovered' = hovered /\ dragging' = dragging
        /\ chart' = IF options.kind = "bar" THEN Bars(status') ELSE StatusChanged(chart, status', d)
    BY <1>3 DEF SetStatus, pointerVars
  <2>2. Shaped(chart', status', data')
    BY <1>1, <1>2, <2>1, BarsShape, StatusShape DEF Shaped
  <2> QED
    BY <2>1, <2>2 DEF PropsTyped
<1>4. ASSUME NEW d \in Datas, SetData(d)
      PROVE  options' = options /\ PropsTyped' /\ Shaped(chart', status', data')
  <2>1. /\ options' = options /\ data' = d /\ status' = status
        /\ hovered' = hovered /\ dragging' = dragging
        /\ chart' = IF options.kind = "bar" THEN chart ELSE DataChanged(chart, data, d)
    BY <1>4 DEF SetData, pointerVars
  <2>2. Shaped(chart', status', data')
    BY <1>1, <1>2, <2>1, DataShape DEF Shaped
  <2> QED
    BY <2>1, <2>2 DEF PropsTyped
<1> DEFINE Rest == options' = options /\ PropsTyped' /\ status' = status /\ data' = data
<1>5. CASE Replay
  <2>1. Rest
    BY <1>5 DEF Replay, pointerVars, PropsTyped
  <2>2. CASE options.kind = "bar"
    BY <1>1, <1>2, <1>5, <2>1, <2>2, BarsShape DEF Replay, Shaped
  <2>3. CASE Line /\ ~options.preview /\ status = "ready" /\ chart.phase = "ready"
    <3> DEFINE off == [chart EXCEPT !.loaded = FALSE]
    <3>1. off \in ChartRecord /\ off.loaded = FALSE
      BY <1>1 DEF ChartRecord
    <3>2. chart' = Revealing(off, data)
      BY <1>2, <1>5, <2>3 DEF Replay
    <3> HIDE DEF off
    <3> QED
      BY <1>1, <2>1, <2>3, <3>1, <3>2, RevealShape DEF Shaped
  <2>4. CASE Line /\ ~(~options.preview /\ status = "ready" /\ chart.phase = "ready")
    <3>1. chart' = chart
      BY <1>2, <1>5, <2>4 DEF Replay
    <3> QED
      BY <1>1, <2>1, <3>1
  <2> QED
    BY <1>2, <2>1, <2>2, <2>3, <2>4
<1>6. CASE Retune
  <2>1. Rest /\ chart.tween = "running" /\ chart' = [chart EXCEPT !.tween = "stopped"]
    BY <1>6 DEF Retune, propVars, pointerVars, PropsTyped
  <2>2. Line
    BY <1>1, <2>1 DEF Shaped, BarShape
  <2> QED
    BY <1>1, <2>1, <2>2, StopShape DEF Shaped
<1>7. CASE RevealTimer
  <2>1. /\ Rest /\ chart.timer
        /\ chart' = [chart EXCEPT !.phase = "ready", !.loaded = TRUE, !.timer = FALSE]
    BY <1>7 DEF RevealTimer, propVars, pointerVars, PropsTyped
  <2>2. CASE Line
    BY <1>1, <2>1, <2>2, TimerShape DEF Shaped
  <2>3. CASE ~Line
    <3>1. BarShape([chart EXCEPT !.phase = "ready", !.loaded = TRUE, !.timer = FALSE], status)
      BY <1>1, <2>1, <2>3 DEF Shaped, BarShape, ChartRecord, ChartPhase
    <3> QED
      BY <2>1, <2>3, <3>1 DEF Shaped
  <2> QED
    BY <2>1, <2>2, <2>3
<1>8. CASE notifyLoadingPulseComplete
  <2>1. Rest /\ chart.phase = "exiting" /\ chart' = GridTween(chart, "gridTweenReady", data)
    BY <1>8 DEF notifyLoadingPulseComplete, propVars, pointerVars, PropsTyped
  <2>2. Line /\ status = "ready" /\ chart.loaded = FALSE
    BY <1>1, <2>1 DEF Shaped, BarShape, LineShape, ReadyPhase, ChartRecord
  <2> QED
    BY <1>1, <2>1, <2>2, TweenShape DEF Shaped
<1>9. CASE notifyRevealConcealComplete
  <2>1. Rest /\ chart.phase = "exitingReady" /\ chart' = GridTween(chart, "gridTweenLoading", data)
    BY <1>9 DEF notifyRevealConcealComplete, propVars, pointerVars, PropsTyped
  <2>2. Line /\ status = "loading" /\ chart.loaded = FALSE
    BY <1>1, <2>1 DEF Shaped, BarShape, LineShape, ReadyPhase, ChartRecord, ChartStatus
  <2> QED
    BY <1>1, <2>1, <2>2, TweenShape DEF Shaped
<1>10. CASE DomainFrame
  <2>1. /\ Rest /\ chart.tween = "running"
        /\ chart' = [chart EXCEPT !.domain = Between, !.path = IF @ = "moving" THEN "frozen" ELSE @]
    BY <1>10 DEF DomainFrame, propVars, pointerVars, PropsTyped
  <2>2. Line
    BY <1>1, <2>1 DEF Shaped, BarShape
  <2> QED
    BY <1>1, <2>1, <2>2, FrameShape DEF Shaped
<1>11. CASE DomainSettled
  <2>1. /\ Rest /\ chart.tween = "running"
        /\ chart' = Settled([chart EXCEPT !.tween = "none", !.domain = chart.to], data)
    BY <1>11 DEF DomainSettled, propVars, pointerVars, PropsTyped
  <2>2. Line
    BY <1>1, <2>1 DEF Shaped, BarShape
  <2> QED
    BY <1>1, <2>1, <2>2, SettledShape DEF Shaped
<1>12. CASE PathSettled
  <2>1. Rest /\ chart.path = "moving" /\ chart' = [chart EXCEPT !.path = "target"]
    BY <1>12 DEF PathSettled, propVars, pointerVars, PropsTyped
  <2>2. Line
    BY <1>1, <2>1 DEF Shaped, BarShape
  <2> QED
    BY <1>1, <2>1, <2>2, PathShape DEF Shaped
<1>13. ASSUME UNCHANGED <<propVars, chart>>, hovered' \in Thirds \cup {NoTip},
              dragging' \in Thirds \cup {NoTip}
       PROVE  options' = options /\ PropsTyped' /\ Shaped(chart', status', data')
  BY <1>1, <1>13 DEF propVars, PropsTyped
<1>14. CASE TooltipFrame
  BY <1>13, <1>14 DEF TooltipFrame, pointerVars, PropsTyped
<1>15. ASSUME NEW p \in Thirds, Hover(p) \/ Press(p) \/ Drag(p) \/ \E q \in Thirds : Pinch(p, q)
       PROVE  options' = options /\ PropsTyped' /\ Shaped(chart', status', data')
  <2>1. /\ UNCHANGED <<propVars, chart>> /\ hovered' \in Thirds \cup {NoTip}
        /\ dragging' \in Thirds \cup {NoTip}
    BY <1>15 DEF Hover, Press, Drag, Pinch, PropsTyped
  <2> QED
    BY <1>13, <2>1
<1>16. CASE Release \/ TouchEnd \/ Leave_Chart
  <2>1. /\ UNCHANGED <<propVars, chart>> /\ hovered' \in Thirds \cup {NoTip}
        /\ dragging' \in Thirds \cup {NoTip}
    BY <1>16 DEF Release, TouchEnd, Leave_Chart, PropsTyped
  <2> QED
    BY <1>13, <2>1
<1> QED
  BY <1>3, <1>4, <1>5, <1>6, <1>7, <1>8, <1>9, <1>10, <1>11, <1>12, <1>14, <1>15, <1>16 DEF MotionNext

(* Every action leaves the tooltip told: it is anchored again, shown,      *)
(* cleared, asked for where the pointer is, or as it was.                  *)
LEMMA TipStep ==
  ASSUME PropsTyped, ShapeInv, TipInv, MotionNext, Line
  PROVE  TipTells(tip', canInteract', hovered', data')
<1>1. /\ options' = options /\ PropsTyped' /\ Shaped(chart', status', data')
      /\ Shaped(chart, status, data)
  BY ShapeStep, ShapeOf
<1>2. /\ LineShape(chart, status, data) /\ LineShape(chart', status', data')
      /\ chart \in ChartRecord /\ chart' \in ChartRecord
  BY <1>1 DEF Shaped, LineShape
<1>3. canInteract \in BOOLEAN /\ canInteract' \in BOOLEAN
  BY <1>2 DEF canInteract, ChartRecord
<1>4. /\ TipTells(tip, canInteract, hovered, data) /\ hovered \in Thirds \cup {NoTip}
      /\ data \in Datas /\ data' \in Datas
  BY <1>1 DEF TipInv, PropsTyped
<1>5. ASSUME Anchor, hovered' = hovered
      PROVE  TipTells(tip', canInteract', hovered', data')
  <2>1. tip' = Reanchored(tip, canInteract', data')
    BY <1>5 DEF Anchor, Line
  <2> QED
    BY <2>1, <1>3, <1>4, <1>5, Reanchors
<1>6. ASSUME UNCHANGED <<tip, hovered, data>>, canInteract' = canInteract
      PROVE  TipTells(tip', canInteract', hovered', data')
  BY <1>4, <1>6
<1>7. ASSUME NEW d \in Datas, SetStatus(d) \/ SetData(d)
      PROVE  TipTells(tip', canInteract', hovered', data')
  BY <1>5, <1>7 DEF SetStatus, SetData, pointerVars
<1>8. CASE Replay
  BY <1>5, <1>8 DEF Replay, pointerVars
<1>9. CASE RevealTimer \/ notifyLoadingPulseComplete
  BY <1>5, <1>9 DEF RevealTimer, notifyLoadingPulseComplete, pointerVars
<1>10. CASE DomainFrame \/ DomainSettled
  BY <1>5, <1>10 DEF DomainFrame, DomainSettled, pointerVars
<1>11. CASE Retune
  <2>1. UNCHANGED <<tip, hovered, data>> /\ chart' = [chart EXCEPT !.tween = "stopped"]
    BY <1>11 DEF Retune, propVars, pointerVars
  <2>2. canInteract' = canInteract
    BY <2>1, <1>2 DEF canInteract, ChartRecord
  <2> QED
    BY <1>6, <2>1, <2>2
<1>12. CASE PathSettled
  <2>1. UNCHANGED <<tip, hovered, data>> /\ chart' = [chart EXCEPT !.path = "target"]
    BY <1>12 DEF PathSettled, propVars, pointerVars
  <2>2. canInteract' = canInteract
    BY <2>1, <1>2 DEF canInteract, ChartRecord
  <2> QED
    BY <1>6, <2>1, <2>2
<1>13. CASE notifyRevealConcealComplete
  <2>1. UNCHANGED <<status, tip, hovered, data>> /\ chart.phase = "exitingReady"
    BY <1>13 DEF notifyRevealConcealComplete, propVars, pointerVars
  <2>2. status # "ready" /\ chart.phase # "ready"
    BY <2>1, <1>2 DEF LineShape, ReadyPhase
  <2>3. chart'.phase # "ready"
    BY <2>1, <2>2, <1>2 DEF LineShape, ReadyPhase
  <2> QED
    BY <1>6, <2>1, <2>2, <2>3 DEF canInteract
<1>14. CASE TooltipFrame
  <2>1. /\ tip.frame /\ tip' = CommitTooltip(tip)
        /\ hovered' = hovered /\ data' = data /\ canInteract' = canInteract
    BY <1>14 DEF TooltipFrame, propVars, pointerVars, canInteract
  <2> QED
    BY <2>1, <1>3, <1>4, Commits
<1>15. ASSUME NEW p \in Thirds, Hover(p)
       PROVE  TipTells(tip', canInteract', hovered', data')
  <2>1. /\ canInteract /\ canInteract' = canInteract /\ data' = data /\ hovered' = p
        /\ tip' = IF data.n = 0 THEN tip ELSE scheduleTooltip(tip, resolveTooltipFromX(p, data))
    BY <1>15 DEF Hover, propVars, canInteract
  <2>2. CASE data.n = 0
    BY <2>1, <2>2, <1>4, Cleared DEF TipTells
  <2>3. CASE data.n # 0
    <3>1. tip \in TipRecord /\ tip.last = Key(tip.shown)
      BY <1>4 DEF TipTells
    <3> QED
      BY <3>1, <2>1, <2>3, <1>4, Schedules
  <2> QED
    BY <2>2, <2>3
<1>16. ASSUME NEW p \in Thirds, NEW q \in Thirds, Press(p) \/ Pinch(p, q)
       PROVE  TipTells(tip', canInteract', hovered', data')
  BY <1>16, Cleared DEF Press, Pinch
<1>17. CASE TouchEnd \/ Leave_Chart
  BY <1>17, Cleared DEF TouchEnd, Leave_Chart
<1>18. ASSUME NEW p \in Thirds, Drag(p) \/ Release
       PROVE  TipTells(tip', canInteract', hovered', data')
  BY <1>6, <1>18 DEF Drag, Release, propVars, canInteract
<1>19. CASE Release
  BY <1>6, <1>19 DEF Release, propVars, canInteract
<1> QED
  BY <1>7, <1>8, <1>9, <1>10, <1>11, <1>12, <1>13, <1>14, <1>15, <1>16, <1>17, <1>18, <1>19
     DEF MotionNext

-----------------------------------------------------------------------------
LEMMA MotionInvInit == MotionInit => MotionInv
<1> SUFFICES ASSUME MotionInit
             PROVE  MotionInv
  OBVIOUS
<1>1. PropsTyped
  BY DEF MotionInit, PropsTyped
<1>2. Shaped(chart, status, data)
  BY MountedShape DEF MotionInit
<1>3. TipInv
  BY Cleared DEF MotionInit, TipInv
<1> QED
  BY <1>1, <1>2, <1>3, ShapeOf DEF MotionInv

LEMMA MotionInvStep == MotionInv /\ [MotionNext]_motionVars => MotionInv'
<1> SUFFICES ASSUME MotionInv, [MotionNext]_motionVars
             PROVE  MotionInv'
  OBVIOUS
<1>1. PropsTyped /\ ShapeInv /\ TipInv
  BY DEF MotionInv
<1>2. CASE MotionNext
  <2>1. options' = options /\ PropsTyped' /\ Shaped(chart', status', data')
    BY <1>1, <1>2, ShapeStep
  <2>2. ShapeInv'
    BY <2>1 DEF ShapeInv, Shaped, Line
  <2>3. Line => TipTells(tip', canInteract', hovered', data')
    BY <1>1, <1>2, TipStep
  <2>4. TipInv'
    BY <2>1, <2>3 DEF TipInv, Line
  <2> QED
    BY <2>1, <2>2, <2>4 DEF MotionInv
<1>3. CASE UNCHANGED motionVars
  BY <1>1, <1>3 DEF motionVars, propVars, pointerVars, MotionInv, PropsTyped, ShapeInv, TipInv,
                    Line, canInteract
<1> QED
  BY <1>2, <1>3

(* However props, timers, animations and the pointer interleave, the chart *)
(* keeps the shape of its phase and the tooltip its place                  *)
(* (use-chart-phase-orchestrator.ts, use-scheduled-tooltip.ts).            *)
THEOREM MotionInvariant == MotionSpec => []MotionInv
  BY MotionInvInit, MotionInvStep, PTL DEF MotionSpec

(* Nothing under way and nowhere stranded, a line is at rest.              *)
LEMMA LineRests ==
  ASSUME LineShape(chart, status, data), status \in ChartStatus, options \in ChartOptions,
         ~UnderWay, ~Stranded
  PROVE  /\ chart.phase = resolveRestingChartPhase(status)
         /\ chart.loaded <=> status = "ready"
         /\ chart.plot = (IF status = "ready" THEN "target" ELSE "skeleton")
         /\ status = "ready" /\ chart.tween # "stopped" => chart.domain = Target(data)
<1>1. chart \in ChartRecord /\ options.pulses \in BOOLEAN
  BY ChartConstants DEF LineShape
<1>2. /\ ~chart.timer /\ chart.tween # "running"
      /\ chart.phase # "exiting" /\ chart.phase # "exitingReady"
      /\ ~(isYDomainTweenPhase(chart.phase) /\ chart.tween = "stopped")
  BY <1>1 DEF UnderWay, Stranded
<1>3. ~isYDomainTweenPhase(chart.phase)
  BY <1>1, <1>2 DEF LineShape, ChartRecord
<1>4. chart.phase \in {"loading", "ready"}
  BY <1>1, <1>2, <1>3 DEF LineShape, ChartRecord, ChartPhase, isYDomainTweenPhase
<1>5. chart.tween = "stopped" \/ chart.tween = "none"
  BY <1>1, <1>2 DEF ChartRecord
<1> QED
  BY <1>1, <1>4, <1>5 DEF LineShape, ReadyPhase, ChartStatus, resolveRestingChartPhase

(* A tooltip of a live line, once shown, stands over a datum that is there.*)
LEMMA TipStands ==
  ASSUME TipTells(tip, canInteract, hovered, data), data \in Datas,
         hovered \in Thirds \cup {NoTip}, canInteract, ~tip.frame, tip.shown # NoTip
  PROVE  /\ Key(tip.shown) = Key(resolveTooltipFromX(hovered, data))
         /\ tip.shown.index \in 0..(data.n - 1) /\ data.n \in {1, 3}
<1>1. /\ Key(tip.shown) = Key(resolveTooltipFromX(hovered, data))
      /\ tip.shown \in Tooltip /\ hovered \in Thirds /\ data.n # 0
  BY DEF TipTells, TipRecord, NoTooltip
<1>2. data.n \in {1, 3}
  BY <1>1, Given
<1> DEFINE new == resolveTooltipFromX(hovered, data)
<1>3. new # NoTip /\ new.index = Index(hovered, data)
  BY <1>1, Resolves DEF resolveTooltipFromX
<1>4. tip.shown.index = new.index
  <2> HIDE DEF new
  <2> DEFINE a == <<tip.shown.index, tip.shown.x>>
             b == <<new.index, new.x>>
  <2>1. Key(tip.shown) = a /\ Key(new) = b
    BY <1>3 DEF Key
  <2> QED
    <3>1. a = b
      BY <1>1, <2>1 DEF new
    <3>2. a[1] = b[1]
      BY <3>1
    <3> QED
      BY <3>2
<1>5. Index(hovered, data) \in 0..(data.n - 1)
  BY <1>1, <1>2 DEF Index, Thirds
<1> QED
  BY <1>1, <1>2, <1>3, <1>4, <1>5

LEMMA BandHolds ==
  ASSUME tip.shown.index \in 0..(data.n - 1), data.n \in {1, 3}, tip.shown # NoTip, selection = NoTip
  PROVE  /\ computeSegmentBounds.start <= tip.shown.index
         /\ tip.shown.index <= computeSegmentBounds.end
<1> DEFINE at(i) == IF i < 0 THEN 0 ELSE IF i > data.n - 1 THEN data.n - 1 ELSE i
<1>1. computeSegmentBounds = [start |-> at(tip.shown.index - 1), end |-> at(tip.shown.index + 1)]
  BY DEF computeSegmentBounds
<1>2. at(tip.shown.index - 1) <= tip.shown.index /\ tip.shown.index <= at(tip.shown.index + 1)
  OBVIOUS
<1> HIDE DEF at
<1> QED
  BY <1>1, <1>2

LEMMA MotionTold == MotionInv => ChartMotion
<1> SUFFICES ASSUME MotionInv
             PROVE  ChartMotion
  OBVIOUS
<1>1. /\ options \in ChartOptions /\ status \in ChartStatus /\ data \in Datas
      /\ hovered \in Thirds \cup {NoTip} /\ Shaped(chart, status, data)
      /\ Line => LineShape(chart, status, data)
      /\ ~Line => BarShape(chart, status)
      /\ Line => TipTells(tip, canInteract, hovered, data)
  <2>1. canInteract \in BOOLEAN
    BY ShapeOf DEF MotionInv, Shaped, LineShape, BarShape, ChartRecord, canInteract
  <2> QED
    BY <2>1, ShapeOf DEF MotionInv, PropsTyped, TipInv, Shaped
<1>2. chart.loaded => status = "ready" /\ chart.phase = "ready"
  BY <1>1 DEF LineShape, BarShape, ReadyPhase
<1>3. ASSUME Line, ~UnderWay, ~Stranded
      PROVE  /\ chart.phase = resolveRestingChartPhase(status)
             /\ chart.loaded <=> status = "ready"
             /\ chart.plot = (IF status = "ready" THEN "target" ELSE "skeleton")
             /\ status = "ready" /\ chart.tween # "stopped" => chart.domain = Target(data)
             /\ showSeriesStroke(chart.phase) <=> status = "ready"
             /\ resolveLineLoadingPulseMode(chart.phase) = "loop" <=> status = "loading"
  <2>1. /\ chart.phase = resolveRestingChartPhase(status)
        /\ chart.loaded <=> status = "ready"
        /\ chart.plot = (IF status = "ready" THEN "target" ELSE "skeleton")
        /\ status = "ready" /\ chart.tween # "stopped" => chart.domain = Target(data)
    BY <1>1, <1>3, LineRests
  <2>2. CASE status = "ready"
    <3>1. chart.phase = "ready"
      BY <2>1, <2>2 DEF resolveRestingChartPhase
    <3> QED
      BY <2>1, <2>2, <3>1 DEF showSeriesStroke, resolveLineLoadingPulseMode
  <2>3. CASE status = "loading"
    <3>1. chart.phase = "loading"
      BY <2>1, <2>3 DEF resolveRestingChartPhase
    <3> QED
      BY <2>1, <2>3, <3>1 DEF showSeriesStroke, resolveLineLoadingPulseMode
  <2> QED
    BY <1>1, <2>2, <2>3 DEF ChartStatus
<1>4. chart.path = "frozen" => canInteract
  BY <1>1 DEF LineShape, BarShape, canInteract
<1>5. ASSUME Line, canInteract, ~tip.frame, tip.shown # NoTip
      PROVE  /\ Key(tip.shown) = Key(resolveTooltipFromX(hovered, data))
             /\ selection = NoTip => computeSegmentBounds.start <= tip.shown.index
                                     /\ tip.shown.index <= computeSegmentBounds.end
  <2>1. /\ Key(tip.shown) = Key(resolveTooltipFromX(hovered, data))
        /\ tip.shown.index \in 0..(data.n - 1) /\ data.n \in {1, 3}
    BY <1>1, <1>5, TipStands
  <2> QED
    BY <2>1, <1>5, BandHolds
<1> QED
  BY <1>2, <1>3, <1>4, <1>5 DEF ChartMotion

(* A chart answers the pointer only when it is drawn ready; once nothing   *)
(* is under way a line rests in the phase of its status, drawn on the      *)
(* scale of its data; and its tooltip, once no frame is due, stands over   *)
(* the datum nearest to the pointer last seen                              *)
(* (use-chart-phase-orchestrator.ts, use-animated-y-domains.ts:128-242,    *)
(* use-chart-interaction.ts:311-321, use-scheduled-tooltip.ts).            *)
THEOREM ChartsRest == MotionSpec => []ChartMotion
  BY MotionInvariant, MotionTold, PTL

(* A chart over time is a chart: its phase, what it plots, its tween and   *)
(* its line are among those there are, whatever props change.              *)
(* use-chart-phase-orchestrator.ts.                                        *)
THEOREM ChartsTyped == MotionSpec => []MotionTypeOK
<1>1. ASSUME MotionInv  PROVE MotionTypeOK
  <2>1. chart \in ChartRecord
    BY <1>1 DEF MotionInv, ShapeInv, LineShape, BarShape
  <2> QED
    BY <1>1, <2>1 DEF MotionInv, PropsTyped, MotionTypeOK, ChartRecord
<1> QED
  BY <1>1, MotionInvariant, PTL
=============================================================================
