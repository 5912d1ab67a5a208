--------------------------------- MODULE Web ---------------------------------
(***************************************************************************)
(* The browser client: its screens and its charts side by side.  A tab     *)
(* shows one screen at a time, each with queries of its own, so each is    *)
(* followed from the page load that opens it; what the others hold meanwhile *)
(* does not move.  A chart is followed as a screen of its own, once for    *)
(* what it does over time and once for what it draws.                      *)
(***************************************************************************)
EXTENDS WebReview, WebImports, WebShell, WebReport, WebMotion, WebDrawing

CONSTANT Lists    \* the lists of leaves the picker may be given

ASSUME ListsOfCategories == \A l \in Lists : IsFiniteSet(l) /\ l \subseteq Category

VARIABLE screen

Screens == {"review", "picker", "imports", "shell", "report", "motion", "drawing"}
vars == <<screen, reviewVars, importVars, shellVars, reportVars, motionVars, drawing>>

\* What is not on screen has nothing left to choose.
AnyOf(S) == CHOOSE x \in S : TRUE
Offscreen ==
  /\ IF screen = "picker" THEN cats \in Lists
     ELSE IF screen = "review" THEN cats \in Catalogs ELSE cats = AnyOf(Catalogs)
  /\ IF screen = "review" THEN queue \in Queues ELSE queue = AnyOf(Queues)
  /\ IF screen = "shell" THEN ShellInit
     ELSE account = Anonymous /\ founded = {} /\ route = "home" /\ stored = NoRange /\ ShellInit
  /\ IF screen = "report" THEN ReportInit
     ELSE view = "table" /\ cell = NoCell /\ imported = {} /\ classified = {} /\ ReportInit
  /\ IF screen = "motion" THEN MotionInit
     ELSE /\ options = AnyOf({o \in ChartOptions : o.kind = "bar"})
          /\ status = "ready" /\ data = AnyOf(Datas) /\ MotionInit
  /\ IF screen = "drawing" THEN DrawingInit ELSE drawing = NoDrawing

Init == screen \in Screens /\ Offscreen /\ QueueInit /\ ImportsInit

\* The categories of another organisation.
Relist == cats' \in Lists

Next ==
  /\ UNCHANGED screen
  /\ \/ /\ screen = "review" /\ ReviewNext
        /\ UNCHANGED <<importVars, shellVars, reportVars, motionVars, drawing>>
     \/ /\ screen = "picker" /\ Relist
        /\ UNCHANGED <<queueVars, importVars, shellVars, reportVars, motionVars, drawing>>
     \/ /\ screen = "imports" /\ ImportsNext
        /\ UNCHANGED <<reviewVars, shellVars, reportVars, motionVars, drawing>>
     \/ /\ screen = "shell" /\ ShellNext
        /\ UNCHANGED <<reviewVars, importVars, reportVars, motionVars, drawing>>
     \/ /\ screen = "report" /\ ReportNext
        /\ UNCHANGED <<reviewVars, importVars, shellVars, motionVars, drawing>>
     \/ /\ screen = "motion" /\ MotionNext
        /\ UNCHANGED <<reviewVars, importVars, shellVars, reportVars, drawing>>
     \/ /\ screen = "drawing" /\ Redraw
        /\ UNCHANGED <<reviewVars, importVars, shellVars, reportVars, motionVars>>

Spec == Init /\ [][Next]_vars

(* Every part of the screen that moves stays of its type: the two queries  *)
(* and the choice of the review screen, the batches and their details, the *)
(* session and the range, the report and its open figure, and a chart.     *)
WebTypeOK ==
  CASE screen = "review" -> ReviewTypeOK
    [] screen = "imports" -> ImportsTypeOK
    [] screen = "shell" -> ShellTypeOK
    [] screen = "report" -> ReportTypeOK
    [] screen = "motion" -> MotionTypeOK
    [] screen = "picker" -> cats \in Lists
    [] screen = "drawing" -> drawing \in Drawings

(* Whatever list the picker is given, the tree it builds of it is whole.   *)
(* categoryTree.ts.                                                        *)
TreeWhole == screen = "picker" => PickerWhole
=============================================================================
