-------------------------------- MODULE MCWeb --------------------------------
(* A small instance of Web for TLC: for each screen what it may be given,  *)
(* and for each kind of drawing a few dozen props.                         *)
EXTENDS Web, MCWebReport

\* The picker: leaves of mixed sections, forks, chains, and a code that does
\* not fit its path.
L(code, path) == [code |-> code, path |-> path]
MCLeaves == {
  L(<<"01", "01">>, <<"Net sales", "Domestic">>),
  L(<<"04", "01", "01", "01", "01">>, <<"OPEX", "Staff", "Pay", "Gross", "Salaries">>),
  L(<<"04", "01", "01", "02", "01">>, <<"OPEX", "Staff", "Pay", "Taxes", "Social">>),
  L(<<"04", "01", "01", "02", "02">>, <<"OPEX", "Staff", "Pay", "Taxes", "Income">>),
  L(<<"05", "01", "01">>, <<"Other", "Expense", "Fines">>),
  L(<<"05", "02", "01">>, <<"Other", "Income", "Rent">>),
  L(<<"06", "01">>, <<"Financial">>)}
MCLists == SUBSET MCLeaves

\* The review screen: a short list, and a queue of two with a third to come.
CONSTANTS k1, k2, k3, c1, c2, f1, p1, p2
MCCatalogs == {{L(<<"01">>, <<"Net sales">>), L(<<"04">>, <<"OPEX">>)}}
MCQueues == {<<[key |-> k1, side |-> "expense"], [key |-> k2, side |-> "income"]>>}

\* The shell: who may be signed in is told apart by nothing else.
PeopleSymmetry == Permutations(People)

\* A chart over time: three points, one and none.
Data(v, n, top) == [v |-> v, n |-> n, top |-> top]
\* A line chart as it comes, or with one thing turned off; the bar chart.
Opt(k, an, gr, pr, pu) ==
  [kind |-> k, animates |-> an, grid |-> gr, moves |-> TRUE, preview |-> pr, pulses |-> pu]
MCChartOptions ==
  {Opt("bar", TRUE, TRUE, FALSE, TRUE), Opt("line", TRUE, TRUE, FALSE, TRUE),
   Opt("line", FALSE, TRUE, FALSE, TRUE), Opt("line", TRUE, FALSE, FALSE, TRUE),
   Opt("line", TRUE, TRUE, TRUE, TRUE), Opt("line", TRUE, TRUE, FALSE, FALSE),
   [Opt("line", TRUE, FALSE, FALSE, TRUE) EXCEPT !.moves = FALSE]}
MCDatas == {Data(3, 3, 2), Data(4, 1, 1), Data(5, 0, 0)}

-----------------------------------------------------------------------------
\* Line charts: one axis or two, with gaps, with a brush, with projections.
Ln(k, axis) == [key |-> k, axis |-> axis]
RowsOver(s) ==
  [i \in DOMAIN s |->
     [t |-> i, at |-> IF i % 3 = 0 THEN ("a" :> s[i]) ELSE ("a" :> s[i]) @@ ("b" :> (40 - 5 * i))]]
Proj(mode, auto, density, start, horizon, end) ==
  [key |-> "a", axis |-> "", mode |-> mode, auto |-> auto, density |-> density, start |-> start,
   horizon |-> horizon, end |-> end, points |-> <<>>]
MCProjections ==
  {<<>>, <<Proj("auto", "linearRegression", "full", 0, 3, 0)>>,
   <<Proj("auto", "lastSegment", "endpoints", 2, 2, 0)>>,
   <<Proj("target", "", "", 0, 4, -400),
     [Proj("auto", "linearRegression", "endpoints", 1, 2, 0) EXCEPT !.axis = "right"]>>,
   <<[Proj("manual", "", "", 0, 0, 0) EXCEPT
        !.points = <<[t |-> 5, y |-> 300], [t |-> 9, y |-> 900]>>]>>}
LineDrawings ==
  {[kind |-> "lines", lines |-> l, rows |-> RowsOver(s),
    brushed |-> br, brush |-> [lo |-> 3, hi |-> 2], top |-> 0, projections |-> p] :
     l \in {<<Ln("a", "")>>, <<Ln("a", ""), Ln("b", "right")>>},
     s \in {<<3, 5, 2, 6>>, <<0, 0, 0, 0>>, <<7, -3, 4, 4>>, <<9>>, <<-2, -5, -9>>},
     br \in BOOLEAN, p \in MCProjections}

\* Bar charts: one series or two, side by side or stacked, either way up.
Row(label, values) == [label |-> label, values |-> values]
BarRows ==
  {<<Row(1, <<x>>), Row(2, <<y>>), Row(3, <<4>>)>> : x \in {0, 9}, y \in {4, 27}} \cup
  {<<Row(1, <<x, 5>>), Row(2, <<0, y>>)>> : x \in {0, 3, 20}, y \in {0, 7}} \cup
  {<<Row(1, <<x, 0>>), Row(2, <<0, 7>>), Row(3, <<0, 0>>)>> : x \in {3, 20}} \cup
  {<<Row(1, <<0>>), Row(2, <<0>>)>>, <<Row(1, <<3, 2, 8>>), Row(1, <<1, 1, 1>>)>>, [i \in 1..14 |-> Row(i, <<i>>)]}
BarDrawings ==
  {[kind |-> "bars", horizontal |-> h, stacked |-> s, width |-> w, height |-> 60, rows |-> rs] :
     h \in BOOLEAN, s \in BOOLEAN, w \in {120, 200}, rs \in BarRows}
ColumnDrawings ==
  [kind : {"column"}, len : {0, 3, 14, 15, 24, 57}, size : {0, 4, 10}, gap : {0, 3}, fit : BOOLEAN,
   plot : {60}]
BoxDrawings ==
  [kind : {"box"}, slot : {20, 24, 60}, bars : {1, 3}, size : {-1, 700}, max : {-1, 500}, gap : {400}]

\* The marks of a time axis, over even, uneven and broken runs of days.
TickDrawings ==
  {[kind |-> "ticks", times |-> ts, target |-> n, mode |-> m, brushed |-> br,
    domain |-> [lo |-> ts[1], hi |-> ts[Len(ts)] + e]] :
     ts \in {<<0>>, <<0, 1, 2, 3, 4>>, [i \in 1..9 |-> 2 * i], <<0, 2, 4, 10, 12, 14, 26>>,
             [i \in 1..12 |-> i + 100]},
     n \in {2, 3, 5}, m \in {"data", "domain"}, br \in BOOLEAN, e \in {0, 9}}
ThinDrawings ==
  [kind : {"thin"}, max : {2, 3, 4, 5, 9},
   y : [1..3 -> {0, 2, 5}] \cup {<<2, 5, 0, 5, 2, 2>>, <<1, 4, 2, 8, 5, 7, 3, 9, 6>>,
                                  [i \in 1..13 |-> (i * i) % 11]}]

\* Children of a chart, plain, wrapped, in a fragment and marked to come last.
Child(name, key) ==
  [name |-> name, key |-> key, post |-> FALSE, wrapped |-> FALSE, inside |-> <<>>]
MCChildren ==
  {Child("Grid", ""), Child("LinearGradient", ""), Child("PatternLines", ""), Child("Line", "a"),
   Child("Bar", "b"), Child("ReferenceArea", ""), Child("ChartMarkers", ""),
   [Child("Line", "d") EXCEPT !.wrapped = TRUE], [Child("Dot", "") EXCEPT !.post = TRUE],
   [Child("Fragment", "") EXCEPT !.inside = <<Child("Line", "e"), Child("Line", "f")>>]}
LayerDrawings ==
  [kind : {"layers"}, chart : {"line", "bar"}, loading : {FALSE}, children : MCChildren \X MCChildren] \cup
  [kind : {"layers"}, chart : {"line"}, loading : {TRUE}, children : MCChildren \X {Child("Line", "a")}]
TipDrawings ==
  [kind : {"tip"}, of : {d \in BarDrawings : d.width = 200 /\ Len(d.rows) = 2 /\ d.rows[1].values[1] # 3}, index : {1, 2},
   labels : {<<[month |-> 1, day |-> 1], [month |-> 1, day |-> 2], [month |-> 2, day |-> 1]>>,
             [i \in 1..61 |-> [month |-> i \div 30, day |-> i % 30]]},
   rows : {<<>>, <<[color |-> <<"row", 1>>, label |-> 1, value |-> 7]>>}, ring : {TRUE},
   groupGap : {2}, span : {0, 1}]

\* A line in each phase, its pulse, the placeholder bars and the markers.
PhaseDrawings ==
  {[kind |-> "phase", shimmer |-> TRUE,
    line |-> [phase |-> p, loading |-> l, style |-> st, wide |-> 100, traced |-> TRUE, dash |-> da, n |-> 4,
              key |-> k, keys |-> <<"a", "b">>, legend |-> 2, hovering |-> h]] :
     p \in ChartPhase, l \in {"", "off"}, st \in {"pulse", "sweep"}, da \in {-1, 2},
     k \in {"a", "b"}, h \in BOOLEAN}
PulseDrawings ==
  [kind : {"pulse"}, mode : {"loop", "exit", "enter"}, at : {0, 30, 50, 100}, wide : {1, 100, 333},
   frames : {<<-100, 0, 120, 200, -90, 110>>, <<-100, 90, -100, 150, 180>>}]
SkelDrawings ==
  [kind : {"skeleton"}, wide : {0, 120}, high : {60, 61}, count : {1, 3}, baseline : {"bottom", "center"}]
MarkerDrawings ==
  {[kind |-> "markers", at |-> xs, wide |-> 2000, revealing |-> rv, ms |-> 1100,
    marker |-> [radius |-> rd, stroke |-> s, gap |-> 40, outline |-> o, lifts |-> l]] :
     xs \in {<<0, -1, 900, 2000>>, <<1000>>}, rv \in BOOLEAN, rd \in {60, 100}, s \in {0, 40},
     o \in {0, 20}, l \in BOOLEAN}
MoneyDrawings ==
  [kind : {"money"}, minor : {0, -7, 999, -1000, 12345678, -2000000000},
   code : {"EUR", "eur", "JPY", "KWD", "UYW", "XXX"}, known : {{"EUR", "eur", "JPY", "KWD", "UYW"}},
   parts : {<<>>, <<5, -5>>, <<1000, 1, 7>>}]

MCDrawings ==
  MoneyDrawings \cup LineDrawings \cup BarDrawings \cup ColumnDrawings \cup BoxDrawings \cup TickDrawings
  \cup ThinDrawings \cup LayerDrawings \cup TipDrawings \cup PhaseDrawings \cup PulseDrawings
  \cup SkelDrawings \cup MarkerDrawings
=============================================================================
