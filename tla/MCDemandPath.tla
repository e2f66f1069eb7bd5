---------------------------- MODULE MCDemandPath ----------------------------
EXTENDS DemandPath, TLC

CONSTANTS x, y, n, a, b, selA, selB, selBad, f1, f2, w1, w2

TwoSeries == {x, y}
OneName == {n}
SameName == [s \in TwoSeries |-> n]
TwoResources == {a, b}
ThreeSelectors == {selA, selB, selBad}
TwoParse == selA :> {x, a} @@ selB :> {y, b}
TwoRules == {f1, f2}
OneWorker == {w1}
TwoWorkers == {w1, w2}

Route(sel, rule) == [selector |-> sel, rule |-> rule]

\* 1: names only, from a server without selectors and routes.
\* 2: selectors and routes.  3: a rule is deleted, a selector does not parse.
\* 4: as 2, but for the rules of the routes and the metric selectors.
FourSets ==
  << [metrics |-> {n}, metricSelectors |-> {}, logSelectors |-> {selA},
      traceSelectors |-> {selA}, traceDemands |-> {}],
     [metrics |-> {n}, metricSelectors |-> {selA}, logSelectors |-> {selA, selB},
      traceSelectors |-> {selA, selB},
      traceDemands |-> {Route(selA, f1), Route(selB, f2)}],
     [metrics |-> {n}, metricSelectors |-> {selBad}, logSelectors |-> {selBad},
      traceSelectors |-> {selB, selBad},
      traceDemands |-> {Route(selB, f2), Route(selBad, f2), Route(selA, NoRule)}],
     [metrics |-> {n}, metricSelectors |-> {selB}, logSelectors |-> {selA, selB},
      traceSelectors |-> {selA, selB},
      traceDemands |-> {Route(selA, f2), Route(selB, f2)}] >>

\* The lists agent_control.proto names.
ThreeLists == {"metrics", "logSelectors", "traceSelectors"}

=============================================================================
