-------------------------- MODULE MetricPathProofs ---------------------------
(* For any metrics, resources, datapoints and demand sets: the tracker and  *)
(* the metric filter see the same labels, and the filter's fast paths are   *)
(* exact.                                                                   *)
EXTENDS MetricPath, TLAPS

IsMap(f) == f = [k \in DOMAIN f |-> f[k]]

LEMMA OverIsMap ==
  ASSUME NEW f, NEW g
  PROVE  /\ IsMap(Over(f, g))
         /\ DOMAIN Over(f, g) = DOMAIN f \cup DOMAIN g
         /\ \A k \in DOMAIN f \cup DOMAIN g :
              Over(f, g)[k] = IF k \in DOMAIN f THEN f[k] ELSE g[k]
BY DEF Over, IsMap

LEMMA OverFirst ==
  ASSUME NEW f, NEW g, NEW k \in DOMAIN f
  PROVE  Get(Over(f, g), k) = Get(f, k)
BY DEF Over, Get

\* Lookups one after the other are one lookup in the merged map.
LEMMA OverAssociates ==
  ASSUME NEW f, NEW g, NEW h
  PROVE  Over(f, Over(g, h)) = Over(Over(f, g), h)
BY DEF Over

LEMMA OverNothing ==
  ASSUME NEW f, NEW g, DOMAIN f = {}, IsMap(g)
  PROVE  Over(f, g) = g
BY DEF Over, IsMap

LEMMA NoAttributes == DOMAIN Normalized(<<>>) = {}
BY DEF Normalized, Labels

LEMMA LookupsAgree ==
  ASSUME NEW res, NEW dp
  PROVE  LookupAgrees(res, dp)
<1> DEFINE N(a) == Normalized(a)
<1>1. Over(N(dp), Over(N(res), Synthesized(res)))
        = Over(Over(N(dp), N(res)), Synthesized(res))
  BY OverAssociates
<1>2. IsMap(Over(Over(N(dp), N(res)), Synthesized(res)))
  BY OverIsMap, Zenon
<1>3. Over(N(<<>>), Over(Over(N(dp), N(res)), Synthesized(res)))
        = Over(Over(N(dp), N(res)), Synthesized(res))
  BY <1>2, NoAttributes, OverNothing
<1> QED
  BY <1>1, <1>3 DEF LookupAgrees, BuildSeriesLabels, ResourceLabelMap,
     addSynthesizedJobInstance

\* The tracker's and the filter's view of a label are one
\* (internal/promnaming/labels.go, demandfilter/selectors.go).
THEOREM OneLabelView == Spec => []ViewsAgree
<1>1. ViewsAgree
  BY LookupsAgree DEF ViewsAgree
<1> QED
  BY <1>1, PTL

-----------------------------------------------------------------------------
(* One selector, one datapoint.                                             *)

\* A selector taken apart, as compileSelectors does, asks the same of a name
\* and labels as the selector on the whole series.
LEMMA TakenApart ==
  ASSUME NEW sel, NEW n, NEW labels
  PROVE  Matches(NotOn({LE, QUANTILE}, sel.ms), View([name |-> n, labels |-> labels]))
           <=> /\ matchesName(compiled(sel), n)
               /\ Matches(compiled(sel).labelMatchers, labels)
<1> DEFINE ms == sel.ms
           v == View([name |-> n, labels |-> labels])
           some == {i \in DOMAIN ms : ms[i].name \notin {LE, QUANTILE}}
           named == {i \in DOMAIN ms : ms[i].name \in {NAME}}
           other == {i \in DOMAIN ms : ms[i].name \notin {NAME, LE, QUANTILE}}
<1>1. some = named \cup other
  BY DEF NAME, LE, QUANTILE
<1>2. Get(v, NAME) = n
  BY DEF Get, View, Over
<1>3. \A k : k # NAME => Get(v, k) = Get(labels, k)
  BY DEF Get, View, Over
<1>4. Matches(NotOn({LE, QUANTILE}, ms), v)
        <=> \A i \in some : MatchValue(ms[i], Get(v, ms[i].name))
  BY Zenon DEF Matches, NotOn
<1>5. matchesName(compiled(sel), n) <=> \A i \in named : MatchValue(ms[i], n)
  BY Zenon DEF matchesName, compiled, On
<1>6. Matches(compiled(sel).labelMatchers, labels)
        <=> \A i \in other : MatchValue(ms[i], Get(labels, ms[i].name))
  BY Zenon DEF Matches, compiled, NotOn
<1>7. (\A i \in named : MatchValue(ms[i], Get(v, ms[i].name)))
        <=> \A i \in named : MatchValue(ms[i], n)
  BY <1>2
<1>8. (\A i \in other : MatchValue(ms[i], Get(v, ms[i].name)))
        <=> \A i \in other : MatchValue(ms[i], Get(labels, ms[i].name))
  BY <1>3
<1> HIDE DEF v, some, named, other, ms
<1> QED
  BY <1>1, <1>4, <1>5, <1>6, <1>7, <1>8 DEF ms, v

\* The index by name finds the selectors that match one of the names.
LEMMA CandidatesExact ==
  ASSUME NEW raw, NEW names, NEW cs
  PROVE  cs \in candidatesFor(compileSelectors(raw), names)
           <=> /\ \E sel \in raw : sel.parses /\ cs = compiled(sel)
               /\ \E n \in names : matchesName(cs, n)
<1> DEFINE all == {compiled(s) : s \in {r \in raw : r.parses}}
<1>1. ASSUME Pinned(cs), NEW n PROVE matchesName(cs, n) <=> n = PinnedName(cs)
  <2>1. PICK i \in DOMAIN cs.nameMatchers :
          DOMAIN cs.nameMatchers = {i} /\ cs.nameMatchers[i].op = "="
    BY <1>1 DEF Pinned
  <2>2. PinnedName(cs) = cs.nameMatchers[i].value
    BY <2>1 DEF PinnedName
  <2> QED
    BY <2>1, <2>2 DEF matchesName, MatchValue
<1>2. cs \in candidatesFor(compileSelectors(raw), names)
        <=> \/ cs \in all /\ Pinned(cs) /\ PinnedName(cs) \in names
            \/ cs \in all /\ ~Pinned(cs) /\ \E n \in names : matchesName(cs, n)
  <2> DEFINE set == compileSelectors(raw)
  <2>1. set.byName = {<<PinnedName(c), c>> : c \in {d \in all : Pinned(d)}}
    BY DEF compileSelectors
  <2>2. set.scan = {c \in all : ~Pinned(c)}
    BY DEF compileSelectors
  <2> HIDE DEF set, all
  <2>3. cs \in {p[2] : p \in {q \in set.byName : q[1] \in names}}
          <=> cs \in all /\ Pinned(cs) /\ PinnedName(cs) \in names
    <3>1. ASSUME NEW q \in set.byName, q[1] \in names, cs = q[2]
          PROVE  cs \in all /\ Pinned(cs) /\ PinnedName(cs) \in names
      <4>1. PICK c \in all : Pinned(c) /\ q = <<PinnedName(c), c>>
        BY <2>1, <3>1
      <4> QED
        BY <3>1, <4>1
    <3>2. ASSUME cs \in all, Pinned(cs), PinnedName(cs) \in names
          PROVE  \E q \in set.byName : q[1] \in names /\ cs = q[2]
      <4>1. <<PinnedName(cs), cs>> \in set.byName
        BY <2>1, <3>2
      <4> QED
        BY <3>2, <4>1
    <3> QED
      BY <3>1, <3>2
  <2>4. cs \in {c \in set.scan : \E n \in names : matchesName(c, n)}
          <=> cs \in all /\ ~Pinned(cs) /\ \E n \in names : matchesName(cs, n)
    BY <2>2
  <2> QED
    BY <2>3, <2>4 DEF candidatesFor, set
<1>3. cs \in all <=> \E sel \in raw : sel.parses /\ cs = compiled(sel)
  OBVIOUS
<1> HIDE DEF all
<1> QED
  BY <1>1, <1>2, <1>3

\* What the selector mode keeps of a metric.
LEMMA FilterExact ==
  ASSUME NEW m, NEW raw, NEW dp
  PROVE  dp \in filterMetricDatapoints(m, compileSelectors(raw))
           <=> /\ dp \in m.dps
               /\ \E n \in familyNames(m), sel \in raw :
                    /\ sel.parses
                    /\ Matches(NotOn({LE, QUANTILE}, sel.ms),
                               View([name |-> n, labels |-> BuildSeriesLabels(m.res, dp, <<>>)]))
<1> DEFINE cands == candidatesFor(compileSelectors(raw), familyNames(m))
           seen == Over(Normalized(dp), ResourceLabelMap(m.res))
<1>1. seen = BuildSeriesLabels(m.res, dp, <<>>)
  BY LookupsAgree DEF LookupAgrees
<1>2. dp \in filterMetricDatapoints(m, compileSelectors(raw))
        <=> dp \in m.dps /\ \E cs \in cands : Matches(cs.labelMatchers, seen)
  <2>1. ASSUME NEW cs, DOMAIN cs.labelMatchers = {}
        PROVE  Matches(cs.labelMatchers, seen)
    BY <2>1 DEF Matches
  <2>2. filterMetricDatapoints(m, compileSelectors(raw))
          = IF \E cs \in cands : DOMAIN cs.labelMatchers = {} THEN m.dps
            ELSE {d \in m.dps : \E cs \in cands :
                    Matches(cs.labelMatchers, Over(Normalized(d), ResourceLabelMap(m.res)))}
    BY DEF filterMetricDatapoints
  <2> HIDE DEF cands
  <2> QED
    BY <2>1, <2>2
<1>3. (\E cs \in cands : Matches(cs.labelMatchers, seen))
        <=> \E n \in familyNames(m), sel \in raw :
              /\ sel.parses /\ matchesName(compiled(sel), n)
              /\ Matches(compiled(sel).labelMatchers, seen)
  BY CandidatesExact
<1>4. ASSUME NEW n, NEW sel
      PROVE  Matches(NotOn({LE, QUANTILE}, sel.ms), View([name |-> n, labels |-> seen]))
               <=> /\ matchesName(compiled(sel), n)
                   /\ Matches(compiled(sel).labelMatchers, seen)
  BY TakenApart, Zenon
<1> HIDE DEF cands, seen
<1>5. (\E cs \in cands : Matches(cs.labelMatchers, seen))
        <=> \E n \in familyNames(m), sel \in raw :
              /\ sel.parses
              /\ Matches(NotOn({LE, QUANTILE}, sel.ms), View([name |-> n, labels |-> seen]))
  BY <1>3, <1>4, Zenon
<1> QED
  BY <1>1, <1>2, <1>5, Zenon

-----------------------------------------------------------------------------
(* What has been passed and what is known.                                  *)

PInv ==
  /\ \A p \in passed : p = <<p[1], p[2]>>
  /\ \A m, dp : <<m, dp>> \in passed <=> m \in consumed /\ dp \in Kept(m)
  /\ \A m \in consumed : m \in Metrics /\ trackMetrics(m) \subseteq known

LEMMA InitPInv == Init => PInv
BY DEF Init, PInv

LEMMA NextPInv == PInv /\ [Next]_vars => PInv'
<1> SUFFICES ASSUME PInv, [Next]_vars PROVE PInv'
  OBVIOUS
<1>1. ASSUME UNCHANGED <<demands, selectors>> PROVE \A m : Kept(m)' = Kept(m)
  BY <1>1 DEF Kept
<1>2. CASE UNCHANGED vars
  BY <1>1, <1>2 DEF vars, PInv
<1>3. ASSUME NEW m \in Metrics, ConsumeMetrics(m) PROVE PInv'
  <2>1. \A n : Kept(n)' = Kept(n)
    BY <1>1, <1>3 DEF ConsumeMetrics
  <2>2. \A p \in passed' : p = <<p[1], p[2]>>
    BY <1>3 DEF ConsumeMetrics, PInv
  <2>3. ASSUME NEW n, NEW dp
        PROVE  <<n, dp>> \in passed' <=> n \in consumed' /\ dp \in Kept(n)
    BY <1>3 DEF ConsumeMetrics, PInv
  <2>4. ASSUME NEW n \in consumed' PROVE n \in Metrics /\ trackMetrics(n) \subseteq known'
    BY <1>3, <2>4 DEF ConsumeMetrics, PInv
  <2> QED
    BY <2>1, <2>2, <2>3, <2>4 DEF PInv
<1>4. ASSUME NEW d \in DemandSets, UpdateDemands(d) PROVE PInv'
  BY <1>4 DEF UpdateDemands, PInv
<1> QED
  BY <1>2, <1>3, <1>4 DEF Next

LEMMA KeptExact ==
  ASSUME NEW m, NEW dp
  PROVE  dp \in Kept(m) <=> dp \in m.dps /\ Demanded(m, dp)
<1>1. CASE selectors # {}
  BY <1>1, FilterExact, Zenon DEF Kept, Demanded
<1>2. CASE selectors = {}
  <2>1. isMetricDemanded(m, demands) <=> \E n \in familyNames(m) : n \in demands
    BY Zenon DEF isMetricDemanded, familyNames, FamilySuffixes
  <2> QED
    BY <1>2, <2>1 DEF Kept, Demanded
<1> QED
  BY <1>1, <1>2

LEMMA PInvExact == PInv => DemandedSeries
BY KeptExact, Zenon DEF PInv, DemandedSeries

\* The metric filter forwards exactly the datapoints of metrics with a demanded
\* name in their family: the index by name, the shortcut for selectors without
\* labels and the two-map lookup of labels are exact
\* (demandfilter/selectors.go, demandfilter/processor.go).
THEOREM FilterIsExact == Spec => []DemandedSeries
BY InitPInv, NextPInv, PInvExact, PTL DEF Spec

LEMMA PInvNames == PInv => NamesAreSelectors
<1> SUFFICES ASSUME PInv, selectors = {}, NEW m \in consumed
             PROVE  {dp \in m.dps : <<m, dp>> \in passed}
                      = filterMetricDatapoints(m, compileSelectors({ByName(n) : n \in demands}))
  BY DEF NamesAreSelectors
<1> SUFFICES ASSUME NEW dp
             PROVE  dp \in m.dps /\ <<m, dp>> \in passed
                      <=> dp \in filterMetricDatapoints(m, compileSelectors({ByName(n) : n \in demands}))
  OBVIOUS
<1> DEFINE labels == BuildSeriesLabels(m.res, dp, <<>>)
<1>1. ASSUME NEW n, NEW d
      PROVE  Matches(NotOn({LE, QUANTILE}, ByName(d).ms), View([name |-> n, labels |-> labels]))
               <=> n = d
  <2>1. Get(View([name |-> n, labels |-> labels]), NAME) = n
    BY DEF Get, View, Over
  <2>2. NotOn({LE, QUANTILE}, ByName(d).ms) = [i \in {1} |-> [name |-> NAME, op |-> "=", value |-> d]]
    BY DEF NotOn, ByName, NAME, LE, QUANTILE
  <2> QED
    BY <2>1, <2>2 DEF Matches, MatchValue
<1> HIDE DEF labels
<1>2. \A d : ByName(d).parses
  BY DEF ByName
<1>3. (\E n \in familyNames(m), sel \in {ByName(d) : d \in demands} :
         /\ sel.parses
         /\ Matches(NotOn({LE, QUANTILE}, sel.ms), View([name |-> n, labels |-> labels])))
       <=> \E n \in familyNames(m) : n \in demands
  <2> DEFINE Hit(n, sel) ==
               /\ sel.parses
               /\ Matches(NotOn({LE, QUANTILE}, sel.ms), View([name |-> n, labels |-> labels]))
  <2>1. \A n, d : Hit(n, ByName(d)) <=> n = d
    BY <1>1, <1>2
  <2> HIDE DEF Hit
  <2>2. (\E n \in familyNames(m), sel \in {ByName(d) : d \in demands} : Hit(n, sel))
          <=> \E n \in familyNames(m), d \in demands : Hit(n, ByName(d))
    OBVIOUS
  <2> QED
    BY <2>1, <2>2, Zenon DEF Hit
<1>4. dp \in filterMetricDatapoints(m, compileSelectors({ByName(d) : d \in demands}))
        <=> dp \in m.dps /\ \E n \in familyNames(m) : n \in demands
  BY <1>3, FilterExact, Zenon DEF labels
<1>5. <<m, dp>> \in passed <=> dp \in m.dps /\ \E n \in familyNames(m) : n \in demands
  BY KeptExact DEF PInv, Demanded
<1> QED
  BY <1>4, <1>5

\* A server that sends names and one that sends the selectors for these names
\* have the same series forwarded (demandfilter/processor.go).
THEOREM EitherFormOfDemand == Spec => []NamesAreSelectors
BY InitPInv, NextPInv, PInvNames, PTL DEF Spec

-----------------------------------------------------------------------------
(* The accounts from names alone (edgecontroller/demand_matcher.go).        *)

LEMMA Appended ==
  ASSUME NEW T, NEW base \in Seq(T), base # <<>>, NEW s \in T
  PROVE  /\ Append(base, s) # <<>> /\ Len(Append(base, s)) > 1
         /\ Last(Append(base, s)) = s /\ Front(Append(base, s)) = base
<1> DEFINE n == Append(base, s)
<1>1. n \in Seq(T) /\ Len(n) = Len(base) + 1 /\ Len(base) > 0 /\ Len(base) \in Nat
  OBVIOUS
<1>2. Last(n) = s
  BY <1>1 DEF Last
<1>3. Front(n) = base
  BY <1>1 DEF Front
<1> QED
  BY <1>1, <1>2, <1>3

LEMMA SuffixTaken ==
  ASSUME NEW base \in Seq(STRING), base # <<>>, NEW s \in FamilySuffixes
  PROVE  /\ Append(base, s) # <<>> /\ Last(Append(base, s)) = s
         /\ HasFamily(Append(base, s)) /\ BaseOf(Append(base, s)) = base
<1> DEFINE T == STRING \cup FamilySuffixes
<1>1. base \in Seq(T)
  BY DEF T
<1>2. s \in T
  OBVIOUS
<1> HIDE DEF T
<1> QED
  BY <1>1, <1>2, Appended DEF HasFamily, BaseOf

\* Each name of a family leads to all its series, and back, unless the
\* metric's own name looks like a member of one.
LEMMA FamilyCovered ==
  ASSUME NEW m \in Metrics, ~HasFamily(m.base),
         NEW n \in familyNames(m), NEW s \in processTimeSeriesProm(m)
  PROVE  n # <<>> /\ s.name \in expandDemandNames(n) /\ n \in familyNameVariants(s.name)
<1> DEFINE b == m.base
           Bucket == Append(b, "_bucket")
           Sum == Append(b, "_sum")
           Count == Append(b, "_count")
<1>1. b \in Seq(STRING) /\ b # <<>>
  BY PathAssumption DEF PathAssumption
<1>2. ASSUME NEW x \in {Bucket, Sum, Count}
      PROVE  x # <<>> /\ HasFamily(x) /\ BaseOf(x) = b
  BY <1>1, SuffixTaken, Zenon DEF FamilySuffixes
<1>3. Last(Sum) # "_bucket" /\ Last(Count) # "_bucket"
  BY <1>1, SuffixTaken DEF FamilySuffixes
<1>4. BaseOf(b) = b
  BY DEF BaseOf
<1>5. CASE m.type = "histogram"
  <2>1. n \in {Bucket, Sum, Count}
    BY <1>5 DEF familyNames, FamilySuffixes
  <2>2. s.name \in {Bucket, Sum, Count}
    BY <1>5 DEF processTimeSeriesProm, With, Plain
  <2> HIDE DEF b
  <2> QED
    BY <1>2, <2>1, <2>2, Zenon DEF expandDemandNames, familyNameVariants, FamilySuffixes
<1>6. CASE m.type = "summary"
  <2>1. n \in {b, Sum, Count}
    BY <1>6 DEF familyNames
  <2>2. s.name \in {b, Sum, Count}
    BY <1>6 DEF processTimeSeriesProm, With, Plain
  <2> QED
    BY <1>1, <1>2, <1>3, <1>4, <2>1, <2>2, Zenon DEF expandDemandNames, familyNameVariants, FamilySuffixes
<1>7. CASE m.type \notin {"histogram", "summary"}
  <2>1. n = b /\ s.name = b
    BY <1>7 DEF familyNames, processTimeSeriesProm, Plain
  <2> QED
    BY <1>1, <2>1 DEF expandDemandNames, familyNameVariants
<1> QED
  BY <1>5, <1>6, <1>7

\* A datapoint that passed is known by all its series.
LEMMA PassedKnown ==
  ASSUME PInv, NEW p \in passed
  PROVE  /\ p[1] \in Metrics /\ p[2] \in p[1].dps /\ SeriesOf(p[1], p[2]) \subseteq known
         /\ Demanded(p[1], p[2])
<1>1. <<p[1], p[2]>> \in passed
  BY DEF PInv
<1>2. p[1] \in consumed /\ p[2] \in Kept(p[1])
  BY <1>1 DEF PInv
<1>3. p[2] \in p[1].dps /\ Demanded(p[1], p[2])
  BY <1>2, KeptExact
<1> QED
  BY <1>2, <1>3 DEF PInv, trackMetrics

LEMMA PInvCounted == PInv => NeverUndercounted
<1> SUFFICES ASSUME PInv, NEW p \in passed, ~HasFamily(p[1].base),
                    NEW t \in SeriesOf(p[1], p[2])
             PROVE  t.name \in demandedNameSet /\ t \in known
  BY DEF NeverUndercounted, CountDemanded
<1> DEFINE m == p[1]
<1>1. t \in known /\ t.name \in metricNames
  BY PassedKnown DEF metricNames
<1>2. PICK s \in processTimeSeriesProm(m) : t.name = s.name
  BY DEF SeriesOf, processPromSeries
<1>3. CASE selectors = {}
  <2>1. PICK n \in familyNames(m) : n \in demands
    BY <1>3, PassedKnown DEF Demanded
  <2> QED
    BY <1>2, <1>3, <2>1, PassedKnown, FamilyCovered DEF demandedNameSet
<1>4. CASE selectors # {}
  <2>1. PICK n \in familyNames(m), sel \in selectors :
          sel.parses /\ matchesName(compiled(sel), n)
    <3>1. PICK n \in familyNames(m), sel \in selectors :
            /\ sel.parses
            /\ Matches(NotOn({LE, QUANTILE}, sel.ms),
                       View([name |-> n, labels |-> BuildSeriesLabels(m.res, p[2], <<>>)]))
      BY <1>4, PassedKnown, Zenon DEF Demanded
    <3>2. matchesName(compiled(sel), n)
      BY <3>1, TakenApart, Zenon
    <3> QED
      BY <3>1, <3>2
  <2>2. matchesSeriesName(sel, t.name)
    BY <1>2, <2>1, PassedKnown, FamilyCovered DEF matchesSeriesName
  <2> QED
    BY <1>1, <1>4, <2>2 DEF demandedNameSet, selectorDemandedNames
<1> QED
  BY <1>1, <1>3, <1>4

LEMMA PInvMissing == PInv => MissingIsNotForwarded
<1> SUFFICES ASSUME PInv, NEW p \in passed, ~HasFamily(p[1].base), NEW n \in familyNames(p[1])
             PROVE  /\ n \notin diagnoseDemand
                    /\ \A sel \in diagnoseDemandSelectors :
                         sel.parses => ~matchesName(compiled(sel), n)
  BY DEF MissingIsNotForwarded
<1> DEFINE m == p[1]
<1>1. PICK s : s \in processTimeSeriesProm(m)
  BY Zenon DEF processTimeSeriesProm, Plain
<1>2. s.name \in metricNames
  <2>1. processPromSeries(s, m, p[2]) \in known
    BY <1>1, PassedKnown DEF SeriesOf
  <2> QED
    BY <2>1 DEF metricNames, processPromSeries
<1>3. s.name \in expandDemandNames(n) /\ n \in familyNameVariants(s.name)
  BY <1>1, PassedKnown, FamilyCovered
<1> QED
  BY <1>2, <1>3 DEF diagnoseDemand, diagnoseDemandSelectors, matchesSeriesName

\* The heartbeat counts every series that is forwarded as demanded, whatever
\* its type and whichever of its family was demanded, unless the metric's own
\* name ends in a family suffix (edgecontroller/demand_matcher.go).
THEOREM ForwardedIsCounted == Spec => []NeverUndercounted
BY InitPInv, NextPInv, PInvCounted, PTL DEF Spec

\* The diagnosis calls no demand missing that has let something through, unless
\* the metric's own name ends in a family suffix (diagnoseDemand).
THEOREM MissingIsTrue == Spec => []MissingIsNotForwarded
BY InitPInv, NextPInv, PInvMissing, PTL DEF Spec

-----------------------------------------------------------------------------
(* One resource, three views.                                               *)

\* Facts about sequences over any set.
LEMMA Elements ==
  ASSUME NEW S, NEW s \in Seq(S)
  PROVE  DOMAIN s \subseteq Nat /\ \A i \in DOMAIN s : s[i] \in S
OBVIOUS

LEMMA HasFirst == ASSUME NEW S, NEW s \in Seq(S), s # <<>> PROVE 1 \in DOMAIN s
OBVIOUS

LEMMA PairInSeq == ASSUME NEW S, NEW x \in S, NEW y \in S PROVE <<x, y>> \in Seq(S)
OBVIOUS

LEMMA LargerSet == ASSUME NEW S, NEW U, S \subseteq U, NEW s \in Seq(S) PROVE s \in Seq(U)
OBVIOUS

\* An attribute whose label no other attribute has keeps its value.
LEMMA LabelOfOne ==
  ASSUME NEW attrs, NEW name, DOMAIN attrs \subseteq Nat, NEW i \in DOMAIN attrs,
         \A j \in DOMAIN attrs : name[j] = name[i] => j = i
  PROVE  Get(Labels(attrs, name), name[i]) = attrs[i].value
<1> DEFINE last(k) == CHOOSE j \in DOMAIN attrs :
                        name[j] = k /\ \A h \in DOMAIN attrs : name[h] = k => h <= j
<1>1. \A h \in DOMAIN attrs : name[h] = name[i] => h <= i
  OBVIOUS
<1>2. last(name[i]) = i
  BY <1>1
<1>3. name[i] \in DOMAIN Labels(attrs, name)
  BY DEF Labels
<1>4. Labels(attrs, name)[name[i]] = attrs[last(name[i])].value
  BY <1>3 DEF Labels
<1> QED
  BY <1>2, <1>3, <1>4 DEF Get

\* A promoted key needs no more than its dots replaced.
LEMMA PromotedName ==
  ASSUME NEW a \in promotedResourceAttributes
  PROVE  NormalizeLabelName(a) = Underscored(a)
<1> DEFINE l == [i \in DOMAIN a |-> IF a[i] \in Letters \cup Digits THEN a[i] ELSE "_"]
<1>1. /\ a \in Seq(Letters \cup Digits \cup {".", "_"}) /\ a # <<>> /\ a[1] \in Letters
      /\ Letters \cap Digits = {} /\ {".", "_"} \cap (Letters \cup Digits) = {}
  BY LabelsAssumption, Zenon DEF LabelsAssumption
<1>2. l = Underscored(a)
  <2>1. ASSUME NEW i \in DOMAIN a
        PROVE  (IF a[i] \in Letters \cup Digits THEN a[i] ELSE "_")
                 = IF a[i] = "." THEN "_" ELSE a[i]
    <3>1. a[i] \in Letters \cup Digits \cup {".", "_"}
      BY <1>1, Elements, Zenon
    <3> QED
      BY <1>1, <3>1, Zenon
  <2> QED
    BY <2>1, Zenon DEF Underscored
<1>3. 1 \in DOMAIN a /\ l[1] = a[1] /\ l # <<>>
  <2>1. 1 \in DOMAIN a
    BY <1>1, HasFirst, Zenon
  <2>2. l[1] = a[1] /\ DOMAIN l # {}
    BY <1>1, <2>1, Zenon
  <2>3. DOMAIN <<>> = {}
    OBVIOUS
  <2> HIDE DEF l
  <2> QED
    BY <2>1, <2>2, <2>3
<1>4. l[1] \notin Digits /\ l[1] # "_"
  BY <1>1, <1>3, Zenon
<1>5. NormalizeLabelName(a) = l
  BY <1>3, <1>4, Zenon DEF NormalizeLabelName
<1> QED
  BY <1>2, <1>5, Zenon

LEMMA SamePrefix ==
  ASSUME NEW S, NEW s \in Seq(S), NEW t \in Seq(S), NEW x, NEW y,
         <<x, y>> \o s = <<x, y>> \o t
  PROVE  s = t
<1> DEFINE p == <<x, y>>
<1>0. PICK U : p \in Seq(U) /\ s \in Seq(U) /\ t \in Seq(U)
  <2>1. x \in S \cup {x, y} /\ y \in S \cup {x, y} /\ S \subseteq S \cup {x, y}
    OBVIOUS
  <2>2. p \in Seq(S \cup {x, y})
    BY <2>1, PairInSeq
  <2>3. s \in Seq(S \cup {x, y}) /\ t \in Seq(S \cup {x, y})
    BY <2>1, LargerSet
  <2> QED
    BY <2>2, <2>3
<1> HIDE DEF p
<1>1. Len(s) = Len(t)
  <2>0. p \o s = p \o t
    BY DEF p
  <2>1. Len(p \o s) = Len(p) + Len(s) /\ Len(p \o t) = Len(p) + Len(t)
    BY <1>0
  <2> QED
    BY <1>0, <2>0, <2>1
<1>2. ASSUME NEW i \in 1..Len(s) PROVE s[i] = t[i]
  <2>1. (p \o s)[Len(p) + i] = s[i]
    BY <1>0
  <2>2. (p \o t)[Len(p) + i] = t[i]
    BY <1>0, <1>1
  <2> QED
    BY <2>1, <2>2 DEF p
<1> QED
  BY <1>1, <1>2

\* The three views of an attribute that is alone.
LEMMA ViewsOfOne ==
  ASSUME NEW res \in Seq([key : Seq(STRING), value : Seq(STRING)]),
         NEW a \in promotedResourceAttributes, NEW i \in DOMAIN res, res[i].key = a,
         Alone(res, a)
  PROVE  /\ Get(resourceLabels(res), <<"resource", ".">> \o a) = res[i].value
         /\ Get(ResourceLabelMap(res), NormalizeLabelName(a)) = res[i].value
         /\ Get(streamLabels(res), NormalizeLabelName(a)) = res[i].value
<1>1. /\ DOMAIN res \subseteq Nat
      /\ \A j \in DOMAIN res : res[j].key \in Seq(STRING)
  <2>1. /\ DOMAIN res \subseteq Nat
        /\ \A j \in DOMAIN res : res[j] \in [key : Seq(STRING), value : Seq(STRING)]
    BY Elements, Zenon
  <2> QED
    BY <2>1
<1>2. \A j \in DOMAIN res : NormalizeLabelName(res[j].key) = NormalizeLabelName(a) => j = i
  BY DEF Alone
<1>3. \A j \in DOMAIN res : res[j].key = a => j = i
  BY <1>2
<1>4. Get(resourceLabels(res), <<"resource", ".">> \o a) = res[i].value
  <2> DEFINE name == [j \in DOMAIN res |-> <<"resource", ".">> \o res[j].key]
  <2>1. \A j \in DOMAIN res : name[j] = name[i] => res[j].key = a
    <3> SUFFICES ASSUME NEW j \in DOMAIN res,
                        <<"resource", ".">> \o res[j].key = <<"resource", ".">> \o a
                 PROVE  res[j].key = a
      BY Zenon
    <3>1. a \in Seq(STRING) /\ res[j].key \in Seq(STRING)
      BY <1>1
    <3> QED
      BY <3>1, SamePrefix, ZenonT(30)
  <2>2. \A j \in DOMAIN res : name[j] = name[i] => j = i
    BY <1>3, <2>1, Zenon
  <2>3. name[i] = <<"resource", ".">> \o a
    OBVIOUS
  <2> HIDE DEF name
  <2>4. Get(Labels(res, name), name[i]) = res[i].value
    BY <1>1, <2>2, LabelOfOne, Zenon
  <2> QED
    BY <2>3, <2>4 DEF resourceLabels, name
<1>5. Get(ResourceLabelMap(res), NormalizeLabelName(a)) = res[i].value
  <2> DEFINE name == [j \in DOMAIN res |-> NormalizeLabelName(res[j].key)]
  <2>1. \A j \in DOMAIN res : name[j] = name[i] => j = i
    BY <1>2
  <2>2. name[i] = NormalizeLabelName(a) /\ Normalized(res) = Labels(res, name)
    BY DEF Normalized
  <2>3. name[i] \in DOMAIN Labels(res, name)
    BY DEF Labels
  <2> HIDE DEF name
  <2>4. Get(Labels(res, name), name[i]) = res[i].value
    BY <1>1, <2>1, LabelOfOne, Zenon
  <2> QED
    BY <2>2, <2>3, <2>4, OverFirst DEF ResourceLabelMap, addSynthesizedJobInstance
<1>6. Get(streamLabels(res), NormalizeLabelName(a)) = res[i].value
  <2> DEFINE promoted == {b \in promotedResourceAttributes : \E j \in DOMAIN res : res[j].key = b}
             found == [k \in {Underscored(b) : b \in promoted} |->
                         getAttrAsString(res, CHOOSE b \in promoted : Underscored(b) = k)]
  <2>1. a \in promoted /\ Underscored(a) \in DOMAIN found
    OBVIOUS
  <2>2. (CHOOSE b \in promoted : Underscored(b) = Underscored(a)) = a
    BY <2>1, LabelsAssumption, Zenon DEF LabelsAssumption
  <2>3. found[Underscored(a)] = getAttrAsString(res, a)
    BY <2>1, <2>2, Zenon
  <2>4. getAttrAsString(res, a) = res[i].value
    <3> DEFINE at == {j \in DOMAIN res : res[j].key = a}
    <3>1. at = {i}
      BY <1>3
    <3>2. (CHOOSE h \in at : \A j \in at : h <= j) = i
      BY <1>1, <3>1
    <3> HIDE DEF at
    <3> QED
      BY <3>1, <3>2 DEF getAttrAsString, at
  <2>5. Get(streamLabels(res), Underscored(a)) = found[Underscored(a)]
    <3> HIDE DEF found
    <3> DEFINE default == [k \in {Underscored(SERVICE_NAME)} |-> <<"unknown_service">>]
    <3>1. streamLabels(res) = Over(found, default)
      BY DEF streamLabels, found
    <3> HIDE DEF default
    <3> QED
      BY <2>1, <3>1, OverFirst DEF Get
  <2> QED
    BY <2>3, <2>4, <2>5, PromotedName
<1> QED
  BY <1>4, <1>5, <1>6

\* The metrics tracked are metrics that were received.
LEMMA TrackedAreMetrics == Spec => [](tracked \subseteq Metrics)
<1>1. Init => tracked \subseteq Metrics
  BY DEF Init
<1>2. tracked \subseteq Metrics /\ [Next]_vars => (tracked \subseteq Metrics)'
  BY Zenon DEF Next, ConsumeMetrics, UpdateDemands, vars
<1> QED
  BY <1>1, <1>2, PTL DEF Spec

\* An attribute that Loki makes a stream label of has one value in the metric,
\* the log and the trace filter (promnaming/labels.go, logdemandfilter's
\* streamLabels, tracedemandfilter's resourceLabels).
THEOREM OneDemandForAll == Spec => []SignalsAgree
<1>1. tracked \subseteq Metrics => SignalsAgree
  <2> SUFFICES ASSUME tracked \subseteq Metrics, NEW m \in tracked,
                      NEW a \in promotedResourceAttributes,
                      NEW i \in DOMAIN m.res, m.res[i].key = a, Alone(m.res, a)
               PROVE  LET v == Get(resourceLabels(m.res), <<"resource", ".">> \o a) IN
                      /\ Get(ResourceLabelMap(m.res), NormalizeLabelName(a)) = v
                      /\ Get(streamLabels(m.res), NormalizeLabelName(a)) = v
    BY DEF SignalsAgree
  <2>1. m.res \in Seq([key : Seq(STRING), value : Seq(STRING)])
    BY PathAssumption DEF PathAssumption
  <2> QED
    BY <2>1, ViewsOfOne
<1> QED
  BY <1>1, TrackedAreMetrics, PTL

=============================================================================
