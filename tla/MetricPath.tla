----------------------------- MODULE MetricPath ------------------------------
(* One metric on its way through the agent: the tracker indexes its series, *)
(* the demand filter decides on its datapoints, and the heartbeat and the   *)
(* diagnosis say how much of what is known is demanded.  The three have     *)
(* their own accounts of which series a metric is made of.                  *)
(*                                                                          *)
(* A metric is [type, base, bounds, hasSum, quantiles, res, dps]: base is   *)
(* its Prometheus name, res the attributes of its resource and dps those    *)
(* of each datapoint.  A family suffix is a token at the end of a name.     *)
EXTENDS SeriesLabels, FiniteSets, SequencesExt

CONSTANTS
  Metrics,      \* metrics a batch may hold
  DemandSets,   \* what the control plane may demand: [names, selectors]
  MaxMetrics    \* different metrics seen

ASSUME PathAssumption ==
  /\ MaxMetrics \in Nat
  /\ \A m \in Metrics :
       /\ m.base \in Seq(STRING) /\ m.base # <<>>
       /\ m.res \in Seq([key : Seq(STRING), value : Seq(STRING)])

FamilySuffixes == {"_bucket", "_sum", "_count"}
NAME == <<"__name__">>
LE == <<"le">>
QUANTILE == <<"quantile">>

VARIABLES
  demands,     \* the demanded names and
  selectors,   \* selectors, both as the demand cache holds them
  known,       \* the known series, [name, labels]
  tracked,     \* the metrics seen so far
  consumed,    \* the metrics filtered since the last demand set, and
  passed       \* what the filter let through of them: <<metric, datapoint>>

vars == <<demands, selectors, known, tracked, consumed, passed>>

-----------------------------------------------------------------------------
\* The tracker.  The series of a datapoint are its names with the labels they
\* add, as strconv and the exporter have them.
Plain(name) == [name |-> name, extra |-> <<>>]
With(name, key, values) ==
  {[name |-> name, extra |-> <<[key |-> key, value |-> v]>>] : v \in values}

processTimeSeriesProm(m) ==
  LET Sfx(s) == Append(m.base, s) IN
  CASE m.type = "histogram" ->
         With(Sfx("_bucket"), LE, m.bounds \cup {<<"+Inf">>})
           \cup (IF m.hasSum THEN {Plain(Sfx("_sum"))} ELSE {})
           \cup {Plain(Sfx("_count"))}
    [] m.type = "summary" ->
         With(m.base, QUANTILE, m.quantiles)
           \cup {Plain(Sfx("_sum")), Plain(Sfx("_count"))}
    [] OTHER -> {Plain(m.base)}

processPromSeries(s, m, dp) ==
  [name |-> s.name, labels |-> BuildSeriesLabels(m.res, dp, s.extra)]

SeriesOf(m, dp) == {processPromSeries(s, m, dp) : s \in processTimeSeriesProm(m)}
trackMetrics(m) == UNION {SeriesOf(m, dp) : dp \in m.dps}

-----------------------------------------------------------------------------
\* The demand filter, by name and by selector.
isMetricDemanded(m, demandSet) ==
  LET Has(s) == Append(m.base, s) \in demandSet IN
  CASE m.type = "histogram" -> Has("_bucket") \/ Has("_sum") \/ Has("_count")
    [] m.type = "summary" -> m.base \in demandSet \/ Has("_sum") \/ Has("_count")
    [] OTHER -> m.base \in demandSet

\* Mutant: a histogram is found by its buckets only.
familyNamesBuckets(m) ==
  CASE m.type = "histogram" -> {Append(m.base, "_bucket")}
    [] m.type = "summary" -> {m.base, Append(m.base, "_sum"), Append(m.base, "_count")}
    [] OTHER -> {m.base}

familyNames(m) ==
  CASE m.type = "histogram" -> {Append(m.base, s) : s \in FamilySuffixes}
    [] m.type = "summary" -> {m.base, Append(m.base, "_sum"), Append(m.base, "_count")}
    [] OTHER -> {m.base}

compiled(sel) ==
  [nameMatchers |-> On({NAME}, sel.ms),
   labelMatchers |-> NotOn({NAME, LE, QUANTILE}, sel.ms)]

\* Mutant: a selector is filed under a name it demands, whatever else it asks.
PinnedByAny(cs) == \E i \in DOMAIN cs.nameMatchers : cs.nameMatchers[i].op = "="

\* The only matcher on the name is an equality.
Pinned(cs) ==
  \E i \in DOMAIN cs.nameMatchers :
    DOMAIN cs.nameMatchers = {i} /\ cs.nameMatchers[i].op = "="

PinnedName(cs) ==
  cs.nameMatchers[CHOOSE i \in DOMAIN cs.nameMatchers : cs.nameMatchers[i].op = "="].value

\* byName as a set of pairs, and the selectors to be scanned.
compileSelectors(raw) ==
  LET all == {compiled(s) : s \in {r \in raw : r.parses}} IN
  [byName |-> {<<PinnedName(cs), cs>> : cs \in {c \in all : Pinned(c)}},
   scan |-> {c \in all : ~Pinned(c)}]

matchesName(cs, name) ==
  \A i \in DOMAIN cs.nameMatchers : MatchValue(cs.nameMatchers[i], name)

candidatesFor(set, names) ==
  {p[2] : p \in {q \in set.byName : q[1] \in names}}
    \cup {cs \in set.scan : \E n \in names : matchesName(cs, n)}

\* The datapoints kept: all, if a candidate has no label matchers.
filterMetricDatapoints(m, set) ==
  LET cands == candidatesFor(set, familyNames(m))
      resLabels == ResourceLabelMap(m.res)
      matchDP(dp) ==
        \E cs \in cands : Matches(cs.labelMatchers, Over(Normalized(dp), resLabels))
  IN  IF \E cs \in cands : DOMAIN cs.labelMatchers = {} THEN m.dps
      ELSE {dp \in m.dps : matchDP(dp)}

\* ConsumeMetrics: selectors, when there are any, decide alone.
Kept(m) ==
  IF selectors # {} THEN filterMetricDatapoints(m, compileSelectors(selectors))
  ELSE IF isMetricDemanded(m, demands) THEN m.dps ELSE {}

-----------------------------------------------------------------------------
\* The edge controller's account, from names alone (demand_matcher.go).
HasFamily(d) == Len(d) > 1 /\ Last(d) \in FamilySuffixes
BaseOf(d) == IF HasFamily(d) THEN Front(d) ELSE d

\* Mutant: a demanded name stands only for itself.
expandDemandNamesExact(d) == {d}

expandDemandNames(d) ==
  {d} \cup {Append(BaseOf(d), s) : s \in {"_sum", "_count"}}
    \cup (IF HasFamily(d) THEN {BaseOf(d), Append(BaseOf(d), "_bucket")} ELSE {})

familyNameVariants(n) ==
  {n} \cup {Append(BaseOf(n), s) : s \in FamilySuffixes}
    \cup (IF HasFamily(n) /\ Last(n) # "_bucket" THEN {BaseOf(n)} ELSE {})

matchesSeriesName(sel, n) ==
  /\ sel.parses
  /\ \E v \in familyNameVariants(n) : matchesName(compiled(sel), v)

metricNames == {s.name : s \in known}

selectorDemandedNames ==
  {n \in metricNames : \E sel \in selectors : matchesSeriesName(sel, n)}

demandedNameSet ==
  IF selectors # {} THEN selectorDemandedNames
  ELSE UNION {expandDemandNames(d) : d \in demands \ {<<>>}}

\* The series of Ping.demanded_known_cache_size.
CountDemanded == {s \in known : s.name \in demandedNameSet}

\* Mutant: a demanded name is found only under itself.
diagnoseDemandExact == {d \in demands : d \notin metricNames}

\* The missing ones of each diagnosis.
diagnoseDemand == {d \in demands \ {<<>>} : expandDemandNames(d) \cap metricNames = {}}
diagnoseDemandSelectors ==
  {sel \in selectors : \A n \in metricNames : ~matchesSeriesName(sel, n)}

-----------------------------------------------------------------------------
Init ==
  /\ demands = {} /\ selectors = {} /\ known = {}
  /\ tracked = {} /\ consumed = {} /\ passed = {}

\* A batch of one metric: Broadcast, then the filter.
ConsumeMetrics(m) ==
  /\ Cardinality(tracked \cup {m}) <= MaxMetrics
  /\ tracked' = tracked \cup {m}
  /\ known' = known \cup trackMetrics(m)
  /\ consumed' = consumed \cup {m}
  /\ passed' = passed \cup {<<m, dp>> : dp \in Kept(m)}
  /\ UNCHANGED <<demands, selectors>>

UpdateDemands(d) ==
  /\ <<d.names, d.selectors>> # <<demands, selectors>>
  /\ demands' = d.names /\ selectors' = d.selectors
  /\ consumed' = {} /\ passed' = {}
  /\ UNCHANGED <<known, tracked>>

Next ==
  \/ \E m \in Metrics : ConsumeMetrics(m)
  \/ \E d \in DemandSets : UpdateDemands(d)

Spec == Init /\ [][Next]_vars

-----------------------------------------------------------------------------
\* The whole view of a series: its labels and its name.
View(s) == Over([k \in {NAME} |-> s.name], s.labels)

\* DemandedSeries.  A datapoint passes the filter exactly when a name of its
\* metric's family is demanded: as a name, or by a selector that matches this
\* name and all labels of the datapoint, those on le and quantile aside.  The
\* index by name, the shortcut for selectors without labels and the lookup
\* that never builds the label set change nothing.  A family has all its names
\* even where the tracker writes fewer: a histogram without a sum passes when
\* its _sum is demanded.
Demanded(m, dp) ==
  \E n \in familyNames(m) :
    LET s == [name |-> n, labels |-> BuildSeriesLabels(m.res, dp, <<>>)] IN
    IF selectors = {} THEN n \in demands
    ELSE \E sel \in selectors :
           sel.parses /\ Matches(NotOn({LE, QUANTILE}, sel.ms), View(s))
DemandedSeries ==
  \A m \in consumed : \A dp \in m.dps : <<m, dp>> \in passed <=> Demanded(m, dp)

\* NamesAreSelectors.  A name and the selector that asks for this name alone
\* demand the same: a server may send either.
ByName(n) == [parses |-> TRUE, ms |-> <<[name |-> NAME, op |-> "=", value |-> n]>>]
NamesAreSelectors ==
  selectors = {} =>
    \A m \in consumed :
      {dp \in m.dps : <<m, dp>> \in passed}
        = filterMetricDatapoints(m, compileSelectors({ByName(n) : n \in demands}))

\* NeverUndercounted.  Every series that is forwarded is counted as demanded in
\* the heartbeat, whatever its type and whichever of its family was demanded,
\* unless the metric's own name ends in a family suffix.
NeverUndercounted ==
  \A p \in passed :
    ~HasFamily(p[1].base) => SeriesOf(p[1], p[2]) \subseteq CountDemanded

\* MissingIsNotForwarded.  A name or selector that is diagnosed as missing has
\* let nothing through, with the same exception.
MissingIsNotForwarded ==
  \A p \in passed :
    LET names == familyNames(p[1]) IN
    ~HasFamily(p[1].base) =>
      /\ selectors = {} => names \cap diagnoseDemand = {}
      /\ \A sel \in diagnoseDemandSelectors :
           sel.parses => \A n \in names : ~matchesName(compiled(sel), n)

\* ViewsAgree.  The filter's lookup of a label, datapoint first and then the
\* resource's map, finds what the tracker has indexed.
LookupAgrees(res, dp) ==
  Over(Normalized(dp), ResourceLabelMap(res)) = BuildSeriesLabels(res, dp, <<>>)
ViewsAgree == \A m \in tracked : \A dp \in m.dps : LookupAgrees(m.res, dp)

\* SignalsAgree.  An attribute that is a stream label has one value in the
\* metric, the log and the trace view of its resource, and one name in the
\* first two, so that one demand can be put to all signals.
Alone(res, a) ==
  \A i, j \in DOMAIN res :
    (res[i].key = a /\ NormalizeLabelName(res[j].key) = NormalizeLabelName(a)) => i = j
SignalsAgree ==
  \A m \in tracked : \A a \in promotedResourceAttributes :
    ((\E i \in DOMAIN m.res : m.res[i].key = a) /\ Alone(m.res, a)) =>
      LET v == Get(resourceLabels(m.res), <<"resource", ".">> \o a) IN
      /\ Get(ResourceLabelMap(m.res), NormalizeLabelName(a)) = v
      /\ Get(streamLabels(m.res), NormalizeLabelName(a)) = v

=============================================================================
