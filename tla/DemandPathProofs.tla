-------------------------- MODULE DemandPathProofs --------------------------
(* For any number of demand sets, workers, rules and faults: what a filter  *)
(* passes on was demanded while it had the batch, a batch during which the  *)
(* demand did not change is filtered by one set, the trace router loses no  *)
(* spans unless a rule is rejected, and spans land only where a demand set  *)
(* routed them.                                                             *)
EXTENDS DemandPath, TLAPS

-----------------------------------------------------------------------------
(* The filters.                                                             *)

Busy == {"fallback", "parse", "parseRoutes"}

\* The variables of the filters are functions on the workers and the caches.
Shape ==
  /\ kind \in [Workers -> Signals]
  /\ pc \in [Workers -> Busy \cup {"idle", "done"}]
  /\ raw = [w \in Workers |-> raw[w]]
  /\ out = [w \in Workers |-> out[w]]
  /\ seen = [w \in Workers |-> seen[w]]
  /\ parsed = [c \in Caches |-> parsed[c]]

\* A selector cache holds what parses of its key.
ParsedOK ==
  /\ \A c \in Signals : parsed[c].value = parsed[c].key \cap Parses
  /\ parsed["route"].value = {r \in parsed["route"].key : r.selector \in Parses}

\* The set whose routes are still to be stored is the one in force.
ApplyingOK == applying \in {NoDemand, demand}

Field == [metric |-> "metricSelectors", log |-> "logSelectors", trace |-> "traceSelectors"]

\* The list that decides the mode of a metric or trace filter.
Preferred(signal, id) ==
  IF signal = "metric" THEN List(id, "metricSelectors") ELSE TraceRoutesFromProto(id)

\* The second choice was taken because the first list of a set seen was empty.
SecondChoice(w) == \E h \in seen[w] : Preferred(kind[w], h) = {}

\* What a busy worker has read comes from sets it has seen.
Reading(w) ==
  /\ pc[w] \in Busy => demand \in seen[w] /\ routes \in seen[w]
  /\ pc[w] = "fallback" => kind[w] # "log" /\ SecondChoice(w)
  /\ pc[w] = "parse" => /\ \E h \in seen[w] : raw[w] = List(h, Field[kind[w]])
                        /\ kind[w] = "metric" => raw[w] # {}
                        /\ kind[w] = "trace" => SecondChoice(w)
  /\ pc[w] = "parseRoutes" => /\ kind[w] = "trace" /\ raw[w] # {}
                              /\ \E h \in seen[w] : raw[w] = TraceRoutesFromProto(h)

\* What a worker has kept is what one set keeps in one of the modes.
MetricResult(w) ==
  \/ \E h \in seen[w] : /\ List(h, "metricSelectors") # {}
                        /\ out[w] = Kept(List(h, "metricSelectors") \cap Parses, Series)
  \/ SecondChoice(w) /\ \E h \in seen[w] : out[w] = NameMode(List(h, "metrics"))

LogResult(w) ==
  \E h \in seen[w] : out[w] = Kept(List(h, "logSelectors") \cap Parses, Resources)

TraceResult(w) ==
  \/ \E h \in seen[w] :
       /\ TraceRoutesFromProto(h) # {}
       /\ out[w] = Routed({r \in TraceRoutesFromProto(h) : r.selector \in Parses})
  \/ /\ SecondChoice(w)
     /\ \E h \in seen[w] :
          out[w] = Kept(List(h, "traceSelectors") \cap Parses, Resources) \X {NoRule}

Result(w) ==
  pc[w] = "done" => /\ kind[w] = "metric" => MetricResult(w)
                    /\ kind[w] = "log" => LogResult(w)
                    /\ kind[w] = "trace" => TraceResult(w)

Place(w) == Reading(w) /\ Result(w)

FInv == Shape /\ ParsedOK /\ ApplyingOK /\ \A w \in Workers : Place(w)

\* The invariant gives the two properties.
LEMMA FInvDemanded == FInv => DemandedOnly /\ OneSetPerBatch
<1> SUFFICES ASSUME FInv, NEW w \in Workers, pc[w] = "done"
             PROVE  /\ out[w] \subseteq UNION {Envelope(kind[w], h) : h \in seen[w]}
                    /\ (kind[w] = "log" \/ \E h \in seen[w] : seen[w] = {h}) =>
                         \E h \in seen[w] : out[w] = Output(kind[w], h)
  BY DEF DemandedOnly, OneSetPerBatch
<1>1. kind[w] \in Signals /\ Result(w)
  BY DEF FInv, Shape, Place
<1>2. CASE kind[w] = "metric"
  <2>1. MetricResult(w)
    BY <1>1, <1>2 DEF Result
  <2>2. \E h \in seen[w] : out[w] \subseteq Envelope("metric", h)
    BY <2>1 DEF MetricResult, Envelope, Output
  <2>3. ASSUME NEW h \in seen[w], seen[w] = {h} PROVE out[w] = Output("metric", h)
    BY <1>2, <2>1, <2>3 DEF MetricResult, SecondChoice, Preferred, Output
  <2> QED
    BY <1>2, <2>2, <2>3
<1>3. CASE kind[w] = "log"
  <2>1. \E h \in seen[w] : out[w] = Output("log", h)
    BY <1>1, <1>3 DEF Result, LogResult, Output
  <2>2. \E h \in seen[w] : out[w] \subseteq Envelope("log", h)
    BY <2>1 DEF Envelope
  <2> QED
    BY <1>3, <2>1, <2>2
<1>4. CASE kind[w] = "trace"
  <2>1. TraceResult(w)
    BY <1>1, <1>4 DEF Result
  <2>2. \E h \in seen[w] : out[w] \subseteq Envelope("trace", h)
    BY <2>1, Zenon DEF TraceResult, Envelope, Output
  <2>3. ASSUME NEW h \in seen[w], seen[w] = {h} PROVE out[w] = Output("trace", h)
    BY <1>4, <2>1, <2>3, Zenon DEF TraceResult, SecondChoice, Preferred, Output
  <2> QED
    BY <1>4, <2>2, <2>3
<1> QED
  BY <1>1, <1>2, <1>3, <1>4 DEF Signals

LEMMA InitFInv == Init => FInv
<1> SUFFICES ASSUME Init PROVE FInv
  OBVIOUS
<1>1. Shape
  BY DEF Init, Shape, Idle, Busy
<1>2. ParsedOK
  BY DEF Init, ParsedOK, NoSelectors, Caches
<1>3. ApplyingOK
  BY DEF Init, ApplyingOK
<1>4. \A w \in Workers : Place(w)
  BY DEF Init, Idle, Place, Reading, Result, Busy
<1> QED
  BY <1>1, <1>2, <1>3, <1>4 DEF FInv

\* A step of one worker disturbs no other.
LEMMA WorkerFInv ==
  ASSUME FInv, NEW w \in Workers, Shape', ParsedOK', Place(w)',
         UNCHANGED <<cache, kind>>,
         \A v \in Workers \ {w} : /\ pc'[v] = pc[v] /\ raw'[v] = raw[v]
                                  /\ out'[v] = out[v] /\ seen'[v] = seen[v]
  PROVE  FInv'
<1>1. ApplyingOK'
  BY DEF FInv, ApplyingOK, cache
<1>2. ASSUME NEW v \in Workers \ {w} PROVE Place(v)'
  <2>1. /\ pc'[v] = pc[v] /\ raw'[v] = raw[v] /\ out'[v] = out[v] /\ seen'[v] = seen[v]
        /\ kind' = kind /\ demand' = demand /\ routes' = routes
    BY <1>2 DEF cache
  <2>2. Reading(v)' = Reading(v)
    BY <2>1 DEF Reading, SecondChoice
  <2>3. Result(v)' = Result(v)
    BY <2>1 DEF Result, MetricResult, LogResult, TraceResult, SecondChoice
  <2> QED
    BY <2>2, <2>3 DEF FInv, Place
<1> QED
  BY <1>1, <1>2 DEF FInv

\* The first read of the cache, which chooses the mode.
LEMMA FirstReadFInv ==
  ASSUME FInv, NEW w \in Workers, NEW signal, Consume(w, signal),
         NEW list, NEW next \in Busy, Read(w, list, next), Reading(w)'
  PROVE  FInv'
<1>1. UNCHANGED <<cache, kind, parsed, out>>
  BY DEF Read
<1>2. Shape'
  BY <1>1, Zenon DEF FInv, Shape, Read, Consume
<1>3. ParsedOK'
  BY <1>1 DEF FInv, ParsedOK
<1>4. pc'[w] = next
  BY DEF Read, FInv, Shape
<1>5. Place(w)'
  BY <1>4 DEF Place, Result, Busy
<1>6. \A v \in Workers \ {w} : /\ pc'[v] = pc[v] /\ raw'[v] = raw[v]
                               /\ out'[v] = out[v] /\ seen'[v] = seen[v]
  BY <1>1 DEF Read, Consume, FInv, Shape
<1> QED
  BY <1>1, <1>2, <1>3, <1>5, <1>6, WorkerFInv

\* The state after the first read.
LEMMA FirstRead ==
  ASSUME FInv, NEW w \in Workers, NEW signal, Consume(w, signal),
         NEW list, NEW next, Read(w, list, next)
  PROVE  /\ kind[w] = signal /\ kind' = kind
         /\ pc'[w] = next /\ raw'[w] = list /\ seen'[w] = {demand, routes}
         /\ demand' = demand /\ routes' = routes
BY DEF FInv, Shape, Consume, Read, cache

\* The batch is passed on by a worker that leaves the cache alone.
LEMMA PassOnFInv ==
  ASSUME FInv, NEW w \in Workers, NEW items, PassOn(w, items),
         parsed' = [c \in Caches |-> parsed'[c]], ParsedOK',
         NEW sees, seen' = [seen EXCEPT ![w] = sees],
         Result(w)'
  PROVE  FInv'
<1>1. UNCHANGED <<cache, kind>>
  BY DEF PassOn
<1>2. Shape'
  BY <1>1, Zenon DEF FInv, Shape, PassOn
<1>3. pc'[w] = "done"
  BY DEF PassOn, FInv, Shape
<1>4. Place(w)'
  BY <1>3 DEF Place, Reading, Busy
<1>5. \A v \in Workers \ {w} : /\ pc'[v] = pc[v] /\ raw'[v] = raw[v]
                               /\ out'[v] = out[v] /\ seen'[v] = seen[v]
  BY Zenon DEF PassOn, FInv, Shape
<1> QED
  BY <1>1, <1>2, <1>4, <1>5, WorkerFInv

\* The state after the batch is passed on.
LEMMA PassedOn ==
  ASSUME FInv, NEW w \in Workers, NEW items, PassOn(w, items)
  PROVE  /\ kind' = kind /\ pc'[w] = "done" /\ out'[w] = items
         /\ demand' = demand /\ routes' = routes
BY DEF FInv, Shape, PassOn, cache

LEMMA ConsumeFInv ==
  ASSUME FInv, NEW w \in Workers,
         ConsumeMetrics(w) \/ ConsumeLogs(w) \/ ConsumeTraces(w)
  PROVE  FInv'
<1>1. CASE ConsumeMetrics(w)
  <2> DEFINE list == List(demand, "metricSelectors")
  <2>1. Consume(w, "metric")
    BY <1>1 DEF ConsumeMetrics
  <2>2. CASE list # {}
    <3>1. Read(w, list, "parse")
      BY <1>1, <2>2 DEF ConsumeMetrics
    <3>2. Reading(w)'
      BY <2>1, <2>2, <3>1, FirstRead DEF Reading, Field, Busy
    <3> QED
      BY <2>1, <3>1, <3>2, FirstReadFInv DEF Busy
  <2>3. CASE list = {}
    <3>1. Read(w, {}, "fallback")
      BY <1>1, <2>3 DEF ConsumeMetrics
    <3>2. Reading(w)'
      BY <2>1, <2>3, <3>1, FirstRead DEF Reading, SecondChoice, Preferred, Busy
    <3> QED
      BY <2>1, <3>1, <3>2, FirstReadFInv DEF Busy
  <2> QED
    BY <2>2, <2>3
<1>2. CASE ConsumeLogs(w)
  <2> DEFINE list == List(demand, "logSelectors")
  <2>1. Consume(w, "log")
    BY <1>2 DEF ConsumeLogs
  <2>2. CASE list # {}
    <3>1. Read(w, list, "parse")
      BY <1>2, <2>2 DEF ConsumeLogs
    <3>2. Reading(w)'
      BY <2>1, <3>1, FirstRead DEF Reading, Field, Busy
    <3> QED
      BY <2>1, <3>1, <3>2, FirstReadFInv DEF Busy
  <2>3. CASE list = {}
    <3>1. PassOn(w, {}) /\ parsed' = parsed
      BY <1>2, <2>3 DEF ConsumeLogs
    <3>2. kind[w] = "log" /\ seen' = [seen EXCEPT ![w] = {demand, routes}]
      BY <2>1 DEF Consume
    <3>3. kind' = kind /\ out'[w] = {} /\ seen'[w] = {demand, routes}
      BY <3>1, <3>2, PassedOn DEF FInv, Shape
    <3>4. Kept(list \cap Parses, Resources) = {}
      BY <2>3 DEF Kept
    <3>5. Result(w)'
      BY <3>2, <3>3, <3>4, Zenon DEF Result, LogResult
    <3> QED
      BY <3>1, <3>2, <3>5, PassOnFInv, Zenon DEF FInv, Shape, ParsedOK
  <2> QED
    BY <2>2, <2>3
<1>3. CASE ConsumeTraces(w)
  <2> DEFINE list == TraceRoutesFromProto(routes)
  <2>1. Consume(w, "trace")
    BY <1>3 DEF ConsumeTraces
  <2>2. CASE list # {}
    <3>1. Read(w, list, "parseRoutes")
      BY <1>3, <2>2 DEF ConsumeTraces
    <3>2. Reading(w)'
      BY <2>1, <2>2, <3>1, FirstRead DEF Reading, Busy
    <3> QED
      BY <2>1, <3>1, <3>2, FirstReadFInv DEF Busy
  <2>3. CASE list = {}
    <3>1. Read(w, {}, "fallback")
      BY <1>3, <2>3 DEF ConsumeTraces
    <3>2. Reading(w)'
      BY <2>1, <2>3, <3>1, FirstRead DEF Reading, SecondChoice, Preferred, Busy
    <3> QED
      BY <2>1, <3>1, <3>2, FirstReadFInv DEF Busy
  <2> QED
    BY <2>2, <2>3
<1> QED
  BY <1>1, <1>2, <1>3

\* The second read, once the first list was found empty.
LEMMA FallbackFInv ==
  ASSUME FInv, NEW w \in Workers, ReadDemands(w) \/ ReadTraceDemands(w)
  PROVE  FInv'
<1>1. /\ demand \in seen[w] /\ routes \in seen[w] /\ SecondChoice(w)
      /\ seen' = seen /\ seen' = [seen EXCEPT ![w] = seen[w]]
  BY DEF ReadDemands, ReadTraceDemands, FInv, Shape, Place, Reading, Busy
<1>2. CASE ReadDemands(w)
  <2>1. PassOn(w, NameMode(List(demand, "metrics"))) /\ parsed' = parsed /\ kind[w] = "metric"
    BY <1>2 DEF ReadDemands
  <2>2. kind' = kind /\ out'[w] = NameMode(List(demand, "metrics"))
    BY <2>1, PassedOn
  <2>3. Result(w)'
    BY <1>1, <2>1, <2>2 DEF Result, MetricResult, SecondChoice
  <2> QED
    BY <1>1, <2>1, <2>3, PassOnFInv, Zenon DEF FInv, Shape, ParsedOK
<1>3. CASE ReadTraceDemands(w)
  <2> DEFINE list == List(demand, "traceSelectors")
  <2>1. kind[w] = "trace" /\ pc[w] = "fallback"
    BY <1>3 DEF ReadTraceDemands
  <2>2. CASE list # {}
    <3>1. Read(w, list, "parse")
      BY <1>3, <2>2 DEF ReadTraceDemands
    <3>2. /\ pc'[w] = "parse" /\ raw'[w] = list
          /\ UNCHANGED <<cache, kind, parsed, out, seen>>
      BY <1>1, <3>1 DEF Read, FInv, Shape
    <3>3. Place(w)'
      BY <1>1, <2>1, <3>2 DEF Place, Reading, Result, SecondChoice, Field, Busy, cache
    <3>4. Shape'
      BY <3>1, <3>2 DEF Read, FInv, Shape, Busy
    <3>5. ParsedOK'
      BY <3>2 DEF FInv, ParsedOK
    <3>6. \A v \in Workers \ {w} : /\ pc'[v] = pc[v] /\ raw'[v] = raw[v]
                                   /\ out'[v] = out[v] /\ seen'[v] = seen[v]
      BY <3>1, <3>2 DEF Read, FInv, Shape
    <3> QED
      BY <3>2, <3>3, <3>4, <3>5, <3>6, WorkerFInv
  <2>3. CASE list = {}
    <3>1. PassOn(w, {}) /\ parsed' = parsed
      BY <1>3, <2>3 DEF ReadTraceDemands
    <3>2. kind' = kind /\ out'[w] = {}
      BY <3>1, PassedOn
    <3>3. Kept(list \cap Parses, Resources) \X {NoRule} = {}
      BY <2>3 DEF Kept
    <3>4. Result(w)'
      BY <1>1, <2>1, <3>2, <3>3, Zenon DEF Result, TraceResult, SecondChoice
    <3> QED
      BY <1>1, <3>1, <3>4, PassOnFInv, Zenon DEF FInv, Shape, ParsedOK
  <2> QED
    BY <2>2, <2>3
<1> QED
  BY <1>2, <1>3

\* A look-up leaves in the cache what parses of the worker's list.
LEMMA LookUpParsed ==
  ASSUME FInv, NEW w \in Workers, NEW c \in Caches, NEW good, LookUp(w, c, good),
         c \in Signals => good = raw[w] \cap Parses,
         c = "route" => good = {r \in raw[w] : r.selector \in Parses}
  PROVE  /\ parsed' = [d \in Caches |-> parsed'[d]]
         /\ ParsedOK'
         /\ parsed'[c].value = good
         /\ seen' = [seen EXCEPT ![w] = seen[w]]
<1>1. /\ parsed' = [parsed EXCEPT ![c] = Parsed(c, raw[w], good)]
      /\ parsed = [d \in Caches |-> parsed[d]]
  BY DEF LookUp, FInv, Shape
<1>2. parsed'[c] = Parsed(c, raw[w], good) /\ \A d \in Caches \ {c} : parsed'[d] = parsed[d]
  BY <1>1
<1>3. c \in Signals \/ c = "route"
  BY DEF Caches
<1>4. Parsed(c, raw[w], good).key = raw[w] /\ Parsed(c, raw[w], good).value = good
  BY <1>3, Zenon DEF Parsed, FInv, ParsedOK
<1>5. ParsedOK'
  BY <1>2, <1>4 DEF FInv, ParsedOK, Caches, Signals
<1>6. seen' = [seen EXCEPT ![w] = seen[w]]
  BY DEF LookUp, FInv, Shape
<1> QED
  BY <1>1, <1>2, <1>4, <1>5, <1>6

LEMMA SelectFInv ==
  ASSUME FInv, NEW w \in Workers,
         SelectMetrics(w) \/ SelectLogs(w) \/ SelectTraces(w) \/ ConsumeRouted(w)
  PROVE  FInv'
<1>1. Reading(w) /\ seen' = seen
  BY DEF FInv, Place, SelectMetrics, SelectLogs, SelectTraces, ConsumeRouted, LookUp
<1>2. CASE SelectMetrics(w)
  <2>1. kind[w] = "metric" /\ pc[w] = "parse" /\ LookUp(w, "metric", raw[w] \cap Parses)
    BY <1>2 DEF SelectMetrics, Selecting
  <2>2. /\ parsed' = [d \in Caches |-> parsed'[d]] /\ ParsedOK'
        /\ parsed'["metric"].value = raw[w] \cap Parses
        /\ seen' = [seen EXCEPT ![w] = seen[w]]
    BY <2>1, LookUpParsed DEF Caches, Signals
  <2>3. PassOn(w, Kept(raw[w] \cap Parses, Series))
    BY <1>2, <2>2 DEF SelectMetrics
  <2>4. Result(w)'
    <3>1. PICK h \in seen[w] : raw[w] = List(h, "metricSelectors")
      <4>1. \E h \in seen[w] : raw[w] = List(h, Field[kind[w]])
        BY <1>1, <2>1 DEF Reading
      <4>2. Field[kind[w]] = "metricSelectors"
        BY <2>1 DEF Field
      <4> QED
        BY <4>1, <4>2
    <3>2. raw[w] # {}
      BY <1>1, <2>1 DEF Reading
    <3>3. kind' = kind /\ out'[w] = Kept(List(h, "metricSelectors") \cap Parses, Series)
      BY <2>3, <3>1, PassedOn
    <3> QED
      BY <1>1, <2>1, <3>1, <3>2, <3>3, Zenon DEF Result, MetricResult
  <2> QED
    BY <2>2, <2>3, <2>4, PassOnFInv, Zenon
<1>3. CASE SelectLogs(w)
  <2>1. kind[w] = "log" /\ pc[w] = "parse" /\ LookUp(w, "log", raw[w] \cap Parses)
    BY <1>3 DEF SelectLogs, Selecting
  <2>2. /\ parsed' = [d \in Caches |-> parsed'[d]] /\ ParsedOK'
        /\ parsed'["log"].value = raw[w] \cap Parses
        /\ seen' = [seen EXCEPT ![w] = seen[w]]
    BY <2>1, LookUpParsed DEF Caches, Signals
  <2>3. PassOn(w, Kept(raw[w] \cap Parses, Resources))
    BY <1>3, <2>2 DEF SelectLogs
  <2>4. Result(w)'
    <3>1. PICK h \in seen[w] : raw[w] = List(h, "logSelectors")
      <4>1. \E h \in seen[w] : raw[w] = List(h, Field[kind[w]])
        BY <1>1, <2>1 DEF Reading
      <4>2. Field[kind[w]] = "logSelectors"
        BY <2>1 DEF Field
      <4> QED
        BY <4>1, <4>2
    <3>3. kind' = kind /\ out'[w] = Kept(List(h, "logSelectors") \cap Parses, Resources)
      BY <2>3, <3>1, PassedOn
    <3> QED
      BY <1>1, <2>1, <3>1, <3>3, Zenon DEF Result, LogResult
  <2> QED
    BY <2>2, <2>3, <2>4, PassOnFInv, Zenon
<1>4. CASE SelectTraces(w)
  <2>1. kind[w] = "trace" /\ pc[w] = "parse" /\ LookUp(w, "trace", raw[w] \cap Parses)
    BY <1>4 DEF SelectTraces, Selecting
  <2>2. /\ parsed' = [d \in Caches |-> parsed'[d]] /\ ParsedOK'
        /\ parsed'["trace"].value = raw[w] \cap Parses
        /\ seen' = [seen EXCEPT ![w] = seen[w]]
    BY <2>1, LookUpParsed DEF Caches, Signals
  <2>3. PassOn(w, Kept(raw[w] \cap Parses, Resources) \X {NoRule})
    BY <1>4, <2>2 DEF SelectTraces
  <2>4. Result(w)'
    <3>1. PICK h \in seen[w] : raw[w] = List(h, "traceSelectors")
      <4>1. \E h \in seen[w] : raw[w] = List(h, Field[kind[w]])
        BY <1>1, <2>1 DEF Reading
      <4>2. Field[kind[w]] = "traceSelectors"
        BY <2>1 DEF Field
      <4> QED
        BY <4>1, <4>2
    <3>2. SecondChoice(w)
      BY <1>1, <2>1 DEF Reading
    <3>3. kind' = kind /\ out'[w] = Kept(List(h, "traceSelectors") \cap Parses, Resources) \X {NoRule}
      BY <2>3, <3>1, PassedOn, Zenon
    <3> QED
      BY <1>1, <2>1, <3>1, <3>2, <3>3, Zenon DEF Result, TraceResult, SecondChoice
  <2> QED
    BY <2>2, <2>3, <2>4, PassOnFInv, Zenon
<1>5. CASE ConsumeRouted(w)
  <2>1. /\ kind[w] = "trace" /\ pc[w] = "parseRoutes"
        /\ LookUp(w, "route", {r \in raw[w] : r.selector \in Parses})
    BY <1>1, <1>5 DEF ConsumeRouted, Reading
  <2>2. /\ parsed' = [d \in Caches |-> parsed'[d]] /\ ParsedOK'
        /\ parsed'["route"].value = {r \in raw[w] : r.selector \in Parses}
        /\ seen' = [seen EXCEPT ![w] = seen[w]]
    BY <2>1, LookUpParsed DEF Caches, Signals
  <2>3. PassOn(w, Routed({r \in raw[w] : r.selector \in Parses}))
    BY <1>5, <2>2 DEF ConsumeRouted
  <2>4. Result(w)'
    BY <1>1, <2>1, <2>3, PassedOn, Zenon DEF Result, TraceResult, Reading
  <2> QED
    BY <2>2, <2>3, <2>4, PassOnFInv, Zenon
<1> QED
  BY <1>2, <1>3, <1>4, <1>5

LEMMA ReturnFInv ==
  ASSUME FInv, NEW w \in Workers, Return(w)
  PROVE  FInv'
<1>1. UNCHANGED <<cache, kind, parsed, raw>> /\ pc'[w] = "idle"
  BY DEF Return, FInv, Shape
<1>2. Shape'
  BY <1>1, Zenon DEF Return, FInv, Shape
<1>3. ParsedOK'
  BY <1>1 DEF FInv, ParsedOK
<1>4. Place(w)'
  BY <1>1 DEF Place, Reading, Result, Busy
<1>5. \A v \in Workers \ {w} : /\ pc'[v] = pc[v] /\ raw'[v] = raw[v]
                               /\ out'[v] = out[v] /\ seen'[v] = seen[v]
  BY <1>1, Zenon DEF Return, FInv, Shape
<1> QED
  BY <1>1, <1>2, <1>3, <1>4, <1>5, WorkerFInv

\* recvLoop stores the lists, then the routes, of a set.
LEMMA UpdateFInv ==
  ASSUME FInv, UpdateDemands \/ UpdateTraceRoutes
  PROVE  FInv'
<1>1. UNCHANGED <<parsed, kind, pc, raw, out>>
  BY DEF UpdateDemands, UpdateTraceRoutes, filters
<1>2. ParsedOK' /\ ApplyingOK'
  BY <1>1 DEF FInv, ParsedOK, ApplyingOK, UpdateDemands, UpdateTraceRoutes
<1>3. CASE UpdateDemands
  <2> DEFINE id == Head(downlink)
  <2>1. demand' = id /\ routes' = routes
    BY <1>3 DEF UpdateDemands
  <2>2. seen' = [w \in Workers |-> IF pc[w] \in {"idle", "done"} THEN seen[w]
                                   ELSE seen[w] \cup {id}]
    BY <1>3 DEF UpdateDemands, NowInForce
  <2>3. Shape'
    BY <1>1, <2>2 DEF FInv, Shape
  <2>4. ASSUME NEW w \in Workers PROVE Place(w)'
    <3>1. CASE pc[w] \in Busy
      <4>1. seen'[w] = seen[w] \cup {id}
        BY <2>2, <2>4, <3>1 DEF Busy
      <4>2. Reading(w) /\ SecondChoice(w) => SecondChoice(w)'
        BY <1>1, <4>1 DEF FInv, Place, SecondChoice
      <4>3. Reading(w)
        BY <2>4 DEF FInv, Place
      <4>4. Reading(w)'
        BY <1>1, <2>1, <3>1, <4>1, <4>2, <4>3 DEF Reading
      <4> QED
        BY <1>1, <3>1, <4>4 DEF Place, Result, Busy
    <3>2. CASE pc[w] \in {"idle", "done"}
      <4>1. seen'[w] = seen[w]
        BY <2>2, <2>4, <3>2
      <4>2. Result(w)
        BY <2>4 DEF FInv, Place
      <4>3. Result(w)'
        BY <1>1, <4>1, <4>2 DEF Result, MetricResult, LogResult, TraceResult, SecondChoice
      <4> QED
        BY <1>1, <3>2, <4>3 DEF Place, Reading, Busy
    <3> QED
      BY <2>4, <3>1, <3>2 DEF FInv, Shape
  <2> QED
    BY <1>2, <2>3, <2>4 DEF FInv
<1>4. CASE UpdateTraceRoutes
  <2>1. demand' = demand /\ routes' = applying /\ applying # NoDemand /\ seen' = seen
    BY <1>4 DEF UpdateTraceRoutes, filters
  <2>2. applying = demand
    BY <2>1 DEF FInv, ApplyingOK
  <2>3. Shape'
    BY <1>1, <2>1 DEF FInv, Shape
  <2>4. ASSUME NEW w \in Workers PROVE Place(w)'
    <3>1. Reading(w) /\ Result(w)
      BY <2>4 DEF FInv, Place
    <3>2. Reading(w)'
      BY <1>1, <2>1, <2>2, <3>1 DEF Reading, SecondChoice
    <3>3. Result(w)'
      BY <1>1, <2>1, <3>1 DEF Result, MetricResult, LogResult, TraceResult, SecondChoice
    <3> QED
      BY <3>2, <3>3 DEF Place
  <2> QED
    BY <1>2, <2>3, <2>4 DEF FInv
<1> QED
  BY <1>3, <1>4

LEMMA RestartFInv ==
  ASSUME FInv, Restart
  PROVE  FInv'
<1>1. Shape'
  BY DEF Restart, FInv, Shape, Idle
<1>2. ParsedOK'
  BY DEF Restart, ParsedOK, NoSelectors, Caches
<1>3. ApplyingOK'
  BY DEF Restart, ApplyingOK
<1>4. \A w \in Workers : Place(w)'
  BY DEF Restart, Idle, Place, Reading, Result, Busy
<1> QED
  BY <1>1, <1>2, <1>3, <1>4 DEF FInv

LEMMA NextFInv == FInv /\ [Next]_vars => FInv'
<1> SUFFICES ASSUME FInv, [Next]_vars PROVE FInv'
  OBVIOUS
<1>1. CASE DemandChanges \/ ServerGetsPing \/ Connect \/ PingLoop \/ StreamEnds \/ UNCHANGED vars
  <2>1. UNCHANGED <<demand, routes, applying, parsed, kind, pc, raw, out, seen>>
    BY <1>1 DEF DemandChanges, ServerGetsPing, Connect, PingLoop, StreamEnds, vars,
       cache, filters
  <2>2. Shape' /\ ParsedOK' /\ ApplyingOK'
    BY <2>1 DEF FInv, Shape, ParsedOK, ApplyingOK
  <2>3. ASSUME NEW w \in Workers PROVE Place(w)'
    <3>1. Reading(w)' = Reading(w)
      BY <2>1 DEF Reading, SecondChoice
    <3>2. Result(w)' = Result(w)
      BY <2>1 DEF Result, MetricResult, LogResult, TraceResult, SecondChoice
    <3> QED
      BY <2>3, <3>1, <3>2 DEF FInv, Place
  <2> QED
    BY <2>2, <2>3 DEF FInv
<1>2. CASE UpdateDemands \/ UpdateTraceRoutes
  BY <1>2, UpdateFInv
<1>3. CASE \E w \in Workers : Filter(w) \/ Return(w)
  <2>1. PICK w \in Workers : Filter(w) \/ Return(w)
    BY <1>3
  <2> QED
    BY <2>1, ConsumeFInv, FallbackFInv, SelectFInv, ReturnFInv DEF Filter
<1>4. CASE Restart
  BY <1>4, RestartFInv
<1> QED
  BY <1>1, <1>2, <1>3, <1>4 DEF Next, Agent

-----------------------------------------------------------------------------
(* The trace router behind the filters.                                     *)

\* A pair of the batch has landed or its group is still to be pushed, unless
\* a rule was rejected.
RInv ==
  /\ landed \subseteq batch
  /\ rejected = {} => \A p \in batch : p \in landed \/ p[2] \in todo

LEMMA RouterRInv ==
  ASSUME RInv, R!Next \/ (\E b : R!Offer(b)) \/ UNCHANGED routerVars
  PROVE  RInv'
<1>1. CASE R!Next
  <2>1. PICK rule \in Rules \cup {NoRule} : R!Push(rule) \/ R!PushFails(rule)
    BY <1>1 DEF R!Next
  <2>2. CASE R!PushOK(rule)
    BY <2>2 DEF RInv, R!PushOK, R!Group
  <2>3. CASE R!PushRejected(rule)
    BY <2>3 DEF RInv, R!PushRejected
  <2>4. CASE R!PushFails(rule)
    BY <2>4 DEF RInv, R!PushFails, R!GroupByFilterID
  <2> QED
    BY <2>1, <2>2, <2>3, <2>4 DEF R!Push
<1>2. CASE \E b : R!Offer(b)
  BY <1>2 DEF RInv, R!Offer, R!GroupByFilterID, R!router
<1>3. CASE UNCHANGED routerVars
  BY <1>3 DEF RInv, routerVars
<1> QED
  BY <1>1, <1>2, <1>3

LEMMA PathNextRInv == RInv /\ [PathNext]_allVars => RInv'
<1> SUFFICES ASSUME RInv, [PathNext]_allVars PROVE RInv'
  OBVIOUS
<1>1. CASE PathRestart
  BY <1>1 DEF PathRestart, RInv
<1>2. CASE ~PathRestart
  <2>1. R!Next \/ (\E b : R!Offer(b)) \/ UNCHANGED routerVars
    BY <1>2 DEF PathNext, Forward, allVars
  <2> QED
    BY <2>1, RouterRInv
<1> QED
  BY <1>1, <1>2

\* Every step of the composition is a step of the demand flow or leaves it be.
LEMMA PathNextIsNext == [PathNext]_allVars => [Next]_vars
BY DEF PathNext, Forward, PathRestart, Next, allVars

\* What holds of the filters in every behaviour of the composed path.
LEMMA PathFInv == PathSpec => []FInv
<1>1. PathInit => Init
  BY DEF PathInit
<1> QED
  BY <1>1, InitFInv, NextFInv, PathNextIsNext, PTL DEF PathSpec

\* However demand sets, reconnects, restarts and batches interleave,
\* ConsumeMetrics, ConsumeLogs and ConsumeTraces pass on only what a set in
\* force during the batch demands.
THEOREM OnlyDemandedPasses == PathSpec => []DemandedOnly
BY PathFInv, FInvDemanded, PTL

\* A log batch is filtered by one set, and so is every batch during which the
\* set in force did not change, although ConsumeMetrics and ConsumeTraces read
\* the cache more than once.
THEOREM OneSetFiltersABatch == PathSpec => []OneSetPerBatch
BY PathFInv, FInvDemanded, PTL

\* A batch pushTraces and its retries are done with has reached every org it
\* was routed to and no other, unless one of its pushes was rejected for good.
THEOREM NothingLostSilently == PathSpec => []NoSilentLoss
<1>1. PathInit => RInv
  BY DEF PathInit, R!Init, RInv
<1>2. RInv => NoSilentLoss
  BY DEF RInv, NoSilentLoss, R!NoSilentLoss, R!Idle
<1> QED
  BY <1>1, <1>2, PathNextRInv, PTL DEF PathSpec

-----------------------------------------------------------------------------
(* Type correctness, which rests on the invariant of the filters.           *)

LEMMA ListTyped ==
  ASSUME NEW h \in Applied
  PROVE  /\ List(h, "metricSelectors") \subseteq Selectors
         /\ List(h, "logSelectors") \subseteq Selectors
         /\ List(h, "traceSelectors") \subseteq Selectors
         /\ TraceRoutesFromProto(h) \subseteq {r \in Routes : r.rule \in Rules}
<1>1. h # NoDemand => Content[h] \in DemandSet
  BY DemandAssumption DEF DemandAssumption, Applied
<1>2. List(h, "traceDemands") \subseteq Routes
  BY <1>1 DEF List, DemandSet
<1>3. TraceRoutesFromProto(h) \subseteq {r \in Routes : r.rule \in Rules}
  BY <1>2 DEF TraceRoutesFromProto, Routes
<1> QED
  BY <1>1, <1>3 DEF List, DemandSet

\* What a busy worker has read is a list of selectors or of routes.
LEMMA RawTyped ==
  ASSUME FInv, TypeOK, NEW w \in Workers
  PROVE  /\ pc[w] = "parse" => raw[w] \subseteq Selectors
         /\ pc[w] = "parseRoutes" => raw[w] \subseteq Routes
<1>1. Reading(w) /\ kind[w] \in Signals /\ seen[w] \subseteq Applied
  BY DEF FInv, Place, TypeOK
<1>2. ASSUME pc[w] = "parse" PROVE raw[w] \subseteq Selectors
  <2>1. PICK h \in seen[w] : raw[w] = List(h, Field[kind[w]])
    BY <1>1, <1>2 DEF Reading
  <2>2. Field[kind[w]] \in {"metricSelectors", "logSelectors", "traceSelectors"}
    BY <1>1 DEF Field, Signals
  <2> QED
    BY <1>1, <2>1, <2>2, ListTyped
<1>3. ASSUME pc[w] = "parseRoutes" PROVE raw[w] \subseteq Routes
  <2>1. PICK h \in seen[w] : raw[w] = TraceRoutesFromProto(h)
    BY <1>1, <1>3 DEF Reading
  <2> QED
    BY <1>1, <2>1, ListTyped
<1> QED
  BY <1>2, <1>3

\* What a trace filter passes on are resources with a rule or none.
TracesTyped ==
  \A w \in Workers : pc[w] = "done" /\ kind[w] = "trace" => out[w] \subseteq R!Pairs

LEMMA FInvTracesTyped == FInv /\ TypeOK => TracesTyped
<1> SUFFICES ASSUME FInv, TypeOK, NEW w \in Workers, pc[w] = "done", kind[w] = "trace"
             PROVE  out[w] \subseteq R!Pairs
  BY DEF TracesTyped
<1>1. TraceResult(w) /\ seen[w] \subseteq Applied
  BY DEF FInv, Place, Result, TypeOK
<1>2. CASE \E h \in seen[w] :
             out[w] = Routed({r \in TraceRoutesFromProto(h) : r.selector \in Parses})
  <2>1. PICK h \in seen[w] :
             out[w] = Routed({r \in TraceRoutesFromProto(h) : r.selector \in Parses})
    BY <1>2
  <2>2. \A r \in TraceRoutesFromProto(h) : r.rule \in Rules
    BY <1>1, ListTyped
  <2>3. Routed({r \in TraceRoutesFromProto(h) : r.selector \in Parses}) \subseteq Resources \X Rules
    BY <2>2 DEF Routed, Kept
  <2> QED
    BY <2>1, <2>3 DEF R!Pairs
<1>3. CASE \E h \in seen[w] :
             out[w] = Kept(List(h, "traceSelectors") \cap Parses, Resources) \X {NoRule}
  BY <1>3 DEF Kept, R!Pairs
<1> QED
  BY <1>1, <1>2, <1>3 DEF TraceResult

\* The types of the control plane, the stream and the demand cache.
ControlType ==
  /\ want \in SetIds /\ conn \in BOOLEAN
  /\ downlink \in Seq(SetIds) /\ uplink \in Seq(Applied)
  /\ demand \in Applied /\ routes \in Applied /\ applying \in Applied
  /\ changes \in 0..MaxChanges /\ faults \in 0..MaxFaults

FilterType ==
  /\ \A c \in Signals : /\ parsed[c].key \subseteq Selectors
                        /\ parsed[c].value \subseteq Parses
  /\ parsed["route"].key \subseteq Routes /\ parsed["route"].value \subseteq Routes
  /\ seen \in [Workers -> SUBSET Applied]

LEMMA TypeParts == FInv => (TypeOK <=> ControlType /\ FilterType)
BY Zenon DEF FInv, Shape, Busy, TypeOK, ControlType, FilterType

LEMMA NextControlType ==
  ASSUME ControlType, [Next]_vars
  PROVE  ControlType'
<1> USE DEF ControlType
<1>1. CASE DemandChanges
  <2>1. want' \in SetIds /\ downlink' \in Seq(SetIds)
    BY <1>1 DEF DemandChanges, Push
  <2>2. changes' \in 0..MaxChanges
    BY <1>1, DemandAssumption DEF DemandChanges, DemandAssumption
  <2> QED
    BY <1>1, <2>1, <2>2 DEF DemandChanges, cache
<1>2. CASE ServerGetsPing
  <2>1. downlink' \in Seq(SetIds)
    <3>1. downlink' = downlink \/ downlink' = Append(downlink, want)
      BY <1>2 DEF ServerGetsPing, Push
    <3> QED
      BY <3>1
  <2>2. uplink' \in Seq(Applied)
    BY <1>2 DEF ServerGetsPing
  <2> QED
    BY <1>2, <2>1, <2>2 DEF ServerGetsPing, cache
<1>3. CASE Connect
  <2>1. conn' \in BOOLEAN /\ downlink' \in Seq(SetIds)
    BY <1>3 DEF Connect
  <2> QED
    BY <1>3, <2>1 DEF Connect, cache
<1>4. CASE StreamEnds
  <2>1. conn' \in BOOLEAN
    BY <1>4, Zenon DEF StreamEnds
  <2>2. downlink' \in Seq(SetIds) /\ uplink' \in Seq(Applied) /\ faults' \in 0..MaxFaults
    BY <1>4, DemandAssumption DEF StreamEnds, DemandAssumption
  <2> QED
    BY <1>4, <2>1, <2>2 DEF StreamEnds, cache
<1>5. CASE PingLoop
  BY <1>5 DEF PingLoop, cache
<1>6. CASE UpdateDemands
  <2>1. Head(downlink) \in SetIds /\ Tail(downlink) \in Seq(SetIds)
    BY <1>6 DEF UpdateDemands
  <2> QED
    BY <1>6, <2>1 DEF UpdateDemands, Applied
<1>7. CASE UpdateTraceRoutes
  BY <1>7 DEF UpdateTraceRoutes, control, Applied
<1>8. CASE Restart
  <2>1. conn' \in BOOLEAN
    BY <1>8, Zenon DEF Restart
  <2>2. downlink' \in Seq(SetIds) /\ uplink' \in Seq(Applied) /\ faults' \in 0..MaxFaults
    BY <1>8, DemandAssumption DEF Restart, DemandAssumption
  <2> QED
    BY <1>8, <2>1, <2>2 DEF Restart, Applied
<1>9. CASE (\E w \in Workers : Filter(w) \/ Return(w)) \/ UNCHANGED vars
  <2>1. UNCHANGED <<control, cache>>
    BY <1>9, Zenon DEF vars, Filter, Return, ConsumeMetrics, ConsumeLogs, ConsumeTraces,
       ReadDemands, ReadTraceDemands, SelectMetrics, SelectLogs, SelectTraces,
       ConsumeRouted, Read, PassOn
  <2> QED
    BY <2>1 DEF control, cache
<1> QED
  BY <1>1, <1>2, <1>3, <1>4, <1>5, <1>6, <1>7, <1>8, <1>9 DEF Next, Agent

LEMMA LookUpTyped ==
  ASSUME FInv, FilterType, NEW w \in Workers, NEW c \in Caches, NEW good,
         LookUp(w, c, good),
         c \in Signals => raw[w] \subseteq Selectors /\ good \subseteq Parses,
         c = "route" => raw[w] \subseteq Routes /\ good \subseteq Routes
  PROVE  FilterType'
<1>1. seen' = seen
  BY DEF LookUp
<1>2. /\ parsed'[c] = Parsed(c, raw[w], good)
      /\ \A d \in Caches \ {c} : parsed'[d] = parsed[d]
  BY DEF LookUp, FInv, Shape
<1>3. Parsed(c, raw[w], good) \in {parsed[c], [key |-> raw[w], value |-> good]}
  BY DEF Parsed
<1>4. ASSUME NEW d \in Caches
      PROVE  \/ parsed'[d] = parsed[d]
             \/ d = c /\ parsed'[d].key = raw[w] /\ parsed'[d].value = good
  <2>1. CASE d # c
    BY <1>2, <2>1
  <2>2. CASE d = c /\ Parsed(c, raw[w], good) = parsed[c]
    BY <1>2, <2>2
  <2>3. CASE d = c /\ Parsed(c, raw[w], good) = [key |-> raw[w], value |-> good]
    <3>1. parsed'[d] = [key |-> raw[w], value |-> good]
      BY <1>2, <2>3
    <3> QED
      BY <2>3, <3>1
  <2> QED
    BY <1>3, <2>1, <2>2, <2>3
<1>5. ASSUME NEW d \in Signals
      PROVE  parsed'[d].key \subseteq Selectors /\ parsed'[d].value \subseteq Parses
  <2>1. d \in Caches
    BY DEF Caches
  <2> QED
    BY <1>4, <2>1 DEF FilterType
<1>6. parsed'["route"].key \subseteq Routes /\ parsed'["route"].value \subseteq Routes
  <2>1. "route" \in Caches
    BY DEF Caches
  <2> QED
    BY <1>4, <2>1 DEF FilterType
<1> QED
  BY <1>1, <1>5, <1>6 DEF FilterType

LEMMA NextFilterType ==
  ASSUME FInv, TypeOK, ControlType, FilterType, [Next]_vars
  PROVE  FilterType'
<1>1. CASE DemandChanges \/ ServerGetsPing \/ Connect \/ PingLoop \/ StreamEnds
           \/ UpdateTraceRoutes \/ UNCHANGED vars
  <2>1. UNCHANGED <<parsed, seen>>
    BY <1>1 DEF DemandChanges, ServerGetsPing, Connect, PingLoop, StreamEnds,
       UpdateTraceRoutes, vars, filters
  <2> QED
    BY <2>1 DEF FilterType
<1>2. CASE UpdateDemands
  <2>1. parsed' = parsed
    BY <1>2 DEF UpdateDemands
  <2>2. Head(downlink) \in Applied
    BY <1>2 DEF UpdateDemands, ControlType, Applied
  <2>3. seen' \in [Workers -> SUBSET Applied]
    BY <1>2, <2>2 DEF UpdateDemands, NowInForce, FilterType
  <2> QED
    BY <2>1, <2>3 DEF FilterType
<1>3. CASE Restart
  <2>1. /\ \A c \in Caches : parsed'[c].key = {} /\ parsed'[c].value = {}
        /\ seen' \in [Workers -> SUBSET Applied]
    BY <1>3 DEF Restart, NoSelectors, Idle
  <2> QED
    BY <2>1 DEF FilterType, Caches
<1>4. ASSUME NEW w \in Workers, Return(w) PROVE FilterType'
  BY <1>4 DEF Return, FilterType
<1>5. ASSUME NEW w \in Workers,
             \/ ConsumeMetrics(w) \/ ConsumeLogs(w) \/ ConsumeTraces(w)
             \/ ReadDemands(w) \/ ReadTraceDemands(w)
      PROVE  FilterType'
  <2>1. parsed' = parsed
    BY <1>5 DEF ConsumeMetrics, ConsumeLogs, ConsumeTraces, ReadDemands,
       ReadTraceDemands, Read
  <2>2. seen' = seen \/ seen' = [seen EXCEPT ![w] = {demand, routes}]
    BY <1>5 DEF ConsumeMetrics, ConsumeLogs, ConsumeTraces, ReadDemands,
       ReadTraceDemands, Consume
  <2> QED
    BY <2>1, <2>2 DEF FilterType, ControlType
<1>6. ASSUME NEW w \in Workers,
             SelectMetrics(w) \/ SelectLogs(w) \/ SelectTraces(w) \/ ConsumeRouted(w)
      PROVE  FilterType'
  <2>1. CASE ConsumeRouted(w)
    <3>1. raw[w] \subseteq Routes
      BY <1>6, <2>1, RawTyped, Zenon DEF ConsumeRouted
    <3> QED
      BY <2>1, <3>1, LookUpTyped DEF ConsumeRouted, Caches, Signals
  <2>2. CASE SelectMetrics(w) \/ SelectLogs(w) \/ SelectTraces(w)
    <3>1. raw[w] \subseteq Selectors
      BY <1>6, <2>2, RawTyped DEF SelectMetrics, SelectLogs, SelectTraces, Selecting
    <3>2. PICK c \in Signals : LookUp(w, c, raw[w] \cap Parses)
      BY <2>2 DEF SelectMetrics, SelectLogs, SelectTraces, Signals
    <3> QED
      BY <3>1, <3>2, LookUpTyped DEF Caches, Signals
  <2> QED
    BY <1>6, <2>1, <2>2
<1> QED
  BY <1>1, <1>2, <1>3, <1>4, <1>5, <1>6 DEF Next, Agent, Filter

LEMMA InitTyped == Init => TypeOK
<1> SUFFICES ASSUME Init PROVE TypeOK
  OBVIOUS
<1>1. conn \in BOOLEAN
  BY Zenon DEF Init
<1>2. ControlType
  BY <1>1, DemandAssumption DEF Init, ControlType, Applied, DemandAssumption
<1>3. FilterType
  BY DEF Init, FilterType, NoSelectors, Caches, Idle
<1> QED
  BY <1>2, <1>3, InitFInv, TypeParts

LEMMA NextTyped == FInv /\ TypeOK /\ [Next]_vars => TypeOK'
<1> SUFFICES ASSUME FInv, TypeOK, [Next]_vars PROVE TypeOK'
  OBVIOUS
<1>1. ControlType /\ FilterType
  BY TypeParts
<1>2. FInv'
  BY NextFInv
<1>3. ControlType' /\ FilterType'
  BY <1>1, NextControlType, NextFilterType
<1>4. TypeOK' <=> ControlType' /\ FilterType'
  BY <1>2 DEF FInv, Shape, Busy, TypeOK, ControlType, FilterType
<1> QED
  BY <1>3, <1>4

LEMMA NextRouterTyped ==
  ASSUME TracesTyped', R!TypeOK, [PathNext]_allVars
  PROVE  R!TypeOK'
<1>1. CASE UNCHANGED routerVars
  BY <1>1 DEF routerVars, R!TypeOK
<1>2. CASE R!Next
  <2>1. PICK rule \in Rules \cup {NoRule} : R!Push(rule) \/ R!PushFails(rule)
    BY <1>2 DEF R!Next
  <2>2. CASE R!PushOK(rule)
    BY <2>2 DEF R!TypeOK, R!PushOK, R!Group
  <2>3. CASE R!PushRejected(rule)
    BY <2>1, <2>3 DEF R!TypeOK, R!PushRejected
  <2>4. CASE R!PushFails(rule)
    <3>1. errors' \in 0..MaxErrors
      BY <2>4, RouterAssumption DEF R!TypeOK, R!PushFails, RouterAssumption
    <3>2. R!GroupByFilterID(batch) \subseteq Rules \cup {NoRule}
      BY DEF R!TypeOK, R!GroupByFilterID, R!Pairs
    <3> QED
      BY <2>4, <3>1, <3>2 DEF R!TypeOK, R!PushFails
  <2> QED
    BY <2>1, <2>2, <2>3, <2>4 DEF R!Push
<1>3. CASE PathRestart
  BY <1>3 DEF PathRestart, R!TypeOK
<1>4. ASSUME NEW w \in Workers, Forward(w), kind[w] = "trace", pc'[w] = "done",
             R!Offer(out'[w])
      PROVE  R!TypeOK'
  <2>1. kind' = kind
    BY <1>4 DEF Forward, Filter, ConsumeMetrics, ConsumeLogs, ConsumeTraces,
       ReadDemands, ReadTraceDemands, SelectMetrics, SelectLogs, SelectTraces,
       ConsumeRouted, Read, PassOn
  <2>2. out'[w] \subseteq R!Pairs
    BY <1>4, <2>1 DEF TracesTyped
  <2>3. R!GroupByFilterID(out'[w]) \subseteq Rules \cup {NoRule}
    BY <2>2 DEF R!GroupByFilterID, R!Pairs
  <2> QED
    BY <1>4, <2>2, <2>3 DEF R!Offer, R!TypeOK, R!router
<1> QED
  BY <1>1, <1>2, <1>3, <1>4 DEF PathNext, Forward, allVars

\* PathTypeCorrect.  Every reachable state of the demand cache, the filters and
\* the trace router is well typed: a parsed cache holds only selectors that
\* parse, and the router holds only pairs of a resource and a rule or none.
THEOREM PathTypeCorrect == PathSpec => []PathTypeOK
<1>1. PathInit => Init /\ R!TypeOK
  BY RouterAssumption DEF PathInit, R!Init, R!TypeOK, RouterAssumption
<1>2. TracesTyped' /\ R!TypeOK /\ [PathNext]_allVars => R!TypeOK'
  BY NextRouterTyped
<1>3. TypeOK /\ R!TypeOK => PathTypeOK
  BY DEF PathTypeOK
<1> QED
  BY <1>1, <1>2, <1>3, InitFInv, InitTyped, PathNextIsNext, NextFInv, NextTyped,
     FInvTracesTyped, PTL DEF PathSpec

-----------------------------------------------------------------------------
(* From the demand set to the orgs.                                         *)

LEMMA PathTyped == PathSpec => [](FInv /\ TypeOK)
<1>1. PathInit => Init
  BY DEF PathInit
<1> QED
  BY <1>1, InitFInv, InitTyped, PathNextIsNext, NextFInv, NextTyped, PTL DEF PathSpec

\* AppliedWhole.  The routes in the cache are of the set whose lists are, unless
\* recvLoop is between UpdateDemands and UpdateTraceRoutes.
AppliedWhole == applying = NoDemand => routes = demand

LEMMA NextAppliedWhole ==
  ASSUME FInv, TypeOK, AppliedWhole, [Next]_vars
  PROVE  AppliedWhole'
<1>1. CASE UpdateDemands
  <2>1. downlink \in Seq(SetIds) /\ downlink # <<>>
    BY <1>1 DEF UpdateDemands, TypeOK
  <2>2. Head(downlink) # NoDemand
    BY <2>1, DemandAssumption DEF DemandAssumption
  <2> QED
    BY <1>1, <2>2 DEF UpdateDemands, AppliedWhole
<1>2. CASE UpdateTraceRoutes
  BY <1>2 DEF UpdateTraceRoutes, AppliedWhole, FInv, ApplyingOK
<1>3. CASE Restart
  BY <1>3, Zenon DEF Restart, AppliedWhole
<1>4. CASE UNCHANGED cache
  BY <1>4 DEF cache, AppliedWhole
<1>5. ASSUME NEW w \in Workers, Filter(w) \/ Return(w) PROVE UNCHANGED cache
  BY <1>5, Zenon DEF Filter, Return, ConsumeMetrics, ConsumeLogs, ConsumeTraces,
     ReadDemands, ReadTraceDemands, SelectMetrics, SelectLogs, SelectTraces,
     ConsumeRouted, Read, PassOn
<1>6. DemandChanges \/ ServerGetsPing \/ Connect \/ PingLoop \/ StreamEnds => UNCHANGED cache
  BY Zenon DEF DemandChanges, ServerGetsPing, Connect, PingLoop, StreamEnds
<1>7. UNCHANGED vars => UNCHANGED cache
  BY DEF vars
<1> QED
  BY <1>1, <1>2, <1>3, <1>4, <1>5, <1>6, <1>7 DEF Next, Agent

\* SetsAreWhole.  A lost stream, a reconnect or a further push never leaves a
\* demand set half applied: handleServerMessage stores both halves of a set before
\* the next one is taken.
THEOREM SetsAreWhole == PathSpec => []AppliedWhole
<1>1. PathInit => AppliedWhole
  BY DEF PathInit, Init, AppliedWhole
<1>2. FInv /\ TypeOK /\ AppliedWhole /\ [Next]_vars => AppliedWhole'
  BY NextAppliedWhole
<1> QED
  BY <1>1, <1>2, PathTyped, PathNextIsNext, PTL DEF PathSpec

\* Asked(p).  Some demand set asks for the pair: by a route of the pair's rule
\* whose selector matches the resource or, for the tenant-wide org, by one of
\* its trace selectors.
Asked(p) ==
  \E h \in SetIds :
    \/ \E r \in TraceRoutesFromProto(h) :
         r.rule = p[2] /\ r.selector \in Parses /\ p[1] \in Kept({r.selector}, Resources)
    \/ p[2] = NoRule /\ p[1] \in Kept(List(h, "traceSelectors") \cap Parses, Resources)

\* LandedIsAsked.  Spans reach an org only if a demand set routed their resource
\* to it.
LandedIsAsked == \A p \in landed : Asked(p)

\* What a trace filter passes on is asked for.
LEMMA TracesAsked ==
  ASSUME FInv, TypeOK, NEW w \in Workers, pc[w] = "done", kind[w] = "trace"
  PROVE  \A p \in out[w] : Asked(p)
<1>1. TraceResult(w) /\ seen[w] \subseteq Applied
  BY DEF FInv, Place, Result, TypeOK
<1>2. \A h \in Applied \ SetIds : TraceRoutesFromProto(h) = {} /\ List(h, "traceSelectors") = {}
  BY DEF Applied, List, TraceRoutesFromProto
<1>3. ASSUME NEW h \in Applied, NEW p,
             p \in Routed({r \in TraceRoutesFromProto(h) : r.selector \in Parses})
      PROVE  Asked(p)
  <2>1. PICK r \in TraceRoutesFromProto(h) :
          r.selector \in Parses /\ \E x \in Kept({r.selector}, Resources) : p = <<x, r.rule>>
    BY <1>3 DEF Routed
  <2>2. h \in SetIds
    BY <1>2, <2>1
  <2>3. p[2] = r.rule /\ p[1] \in Kept({r.selector}, Resources)
    BY <2>1
  <2> QED
    BY <2>1, <2>2, <2>3, Zenon DEF Asked
<1>4. ASSUME NEW h \in Applied, NEW p,
             p \in Kept(List(h, "traceSelectors") \cap Parses, Resources) \X {NoRule}
      PROVE  Asked(p)
  <2>1. p[2] = NoRule /\ p[1] \in Kept(List(h, "traceSelectors") \cap Parses, Resources)
    BY <1>4
  <2>2. h \in SetIds
    BY <1>2, <2>1 DEF Kept
  <2> QED
    BY <2>1, <2>2, Zenon DEF Asked
<1> QED
  BY <1>1, <1>3, <1>4, Zenon DEF TraceResult

FilteredAsked ==
  \A w \in Workers : pc[w] = "done" /\ kind[w] = "trace" => \A p \in out[w] : Asked(p)

LEMMA FInvAsked == FInv /\ TypeOK => FilteredAsked
BY TracesAsked DEF FilteredAsked

\* The batch the exporter holds was asked for, and only pairs of it land.
BInv == RInv /\ \A p \in batch : Asked(p)

LEMMA NextBInv ==
  ASSUME FilteredAsked', BInv, [PathNext]_allVars
  PROVE  BInv'
<1>1. RInv'
  BY PathNextRInv DEF BInv
<1>2. \A p : Asked(p)' = Asked(p)
  BY DEF Asked
<1>3. CASE batch' = batch \/ batch' = {}
  BY <1>1, <1>2, <1>3 DEF BInv
<1>4. ASSUME NEW w \in Workers, Forward(w), kind[w] = "trace", pc'[w] = "done",
             R!Offer(out'[w])
      PROVE  BInv'
  <2>1. kind'[w] = "trace"
    BY <1>4 DEF Forward, Filter, ConsumeMetrics, ConsumeLogs, ConsumeTraces,
       ReadDemands, ReadTraceDemands, SelectMetrics, SelectLogs, SelectTraces,
       ConsumeRouted, Read, PassOn
  <2>2. \A p \in out'[w] : Asked(p)'
    BY <1>4, <2>1 DEF FilteredAsked
  <2>3. batch' = batch \/ batch' = out'[w]
    BY <1>4 DEF R!Offer, R!router
  <2> QED
    BY <1>1, <1>3, <2>2, <2>3 DEF BInv
<1>5. R!Next \/ UNCHANGED routerVars \/ PathRestart => batch' = batch \/ batch' = {}
  BY DEF R!Next, R!Push, R!PushOK, R!PushRejected, R!PushFails, routerVars, PathRestart
<1> QED
  BY <1>3, <1>4, <1>5 DEF PathNext, Forward, allVars

\* OnlyAskedLands.  From the push of a set over the filter, its caches and the
\* retries of pushTraces to the ingest edge, no span reaches an org that no
\* demand set routed its resource to.
THEOREM OnlyAskedLands == PathSpec => []LandedIsAsked
<1>1. PathInit => BInv
  BY DEF PathInit, R!Init, BInv, RInv
<1>2. FilteredAsked' /\ BInv /\ [PathNext]_allVars => BInv'
  BY NextBInv
<1>3. BInv => LandedIsAsked
  BY DEF BInv, RInv, LandedIsAsked
<1> QED
  BY <1>1, <1>2, <1>3, PathTyped, FInvAsked, PTL DEF PathSpec

=============================================================================
