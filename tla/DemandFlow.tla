----------------------------- MODULE DemandFlow -----------------------------
(* The demand set, from the control plane to the three demand filters.      *)
(*                                                                          *)
(* The control plane pushes DemandSet messages; recvLoop applies each in    *)
(* two lock sections (UpdateDemands, then UpdateTraceRoutes), and the       *)
(* heartbeat echoes the applied hash so that a missed set is pushed again.  *)
(* The metric, log and trace filters read the cache afresh for every batch, *)
(* some of them twice, and keep a cache of parsed selectors.                *)
(*                                                                          *)
(* A demand set is named by an id and Content gives its lists.  The control *)
(* plane computes its hash from some of them, Hashed.  A selector is a      *)
(* member of Selectors, and Matching gives the series or resources it       *)
(* matches; one that does not parse has no Matching.  The filters decide    *)
(* each series or resource by itself, so a batch holds all of them.         *)
EXTENDS Naturals, Sequences, FiniteSets

CONSTANTS
  SetIds,      \* the demand sets the control plane may want
  NoDemand,    \* nothing applied yet: hash 0
  Series,      \* metric series
  Names,       \* metric names
  NameOf,      \* the name of a series
  Resources,   \* log streams and trace resources
  Selectors,
  Matching,    \* what each selector that parses matches
  Rules,       \* filter ids
  NoRule,      \* no filter id
  Content,     \* the lists of each demand set
  Hashed,      \* the lists its hash is computed from
  Workers,     \* goroutines that push batches through a filter
  MaxChanges, MaxFaults, MaxWire

Signals == {"metric", "log", "trace"}
Caches == Signals \cup {"route"}
Routes == [selector : Selectors, rule : Rules \cup {NoRule}]
Parses == DOMAIN Matching

Lists == {"metrics", "metricSelectors", "logSelectors", "traceSelectors", "traceDemands"}

DemandSet == [metrics : SUBSET Names, metricSelectors : SUBSET Selectors,
              logSelectors : SUBSET Selectors, traceSelectors : SUBSET Selectors,
              traceDemands : SUBSET Routes]

ASSUME DemandAssumption ==
  /\ NoDemand \notin SetIds /\ NoRule \notin Rules
  /\ NameOf \in [Series -> Names]
  /\ Parses \subseteq Selectors
  /\ \A sel \in Parses : Matching[sel] \subseteq Series \cup Resources
  /\ Content \in [SetIds -> DemandSet]
  /\ Hashed \subseteq Lists
  /\ MaxChanges \in Nat /\ MaxFaults \in Nat /\ MaxWire \in Nat

VARIABLES
  want,      \* control plane: the set it wants applied
  conn,      \* the control stream is up
  downlink,  \* DemandSet messages on the stream
  uplink,    \* heartbeats on the stream: the set whose hash each echoes
  demand,    \* DemandTimeseriesCache: the four lists and demandHash
  routes,    \* DemandTimeseriesCache: traceRoutes
  applying,  \* the set whose routes recvLoop has still to store
  parsed,    \* each filter's selector cache: its key and its value
  kind,      \* the signal of each worker's filter
  pc,        \* where each worker is in its Consume call
  raw,       \* the list each worker read
  out,       \* what each worker passed on
  seen,      \* history: the sets in force since each worker's batch began
  changes, faults

control == <<want, conn, downlink, uplink, changes, faults>>
cache == <<demand, routes, applying>>
filters == <<parsed, kind, pc, raw, out, seen>>
vars == <<control, cache, filters>>

Applied == SetIds \cup {NoDemand}

-----------------------------------------------------------------------------
(* The lists of a set, as the getters of the extension return them.         *)

List(id, field) == IF id = NoDemand THEN {} ELSE Content[id][field]

\* The hashes of two sets agree when the lists they are computed from do.
SameHash(a, b) ==
  /\ (a = NoDemand) = (b = NoDemand)
  /\ \A field \in Hashed : List(a, field) = List(b, field)

\* Entries without a filter id cannot be routed and are skipped.
TraceRoutesFromProto(id) ==
  {r \in List(id, "traceDemands") : r.rule # NoRule}

\* Series kept by name; items kept by selectors that parsed; one copy of a
\* resource for every route that matches it.
NameMode(names) == {x \in Series : NameOf[x] \in names}

Kept(selectors, items) ==
  {x \in items : \E sel \in selectors : x \in Matching[sel]}

Routed(table) ==
  UNION {{<<x, r.rule>> : x \in Kept({r.selector}, Resources)} : r \in table}

-----------------------------------------------------------------------------
TypeOK ==
  /\ want \in SetIds
  /\ conn \in BOOLEAN
  /\ downlink \in Seq(SetIds) /\ uplink \in Seq(Applied)
  /\ demand \in Applied /\ routes \in Applied /\ applying \in Applied
  /\ \A c \in Signals : /\ parsed[c].key \subseteq Selectors
                        /\ parsed[c].value \subseteq Parses
  /\ parsed["route"].key \subseteq Routes /\ parsed["route"].value \subseteq Routes
  /\ kind \in [Workers -> Signals]
  /\ pc \in [Workers -> {"idle", "fallback", "parse", "parseRoutes", "done"}]
  /\ seen \in [Workers -> SUBSET Applied]
  /\ changes \in 0..MaxChanges /\ faults \in 0..MaxFaults

NoSelectors == [key |-> {}, value |-> {}]
Idle(empty) == [w \in Workers |-> empty]

Init ==
  /\ want \in SetIds
  /\ conn = FALSE /\ downlink = <<>> /\ uplink = <<>>
  /\ demand = NoDemand /\ routes = NoDemand /\ applying = NoDemand
  /\ parsed = [c \in Caches |-> NoSelectors]
  /\ kind \in [Workers -> Signals]
  /\ pc = Idle("idle") /\ raw = Idle({}) /\ out = Idle({}) /\ seen = Idle({})
  /\ changes = 0 /\ faults = 0

-----------------------------------------------------------------------------
(* The control plane, external: it pushes the wanted set in answer to Hello, *)
(* when the set changes (a push it may miss), and when a heartbeat echoes   *)
(* another hash.                                                            *)

Push(id) ==
  /\ Len(downlink) < MaxWire
  /\ downlink' = Append(downlink, id)

DemandChanges ==
  /\ changes < MaxChanges /\ changes' = changes + 1
  /\ \E id \in SetIds \ {want} :
       /\ want' = id
       /\ (conn /\ Push(id)) \/ UNCHANGED downlink
  /\ UNCHANGED <<conn, uplink, faults, cache, filters>>

ServerGetsPing ==
  /\ uplink # <<>> /\ uplink' = Tail(uplink)
  /\ IF SameHash(Head(uplink), want) THEN UNCHANGED downlink ELSE Push(want)
  /\ UNCHANGED <<want, conn, changes, faults, cache, filters>>

-----------------------------------------------------------------------------
(* The edge controller.  connect dials again only once recvLoop, and so the *)
(* handler it was in, has returned.                                         *)

Connect ==
  /\ ~conn /\ applying = NoDemand
  /\ conn' = TRUE
  /\ downlink' = <<want>>
  /\ UNCHANGED <<want, uplink, changes, faults, cache, filters>>

\* The stream breaks: what it carried is lost.
StreamEnds ==
  /\ conn /\ conn' = FALSE
  /\ faults < MaxFaults /\ faults' = faults + 1
  /\ downlink' = <<>> /\ uplink' = <<>>
  /\ UNCHANGED <<want, changes, cache, filters>>

PingLoop ==
  /\ conn /\ Len(uplink) < MaxWire
  /\ uplink' = Append(uplink, demand)
  /\ UNCHANGED <<want, conn, downlink, changes, faults, cache, filters>>

\* The sets in force grow for every batch that is being filtered.
NowInForce(id) ==
  seen' = [w \in Workers |-> IF pc[w] \in {"idle", "done"} THEN seen[w]
                             ELSE seen[w] \cup {id}]

UpdateDemands ==
  /\ applying = NoDemand /\ downlink # <<>>
  /\ downlink' = Tail(downlink)
  /\ demand' = Head(downlink) /\ applying' = Head(downlink)
  /\ NowInForce(Head(downlink))
  /\ UNCHANGED <<want, conn, uplink, changes, faults, routes,
                 parsed, kind, pc, raw, out>>

\* Mutant: an empty routing table is not stored.
UpdateTraceRoutesUnlessEmpty ==
  /\ applying # NoDemand /\ applying' = NoDemand
  /\ routes' = IF TraceRoutesFromProto(applying) = {} THEN routes ELSE applying
  /\ UNCHANGED <<control, demand, filters>>

UpdateTraceRoutes ==
  /\ applying # NoDemand /\ applying' = NoDemand
  /\ routes' = applying
  /\ UNCHANGED <<control, demand, filters>>

-----------------------------------------------------------------------------
(* The filters.  A Consume call reads the cache once or twice, then parses  *)
(* (under the filter's own mutex) and passes on what it keeps.              *)

Consume(w, signal) ==
  /\ kind[w] = signal /\ pc[w] = "idle"
  /\ seen' = [seen EXCEPT ![w] = {demand, routes}]

Read(w, list, next) ==
  /\ pc' = [pc EXCEPT ![w] = next]
  /\ raw' = [raw EXCEPT ![w] = list]
  /\ UNCHANGED <<control, cache, parsed, kind, out>>

\* The batch goes to the next consumer, or is dropped when nothing is kept.
PassOn(w, items) ==
  /\ pc' = [pc EXCEPT ![w] = "done"]
  /\ raw' = [raw EXCEPT ![w] = {}]
  /\ out' = [out EXCEPT ![w] = items]
  /\ UNCHANGED <<control, cache, kind>>

ConsumeMetrics(w) ==
  /\ Consume(w, "metric")
  /\ LET list == List(demand, "metricSelectors")
     IN  IF list # {} THEN Read(w, list, "parse") ELSE Read(w, {}, "fallback")

\* No selectors were demanded: names are, or nothing is.
ReadDemands(w) ==
  /\ kind[w] = "metric" /\ pc[w] = "fallback"
  /\ PassOn(w, NameMode(List(demand, "metrics")))
  /\ UNCHANGED <<parsed, seen>>

ConsumeLogs(w) ==
  /\ Consume(w, "log")
  /\ LET list == List(demand, "logSelectors")
     IN  IF list # {} THEN Read(w, list, "parse")
                      ELSE PassOn(w, {}) /\ UNCHANGED parsed

ConsumeTraces(w) ==
  /\ Consume(w, "trace")
  /\ LET list == TraceRoutesFromProto(routes)
     IN  IF list # {} THEN Read(w, list, "parseRoutes") ELSE Read(w, {}, "fallback")

\* Mutant: an empty list lets everything pass.
ReadTraceDemandsOpen(w) ==
  /\ kind[w] = "trace" /\ pc[w] = "fallback"
  /\ LET list == List(demand, "traceSelectors")
     IN  IF list # {} THEN Read(w, list, "parse")
                      ELSE PassOn(w, Resources \X {NoRule}) /\ UNCHANGED parsed
  /\ UNCHANGED seen

\* No routes were supplied: the tenant-wide org, or nothing.
ReadTraceDemands(w) ==
  /\ kind[w] = "trace" /\ pc[w] = "fallback"
  /\ LET list == List(demand, "traceSelectors")
     IN  IF list # {} THEN Read(w, list, "parse")
                      ELSE PassOn(w, {}) /\ UNCHANGED parsed
  /\ UNCHANGED seen

\* Mutant: the cache is filled once and never again.
ParsedForEver(c, list, good) ==
  IF parsed[c].key # {} THEN parsed[c] ELSE [key |-> list, value |-> good]

\* What the selector cache c holds after a look-up of list, whose members
\* that parse are good.
Parsed(c, list, good) ==
  IF parsed[c].key = list THEN parsed[c] ELSE [key |-> list, value |-> good]

\* The cache c is looked up for the worker's list.
LookUp(w, c, good) ==
  /\ parsed' = [parsed EXCEPT ![c] = Parsed(c, raw[w], good)]
  /\ UNCHANGED seen

Selecting(w, signal) == kind[w] = signal /\ pc[w] = "parse"

SelectMetrics(w) ==
  /\ Selecting(w, "metric")
  /\ LookUp(w, "metric", raw[w] \cap Parses)
  /\ PassOn(w, Kept(parsed'["metric"].value, Series))

SelectLogs(w) ==
  /\ Selecting(w, "log")
  /\ LookUp(w, "log", raw[w] \cap Parses)
  /\ PassOn(w, Kept(parsed'["log"].value, Resources))

SelectTraces(w) ==
  /\ Selecting(w, "trace")
  /\ LookUp(w, "trace", raw[w] \cap Parses)
  /\ PassOn(w, Kept(parsed'["trace"].value, Resources) \X {NoRule})

ConsumeRouted(w) ==
  /\ pc[w] = "parseRoutes"
  /\ LookUp(w, "route", {r \in raw[w] : r.selector \in Parses})
  /\ PassOn(w, Routed(parsed'["route"].value))

Return(w) ==
  /\ pc[w] = "done" /\ pc' = [pc EXCEPT ![w] = "idle"]
  /\ out' = [out EXCEPT ![w] = {}] /\ seen' = [seen EXCEPT ![w] = {}]
  /\ UNCHANGED <<control, cache, parsed, kind, raw>>

-----------------------------------------------------------------------------
\* The process is restarted: the demand cache and the parsed selectors are
\* empty again, and batches under way are gone.
Restart ==
  /\ faults < MaxFaults /\ faults' = faults + 1
  /\ conn' = FALSE /\ downlink' = <<>> /\ uplink' = <<>>
  /\ demand' = NoDemand /\ routes' = NoDemand /\ applying' = NoDemand
  /\ parsed' = [c \in Caches |-> NoSelectors]
  /\ pc' = Idle("idle") /\ raw' = Idle({}) /\ out' = Idle({}) /\ seen' = Idle({})
  /\ UNCHANGED <<want, kind, changes>>

Agent == Connect \/ PingLoop \/ UpdateDemands \/ UpdateTraceRoutes

\* A worker's call up to the point where it passes its batch on.
Filter(w) ==
  \/ ConsumeMetrics(w) \/ ReadDemands(w)
  \/ ConsumeLogs(w)
  \/ ConsumeTraces(w) \/ ReadTraceDemands(w)
  \/ SelectMetrics(w) \/ SelectLogs(w) \/ SelectTraces(w) \/ ConsumeRouted(w)

Next ==
  \/ DemandChanges \/ ServerGetsPing \/ Agent
  \/ StreamEnds \/ Restart
  \/ \E w \in Workers : Filter(w) \/ Return(w)

Spec == Init /\ [][Next]_vars

-----------------------------------------------------------------------------
\* What a filter of the given signal keeps under one demand set.
Output(signal, id) ==
  CASE signal = "metric" ->
         IF List(id, "metricSelectors") # {}
         THEN Kept(List(id, "metricSelectors") \cap Parses, Series)
         ELSE NameMode(List(id, "metrics"))
    [] signal = "log" -> Kept(List(id, "logSelectors") \cap Parses, Resources)
    [] signal = "trace" ->
         IF TraceRoutesFromProto(id) # {}
         THEN Routed({r \in TraceRoutesFromProto(id) : r.selector \in Parses})
         ELSE Kept(List(id, "traceSelectors") \cap Parses, Resources) \X {NoRule}

\* What a set lets a filter of the signal keep, in either of its two modes.
Envelope(signal, id) ==
  Output(signal, id)
    \cup CASE signal = "metric" -> NameMode(List(id, "metrics"))
           [] signal = "log" -> {}
           [] signal = "trace" ->
                Kept(List(id, "traceSelectors") \cap Parses, Resources) \X {NoRule}

\* DemandedOnly.  What a filter passes on is demanded, by name at least, by a
\* set that was in force while it had the batch: no stale list, stale parse
\* or half-applied set lets through what no such set asks for, and nothing
\* passes before the first set (fail-closed).
DemandedOnly ==
  \A w \in Workers :
    pc[w] = "done" => out[w] \subseteq UNION {Envelope(kind[w], h) : h \in seen[w]}

\* OneSetPerBatch.  A batch is filtered by exactly one of the sets in force
\* while it was filtered: a log batch always, since ConsumeLogs reads the cache
\* once, and every batch during which the set in force did not change.  The
\* metric and the trace filter choose between selectors and names, or routes
\* and selectors, with one read of the cache and take the names or selectors
\* with another, so a change in between can make them mix two sets.
OneSetPerBatch ==
  \A w \in Workers :
    (pc[w] = "done" /\ (kind[w] = "log" \/ \E h \in seen[w] : seen[w] = {h})) =>
      \E h \in seen[w] : out[w] = Output(kind[w], h)

\* Converges.  When demand stops changing and the stream stops failing, the
\* agent ends up with one whole set, routes included, whose hash is that of the
\* wanted set: Hello and the echoed hash make up for pushes that were lost or
\* missed.  It is the wanted set as far as the hash tells.  If a set differs
\* from the one before only in lists the hash is not computed from, and its push
\* is missed, the old lists stay until the next change or reconnect.
Converges == <>[](routes = demand /\ SameHash(demand, want))

=============================================================================
