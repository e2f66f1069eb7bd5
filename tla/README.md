# Verification of leansignal-agent

TLA+ models of the concurrent parts of the LeanSignal agent, an OpenTelemetry
Collector distribution, with TLC runs on small instances and TLAPS proofs for
all instances. Every definition that models code is tied to its source lines in
`PROJECT.json` ("map").

## The system

The agent receives metrics, logs and traces, writes everything to co-located
stores, and forwards to the central stores only what the control plane demands.
One extension, the edge controller, keeps a gRPC stream to the control plane.

| Part | State | Operations | Hard behaviour |
|---|---|---|---|
| Index synchronisation (`edgecontroller`) | known cache, discovered cache, pending acks | receive a batch; send creates, deletes, updates; purge, delete, mark synced | receivers race the loop; loops overlap across reconnects; acks are late, lost or negative |
| Ring buffer (`known_timeseries_cache.go`) | hourly counts, head, hour | create, update, sweep | clock stands still, leaps, goes back |
| Demand distribution (`edgecontroller`) | four lists, hash, routes | apply a DemandSet, heartbeat, reconnect | pushes are lost or missed; a set is stored in two steps |
| Demand filters (metric, log, trace) | cache of parsed selectors | filter a batch | two reads of a set that changes in between |
| Trace router (`tracerouter`) | exporter queue | group by rule, push, retry, drop | one group of several fails |
| Ingest backoff (`ingestbackoff`) | paused, holdUntil | allow, observe | concurrent probes, late answers |
| Remote config (`config_manager.go`, `config_handler.go`) | config files, candidates, backups, configMu | stage, validate, back up, rename, sync, reply, restart | overlapping updates; kills, power losses, the restart timer |
| Config snapshot (`config_manager.go`) | none | read the config files | updates rename them meanwhile |
| Control stream (`extension.go`) | stream, writeMu, WaitGroup | dial, greet, ping, receive, send, shut down | sends that are stuck, streams replaced under a sender, shutdown at any point |
| Query tunnel (`query_handler.go`) | semaphore | run one query | the limit; answers after the stream was replaced |
| Metric path (tracker, metric filter, heartbeat, diagnosis) | known series, demand | index, filter, count, diagnose | separate accounts of one metric's series |
| Selectors (`selectormatch`) | none | parse, match | any text |
| Resolve provider (`resolveprovider`) | region looked up once | retrieve a key, look up, retry | control-center fails or the tenant moves |
| Install and upgrade scripts | installed files | install, upgrade | not modelled |

The parts interact as follows. The tracker broadcasts each metric batch to the
edge controller, whose processor loop reports series over the stream. The stream
brings demand sets, which the filters read from the demand cache for every
batch. The trace filter stamps resources with rules and hands them to the trace
router. Queries and config updates come over the stream too, and each is handled
by a goroutine of its own that answers over the stream. A config update ends the
process, and the supervisor starts it again: the config is loaded through the
resolve provider, and the caches are empty.

## Modules

| Module | Models | Correspondence |
|---|---|---|
| `IndexSync` | index synchronisation | `known`, `discovered`, `fresh` (synced within a minute) and `age` (hours since the last sample) are the caches. `recvAt` is a receiver's place in `ReceiveTimeseriesBatch`, one step per lock section. `pc` is a loop's place in `timeseriesProcessorLoop`. `cid` is its entry in `e.pending`. `wire`, `acks` and `index` are the stream and the control plane. |
| `HourWindow` | abstract specification of one cache entry | the samples of the last `HoursLog` hours |
| `RingBuffer` | `advanceRingBuffer` and its callers | `head`, `samples`, `lastHour` as in the code; refines `HourWindow` |
| `IngestBackoff` | `allow`, `observe`, `RoundTrip` | `holdUntil` is kept as the ticks left until it |
| `DemandFlow` | demand cache and filters | a set is named by an id, and its hash is computed from the lists in `Hashed`; `demand` and `routes` are the sets whose lists and whose routes are stored; `pc` is a worker's place in its Consume call |
| `TraceRouter` | `pushTraces` behind exporterhelper | `todo` holds the groups of the current attempt; any push may be answered with a permanent error |
| `DemandPath` | `DemandFlow` and `TraceRouter` composed | what the trace filter passes on is offered to the exporter; the ingest edge rejects rules that are not in the wanted set |
| `ConfigApply` | `handleUpdateConfig`, `Apply`, the restart | `disk` and `durable` are the files as read and as a power loss leaves them; `acked` is what was last reported as written and synced; `pc` is an update's place in Apply |
| `ConfigSnapshot` | `Snapshot` beside `ConfigApply` | `at` counts the files read, `snap` is what was read; `before` and `writes` are history |
| `ControlStream` | the stream and every goroutine that uses it | `pc` is each goroutine's place, `stream` is `e.stream`, `writer` holds writeMu, `wg` is the WaitGroup's counter, `via` is the stream a sender has read from `e.stream` |
| `QueryTunnel` | `handleQueryRequest` on `ControlStream` | `querySem` holds the handlers with a slot; the allow-lists are operators on path segments |
| `ResolveProvider` | the config provider | `once`, `attempt` and `vals` as in the code; an endpoint stands for the region it is derived from |
| `AgentProcess` | `ResolveProvider` and `QueryTunnel` composed | load, start, shutdown or kill, restart |
| `Selectors` | matchers | a regular expression is the set of values it accepts |
| `SeriesLabels` | `promnaming/labels.go`, Loki's stream labels, resource labels of traces | keys and values are sequences of tokens, so that normalising and joining really happen |
| `MetricPath` | tracker, filter, demanded count, diagnosis | `known`, `demands`, `selectors` as in the caches; `passed` is what the filter let through |
| `SelectorParser` | the selector parser | `s`, `pos`, `start` as in the code; bytes are chosen when they are first read |

`MC*` modules define the constants of the runs and `*Proofs` modules hold the
proofs. Operators commented "Mutant" are plausible bugs, each of which breaks
the property it is paired with in `PROJECT.json`.

Abstractions: series, selectors, rules, files and file contents are model values.
In `DemandFlow`, which is about concurrency, what a name or selector matches is a
constant function and a batch holds all series or resources; `MetricPath` and
`SeriesLabels` are about the matching itself and are sequential. Time is reduced
to hours (index, ring), to ticks (backoff), or left out. Messages carry only what
their component looks at: `ControlStream` has no contents, `IndexSync`,
`DemandFlow` and `ConfigApply` have the contents and a simple stream.

## Runs

Each takes at most two minutes.

| Run | Expect | Question |
|---|---|---|
| `IndexOverlap` | pass | Does every series get its first report, with two overlapping loops, a stream fault, a refusal and a restart? |
| `IndexLive` | pass | With two receivers and up to two faults, are discovered series created, silent ones deleted, and no indexed series forgotten? |
| `IndexHeals` | pass | Are active series refreshed, and resumed series indexed again? |
| `IndexLostDeleteAck` | violation | Is a resumed series indexed again when the ack of its delete was lost? |
| `RingBuffer` | pass | Is the ring the window it stands for, under any clock? |
| `Backoff` | pass | Are pauses quiet, and do pushes resume? |
| `DemandPath` | pass | Do the agent's lists converge as far as their hash tells, do the filters fail closed and use one set per batch, do spans arrive? |
| `ConfigApply` | pass | Is the config on disk always loadable, what was acknowledged and synced durable, a snapshot one config, every update answered, the restart effective? |
| `StreamSafe` | pass | Do queries, updates and loops share the stream without leaking slots, and is everything quiet after Shutdown? |
| `AgentLive` | pass | Does the agent come up, greet, answer and shut down, whatever control-center, the stream and kills do? |
| `MetricPath` | pass | Do tracker, filter, heartbeat and diagnosis agree on the series of a metric? |
| `SelectorParser` | pass | Does the parser accept exactly its grammar, within bounds? |

`IndexLostDeleteAck` shows the following. A delete is applied and its ack is
lost. Samples resume. The series is still known, so it is only refreshed. An
update carries no name or labels and creates nothing, so the series stays out of
the index.

### Limits of the code the properties state

Some properties have an exception, because without it they do not hold. Each
exception is exactly the case described.

- `FirstReport`: an ack with `Success = false` is only logged, so a refused
  create is purged although it was not created (`refused`).
- `IndexedUnlessRaced`: a receiver caught between `IsTimeseriesKnown` and
  `UpdateTimeseries` by a `DeleteBatch` makes a series known without reporting it.
- `NoGhost` holds with one loop only: a create prepared by a cancelled loop can
  follow the delete of the next one. `IndexLive` therefore has one loop.
- `OneSetPerBatch`: the metric and the trace filter read the demand cache twice.
  If the set changes in between they may mix two sets in that batch. The log
  filter reads once and is not excepted.
- `Converges`: an applied set that differs from the wanted one only in lists the
  hash is not computed from echoes the same hash. When its push was missed it is
  not pushed again until the next change or reconnect. With the three lists that
  `agent_control.proto` names, that is so for a rule that is deleted and created
  again with the same selector under another id, and for metric selectors that
  change while the names stay.
- `NoSilentLoss`: a 4xx other than 408 and 429, such as the 403 for a deleted
  rule, is a permanent error for the whole batch, so groups of other rules that
  were not yet pushed are dropped.
- `AckedIsDurable`: `commit` skips the sync when the directory cannot be opened,
  and ignores the error when it cannot be synced. Success is reported, and a power
  loss can undo that rename. What was synced before stays.
- `AnsweredUnlessEnded`: the restart comes 4 s after a successful update. Another
  update may then be queued or in validation, and it is never answered.
- `OneConfigSnapshot`: a snapshot overtaken by two updates can show the old
  version of one file and the new version of another that never went together.
- `Answered`: a query whose stream is replaced is answered on the new stream, or
  not at all while there is none.
- `NeverUndercounted`, `MissingIsNotForwarded`: a metric whose own name ends in
  `_bucket`, `_sum` or `_count` may be forwarded and not counted, or diagnosed as
  missing, when a member of its family is demanded. In the other direction
  nothing is claimed: the count includes series under the base name of a demanded
  component.
- `DemandedSeries` is about the names of a metric's family, not about the series
  that are written: a histogram without a sum passes when its `_sum` is demanded.
- `ComesUp` does not depend on the attempts within one load: a load that gives up
  ends the process, and the supervisor starts it again.

## Bounds

- Index: one series suffices for the races, which are per key. `IndexHeals` has
  two series so that creates, deletes and updates compete. `HoursLog = 2` (8 in
  the code) lets a series go silent. Three correlation ids suffice for two
  requests in transit and one new one; ids nowhere in use are reused.
- Ring: 4 slots and hours up to 10 give gaps below, at and above the ring size.
  `MaxCount` bounds the counts.
- Backoff: two workers compete for one probe, and an interval of 3 ticks lets
  answers come late within it.
- Demand: four sets (names only; selectors and routes; a rule deleted and a
  selector that does not parse; other routes and metric selectors under the same
  hash), one change, one fault. The hash is over the three lists of the protocol
  file, the weakest of the descriptions of it. One worker, whose signal
  is chosen at the start: batches follow each other but do not overlap, so races
  of two batches for one selector cache are outside this run and are covered by
  the proofs.
- Config: two files whose new versions do not go together, two updates, two
  faults, snapshots of both files at any time. Updates are finite, so the run
  ends and deadlock is not checked.
- Stream: two streams with goroutines left (the current one and one being torn
  down), two requests with one slot, so that one is refused; at most `MaxActive`
  goroutines beside the connection loop are busy at once, two in `StreamSafe` and
  one in `AgentLive`. `AgentLive` has one request and one slot, so the refusal at
  the limit happens in `StreamSafe` only, and in `AgentLive` one goroutine and the
  connection loop contend for writeMu. Ids of finished streams and requests are reused, so runs
  are unbounded in length. Three queries: one that is run (with the default
  target and method), one that is not allowed, one for a target without URL.
  `StreamSafe` ends when Shutdown has returned, so deadlock is not checked.
- Resolve: two regions between which the tenant may move, three attempts as in
  the code, and five environments: nothing pinned, one endpoint pinned, the region
  pinned and an unknown key, everything pinned without tenant, no tenant.
- Metric path: seven metrics of four types over three resources and three kinds
  of datapoints, chosen for overrides, empty values, keys that fall together when
  normalised and names with family suffixes; every demand of at most two of five
  names or eight selectors; at most two different metrics are seen.
- Parser: every text of up to seven bytes over 14 byte classes, and of up to
  seven more after a first complete matcher. That includes escapes and operators
  cut off at the end, trailing commas and a second matcher. The parser returns,
  so deadlock is not checked.

## Assumptions

- The control plane handles a stream's requests in order. It pushes the wanted
  set in answer to Hello, possibly on a change, and when a heartbeat echoes
  another hash.
- The hash of a demand set is computed by the control plane, from the lists in
  `Hashed`, a parameter, since the descriptions disagree: `agent_control.proto`
  and `architecture.md` name three lists, `demand_timeseries_cache.go` four, and
  none the routes. Sets that differ in these lists have different hashes.
- No exchange of the processor loop spans two changes of the hour.
- Exporter outages are shorter than the retry limit, and its queue holds one batch.
- A stream the peer has stopped reading blocks its senders until the stream or
  its context ends. A dial or a store call returns, by its timeout at the latest.
- The base name of a metric is an input: it comes from the exporter's own
  translator, a library. It is not empty (`PathAssumption`).
- Different series have different fingerprints and hashes.
- All config files are in one directory. Renames reach the disk in the order
  they were made, by themselves at any time or with a sync, and a power loss undoes
  those that have not. The supervisor restarts the process. The restart timer may fire at
  any time after the reply.

## Fairness

- Index: weak fairness of every receiver and loop step (runnable goroutines), of
  the stream and the control plane, and of the clock. None of new samples or faults.
- Backoff: exporters keep pushing, requests return (clients have timeouts), time
  passes. None of the edge's limit.
- Demand: weak fairness of the agent's loops, of the control plane's reading of
  heartbeats and of answered pushes. None of changes, faults or batches.
- Config: weak fairness of handlers, timer, exit and supervisor. Strong fairness
  of `Lock`, since Go's mutex hands over to waiters that would starve. None of
  snapshots.
- Stream: weak fairness of every goroutine's steps. Strong fairness of taking
  writeMu, as above, and of `recvLoop` noticing that its stream ended, which other
  messages can delay but not prevent.
- Process: weak fairness of loading, of the start, and of the exit once Shutdown
  has returned. None of the network, the control plane, control-center, kills or
  the call of Shutdown.

## Proofs

All are for any finite or infinite sets and any bounds that meet the modules'
named assumptions, which bound constants to naturals, ask for at least one slot or
stream, and keep model values apart. Three say more. `PathAssumption` types the base
names and resource attributes of metrics. `LabelsAssumption` says that the promoted
attributes, a list in the code, begin with a letter, consist of letters, digits,
dots and underscores, and stay apart when normalised.
`ParserAssumption` says that inputs are texts over the alphabet. TLC evaluates all
of them in the runs.

- `IndexSyncProofs`: `TypeCorrect` and `NeverUnreported` (`FirstReport`).
  `FirstReport` is not inductive: a purge relies on what the ack meant. `IInv`
  adds that a receiver's key is reported before it becomes known
  (`ReceiversReported`), that a request in transit under a loop's id is that
  loop's request (`RequestIsOwn`), and that an ack means its request was handled
  (`AckMeansHandled`). `NeverForgotten` (`NoGhost`) has hypotheses, each of which
  is needed: one loop, a backend that carries out the deletes it acknowledges, at
  least two hours of silence before a delete, and no restart so far (a restart
  forgets all). `GInv` says that series being received or reported have recent
  samples and are in no delete, that a loop with its ack has nothing left in
  transit, and that what is being created is known or about to be.
- `RingBufferProofs`: `RingImplementsWindow` (the refinement, from `TypeOK` and
  arithmetic lemmas on slots) and `SilentSeriesAreExact`. The latter's invariant
  says that the slot of the last sample is positive and all newer ones are zero.
- `IngestBackoffProofs`: `PausedIsQuiet` (`QuietPeriod`) and `PauseIsProbed`: once
  the interval is over, the next push is the probe. Both follow from one invariant:
  the hold is exactly what is left of the quiet period.
- `ConfigApplyProofs`: `ValidOnDisk` and `ConfigTypeCorrect` from `IInv`: only
  the holder of configMu is inside Apply, an update past validation is still
  valid with the files as they are now, staged content is a real version, and the
  durable files are valid. `AckedSurvives` and `CandidatesRemoved` from `DInv`,
  which adds where an update's content and candidate are at each place in Apply.
  `AckedSurvives` is about updates whose directory was synced; `commit` ignores a
  failure there. `ReportsAreTrue` is an action property of all updates: when
  success is reported the file has the update's content, in a config that is valid
  as a whole: no overlapping update comes between its rename and its report.
  From `OInv`: `NoOrphanedLock` (configMu is held only by an update being applied),
  and `NoConfigUnnoticed`: a process that is neither stopping nor
  about to be restarted runs what is on disk, but for files of updates that are
  still being answered or asked for no reload.
  `SnapshotIsOneConfig` carries all of these over to the specification with
  snapshots; `SInv` relates the files read so far to the configs before and after
  the one rename that may have come between.
- `DemandPathProofs`, on the composed specification: `OnlyDemandedPasses`
  (`DemandedOnly`), `OneSetFiltersABatch` (`OneSetPerBatch`), `NothingLostSilently`
  (`NoSilentLoss`) and `PathTypeCorrect`, for any number of workers. `FInv` says
  for each place in a Consume call which set each value held was read from, and
  that a cache of parsed selectors holds what its list parses to, so that workers
  with different lists cannot harm each other. The router's invariant says that
  what a batch has not yet delivered is still to do. `SetsAreWhole` says that no
  lost stream leaves a set half applied, and `OnlyAskedLands` goes from end to end:
  spans reach an org only if a demand set routed their resource to it.
- `AgentProcessProofs`, for any number of streams, requests and slots. On the
  control stream alone: `SlotsNeverLeak` (`SlotsHeld`), `WaitGroupIsExact`
  (`Counted`), `NothingAfterShutdown` (`QuietAfterShutdown`) and `NoLateAdd`
  (`AddsBeforeWait`). `TInv` is the type, the counter, and what each place of the
  connection loop says about the stream it owns (`ConnOK`, `NetOK`). The counter
  needs cardinality lemmas for a goroutine that joins or leaves. On the whole
  process, with loads, kills and restarts: `EveryLifeIsSafe` carries the same
  guarantees over, `SendsOneAtATime` says that the holder of writeMu is the only
  one that sends, `ShutdownIsNotHeldUp` that once rootCtx is cancelled every
  goroutine can go on or waits for writeMu behind one that can, and `ResolvesOnce` (`OneRegion`) and `PinnedNeverAsks`
  (`PinnedIsOffline`) are about the resolve provider. `VInv` adds that what was
  derived is the memoised region and that a lookup begins only for a key that is
  not pinned.
- `MetricPathProofs`: `OneLabelView` (a lookup in two maps is the lookup in the
  merged map), `FilterIsExact` (the index by name, the shortcut for selectors
  without label matchers and the split of the matchers lose and add nothing),
  `EitherFormOfDemand`, `ForwardedIsCounted` (`NeverUndercounted`), `MissingIsTrue`
  (`MissingIsNotForwarded`) and `OneDemandForAll` (`SignalsAgree`). Regular
  expressions are arbitrary sets of values. The invariant `PInv` says that what
  was tracked is known and that what was passed on was decided with the demand in
  force.
- `SelectorParserProofs`, for texts of any length: `AcceptsOnlySelectors`,
  `RejectsNoSelector` (`AllSelectors`), `NeverPastTheEnd` (`InBounds`), and
  `RejectsForGood`, which is stronger than the run's property: what was rejected
  is no selector whatever follows it. The first half shows that the grammar is
  unambiguous: at each place one token, one quoted value and one matcher can
  begin. The second half is the invariant `ParserInv`: for every text that begins
  with what was read, the matchers read so far begin every reading of it, and the
  place of the parser says where the next token of every reading lies (`Here`).
  The runs of backslashes before a quote are handled by a least counterexample
  (lemma `Least`), since induction theorems with an operator parameter are out of
  the prover's reach.

Type invariants are proved and no run repeats them: `TypeCorrect`,
`ConfigTypeCorrect`, `PathTypeCorrect`, `EveryLifeIsSafe`, and as parts of the
invariants of the other modules.

Every safety property of the runs is proved, `NoGhost` under its hypotheses. Only
model-checked is liveness, since the prover handles neither fairness nor ENABLED:
`DiscoveredIsCreated`, `SilentIsDeleted`, `ActiveIsRefreshed`,
`IndexedUnlessRaced`, `Resumes`, `Converges`, `SpansSettle`,
`AnsweredUnlessEnded`, `ReloadApplies`, `ShutdownReturns`, `Answered`, `Greets` and
`ComesUp`. Of some of them the safety half is proved, that is, that what is waited
for can come: `PauseIsProbed` of `Resumes`, `NoOrphanedLock` of
`AnsweredUnlessEnded`, `NoConfigUnnoticed` of `ReloadApplies`, and
`ShutdownIsNotHeldUp` of `ShutdownReturns`.

## Not modelled

- The receiver registry: a list under a lock with one member.
- `diagnostics.go` and `telemetry.go`: files and gauges written from snapshots of
  the caches, which nothing reads back. What is diagnosed is in `MetricPath`.
- The install and upgrade scripts: sequential shell scripts, run by an operator,
  around service managers and downloads.
- The protocol definitions and generated code, commands and build files.
- `BaseName` and hashing: library calls. Collisions are not considered.
- The end of a process by a signal while its config is being loaded, between two
  attempts of the resolve provider: the process ends and is started again as
  after any failure.
- Headers, bodies and sizes of queries and their answers.
