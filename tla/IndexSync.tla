------------------------------ MODULE IndexSync ------------------------------
(***************************************************************************)
(* How the edge controller keeps the control plane's series index in step  *)
(* with the series that flow through the agent.                            *)
(*                                                                         *)
(* Receivers (pipeline goroutines inside ReceiveTimeseriesBatch) fill two  *)
(* caches, each behind its own mutex: `known`, every series seen in the    *)
(* last HoursLog hours, and `discovered`, the series not yet reported.     *)
(* A processor loop, one per control stream, drains them: IndexCreate for  *)
(* discovered series, IndexDelete for silent ones, IndexUpdate for active  *)
(* ones, each sent with a correlation id and awaited.  A loop whose stream *)
(* has ended is cancelled but not waited for, so the loops of two streams  *)
(* can overlap.                                                            *)
(*                                                                         *)
(* A series' ring buffer is abstracted to the hours since its last sample  *)
(* (module RingBuffer shows that the sum of the ring is zero exactly when  *)
(* that is HoursLog or more), and LastBackendSync to whether it lies       *)
(* within the threshold (`fresh`).                                         *)
(***************************************************************************)
EXTENDS Naturals, Sequences, FiniteSets

CONSTANTS
  Series,               \* fingerprints
  NoSeries,             \* a receiver that handles no series
  Receivers,            \* concurrent callers of ReceiveTimeseriesBatch
  Loops,                \* processor loops that may exist at the same time
  HoursLog,             \* hours of silence after which a series is inactive
  DiscoveredBatchSize,
  KnownBatchSize,
  CorrIds,              \* correlation ids that can be in use at one time
  Rejects,              \* operations the backend may answer Success = false
  MaxWire,              \* bound: requests on the stream at one time
  MaxFaults,            \* bound: stream failures, send errors and timeouts
  MaxRestarts           \* bound: restarts of the agent process

Ops == {"create", "delete", "update"}

ASSUME ConstantsAssumption ==
  /\ NoSeries \notin Series
  /\ HoursLog \in Nat \ {0}
  /\ DiscoveredBatchSize \in Nat \ {0}
  /\ KnownBatchSize \in Nat \ {0}
  /\ CorrIds \subseteq Nat \ {0}
  /\ Rejects \subseteq Ops
  /\ MaxWire \in Nat
  /\ MaxFaults \in Nat
  /\ MaxRestarts \in Nat

VARIABLES
  known,        \* keys of KnownTimeseriesCache.data
  age,          \* hours since the last sample of a known series
  fresh,        \* known series whose LastBackendSync is within the threshold
  discovered,   \* keys of DiscoveredTimeseriesCache.data
  recvAt,       \* where each receiver is in ReceiveTimeseriesBatch
  recvKey,      \* the series it is handling
  conn,         \* e.stream # nil
  pc,           \* where each processor loop is
  live,         \* its context is not cancelled
  op,           \* the index operation it is performing
  batch,        \* the keys of that operation
  active,       \* activeItems still to be sent by processOneKnownBatch
  cid,          \* the correlation id it registered in e.pending
  wire,         \* requests sent and not yet handled by the backend
  acks,         \* acks sent and not yet received
  index,        \* the backend's index
  created,      \* history: series created since the agent process started
  refused,      \* history: series of a create answered Success = false since
  faults,       \* faults so far
  restarts,     \* restarts so far
  spanned       \* timing: threads whose current call began before this hour

cacheVars == <<known, age, fresh, discovered>>
recvVars  == <<recvAt, recvKey>>
loopVars  == <<pc, live, op, batch, active, cid>>
netVars   == <<conn, wire, acks>>
bounds    == <<faults, restarts>>
backVars  == <<index, created, refused>>
vars      == <<cacheVars, recvVars, loopVars, netVars, backVars, bounds, spanned>>

Requests == [id : CorrIds, op : Ops, keys : SUBSET Series]
Acks     == [id : CorrIds, ok : BOOLEAN]

CachesOK ==
  /\ known \subseteq Series
  /\ age \in [Series -> 0..HoursLog]
  /\ fresh \subseteq Series
  /\ discovered \subseteq Series

ReceiversOK ==
  /\ recvAt \in [Receivers -> {"idle", "isKnown", "notKnown", "added"}]
  /\ recvKey \in [Receivers -> Series \cup {NoSeries}]
  /\ \A r \in Receivers : recvAt[r] # "idle" => recvKey[r] \in Series

LoopsOK ==
  /\ pc \in [Loops -> {"exit", "top", "active", "inactive", "send",
                       "await", "acked", "between", "pause"}]
  /\ live \in [Loops -> BOOLEAN]
  /\ op \in [Loops -> Ops \cup {"none"}]
  /\ \A l \in Loops : pc[l] \in {"send", "await", "acked"} => op[l] \in Ops
  /\ batch \in [Loops -> SUBSET Series]
  /\ active \in [Loops -> SUBSET Series]
  /\ cid \in [Loops -> CorrIds \cup {0}]

StreamOK ==
  /\ conn \in BOOLEAN
  /\ wire \in Seq(Requests)
  /\ acks \in Seq(Acks)

BackendOK ==
  /\ index \subseteq Series
  /\ created \subseteq Series
  /\ refused \subseteq Series

BoundsOK ==
  /\ faults \in 0..MaxFaults
  /\ restarts \in 0..MaxRestarts
  /\ spanned \subseteq Receivers \cup Loops

TypeOK ==
  CachesOK /\ ReceiversOK /\ LoopsOK /\ StreamOK /\ BackendOK /\ BoundsOK

Init ==
  /\ known = {} /\ age = [k \in Series |-> 0] /\ fresh = {} /\ discovered = {}
  /\ recvAt = [r \in Receivers |-> "idle"]
  /\ recvKey = [r \in Receivers |-> NoSeries]
  /\ conn = FALSE /\ wire = <<>> /\ acks = <<>>
  /\ pc = [l \in Loops |-> "exit"]
  /\ live = [l \in Loops |-> FALSE]
  /\ op = [l \in Loops |-> "none"]
  /\ batch = [l \in Loops |-> {}]
  /\ active = [l \in Loops |-> {}]
  /\ cid = [l \in Loops |-> 0]
  /\ index = {} /\ created = {} /\ refused = {}
  /\ faults = 0 /\ restarts = 0 /\ spanned = {}

-----------------------------------------------------------------------------
(* ReceiveTimeseriesBatch, one series of the batch: three lock sections.    *)

IsTimeseriesKnown(r, k) ==
  /\ recvAt[r] = "idle"
  /\ recvAt' = [recvAt EXCEPT ![r] = IF k \in known THEN "isKnown" ELSE "notKnown"]
  /\ recvKey' = [recvKey EXCEPT ![r] = k]
  /\ UNCHANGED <<cacheVars, loopVars, netVars, backVars, bounds>>

AddDiscovered(r) ==
  /\ recvAt[r] = "notKnown"
  /\ discovered' = discovered \cup {recvKey[r]}
  /\ recvAt' = [recvAt EXCEPT ![r] = "added"]
  /\ UNCHANGED <<known, age, fresh, recvKey, loopVars, netVars, backVars, bounds>>

\* An entry that is missing here is created, whichever branch led here.
UpdateTimeseries(r) ==
  /\ recvAt[r] \in {"isKnown", "added"}
  /\ known' = known \cup {recvKey[r]}
  /\ age' = [age EXCEPT ![recvKey[r]] = 0]
  /\ recvAt' = [recvAt EXCEPT ![r] = "idle"]
  /\ recvKey' = [recvKey EXCEPT ![r] = NoSeries]
  /\ UNCHANGED <<fresh, discovered, loopVars, netVars, backVars, bounds>>

-----------------------------------------------------------------------------
(* The processor loop.                                                      *)

\* What a batch getter may return: map order decides which keys, the batch
\* size how many.
BatchesOf(S, n) ==
  {T \in SUBSET S : IF Cardinality(S) <= n THEN T = S ELSE Cardinality(T) = n}

\* Mutant: the sum of the ring is compared one hour too late.
InactiveLate == {k \in known : age[k] > HoursLog}

Inactive == {k \in known : age[k] = HoursLog}

GetDiscoveredBatch(l) ==
  /\ pc[l] = "top" /\ live[l]
  /\ \E T \in BatchesOf(discovered, DiscoveredBatchSize) :
       /\ batch' = [batch EXCEPT ![l] = T]
       /\ IF T = {}
            THEN pc' = [pc EXCEPT ![l] = "active"] /\ UNCHANGED op
            ELSE pc' = [pc EXCEPT ![l] = "send"] /\ op' = [op EXCEPT ![l] = "create"]
  /\ UNCHANGED <<cacheVars, recvVars, live, active, cid, netVars, backVars, bounds>>

GetActiveTimeseriesBatch(l) ==
  /\ pc[l] = "active"
  /\ \E T \in BatchesOf(known \ (fresh \cup Inactive), KnownBatchSize) :
       active' = [active EXCEPT ![l] = T]
  /\ pc' = [pc EXCEPT ![l] = "inactive"]
  /\ UNCHANGED <<cacheVars, recvVars, live, op, batch, cid, netVars, backVars, bounds>>

\* The rest of processOneKnownBatch with active[l] as activeItems: nothing to
\* do, or the deletes first, or the updates.
SendActive(l) ==
  /\ pc' = [pc EXCEPT ![l] = "send"]
  /\ op' = [op EXCEPT ![l] = "update"]
  /\ batch' = [batch EXCEPT ![l] = active[l]]
  /\ active' = [active EXCEPT ![l] = {}]

GetInactiveTimeseriesBatch(l) ==
  /\ pc[l] = "inactive"
  /\ \E T \in BatchesOf(Inactive, KnownBatchSize) :
       \/ /\ T # {}
          /\ pc' = [pc EXCEPT ![l] = "send"]
          /\ op' = [op EXCEPT ![l] = "delete"]
          /\ batch' = [batch EXCEPT ![l] = T]
          /\ UNCHANGED active
       \/ T = {} /\ active[l] # {} /\ SendActive(l)
       \/ /\ T = {} /\ active[l] = {}
          /\ pc' = [pc EXCEPT ![l] = "pause"]
          /\ UNCHANGED <<op, batch, active>>
  /\ UNCHANGED <<cacheVars, recvVars, live, cid, netVars, backVars, bounds>>

UsedIds ==
  {wire[i].id : i \in DOMAIN wire} \cup {acks[i].id : i \in DOMAIN acks}
    \cup {cid[l] : l \in Loops}

\* corrSeq never repeats an id; the model takes the smallest one that is
\* nowhere in use, which is as good as new.
NextCorrID(id) ==
  /\ id \notin UsedIds
  /\ \A j \in CorrIds : j < id => j \in UsedIds

\* Back from sendAndWaitAck: the deferred delete clears e.pending.
Finish(l, at) ==
  /\ pc' = [pc EXCEPT ![l] = at]
  /\ op' = [op EXCEPT ![l] = "none"]
  /\ batch' = [batch EXCEPT ![l] = {}]
  /\ cid' = [cid EXCEPT ![l] = 0]

\* With no stream the message is dropped and sendAgentMessage reports success.
SendAndWaitAck(l) ==
  /\ pc[l] = "send"
  /\ Len(wire) < MaxWire
  /\ \E id \in CorrIds :
       /\ NextCorrID(id)
       /\ cid' = [cid EXCEPT ![l] = id]
       /\ wire' = IF conn THEN Append(wire, [id |-> id, op |-> op[l], keys |-> batch[l]])
                          ELSE wire
  /\ pc' = [pc EXCEPT ![l] = "await"]
  /\ UNCHANGED <<cacheVars, recvVars, live, op, batch, active, conn, acks, backVars, bounds>>

\* Mutant: the batch is dropped from the known cache although Send failed.
SendFailsDropping(l) ==
  /\ pc[l] = "send" /\ conn
  /\ faults < MaxFaults /\ faults' = faults + 1
  /\ known' = known \ batch[l]
  /\ Finish(l, "pause")
  /\ active' = [active EXCEPT ![l] = {}]
  /\ UNCHANGED <<age, fresh, discovered, recvVars, live, netVars, backVars, restarts>>

SendFails(l) ==
  /\ pc[l] = "send" /\ conn
  /\ faults < MaxFaults /\ faults' = faults + 1
  /\ Finish(l, "pause")
  /\ active' = [active EXCEPT ![l] = {}]
  /\ UNCHANGED <<cacheVars, recvVars, live, netVars, backVars, restarts>>

\* Mutant: the batch is purged from the discovered cache before err is looked at.
AwaitFailsPurging(l) ==
  /\ pc[l] \in {"await", "acked"}
  /\ discovered' = discovered \ batch[l]
  /\ Finish(l, "pause")
  /\ active' = [active EXCEPT ![l] = {}]
  /\ UNCHANGED <<known, age, fresh, recvVars, live, netVars, backVars, restarts>>

\* The error return of sendAndWaitAck.  The select may take it even when the
\* ack is already in the channel.
AwaitFails(l) ==
  /\ pc[l] \in {"await", "acked"}
  /\ Finish(l, "pause")
  /\ active' = [active EXCEPT ![l] = {}]
  /\ UNCHANGED <<cacheVars, recvVars, live, netVars, backVars, restarts>>

AckTimesOut(l) ==
  /\ live[l] /\ AwaitFails(l)
  /\ faults < MaxFaults /\ faults' = faults + 1

ContextDone(l) == ~live[l] /\ AwaitFails(l) /\ UNCHANGED faults

\* Mutant: the acknowledged batch stays in the discovered cache.
PurgeBatchKeeping(l) ==
  /\ pc[l] = "acked" /\ op[l] = "create"
  /\ Finish(l, "pause")
  /\ UNCHANGED <<cacheVars, recvVars, live, active, netVars, backVars, bounds>>

PurgeBatch(l) ==
  /\ pc[l] = "acked" /\ op[l] = "create"
  /\ discovered' = discovered \ batch[l]
  /\ Finish(l, "pause")
  /\ UNCHANGED <<known, age, fresh, recvVars, live, active, netVars, backVars, bounds>>

\* Mutant: a key that has had a sample since it was selected is kept.
DeleteBatchKeepingActive(l) ==
  /\ pc[l] = "acked" /\ op[l] = "delete"
  /\ known' = known \ (batch[l] \cap Inactive)
  /\ fresh' = fresh \ (batch[l] \cap Inactive)
  /\ age' = [k \in Series |-> IF k \in batch[l] \cap Inactive THEN 0 ELSE age[k]]
  /\ Finish(l, IF active[l] = {} THEN "pause" ELSE "between")
  /\ UNCHANGED <<discovered, recvVars, live, active, netVars, backVars, bounds>>

\* The keys go, whatever samples have arrived since they were selected.
DeleteBatch(l) ==
  /\ pc[l] = "acked" /\ op[l] = "delete"
  /\ known' = known \ batch[l]
  /\ age' = [k \in Series |-> IF k \in batch[l] THEN 0 ELSE age[k]]
  /\ fresh' = fresh \ batch[l]
  /\ Finish(l, IF active[l] = {} THEN "pause" ELSE "between")
  /\ UNCHANGED <<discovered, recvVars, live, active, netVars, backVars, bounds>>

MarkSyncedBatch(l) ==
  /\ pc[l] = "acked" /\ op[l] = "update"
  /\ fresh' = fresh \cup (batch[l] \cap known)
  /\ Finish(l, "pause")
  /\ UNCHANGED <<known, age, discovered, recvVars, live, active, netVars, backVars, bounds>>

\* The pause between the deletes and the updates of one known batch.
Between(l) ==
  /\ pc[l] = "between"
  /\ SendActive(l)
  /\ UNCHANGED <<cacheVars, recvVars, live, cid, netVars, backVars, bounds>>

\* The pauses after a batch and after an error.
Pause(l) ==
  /\ pc[l] = "pause"
  /\ pc' = [pc EXCEPT ![l] = "top"]
  /\ UNCHANGED <<cacheVars, recvVars, live, op, batch, active, cid, netVars, backVars, bounds>>

\* Every select on the context at which a cancelled loop leaves.
LoopExit(l) ==
  /\ ~live[l] /\ pc[l] \in {"top", "between", "pause"}
  /\ pc' = [pc EXCEPT ![l] = "exit"]
  /\ active' = [active EXCEPT ![l] = {}]
  /\ UNCHANGED <<cacheVars, recvVars, live, op, batch, cid, netVars, backVars, bounds>>

-----------------------------------------------------------------------------
(* The stream.                                                              *)

\* recvLoop hands an ack to resolvePending: the waiter of that id gets it, an
\* ack nobody waits for any more is dropped.
ResolvePending ==
  /\ acks # <<>>
  /\ acks' = Tail(acks)
  /\ pc' = [l \in Loops |-> IF pc[l] = "await" /\ cid[l] = Head(acks).id
                              THEN "acked" ELSE pc[l]]
  /\ UNCHANGED <<cacheVars, recvVars, live, op, batch, active, cid, conn, wire, backVars, bounds>>

Connect(l) ==
  /\ ~conn /\ pc[l] = "exit"
  /\ conn' = TRUE
  /\ live' = [live EXCEPT ![l] = TRUE]
  /\ pc' = [pc EXCEPT ![l] = "top"]
  /\ UNCHANGED <<cacheVars, recvVars, op, batch, active, cid, wire, acks, backVars, bounds>>

\* recvLoop returns: the stream is dropped with all that is in transit, and
\* the contexts derived from it are cancelled.
StreamEnds ==
  /\ conn
  /\ faults < MaxFaults /\ faults' = faults + 1
  /\ conn' = FALSE /\ wire' = <<>> /\ acks' = <<>>
  /\ live' = [l \in Loops |-> FALSE]
  /\ UNCHANGED <<cacheVars, recvVars, pc, op, batch, active, cid, backVars, restarts>>

\* The process exits (a crash, or os.Exit after a config update) and a
\* supervisor starts it again: Start() finds empty caches.
Restart ==
  /\ restarts < MaxRestarts /\ restarts' = restarts + 1
  /\ known' = {} /\ age' = [k \in Series |-> 0] /\ fresh' = {} /\ discovered' = {}
  /\ recvAt' = [r \in Receivers |-> "idle"]
  /\ recvKey' = [r \in Receivers |-> NoSeries]
  /\ conn' = FALSE /\ wire' = <<>> /\ acks' = <<>>
  /\ pc' = [l \in Loops |-> "exit"]
  /\ live' = [l \in Loops |-> FALSE]
  /\ op' = [l \in Loops |-> "none"]
  /\ batch' = [l \in Loops |-> {}]
  /\ active' = [l \in Loops |-> {}]
  /\ cid' = [l \in Loops |-> 0]
  /\ created' = {} /\ refused' = {}
  /\ UNCHANGED <<index, faults>>

-----------------------------------------------------------------------------
(* The backend and the clock.                                               *)

\* The control plane handles the requests of a stream in order and answers
\* each one.  A refused request changes nothing; an update creates nothing,
\* since it carries neither name nor labels.
BackendHandles ==
  /\ wire # <<>>
  /\ LET m == Head(wire) IN
     \E ok \in IF m.op \in Rejects THEN BOOLEAN ELSE {TRUE} :
       /\ acks' = Append(acks, [id |-> m.id, ok |-> ok])
       /\ index' = CASE ok /\ m.op = "create" -> index \cup m.keys
                     [] ok /\ m.op = "delete" -> index \ m.keys
                     [] OTHER -> index
       /\ created' = IF ok /\ m.op = "create" THEN created \cup m.keys ELSE created
       /\ refused' = IF ~ok /\ m.op = "create" THEN refused \cup m.keys ELSE refused
  /\ wire' = Tail(wire)
  /\ UNCHANGED <<cacheVars, recvVars, loopVars, conn, bounds>>

\* No call outlasts an hour: a batch waits at most AckTimeout three times.  So
\* the hour may change during a call, but not twice.
Busy ==
  {r \in Receivers : recvAt[r] # "idle"}
    \cup {l \in Loops : pc[l] \notin {"exit", "top", "pause"}}

SameHour == spanned' = spanned \cap Busy'

HourPasses ==
  /\ spanned = {} /\ spanned' = Busy
  /\ age' = [k \in Series |-> IF k \in known /\ age[k] < HoursLog THEN age[k] + 1
                              ELSE age[k]]
  /\ UNCHANGED <<known, fresh, discovered, recvVars, loopVars, netVars, backVars, bounds>>

SyncExpires(k) ==
  /\ k \in fresh
  /\ fresh' = fresh \ {k}
  /\ UNCHANGED <<known, age, discovered, recvVars, loopVars, netVars, backVars, bounds>>

-----------------------------------------------------------------------------
ReceiverStep(r) == (AddDiscovered(r) \/ UpdateTimeseries(r)) /\ SameHour

LoopStep(l) ==
  /\ \/ GetDiscoveredBatch(l)
     \/ GetActiveTimeseriesBatch(l)
     \/ GetInactiveTimeseriesBatch(l)
     \/ SendAndWaitAck(l)
     \/ PurgeBatch(l)
     \/ DeleteBatch(l)
     \/ MarkSyncedBatch(l)
     \/ Between(l)
     \/ Pause(l)
     \/ LoopExit(l)
     \/ ContextDone(l)
  /\ SameHour

StreamStep ==
  /\ ResolvePending \/ \E l \in Loops : Connect(l)
  /\ SameHour

BackendStep == BackendHandles /\ SameHour

Fault ==
  /\ \/ StreamEnds
     \/ Restart
     \/ \E l \in Loops : SendFails(l) \/ AckTimesOut(l)
  /\ SameHour

Next ==
  \/ \E r \in Receivers, k \in Series : IsTimeseriesKnown(r, k) /\ SameHour
  \/ \E r \in Receivers : ReceiverStep(r)
  \/ \E l \in Loops : LoopStep(l)
  \/ StreamStep
  \/ BackendStep
  \/ Fault
  \/ HourPasses
  \/ \E k \in Series : SyncExpires(k) /\ SameHour

Spec == Init /\ [][Next]_vars

Fairness ==
  /\ \A r \in Receivers : WF_vars(ReceiverStep(r))
  /\ \A l \in Loops : WF_vars(LoopStep(l))
  /\ WF_vars(StreamStep)
  /\ WF_vars(BackendStep)
  /\ WF_vars(HourPasses)
  /\ \A k \in Series : WF_vars(SyncExpires(k) /\ SameHour)

FairSpec == Spec /\ Fairness

-----------------------------------------------------------------------------
\* FirstReport.  A series in the known cache is queued for an IndexCreate, or
\* the backend has created it since the process started, or it refused to:
\* timeouts, lost acks, stream failures, racing receivers and overlapping
\* loops never make processOneDiscoveredBatch purge an unreported series.
FirstReport == known \subseteq discovered \cup created \cup refused

\* NoGhost.  The backend holds no series the agent has forgotten: what is in
\* the index is known, or a receiver is about to make it known, so that a
\* later IndexDelete can remove it.
NoGhost == index \subseteq known \cup {recvKey[r] : r \in Receivers}

\* DiscoveredIsCreated.  Once faults stop, a discovered series is created.
DiscoveredIsCreated ==
  \A k \in Series : k \in discovered ~> k \in created

\* SilentIsDeleted.  A series that stays in the index keeps having samples:
\* processOneKnownBatch removes the ones that have gone silent.
SilentIsDeleted ==
  \A k \in Series : <>[](k \in index) => []<>(k \in known /\ age[k] < HoursLog)

\* ActiveIsRefreshed.  A known series that is due for a sync is synced, unless
\* it goes silent or is dropped first: the priority of creates and deletes does
\* not starve the IndexUpdates of a finite set of series.
ActiveIsRefreshed ==
  \A k \in Series :
    (k \in known /\ k \notin fresh) ~> (k \in fresh \/ k \notin known \/ age[k] = HoursLog)

\* ActiveIsIndexed.  A series that has samples gets into the index, and back
\* into it after an IndexDelete, or else it goes silent or leaves the cache.
ActiveIsIndexed ==
  \A k \in Series :
    (k \in known /\ age[k] < HoursLog) ~> (k \in index \/ k \notin known \/ age[k] = HoursLog)

\* A receiver has found a series known and has yet to update it, while a loop
\* is about to drop that series from the cache.
Racing ==
  \E r \in Receivers, l \in Loops :
    /\ recvAt[r] = "isKnown"
    /\ pc[l] = "acked" /\ op[l] = "delete" /\ recvKey[r] \in batch[l]

\* IndexedUnlessRaced.  ActiveIsIndexed, when no receiver is caught between
\* IsTimeseriesKnown and UpdateTimeseries by a DeleteBatch of its series.  A
\* sample that arrives while the delete is awaited is dropped with the entry,
\* and the next one reports the series again.
IndexedUnlessRaced == [](~Racing) => ActiveIsIndexed

=============================================================================
