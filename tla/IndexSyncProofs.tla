--------------------------- MODULE IndexSyncProofs ---------------------------
(***************************************************************************)
(* Type correctness of IndexSync and FirstReport, for any number of        *)
(* series, receivers, loops, faults and restarts.                          *)
(*                                                                         *)
(* FirstReport is not inductive: a purge keeps it only because the batch   *)
(* it drops has been handled by the backend, and the loop knows that only  *)
(* from an ack that carries its correlation id.  AckMeansHandled follows   *)
(* that id from the request, through the ack, to the loop.                 *)
(*                                                                         *)
(* NoGhost, for a single loop, needs three more facts: series that are     *)
(* being received or reported have recent samples and are in no delete     *)
(* (Recent), a loop that has its ack has nothing left in transit           *)
(* (AnsweredInOrder), and what is being created is known or about to be    *)
(* (CreatesCovered).                                                       *)
(***************************************************************************)
EXTENDS IndexSync, TLAPS

\* The series an IndexCreate has reached the backend for, with either answer.
Handled == created \cup refused

\* A receiver between its check and its update holds a reported series.
ReceiversReported ==
  \A r \in Receivers : recvAt[r] \in {"isKnown", "added"} =>
    recvKey[r] \in discovered \cup Handled

\* A request that carries the id a loop waits for is that loop's request.
RequestIsOwn ==
  \A i \in DOMAIN wire, l \in Loops :
    pc[l] = "await" /\ wire[i].id = cid[l] =>
      wire[i].op = op[l] /\ wire[i].keys = batch[l]

\* An ack that carries the id of a loop waiting for a create, or that such a
\* loop has received, means that the backend has handled the create.
AckMeansHandled ==
  /\ \A i \in DOMAIN acks, l \in Loops :
       pc[l] = "await" /\ acks[i].id = cid[l] /\ op[l] = "create" =>
         batch[l] \subseteq Handled
  /\ \A l \in Loops :
       pc[l] = "acked" /\ op[l] = "create" => batch[l] \subseteq Handled

IInv ==
  TypeOK /\ FirstReport /\ ReceiversReported /\ RequestIsOwn /\ AckMeansHandled

\* InitTypeOK.  The state Start() sets up is well typed.
LEMMA InitTypeOK == Init => TypeOK
<1> SUFFICES ASSUME Init PROVE TypeOK
  OBVIOUS
<1> USE ConstantsAssumption DEF ConstantsAssumption, Init
<1>1. CachesOK
  BY DEF CachesOK
<1>2. ReceiversOK
  BY DEF ReceiversOK
<1>3. LoopsOK
  BY DEF LoopsOK, Ops
<1>4. StreamOK
  <2>1. conn \in BOOLEAN
    BY Zenon
  <2>2. wire \in Seq(Requests) /\ acks \in Seq(Acks)
    OBVIOUS
  <2> QED
    BY <2>1, <2>2 DEF StreamOK
<1>5. BackendOK
  BY DEF BackendOK
<1>6. BoundsOK
  BY DEF BoundsOK
<1> QED
  BY <1>1, <1>2, <1>3, <1>4, <1>5, <1>6 DEF TypeOK

\* TypeStep.  Every operation of the receivers, the loops, the stream, the
\* backend and the clock keeps the state well typed.
LEMMA TypeStep == TypeOK /\ [Next]_vars => TypeOK'
<1> SUFFICES ASSUME TypeOK, [Next]_vars PROVE TypeOK'
  OBVIOUS
<1> USE ConstantsAssumption
        DEF ConstantsAssumption, TypeOK, cacheVars, recvVars, loopVars, netVars, backVars, bounds
<1>1. ASSUME NEW r \in Receivers, NEW k \in Series, IsTimeseriesKnown(r, k), SameHour PROVE TypeOK'
  BY <1>1 DEF IsTimeseriesKnown, CachesOK, ReceiversOK, LoopsOK, StreamOK, BackendOK, BoundsOK,
     SameHour
<1>2. ASSUME NEW r \in Receivers, AddDiscovered(r), SameHour PROVE TypeOK'
  BY <1>2 DEF AddDiscovered, CachesOK, ReceiversOK, LoopsOK, StreamOK, BackendOK, BoundsOK,
     SameHour
<1>3. ASSUME NEW r \in Receivers, UpdateTimeseries(r), SameHour PROVE TypeOK'
  BY <1>3 DEF UpdateTimeseries, CachesOK, ReceiversOK, LoopsOK, StreamOK, BackendOK, BoundsOK,
     SameHour
<1>4. ASSUME NEW l \in Loops, GetDiscoveredBatch(l), SameHour PROVE TypeOK'
  <2>1. PICK T \in BatchesOf(discovered, DiscoveredBatchSize) :
          /\ batch' = [batch EXCEPT ![l] = T]
          /\ \/ pc' = [pc EXCEPT ![l] = "active"] /\ UNCHANGED op
             \/ pc' = [pc EXCEPT ![l] = "send"] /\ op' = [op EXCEPT ![l] = "create"]
    BY <1>4, Zenon DEF GetDiscoveredBatch
  <2>2. T \in SUBSET Series
    BY DEF BatchesOf, CachesOK
  <2>3. LoopsOK'
    BY <1>4, <2>1, <2>2 DEF GetDiscoveredBatch, LoopsOK, Ops
  <2> QED
    BY <1>4, <2>3 DEF GetDiscoveredBatch, SameHour, CachesOK, ReceiversOK, StreamOK, BackendOK,
       BoundsOK
<1>5. ASSUME NEW l \in Loops, GetActiveTimeseriesBatch(l), SameHour PROVE TypeOK'
  BY <1>5 DEF GetActiveTimeseriesBatch, BatchesOf, Inactive, CachesOK, ReceiversOK, LoopsOK,
     StreamOK, BackendOK, BoundsOK, SameHour
<1>6. ASSUME NEW l \in Loops, GetInactiveTimeseriesBatch(l), SameHour PROVE TypeOK'
  <2>1. PICK T \in BatchesOf(Inactive, KnownBatchSize) :
          \/ /\ pc' = [pc EXCEPT ![l] = "send"]
             /\ op' = [op EXCEPT ![l] = "delete"]
             /\ batch' = [batch EXCEPT ![l] = T]
             /\ UNCHANGED active
          \/ SendActive(l)
          \/ /\ pc' = [pc EXCEPT ![l] = "pause"]
             /\ UNCHANGED <<op, batch, active>>
    BY <1>6 DEF GetInactiveTimeseriesBatch
  <2>2. T \in SUBSET Series
    BY DEF BatchesOf, Inactive, CachesOK
  <2>3. LoopsOK'
    BY <1>6, <2>1, <2>2 DEF GetInactiveTimeseriesBatch, SendActive, LoopsOK, Ops
  <2> QED
    BY <1>6, <2>3 DEF GetInactiveTimeseriesBatch, SameHour, CachesOK, ReceiversOK, StreamOK,
       BackendOK, BoundsOK
<1>7. ASSUME NEW l \in Loops, SendAndWaitAck(l), SameHour PROVE TypeOK'
  <2>1. PICK id \in CorrIds :
          /\ cid' = [cid EXCEPT ![l] = id]
          /\ wire' = IF conn THEN Append(wire, [id |-> id, op |-> op[l], keys |-> batch[l]])
                             ELSE wire
    BY <1>7, Zenon DEF SendAndWaitAck
  <2>2. [id |-> id, op |-> op[l], keys |-> batch[l]] \in Requests
    BY <1>7 DEF SendAndWaitAck, LoopsOK, Requests
  <2>3. wire' \in Seq(Requests)
    BY <2>1, <2>2 DEF StreamOK
  <2>4. LoopsOK'
    BY <1>7, <2>1 DEF SendAndWaitAck, LoopsOK
  <2> QED
    BY <1>7, <2>3, <2>4 DEF SendAndWaitAck, SameHour, CachesOK, ReceiversOK, StreamOK, BackendOK,
       BoundsOK
<1>8. ASSUME NEW l \in Loops, PurgeBatch(l), SameHour PROVE TypeOK'
  BY <1>8 DEF PurgeBatch, Finish, CachesOK, ReceiversOK, LoopsOK, StreamOK, BackendOK, BoundsOK,
     SameHour
<1>9. ASSUME NEW l \in Loops, DeleteBatch(l), SameHour PROVE TypeOK'
  BY <1>9 DEF DeleteBatch, Finish, CachesOK, ReceiversOK, LoopsOK, StreamOK, BackendOK, BoundsOK,
     SameHour
<1>10. ASSUME NEW l \in Loops, MarkSyncedBatch(l), SameHour PROVE TypeOK'
  BY <1>10 DEF MarkSyncedBatch, Finish, CachesOK, ReceiversOK, LoopsOK, StreamOK, BackendOK,
     BoundsOK, SameHour
<1>11. ASSUME NEW l \in Loops, Between(l), SameHour PROVE TypeOK'
  BY <1>11 DEF Between, SendActive, Ops, CachesOK, ReceiversOK, LoopsOK, StreamOK, BackendOK,
     BoundsOK, SameHour
<1>12. ASSUME NEW l \in Loops, Pause(l), SameHour PROVE TypeOK'
  BY <1>12 DEF Pause, CachesOK, ReceiversOK, LoopsOK, StreamOK, BackendOK, BoundsOK, SameHour
<1>13. ASSUME NEW l \in Loops, LoopExit(l), SameHour PROVE TypeOK'
  BY <1>13 DEF LoopExit, CachesOK, ReceiversOK, LoopsOK, StreamOK, BackendOK, BoundsOK, SameHour
<1>14. ASSUME NEW l \in Loops, ContextDone(l), SameHour PROVE TypeOK'
  BY <1>14 DEF ContextDone, AwaitFails, Finish, CachesOK, ReceiversOK, LoopsOK, StreamOK,
     BackendOK, BoundsOK, SameHour
<1>15. ASSUME NEW l \in Loops, SendFails(l), SameHour PROVE TypeOK'
  BY <1>15 DEF SendFails, Finish, CachesOK, ReceiversOK, LoopsOK, StreamOK, BackendOK, BoundsOK,
     SameHour
<1>16. ASSUME NEW l \in Loops, AckTimesOut(l), SameHour PROVE TypeOK'
  BY <1>16 DEF AckTimesOut, AwaitFails, Finish, CachesOK, ReceiversOK, LoopsOK, StreamOK,
     BackendOK, BoundsOK, SameHour
<1>17. ASSUME NEW l \in Loops, Connect(l), SameHour PROVE TypeOK'
  BY <1>17 DEF Connect, CachesOK, ReceiversOK, LoopsOK, StreamOK, BackendOK, BoundsOK, SameHour
<1>18. ASSUME ResolvePending, SameHour PROVE TypeOK'
  BY <1>18 DEF ResolvePending, Ops, CachesOK, ReceiversOK, LoopsOK, StreamOK, BackendOK,
     BoundsOK, SameHour
<1>19. ASSUME StreamEnds, SameHour PROVE TypeOK'
  <2>1. conn' \in BOOLEAN
    BY <1>19, Zenon DEF StreamEnds
  <2>2. wire' \in Seq(Requests) /\ acks' \in Seq(Acks)
    BY <1>19 DEF StreamEnds
  <2> QED
    BY <1>19, <2>1, <2>2 DEF StreamEnds, SameHour, CachesOK, ReceiversOK, LoopsOK, StreamOK,
       BackendOK, BoundsOK
<1>20. ASSUME Restart, SameHour PROVE TypeOK'
  <2>1. conn' \in BOOLEAN
    BY <1>20, Zenon DEF Restart
  <2>2. wire' \in Seq(Requests) /\ acks' \in Seq(Acks)
    BY <1>20 DEF Restart
  <2>3. CachesOK' /\ ReceiversOK'
    BY <1>20 DEF Restart, CachesOK, ReceiversOK
  <2>4. LoopsOK'
    BY <1>20 DEF Restart, LoopsOK, Ops
  <2> QED
    BY <1>20, <2>1, <2>2, <2>3, <2>4 DEF Restart, SameHour, StreamOK, BackendOK, BoundsOK
<1>21. ASSUME BackendHandles, SameHour PROVE TypeOK'
  <2> DEFINE m == Head(wire)
  <2>1. m \in Requests /\ Tail(wire) \in Seq(Requests)
    BY <1>21 DEF BackendHandles, StreamOK
  <2>2. PICK ok \in BOOLEAN : acks' = Append(acks, [id |-> m.id, ok |-> ok])
    BY <1>21, Zenon DEF BackendHandles
  <2>3. [id |-> m.id, ok |-> ok] \in Acks
    BY <2>1 DEF Requests, Acks
  <2>4. acks' \in Seq(Acks)
    BY <2>2, <2>3 DEF StreamOK
  <2>5. BackendOK'
    BY <1>21, <2>1 DEF BackendHandles, BackendOK, Requests
  <2> QED
    BY <1>21, <2>1, <2>4, <2>5 DEF BackendHandles, SameHour, CachesOK, ReceiversOK, LoopsOK,
       StreamOK, BoundsOK
<1>22. ASSUME HourPasses PROVE TypeOK'
  BY <1>22 DEF HourPasses, Busy, CachesOK, ReceiversOK, LoopsOK, StreamOK, BackendOK, BoundsOK
<1>23. ASSUME NEW k \in Series, SyncExpires(k), SameHour PROVE TypeOK'
  BY <1>23 DEF SyncExpires, CachesOK, ReceiversOK, LoopsOK, StreamOK, BackendOK, BoundsOK,
     SameHour
<1>24. ASSUME UNCHANGED vars PROVE TypeOK'
  BY <1>24 DEF vars, CachesOK, ReceiversOK, LoopsOK, StreamOK, BackendOK, BoundsOK
<1> QED
  BY <1>1, <1>2, <1>3, <1>4, <1>5, <1>6, <1>7, <1>8, <1>9, <1>10, <1>11, <1>12, <1>13, <1>14,
     <1>15, <1>16, <1>17, <1>18, <1>19, <1>20, <1>21, <1>22, <1>23, <1>24 DEF Next, ReceiverStep,
     LoopStep, StreamStep, BackendStep, Fault

\* TypeCorrect.  Every reachable state of the index synchronisation is well
\* typed: no counter leaves its bound, no loop is past its send without an
\* operation, and requests and acks keep their shape.
THEOREM TypeCorrect == Spec => []TypeOK
  BY InitTypeOK, TypeStep, PTL DEF Spec

\* InitIInv.  Nothing is known, sent or awaited when the process starts.
LEMMA InitIInv == Init => IInv
<1> SUFFICES ASSUME Init PROVE IInv
  OBVIOUS
<1>1. FirstReport /\ ReceiversReported
  BY DEF Init, FirstReport, ReceiversReported
<1>2. RequestIsOwn /\ AckMeansHandled
  BY DEF Init, RequestIsOwn, AckMeansHandled
<1> QED
  BY <1>1, <1>2, InitTypeOK DEF IInv

\* TailElements, AppendElements.  What the elements of a sequence are after its
\* head is taken and after one is appended.
LEMMA TailElements ==
  ASSUME NEW X, NEW s \in Seq(X), s # <<>>, NEW i \in DOMAIN Tail(s)
  PROVE  i + 1 \in DOMAIN s /\ Tail(s)[i] = s[i + 1]
  OBVIOUS

LEMMA AppendElements ==
  ASSUME NEW X, NEW s \in Seq(X), NEW e \in X, NEW i \in DOMAIN Append(s, e)
  PROVE  \/ i \in DOMAIN s /\ Append(s, e)[i] = s[i]
         \/ Append(s, e)[i] = e
  OBVIOUS

\* LoopMoves.  A step that takes one loop to a place where it awaits nothing
\* leaves requests and acks to the other loops.
LEMMA LoopMoves ==
  ASSUME TypeOK, RequestIsOwn, AckMeansHandled,
         NEW l \in Loops, NEW to, to \notin {"await", "acked"},
         pc' = [pc EXCEPT ![l] = to],
         \A k \in Loops \ {l} : op'[k] = op[k] /\ batch'[k] = batch[k] /\ cid'[k] = cid[k],
         UNCHANGED <<wire, acks, created, refused>>
  PROVE  RequestIsOwn' /\ AckMeansHandled'
<1>1. ASSUME NEW k \in Loops, pc'[k] \in {"await", "acked"}
      PROVE  /\ k # l /\ pc'[k] = pc[k] /\ op'[k] = op[k]
             /\ batch'[k] = batch[k] /\ cid'[k] = cid[k]
  BY <1>1 DEF TypeOK, LoopsOK
<1>2. RequestIsOwn'
  BY <1>1 DEF RequestIsOwn
<1>3. AckMeansHandled'
  BY <1>1 DEF AckMeansHandled, Handled
<1> QED
  BY <1>2, <1>3

\* LoopsKept.  A step that leaves the loops and the stream alone.
LEMMA LoopsKept ==
  ASSUME RequestIsOwn, AckMeansHandled,
         UNCHANGED <<loopVars, wire, acks, created, refused>>
  PROVE  RequestIsOwn' /\ AckMeansHandled'
<1> USE DEF loopVars
<1>1. RequestIsOwn'
  BY DEF RequestIsOwn
<1>2. AckMeansHandled'
  BY DEF AckMeansHandled, Handled
<1> QED
  BY <1>1, <1>2

\* ReportStep.  Every step keeps the invariant behind FirstReport.
LEMMA ReportStep == IInv /\ [Next]_vars => IInv'
<1> SUFFICES ASSUME IInv, [Next]_vars PROVE IInv'
  OBVIOUS
<1>t. TypeOK'
  BY TypeStep DEF IInv
<1> USE DEF IInv, Handled, cacheVars, recvVars, loopVars, netVars, backVars, bounds
<1>1. ASSUME NEW r \in Receivers, NEW k \in Series, IsTimeseriesKnown(r, k) PROVE IInv'
  <2>1. RequestIsOwn' /\ AckMeansHandled'
    BY <1>1, LoopsKept DEF IsTimeseriesKnown
  <2>2. FirstReport'
    BY <1>1 DEF IsTimeseriesKnown, FirstReport
  <2>3. ReceiversReported'
    BY <1>1 DEF IsTimeseriesKnown, TypeOK, ReceiversOK, FirstReport, ReceiversReported
  <2> QED
    BY <1>t, <2>1, <2>2, <2>3
<1>2. ASSUME NEW r \in Receivers, AddDiscovered(r) PROVE IInv'
  <2>1. RequestIsOwn' /\ AckMeansHandled'
    BY <1>2, LoopsKept DEF AddDiscovered
  <2>2. FirstReport'
    BY <1>2 DEF AddDiscovered, FirstReport
  <2>3. ReceiversReported'
    BY <1>2 DEF AddDiscovered, TypeOK, ReceiversOK, FirstReport, ReceiversReported
  <2> QED
    BY <1>t, <2>1, <2>2, <2>3
<1>3. ASSUME NEW r \in Receivers, UpdateTimeseries(r) PROVE IInv'
  <2>1. RequestIsOwn' /\ AckMeansHandled'
    BY <1>3, LoopsKept DEF UpdateTimeseries
  <2>2. FirstReport'
    BY <1>3 DEF UpdateTimeseries, FirstReport, ReceiversReported
  <2>3. ReceiversReported'
    BY <1>3 DEF UpdateTimeseries, TypeOK, ReceiversOK, FirstReport, ReceiversReported
  <2> QED
    BY <1>t, <2>1, <2>2, <2>3
<1>4. ASSUME NEW l \in Loops, GetDiscoveredBatch(l) PROVE IInv'
  <2>1. \E to \in {"active", "send"} : pc' = [pc EXCEPT ![l] = to]
    BY <1>4 DEF GetDiscoveredBatch
  <2>2. /\ UNCHANGED <<wire, acks, created, refused>>
        /\ \A k \in Loops \ {l} : op'[k] = op[k] /\ batch'[k] = batch[k] /\ cid'[k] = cid[k]
    BY <1>4 DEF GetDiscoveredBatch, TypeOK, LoopsOK
  <2>3. RequestIsOwn' /\ AckMeansHandled'
    BY <2>1, <2>2, LoopMoves, Zenon
  <2>4. FirstReport' /\ ReceiversReported'
    BY <1>4 DEF GetDiscoveredBatch, FirstReport, ReceiversReported
  <2> QED
    BY <1>t, <2>3, <2>4
<1>5. ASSUME NEW l \in Loops, GetActiveTimeseriesBatch(l) PROVE IInv'
  <2>1. \E to \in {"inactive"} : pc' = [pc EXCEPT ![l] = to]
    BY <1>5 DEF GetActiveTimeseriesBatch
  <2>2. /\ UNCHANGED <<wire, acks, created, refused>>
        /\ \A k \in Loops \ {l} : op'[k] = op[k] /\ batch'[k] = batch[k] /\ cid'[k] = cid[k]
    BY <1>5 DEF GetActiveTimeseriesBatch, TypeOK, LoopsOK
  <2>3. RequestIsOwn' /\ AckMeansHandled'
    BY <2>1, <2>2, LoopMoves, Zenon
  <2>4. FirstReport' /\ ReceiversReported'
    BY <1>5 DEF GetActiveTimeseriesBatch, FirstReport, ReceiversReported
  <2> QED
    BY <1>t, <2>3, <2>4
<1>6. ASSUME NEW l \in Loops, GetInactiveTimeseriesBatch(l) PROVE IInv'
  <2>1. \E to \in {"send", "pause"} : pc' = [pc EXCEPT ![l] = to]
    BY <1>6 DEF GetInactiveTimeseriesBatch, SendActive
  <2>2. /\ UNCHANGED <<wire, acks, created, refused>>
        /\ \A k \in Loops \ {l} : op'[k] = op[k] /\ batch'[k] = batch[k] /\ cid'[k] = cid[k]
    BY <1>6 DEF GetInactiveTimeseriesBatch, SendActive, TypeOK, LoopsOK
  <2>3. RequestIsOwn' /\ AckMeansHandled'
    BY <2>1, <2>2, LoopMoves, Zenon
  <2>4. FirstReport' /\ ReceiversReported'
    BY <1>6 DEF GetInactiveTimeseriesBatch, FirstReport, ReceiversReported
  <2> QED
    BY <1>t, <2>3, <2>4
<1>7. ASSUME NEW l \in Loops, SendAndWaitAck(l) PROVE IInv'
  <2>1. PICK id \in CorrIds :
          /\ id \notin UsedIds
          /\ cid' = [cid EXCEPT ![l] = id]
          /\ wire' = IF conn THEN Append(wire, [id |-> id, op |-> op[l], keys |-> batch[l]])
                             ELSE wire
    BY <1>7, Zenon DEF SendAndWaitAck, NextCorrID
  <2>2. FirstReport' /\ ReceiversReported'
    BY <1>7, Zenon DEF SendAndWaitAck, FirstReport, ReceiversReported
  <2>3. RequestIsOwn'
    <3> DEFINE m == [id |-> id, op |-> op[l], keys |-> batch[l]]
    <3>1. m \in Requests /\ wire \in Seq(Requests)
      BY <1>7 DEF SendAndWaitAck, TypeOK, LoopsOK, StreamOK, Requests
    <3>2. ASSUME NEW i \in DOMAIN wire', NEW k \in Loops, pc'[k] = "await", wire'[i].id = cid'[k]
          PROVE  wire'[i].op = op'[k] /\ wire'[i].keys = batch'[k]
      <4>1. (i \in DOMAIN wire /\ wire'[i] = wire[i]) \/ wire'[i] = m
        <5>1. CASE wire' = wire
          BY <5>1, Zenon
        <5>2. CASE wire' = Append(wire, m)
          BY <3>1, <5>2, AppendElements
        <5> QED
          BY <2>1, <5>1, <5>2, Zenon
      <4>2. CASE i \in DOMAIN wire /\ wire'[i] = wire[i]
        <5>1. wire[i].id # id
          BY <2>1, <4>2 DEF UsedIds
        <5>2. k # l
          BY <2>1, <3>2, <4>2, <5>1 DEF TypeOK, LoopsOK
        <5>3. pc'[k] = pc[k] /\ cid'[k] = cid[k] /\ op' = op /\ batch' = batch
          BY <1>7, <2>1, <5>2 DEF SendAndWaitAck, TypeOK, LoopsOK
        <5>4. pc[k] = "await" /\ wire[i].id = cid[k]
          BY <3>2, <4>2, <5>3
        <5> QED
          BY <4>2, <5>3, <5>4 DEF RequestIsOwn
      <4>3. CASE wire'[i] = m
        <5>1. cid'[k] = id
          BY <3>2, <4>3
        <5>2. k = l
          BY <2>1, <5>1 DEF UsedIds, TypeOK, LoopsOK
        <5> QED
          BY <1>7, <4>3, <5>2 DEF SendAndWaitAck
      <4> QED
        BY <4>1, <4>2, <4>3
    <3> QED
      BY <3>2 DEF RequestIsOwn
  <2>4. AckMeansHandled'
    <3>1. \A i \in DOMAIN acks : acks[i].id # id
      BY <2>1 DEF UsedIds
    <3> QED
      BY <1>7, <2>1, <3>1 DEF SendAndWaitAck, AckMeansHandled, TypeOK, LoopsOK
  <2> QED
    BY <1>t, <2>2, <2>3, <2>4
<1>8. ASSUME NEW l \in Loops, PurgeBatch(l) PROVE IInv'
  <2>1. \E to \in {"pause"} : pc' = [pc EXCEPT ![l] = to]
    BY <1>8 DEF PurgeBatch, Finish
  <2>2. /\ UNCHANGED <<wire, acks, created, refused>>
        /\ \A k \in Loops \ {l} : op'[k] = op[k] /\ batch'[k] = batch[k] /\ cid'[k] = cid[k]
    BY <1>8 DEF PurgeBatch, Finish, TypeOK, LoopsOK
  <2>3. RequestIsOwn' /\ AckMeansHandled'
    BY <2>1, <2>2, LoopMoves, Zenon
  <2>4. FirstReport' /\ ReceiversReported'
    BY <1>8 DEF PurgeBatch, FirstReport, ReceiversReported, AckMeansHandled
  <2> QED
    BY <1>t, <2>3, <2>4
<1>9. ASSUME NEW l \in Loops, DeleteBatch(l) PROVE IInv'
  <2>1. \E to \in {"pause", "between"} : pc' = [pc EXCEPT ![l] = to]
    BY <1>9, Zenon DEF DeleteBatch, Finish
  <2>2. /\ UNCHANGED <<wire, acks, created, refused>>
        /\ \A k \in Loops \ {l} : op'[k] = op[k] /\ batch'[k] = batch[k] /\ cid'[k] = cid[k]
    BY <1>9 DEF DeleteBatch, Finish, TypeOK, LoopsOK
  <2>3. RequestIsOwn' /\ AckMeansHandled'
    BY <2>1, <2>2, LoopMoves, Zenon
  <2>4. FirstReport' /\ ReceiversReported'
    BY <1>9 DEF DeleteBatch, FirstReport, ReceiversReported
  <2> QED
    BY <1>t, <2>3, <2>4
<1>10. ASSUME NEW l \in Loops, MarkSyncedBatch(l) PROVE IInv'
  <2>1. \E to \in {"pause"} : pc' = [pc EXCEPT ![l] = to]
    BY <1>10 DEF MarkSyncedBatch, Finish
  <2>2. /\ UNCHANGED <<wire, acks, created, refused>>
        /\ \A k \in Loops \ {l} : op'[k] = op[k] /\ batch'[k] = batch[k] /\ cid'[k] = cid[k]
    BY <1>10 DEF MarkSyncedBatch, Finish, TypeOK, LoopsOK
  <2>3. RequestIsOwn' /\ AckMeansHandled'
    BY <2>1, <2>2, LoopMoves, Zenon
  <2>4. FirstReport' /\ ReceiversReported'
    BY <1>10 DEF MarkSyncedBatch, FirstReport, ReceiversReported
  <2> QED
    BY <1>t, <2>3, <2>4
<1>11. ASSUME NEW l \in Loops, Between(l) PROVE IInv'
  <2>1. \E to \in {"send"} : pc' = [pc EXCEPT ![l] = to]
    BY <1>11 DEF Between, SendActive
  <2>2. /\ UNCHANGED <<wire, acks, created, refused>>
        /\ \A k \in Loops \ {l} : op'[k] = op[k] /\ batch'[k] = batch[k] /\ cid'[k] = cid[k]
    BY <1>11 DEF Between, SendActive, TypeOK, LoopsOK
  <2>3. RequestIsOwn' /\ AckMeansHandled'
    BY <2>1, <2>2, LoopMoves, Zenon
  <2>4. FirstReport' /\ ReceiversReported'
    BY <1>11 DEF Between, FirstReport, ReceiversReported
  <2> QED
    BY <1>t, <2>3, <2>4
<1>12. ASSUME NEW l \in Loops, Pause(l) PROVE IInv'
  <2>1. \E to \in {"top"} : pc' = [pc EXCEPT ![l] = to]
    BY <1>12 DEF Pause
  <2>2. /\ UNCHANGED <<wire, acks, created, refused>>
        /\ \A k \in Loops \ {l} : op'[k] = op[k] /\ batch'[k] = batch[k] /\ cid'[k] = cid[k]
    BY <1>12 DEF Pause, TypeOK, LoopsOK
  <2>3. RequestIsOwn' /\ AckMeansHandled'
    BY <2>1, <2>2, LoopMoves, Zenon
  <2>4. FirstReport' /\ ReceiversReported'
    BY <1>12 DEF Pause, FirstReport, ReceiversReported
  <2> QED
    BY <1>t, <2>3, <2>4
<1>13. ASSUME NEW l \in Loops, LoopExit(l) PROVE IInv'
  <2>1. \E to \in {"exit"} : pc' = [pc EXCEPT ![l] = to]
    BY <1>13 DEF LoopExit
  <2>2. /\ UNCHANGED <<wire, acks, created, refused>>
        /\ \A k \in Loops \ {l} : op'[k] = op[k] /\ batch'[k] = batch[k] /\ cid'[k] = cid[k]
    BY <1>13 DEF LoopExit, TypeOK, LoopsOK
  <2>3. RequestIsOwn' /\ AckMeansHandled'
    BY <2>1, <2>2, LoopMoves, Zenon
  <2>4. FirstReport' /\ ReceiversReported'
    BY <1>13 DEF LoopExit, FirstReport, ReceiversReported
  <2> QED
    BY <1>t, <2>3, <2>4
<1>14. ASSUME NEW l \in Loops, ContextDone(l) PROVE IInv'
  <2>1. \E to \in {"pause"} : pc' = [pc EXCEPT ![l] = to]
    BY <1>14 DEF ContextDone, AwaitFails, Finish
  <2>2. /\ UNCHANGED <<wire, acks, created, refused>>
        /\ \A k \in Loops \ {l} : op'[k] = op[k] /\ batch'[k] = batch[k] /\ cid'[k] = cid[k]
    BY <1>14 DEF ContextDone, AwaitFails, Finish, TypeOK, LoopsOK
  <2>3. RequestIsOwn' /\ AckMeansHandled'
    BY <2>1, <2>2, LoopMoves, Zenon
  <2>4. FirstReport' /\ ReceiversReported'
    BY <1>14 DEF ContextDone, AwaitFails, FirstReport, ReceiversReported
  <2> QED
    BY <1>t, <2>3, <2>4
<1>15. ASSUME NEW l \in Loops, SendFails(l) PROVE IInv'
  <2>1. \E to \in {"pause"} : pc' = [pc EXCEPT ![l] = to]
    BY <1>15 DEF SendFails, Finish
  <2>2. /\ UNCHANGED <<wire, acks, created, refused>>
        /\ \A k \in Loops \ {l} : op'[k] = op[k] /\ batch'[k] = batch[k] /\ cid'[k] = cid[k]
    BY <1>15 DEF SendFails, Finish, TypeOK, LoopsOK
  <2>3. RequestIsOwn' /\ AckMeansHandled'
    BY <2>1, <2>2, LoopMoves, Zenon
  <2>4. FirstReport' /\ ReceiversReported'
    BY <1>15 DEF SendFails, FirstReport, ReceiversReported
  <2> QED
    BY <1>t, <2>3, <2>4
<1>16. ASSUME NEW l \in Loops, AckTimesOut(l) PROVE IInv'
  <2>1. \E to \in {"pause"} : pc' = [pc EXCEPT ![l] = to]
    BY <1>16 DEF AckTimesOut, AwaitFails, Finish
  <2>2. /\ UNCHANGED <<wire, acks, created, refused>>
        /\ \A k \in Loops \ {l} : op'[k] = op[k] /\ batch'[k] = batch[k] /\ cid'[k] = cid[k]
    BY <1>16 DEF AckTimesOut, AwaitFails, Finish, TypeOK, LoopsOK
  <2>3. RequestIsOwn' /\ AckMeansHandled'
    BY <2>1, <2>2, LoopMoves, Zenon
  <2>4. FirstReport' /\ ReceiversReported'
    BY <1>16 DEF AckTimesOut, AwaitFails, FirstReport, ReceiversReported
  <2> QED
    BY <1>t, <2>3, <2>4
<1>17. ASSUME NEW l \in Loops, Connect(l) PROVE IInv'
  <2>1. \E to \in {"top"} : pc' = [pc EXCEPT ![l] = to]
    BY <1>17 DEF Connect
  <2>2. /\ UNCHANGED <<wire, acks, created, refused>>
        /\ \A k \in Loops \ {l} : op'[k] = op[k] /\ batch'[k] = batch[k] /\ cid'[k] = cid[k]
    BY <1>17 DEF Connect, TypeOK, LoopsOK
  <2>3. RequestIsOwn' /\ AckMeansHandled'
    BY <2>1, <2>2, LoopMoves, Zenon
  <2>4. FirstReport' /\ ReceiversReported'
    BY <1>17 DEF Connect, FirstReport, ReceiversReported
  <2> QED
    BY <1>t, <2>3, <2>4
<1>18. ASSUME ResolvePending PROVE IInv'
  <2>1. FirstReport' /\ ReceiversReported' /\ RequestIsOwn'
    BY <1>18 DEF ResolvePending, FirstReport, ReceiversReported, RequestIsOwn
  <2>2. acks \in Seq(Acks) /\ acks # <<>> /\ acks' = Tail(acks)
    BY <1>18 DEF ResolvePending, TypeOK, StreamOK
  <2>3. 1 \in DOMAIN acks /\ Head(acks) = acks[1]
    BY <2>2
  <2>4. \A i \in DOMAIN acks' : i + 1 \in DOMAIN acks /\ acks'[i] = acks[i + 1]
    BY <2>2, TailElements
  <2>5. AckMeansHandled'
    BY <1>18, <2>3, <2>4 DEF ResolvePending, AckMeansHandled
  <2> QED
    BY <1>t, <2>1, <2>5
<1>19. ASSUME StreamEnds PROVE IInv'
  <2>1. FirstReport' /\ ReceiversReported'
    BY <1>19 DEF StreamEnds, FirstReport, ReceiversReported
  <2>2. RequestIsOwn'
    BY <1>19 DEF StreamEnds, RequestIsOwn
  <2>3. AckMeansHandled'
    BY <1>19 DEF StreamEnds, AckMeansHandled
  <2> QED
    BY <1>t, <2>1, <2>2, <2>3
<1>20. ASSUME Restart PROVE IInv'
  <2>1. FirstReport' /\ ReceiversReported'
    BY <1>20 DEF Restart, FirstReport, ReceiversReported
  <2>2. RequestIsOwn'
    BY <1>20 DEF Restart, RequestIsOwn
  <2>3. AckMeansHandled'
    BY <1>20 DEF Restart, AckMeansHandled
  <2> QED
    BY <1>t, <2>1, <2>2, <2>3
<1>21. ASSUME BackendHandles PROVE IInv'
  <2> DEFINE m == Head(wire)
  <2>1. wire \in Seq(Requests) /\ wire # <<>> /\ wire' = Tail(wire) /\ acks \in Seq(Acks)
    BY <1>21 DEF BackendHandles, TypeOK, StreamOK
  <2>2. m \in Requests /\ 1 \in DOMAIN wire /\ m = wire[1]
    BY <2>1
  <2>3. PICK ok \in BOOLEAN : acks' = Append(acks, [id |-> m.id, ok |-> ok])
    BY <1>21, Zenon DEF BackendHandles
  <2>4. /\ Handled \subseteq Handled'
        /\ m.op = "create" => m.keys \subseteq Handled'
    BY <1>21 DEF BackendHandles
  <2>5. FirstReport' /\ ReceiversReported'
    BY <1>21, <2>4 DEF BackendHandles, FirstReport, ReceiversReported
  <2>6. \A i \in DOMAIN wire' : i + 1 \in DOMAIN wire /\ wire'[i] = wire[i + 1]
    BY <2>1, TailElements
  <2>7. RequestIsOwn'
    BY <1>21, <2>6 DEF BackendHandles, RequestIsOwn
  <2>8. ASSUME NEW i \in DOMAIN acks', NEW l \in Loops,
               pc[l] = "await", acks'[i].id = cid[l], op[l] = "create"
        PROVE  batch[l] \subseteq Handled'
    <3> DEFINE a == [id |-> m.id, ok |-> ok]
    <3>1. a \in Acks
      BY <2>2 DEF Requests, Acks
    <3>2. (i \in DOMAIN acks /\ acks'[i] = acks[i]) \/ acks'[i] = a
      BY <2>1, <2>3, <3>1, AppendElements
    <3>3. CASE i \in DOMAIN acks /\ acks'[i] = acks[i]
      BY <2>4, <2>8, <3>3 DEF AckMeansHandled
    <3>4. CASE acks'[i] = a
      BY <2>2, <2>4, <2>8, <3>4 DEF RequestIsOwn
    <3> QED
      BY <3>2, <3>3, <3>4
  <2>9. AckMeansHandled'
    BY <1>21, <2>4, <2>8 DEF BackendHandles, AckMeansHandled
  <2> QED
    BY <1>t, <2>5, <2>7, <2>9
<1>22. ASSUME HourPasses PROVE IInv'
  <2>1. FirstReport' /\ ReceiversReported'
    BY <1>22 DEF HourPasses, FirstReport, ReceiversReported
  <2>2. RequestIsOwn'
    BY <1>22 DEF HourPasses, RequestIsOwn
  <2>3. AckMeansHandled'
    BY <1>22 DEF HourPasses, AckMeansHandled
  <2> QED
    BY <1>t, <2>1, <2>2, <2>3
<1>23. ASSUME NEW k \in Series, SyncExpires(k) PROVE IInv'
  <2>1. FirstReport' /\ ReceiversReported'
    BY <1>23 DEF SyncExpires, FirstReport, ReceiversReported
  <2>2. RequestIsOwn'
    BY <1>23 DEF SyncExpires, RequestIsOwn
  <2>3. AckMeansHandled'
    BY <1>23 DEF SyncExpires, AckMeansHandled
  <2> QED
    BY <1>t, <2>1, <2>2, <2>3
<1>24. ASSUME UNCHANGED vars PROVE IInv'
  <2>1. FirstReport' /\ ReceiversReported'
    BY <1>24 DEF vars, FirstReport, ReceiversReported
  <2>2. RequestIsOwn'
    BY <1>24 DEF vars, RequestIsOwn
  <2>3. AckMeansHandled'
    BY <1>24 DEF vars, AckMeansHandled
  <2> QED
    BY <1>t, <2>1, <2>2, <2>3
<1> QED
  BY <1>1, <1>2, <1>3, <1>4, <1>5, <1>6, <1>7, <1>8, <1>9, <1>10, <1>11, <1>12, <1>13, <1>14,
     <1>15, <1>16, <1>17, <1>18, <1>19, <1>20, <1>21, <1>22, <1>23, <1>24
     DEF Next, ReceiverStep, LoopStep, StreamStep, BackendStep, Fault

\* NeverUnreported.  A known series is queued for its IndexCreate, or the backend
\* has had that IndexCreate: no timeout, failed send, lost ack, reconnect,
\* restart or race of receivers and loops loses the first report of a series.
THEOREM NeverUnreported == Spec => []FirstReport
<1>1. IInv => FirstReport
  BY DEF IInv
<1> QED
  BY <1>1, InitIInv, ReportStep, PTL DEF Spec

-----------------------------------------------------------------------------
(* NoGhost, in the first life of the process, with one loop and a backend   *)
(* that does not refuse deletes.  A delete is safe because nothing it drops *)
(* is about to be created.  Three arguments carry that: no series is queued *)
(* or about to be queued when it is selected for a delete, since whoever    *)
(* queued it began its call at most an hour ago; the stream is in order, so *)
(* the ack of a delete comes after all that was sent before; and what is    *)
(* sent, queued or in the index is known or in the hands of a receiver.     *)

OneLoop == \A l, k \in Loops : l = k

\* A receiver that has not found its series in the known cache.
Unsure(r) == recvAt[r] \in {"notKnown", "added"}

\* A sample of k came no earlier than the hour in which thread t began its call.
Within(k, t) == age[k] = 0 \/ (age[k] = 1 /\ t \in spanned)

IdleIsFree == \A r \in Receivers : recvAt[r] = "idle" => recvKey[r] = NoSeries

CheckIsRecent ==
  \A r \in Receivers : Unsure(r) /\ recvKey[r] \in known => Within(recvKey[r], r)

Queuer(k) == \E r \in Receivers : r \in spanned /\ recvAt[r] = "added" /\ recvKey[r] = k

QueueIsRecent ==
  \A l \in Loops : pc[l] \in {"active", "inactive"} =>
    \A k \in discovered \cap known : Within(k, l) \/ (age[k] = 1 /\ Queuer(k))

Deleting(l) == pc[l] \in {"send", "await", "acked"} /\ op[l] = "delete"

DeletesSilent ==
  \A l \in Loops : Deleting(l) =>
    /\ batch[l] \subseteq known
    /\ batch[l] \cap discovered = {}
    /\ \A r \in Receivers : Unsure(r) => recvKey[r] \notin batch[l]

Recent == IdleIsFree /\ CheckIsRecent /\ QueueIsRecent /\ DeletesSilent

\* Nothing follows the request of this loop, and its delete is done.
Gone(l) == wire = <<>> /\ (op[l] = "delete" => batch[l] \cap index = {})

AnsweredInOrder ==
  /\ ~conn => wire = <<>>
  /\ \A l \in Loops : pc[l] = "await" =>
       /\ \A i \in DOMAIN wire : wire[i].id = cid[l] => i = Len(wire)
       /\ \A i \in DOMAIN acks : acks[i].id = cid[l] => Gone(l)
  /\ \A l \in Loops : pc[l] = "acked" => Gone(l)

Covered == known \cup {recvKey[r] : r \in Receivers}

CreatesCovered ==
  /\ index \cup discovered \subseteq Covered
  /\ \A i \in DOMAIN wire : wire[i].op = "create" => wire[i].keys \subseteq Covered
  /\ \A l \in Loops :
       pc[l] \in {"send", "await"} /\ op[l] = "create" => batch[l] \subseteq Covered

\* RecentFrame.  A step of a loop that adds nothing to the caches, leaves the
\* receivers alone and neither starts on the known batch nor on a delete.
LEMMA RecentFrame ==
  ASSUME Recent,
         UNCHANGED <<known, age, recvAt, recvKey>>, discovered' \subseteq discovered,
         spanned \cap Busy' \subseteq spanned',
         \A l \in Loops :
           /\ pc'[l] \in {"active", "inactive"} => pc[l] \in {"active", "inactive"}
           /\ Deleting(l)' => Deleting(l) /\ batch'[l] = batch[l]
  PROVE  Recent'
<1>1. IdleIsFree'
  BY DEF Recent, IdleIsFree
<1>2. \A r \in Receivers : r \in spanned /\ recvAt[r] # "idle" => r \in spanned'
  BY DEF Busy
<1>3. \A l \in Loops : l \in spanned /\ pc'[l] \in {"active", "inactive"} => l \in spanned'
  BY DEF Busy
<1>4. CheckIsRecent'
  BY <1>2 DEF Recent, CheckIsRecent, Unsure, Within
<1>5. \A k : Queuer(k) => Queuer(k)'
  BY <1>2 DEF Queuer
<1>6. QueueIsRecent'
  BY <1>3, <1>5, ZenonT(40) DEF Recent, QueueIsRecent, Within
<1>7. DeletesSilent'
  BY Zenon DEF Recent, DeletesSilent, Unsure
<1> QED
  BY <1>1, <1>4, <1>6, <1>7 DEF Recent

\* NoneCounted, EmptyBatch.  A batch getter returns nothing only if there is
\* nothing.
LEMMA NoneCounted == Cardinality({}) = 0
<1> DEFINE Step(f) == [T \in SUBSET {} |-> IF T = {} THEN 0 ELSE 1 + f[T \ {CHOOSE x : x \in T}]]
           CS == CHOOSE f : f = Step(f)
<1>1. \E f : f = Step(f)
  <2>1. [T \in SUBSET {} |-> 0] = Step([T \in SUBSET {} |-> 0])
    OBVIOUS
  <2> QED
    BY <2>1, Zenon
<1>2. CS = Step(CS)
  BY <1>1, Zenon
<1>3. CS[{}] = 0
  BY <1>2, Zenon
<1> QED
  BY <1>3, Zenon DEF Cardinality

LEMMA EmptyBatch ==
  ASSUME NEW S, NEW n \in Nat \ {0}, {} \in BatchesOf(S, n)
  PROVE  S = {}
<1>1. Cardinality({}) # n
  BY NoneCounted
<1> QED
  BY <1>1 DEF BatchesOf

\* RecentStep.  Selecting, sending and awaiting a delete, while receivers check,
\* queue and update series and the hour passes.
LEMMA RecentStep ==
  ASSUME TypeOK, Recent, OneLoop, HoursLog >= 2, [Next]_vars, ~Restart
  PROVE  Recent'
<1> USE DEF cacheVars, recvVars, loopVars, netVars, backVars, bounds
<1>k. \A r \in Receivers : SameHour /\ r \in spanned /\ recvAt'[r] # "idle" => r \in spanned'
  BY DEF SameHour, Busy
<1>l. \A l \in Loops : SameHour /\ l \in spanned /\ pc'[l] \in {"active", "inactive"} => l \in spanned'
  BY DEF SameHour, Busy
<1>s. SameHour => spanned \cap Busy' \subseteq spanned'
  BY DEF SameHour
<1>1. ASSUME NEW r \in Receivers, NEW k \in Series, IsTimeseriesKnown(r, k), SameHour
      PROVE  Recent'
  <2>1. /\ recvAt[r] = "idle" /\ recvKey'[r] = k
        /\ recvAt'[r] = IF k \in known THEN "isKnown" ELSE "notKnown"
        /\ \A q \in Receivers \ {r} : recvAt'[q] = recvAt[q] /\ recvKey'[q] = recvKey[q]
        /\ UNCHANGED <<known, age, discovered, pc, op, batch>>
    BY <1>1 DEF IsTimeseriesKnown, TypeOK, ReceiversOK
  <2>2. IdleIsFree'
    BY <2>1 DEF Recent, IdleIsFree
  <2>3. CheckIsRecent'
    BY <1>1, <1>k, <2>1, Zenon DEF Recent, CheckIsRecent, Unsure, Within
  <2>4. \A j : Queuer(j) => Queuer(j)'
    BY <1>1, <1>k, <2>1 DEF Queuer
  <2>5. QueueIsRecent'
    BY <1>1, <1>l, <2>1, <2>4 DEF Recent, QueueIsRecent, Within
  <2>6. DeletesSilent'
    BY <2>1 DEF Recent, DeletesSilent, Deleting, Unsure
  <2> QED
    BY <2>2, <2>3, <2>5, <2>6 DEF Recent
<1>2. ASSUME NEW r \in Receivers, AddDiscovered(r), SameHour PROVE Recent'
  <2>1. /\ recvAt[r] = "notKnown" /\ recvAt'[r] = "added" /\ recvKey' = recvKey
        /\ \A q \in Receivers \ {r} : recvAt'[q] = recvAt[q]
        /\ discovered' = discovered \cup {recvKey[r]}
        /\ UNCHANGED <<known, age, pc, op, batch>>
    BY <1>2 DEF AddDiscovered, TypeOK, ReceiversOK
  <2>2. IdleIsFree'
    BY <2>1 DEF Recent, IdleIsFree
  <2>3. CheckIsRecent'
    BY <1>2, <1>k, <2>1 DEF Recent, CheckIsRecent, Unsure, Within
  <2>4. \A j : Queuer(j) => Queuer(j)'
    BY <1>2, <1>k, <2>1 DEF Queuer
  <2>5. recvKey[r] \in known => age[recvKey[r]] = 0 \/ (age[recvKey[r]] = 1 /\ Queuer(recvKey[r])')
    BY <1>2, <1>k, <2>1 DEF Recent, CheckIsRecent, Unsure, Within, Queuer
  <2>6. QueueIsRecent'
    BY <1>2, <1>l, <2>1, <2>4, <2>5 DEF Recent, QueueIsRecent, Within
  <2>7. DeletesSilent'
    BY <2>1 DEF Recent, DeletesSilent, Deleting, Unsure
  <2> QED
    BY <2>2, <2>3, <2>6, <2>7 DEF Recent
<1>3. ASSUME NEW r \in Receivers, UpdateTimeseries(r), SameHour PROVE Recent'
  <2> DEFINE u == recvKey[r]
  <2>1. /\ u \in Series /\ age'[u] = 0 /\ known' = known \cup {u}
        /\ \A k \in Series \ {u} : age'[k] = age[k]
        /\ recvAt'[r] = "idle" /\ recvKey'[r] = NoSeries
        /\ \A q \in Receivers \ {r} : recvAt'[q] = recvAt[q] /\ recvKey'[q] = recvKey[q]
        /\ UNCHANGED <<discovered, pc, op, batch>>
    BY <1>3 DEF UpdateTimeseries, TypeOK, ReceiversOK, CachesOK
  <2>2. known \subseteq Series /\ \A q \in Receivers : recvKey[q] \in Series \cup {NoSeries}
    BY DEF TypeOK, CachesOK, ReceiversOK
  <2> HIDE DEF u
  <2>3. IdleIsFree'
    BY <2>1 DEF Recent, IdleIsFree
  <2>4. CheckIsRecent'
    BY <1>3, <1>k, <2>1, <2>2 DEF Recent, CheckIsRecent, Unsure, Within
  <2>5. \A j : j # u /\ Queuer(j) => Queuer(j)'
    BY <1>3, <1>k, <2>1 DEF Queuer, u
  <2>6. QueueIsRecent'
    BY <1>3, <1>l, <2>1, <2>2, <2>5 DEF Recent, QueueIsRecent, Within
  <2>7. DeletesSilent'
    BY <2>1 DEF Recent, DeletesSilent, Deleting, Unsure
  <2> QED
    BY <2>3, <2>4, <2>6, <2>7 DEF Recent
<1>4. ASSUME NEW l \in Loops, GetDiscoveredBatch(l), SameHour PROVE Recent'
  <2>1. PICK T \in BatchesOf(discovered, DiscoveredBatchSize) :
          IF T = {} THEN pc' = [pc EXCEPT ![l] = "active"] /\ UNCHANGED op
          ELSE pc' = [pc EXCEPT ![l] = "send"] /\ op' = [op EXCEPT ![l] = "create"]
    BY <1>4 DEF GetDiscoveredBatch
  <2>2. /\ \A k \in Loops \ {l} : pc'[k] = pc[k] /\ op'[k] = op[k] /\ batch'[k] = batch[k]
        /\ UNCHANGED <<known, age, discovered, recvAt, recvKey>>
    BY <1>4, <2>1 DEF GetDiscoveredBatch, TypeOK, LoopsOK
  <2>3. CASE T = {}
    <3>1. discovered = {}
      BY <2>1, <2>3, EmptyBatch, ConstantsAssumption DEF ConstantsAssumption
    <3>2. ~Deleting(l)' /\ \A k \in Loops \ {l} : Deleting(k)' => Deleting(k)
      BY <2>1, <2>2, <2>3 DEF Deleting, TypeOK, LoopsOK
    <3>3. IdleIsFree'
      BY <2>2, Zenon DEF Recent, IdleIsFree
    <3>4. CheckIsRecent'
      BY <1>4, <1>k, <2>2 DEF Recent, CheckIsRecent, Unsure, Within
    <3>5. QueueIsRecent'
      BY <2>2, <3>1 DEF QueueIsRecent
    <3>6. DeletesSilent'
      BY <2>2, <3>2, Zenon DEF Recent, DeletesSilent, Unsure
    <3> QED
      BY <3>3, <3>4, <3>5, <3>6 DEF Recent
  <2>4. CASE T # {}
    <3>1. pc'[l] = "send" /\ op'[l] = "create"
      BY <2>1, <2>4 DEF TypeOK, LoopsOK
    <3> QED
      BY <1>4, <1>s, <2>2, <3>1, RecentFrame DEF Deleting
  <2> QED
    BY <2>3, <2>4
<1>5. ASSUME NEW l \in Loops, GetInactiveTimeseriesBatch(l), SameHour PROVE Recent'
  <2>1. /\ \A k \in Loops \ {l} : pc'[k] = pc[k] /\ op'[k] = op[k] /\ batch'[k] = batch[k]
        /\ UNCHANGED <<known, age, discovered, recvAt, recvKey>>
    BY <1>5 DEF GetInactiveTimeseriesBatch, SendActive, TypeOK, LoopsOK
  <2>2. \/ \E T \in SUBSET Inactive :
             pc'[l] = "send" /\ op'[l] = "delete" /\ batch'[l] = T
        \/ pc'[l] = "send" /\ op'[l] = "update"
        \/ pc'[l] = "pause"
    BY <1>5 DEF GetInactiveTimeseriesBatch, SendActive, BatchesOf, TypeOK, LoopsOK
  <2>3. CASE \E T \in SUBSET Inactive : pc'[l] = "send" /\ op'[l] = "delete" /\ batch'[l] = T
    <3>1. PICK T \in SUBSET Inactive : pc'[l] = "send" /\ op'[l] = "delete" /\ batch'[l] = T
      BY <2>3
    <3>2. \A k \in T : k \in known /\ age[k] # 0 /\ age[k] # 1
      BY <3>1 DEF Inactive
    <3>3. pc[l] = "inactive"
      BY <1>5 DEF GetInactiveTimeseriesBatch
    <3>4. T \cap discovered = {}
      BY <3>2, <3>3 DEF Recent, QueueIsRecent, Within
    <3>5. \A r \in Receivers : Unsure(r) => recvKey[r] \notin T
      BY <3>2 DEF Recent, CheckIsRecent, Within
    <3>6. DeletesSilent'
      BY <2>1, <3>1, <3>2, <3>4, <3>5 DEF Recent, DeletesSilent, Deleting, Unsure
    <3>7. IdleIsFree'
      BY <2>1 DEF Recent, IdleIsFree
    <3>8. CheckIsRecent'
      BY <1>5, <1>k, <2>1 DEF Recent, CheckIsRecent, Unsure, Within
    <3>9. \A j : Queuer(j) => Queuer(j)'
      BY <1>5, <1>k, <2>1 DEF Queuer
    <3>10. QueueIsRecent'
      BY <1>5, <1>l, <2>1, <3>1, <3>9 DEF Recent, QueueIsRecent, Within
    <3> QED
      BY <3>6, <3>7, <3>8, <3>10 DEF Recent
  <2>4. CASE (pc'[l] = "send" /\ op'[l] = "update") \/ pc'[l] = "pause"
    BY <1>5, <1>s, <2>1, <2>4, RecentFrame DEF Deleting
  <2> QED
    BY <2>2, <2>3, <2>4
<1>6. ASSUME NEW l \in Loops, DeleteBatch(l), SameHour PROVE Recent'
  <2>1. /\ known' = known \ batch[l] /\ pc'[l] \in {"pause", "between"}
        /\ \A k \in Series \ batch[l] : age'[k] = age[k]
        /\ UNCHANGED <<discovered, recvAt, recvKey>>
    BY <1>6 DEF DeleteBatch, Finish, TypeOK, LoopsOK
  <2>2. IdleIsFree'
    BY <2>1 DEF Recent, IdleIsFree
  <2>3. CheckIsRecent'
    BY <1>6, <1>k, <2>1 DEF Recent, CheckIsRecent, Unsure, Within, TypeOK, CachesOK
  <2>4. QueueIsRecent' /\ DeletesSilent'
    BY <2>1 DEF OneLoop, QueueIsRecent, DeletesSilent, Deleting
  <2> QED
    BY <2>2, <2>3, <2>4 DEF Recent
<1>7. ASSUME HourPasses PROVE Recent'
  <2>1. /\ spanned = {} /\ spanned' = Busy
        /\ UNCHANGED <<known, discovered, recvAt, recvKey, pc, op, batch>>
        /\ \A k \in known : age[k] = 0 => age'[k] = 1
    BY <1>7, ConstantsAssumption DEF ConstantsAssumption, HourPasses, TypeOK, CachesOK
  <2>2. \A r \in Receivers : recvAt[r] # "idle" => r \in spanned'
    BY <2>1 DEF Busy
  <2>3. \A l \in Loops : pc[l] \in {"active", "inactive"} => l \in spanned'
    BY <2>1 DEF Busy
  <2>4. IdleIsFree'
    BY <2>1 DEF Recent, IdleIsFree
  <2>5. CheckIsRecent'
    BY <2>1, <2>2 DEF Recent, CheckIsRecent, Unsure, Within
  <2>6. QueueIsRecent'
    BY <2>1, <2>3, ZenonT(40) DEF Recent, QueueIsRecent, Queuer, Within
  <2>7. DeletesSilent'
    BY <2>1, ZenonT(40) DEF Recent, DeletesSilent, Deleting, Unsure
  <2> QED
    BY <2>4, <2>5, <2>6, <2>7 DEF Recent
<1>8. ASSUME NEW l \in Loops, SameHour,
             \/ GetActiveTimeseriesBatch(l) \/ SendAndWaitAck(l) \/ PurgeBatch(l)
             \/ MarkSyncedBatch(l) \/ Between(l) \/ Pause(l) \/ LoopExit(l)
             \/ ContextDone(l) \/ SendFails(l) \/ AckTimesOut(l) \/ Connect(l)
      PROVE  Recent'
  <2> USE DEF GetActiveTimeseriesBatch, SendAndWaitAck, PurgeBatch, MarkSyncedBatch,
              Between, SendActive, Pause, LoopExit, ContextDone, SendFails, AckTimesOut,
              AwaitFails, Finish, Connect
  <2>1. UNCHANGED <<known, age, recvAt, recvKey>> /\ discovered' \subseteq discovered
    BY <1>8, ZenonT(40)
  <2>2. \A k \in Loops \ {l} : pc'[k] = pc[k] /\ op'[k] = op[k] /\ batch'[k] = batch[k]
    BY <1>8, ZenonT(40) DEF TypeOK, LoopsOK
  <2>3. pc'[l] \in {"active", "inactive"} => pc[l] \in {"active", "inactive"}
    BY <1>8, ZenonT(40) DEF TypeOK, LoopsOK
  <2>4. Deleting(l)' => Deleting(l) /\ batch'[l] = batch[l]
    BY <1>8, Zenon DEF Deleting, TypeOK, LoopsOK
  <2> QED
    BY <1>8, <1>s, <2>1, <2>2, <2>3, <2>4, RecentFrame, ZenonT(40) DEF Deleting
<1>9. ASSUME SameHour,
             ResolvePending \/ StreamEnds \/ BackendHandles \/ (\E k \in Series : SyncExpires(k))
      PROVE  Recent'
  <2> USE DEF ResolvePending, StreamEnds, BackendHandles, SyncExpires
  <2>1. UNCHANGED <<known, age, discovered, recvAt, recvKey, op, batch>>
    BY <1>9, Zenon
  <2>2. \A l \in Loops : pc'[l] = pc[l] \/ (pc[l] = "await" /\ pc'[l] = "acked")
    BY <1>9, ZenonT(40)
  <2> QED
    BY <1>9, <1>s, <2>1, <2>2, RecentFrame DEF Deleting
<1>10. ASSUME UNCHANGED vars PROVE Recent'
  BY <1>10, RecentFrame, Zenon DEF vars, Deleting
<1> QED
  BY <1>1, <1>2, <1>3, <1>4, <1>5, <1>6, <1>7, <1>8, <1>9, <1>10
     DEF Next, ReceiverStep, LoopStep, StreamStep, BackendStep, Fault

\* OrderFrame.  A step that leaves the stream and what is awaited alone.
LEMMA OrderFrame ==
  ASSUME AnsweredInOrder, UNCHANGED <<conn, wire, acks, index>>,
         \A l \in Loops : pc'[l] \in {"await", "acked"} =>
           pc'[l] = pc[l] /\ op'[l] = op[l] /\ batch'[l] = batch[l] /\ cid'[l] = cid[l]
  PROVE  AnsweredInOrder'
BY Zenon DEF AnsweredInOrder, Gone

\* OrderStep.  Requests are answered in the order they were sent in, and a loop
\* sends nothing while it awaits an answer.
LEMMA OrderStep ==
  ASSUME IInv, AnsweredInOrder, OneLoop, "delete" \notin Rejects, [Next]_vars, ~Restart
  PROVE  AnsweredInOrder'
<1> USE DEF cacheVars, recvVars, loopVars, netVars, backVars, bounds
<1>t. TypeOK /\ RequestIsOwn /\ wire \in Seq(Requests) /\ acks \in Seq(Acks)
  BY DEF IInv, TypeOK, StreamOK
<1>1. ASSUME \/ \E r \in Receivers, k \in Series : IsTimeseriesKnown(r, k)
             \/ \E r \in Receivers : AddDiscovered(r) \/ UpdateTimeseries(r)
             \/ HourPasses \/ (\E k \in Series : SyncExpires(k)) \/ UNCHANGED vars
      PROVE  AnsweredInOrder'
  <2>1. UNCHANGED <<conn, wire, acks, index, pc, op, batch, cid>>
    BY <1>1 DEF IsTimeseriesKnown, AddDiscovered, UpdateTimeseries, HourPasses, SyncExpires, vars
  <2> QED
    BY <2>1, OrderFrame
<1>2. ASSUME NEW l \in Loops,
             \/ GetDiscoveredBatch(l) \/ GetActiveTimeseriesBatch(l)
             \/ GetInactiveTimeseriesBatch(l) \/ PurgeBatch(l) \/ DeleteBatch(l)
             \/ MarkSyncedBatch(l) \/ Between(l) \/ Pause(l) \/ LoopExit(l)
             \/ ContextDone(l) \/ SendFails(l) \/ AckTimesOut(l)
      PROVE  AnsweredInOrder'
  <2> USE DEF GetDiscoveredBatch, GetActiveTimeseriesBatch, GetInactiveTimeseriesBatch,
              PurgeBatch, DeleteBatch, MarkSyncedBatch, Between, SendActive, Pause,
              LoopExit, ContextDone, SendFails, AckTimesOut, AwaitFails, Finish
  <2>1. UNCHANGED <<conn, wire, acks, index>>
    BY <1>2, ZenonT(40)
  <2>2. pc'[l] \notin {"await", "acked"}
    BY <1>2, <1>t, ZenonT(40) DEF TypeOK, LoopsOK
  <2> QED
    BY <2>1, <2>2, OrderFrame, ZenonT(40) DEF OneLoop
<1>3. ASSUME NEW l \in Loops, SendAndWaitAck(l) PROVE AnsweredInOrder'
  <2>1. PICK id \in CorrIds :
          /\ id \notin UsedIds
          /\ cid' = [cid EXCEPT ![l] = id]
          /\ wire' = IF conn THEN Append(wire, [id |-> id, op |-> op[l], keys |-> batch[l]])
                             ELSE wire
    BY <1>3, Zenon DEF SendAndWaitAck, NextCorrID
  <2>2. /\ cid'[l] = id /\ pc'[l] = "await"
        /\ UNCHANGED <<conn, acks, index>>
    BY <1>3, <1>t, <2>1 DEF SendAndWaitAck, TypeOK, LoopsOK
  <2>3. /\ \A i \in DOMAIN wire : wire[i].id # id
        /\ \A i \in DOMAIN acks : acks[i].id # id
    BY <2>1 DEF UsedIds
  <2>4. \A i \in DOMAIN wire' : wire'[i].id = id => i = Len(wire')
    <3> DEFINE m == [id |-> id, op |-> op[l], keys |-> batch[l]]
    <3>1. m \in Requests
      BY <1>3, <1>t DEF SendAndWaitAck, TypeOK, LoopsOK, Requests
    <3>2. CASE conn
      <4>1. wire' = Append(wire, m)
        BY <2>1, <3>2
      <4> HIDE DEF m
      <4>2. \A i \in DOMAIN wire' : i = Len(wire') \/ (i \in DOMAIN wire /\ wire'[i] = wire[i])
        BY <1>t, <3>1, <4>1
      <4> QED
        BY <2>3, <4>2
    <3>3. CASE ~conn
      BY <2>1, <2>3, <3>3
    <3> QED
      BY <3>2, <3>3
  <2>5. ~conn' => wire' = <<>>
    BY <2>1, <2>2 DEF AnsweredInOrder
  <2> QED
    BY <2>2, <2>3, <2>4, <2>5, Zenon DEF AnsweredInOrder, OneLoop
<1>4. ASSUME NEW l \in Loops, Connect(l) PROVE AnsweredInOrder'
  <2>1. conn' /\ pc'[l] = "top" /\ UNCHANGED wire
    BY <1>4, <1>t DEF Connect, TypeOK, LoopsOK
  <2> QED
    BY <2>1 DEF AnsweredInOrder, OneLoop
<1>5. ASSUME ResolvePending PROVE AnsweredInOrder'
  <2>1. /\ acks # <<>> /\ acks' = Tail(acks)
        /\ UNCHANGED <<conn, wire, index, op, batch, cid>>
        /\ \A l \in Loops : pc'[l] = IF pc[l] = "await" /\ cid[l] = Head(acks).id
                                      THEN "acked" ELSE pc[l]
    BY <1>5 DEF ResolvePending
  <2>2. 1 \in DOMAIN acks /\ Head(acks) = acks[1]
    BY <1>t, <2>1
  <2>3. \A i \in DOMAIN acks' : i + 1 \in DOMAIN acks /\ acks'[i] = acks[i + 1]
    BY <1>t, <2>1, TailElements
  <2> QED
    BY <2>1, <2>2, <2>3 DEF AnsweredInOrder, Gone
<1>6. ASSUME StreamEnds PROVE AnsweredInOrder'
  <2>1. wire' = <<>> /\ acks' = <<>> /\ UNCHANGED <<pc, op, batch, index>>
    BY <1>6 DEF StreamEnds
  <2>2. DOMAIN wire' = {} /\ DOMAIN acks' = {}
    BY <2>1
  <2>3. \A l \in Loops : pc'[l] = "acked" => Gone(l)'
    BY <2>1 DEF AnsweredInOrder, Gone
  <2> QED
    BY <2>1, <2>2, <2>3 DEF AnsweredInOrder
<1>7. ASSUME BackendHandles PROVE AnsweredInOrder'
  <2> DEFINE m == Head(wire)
  <2>1. wire # <<>> /\ wire' = Tail(wire) /\ UNCHANGED <<conn, pc, op, batch, cid>>
    BY <1>7 DEF BackendHandles
  <2>2. m \in Requests /\ 1 \in DOMAIN wire /\ m = wire[1] /\ Len(wire') = Len(wire) - 1
        /\ (Len(wire) = 1 => wire' = <<>>)
    BY <1>t, <2>1
  <2>3. PICK ok \in BOOLEAN :
          /\ acks' = Append(acks, [id |-> m.id, ok |-> ok])
          /\ m.op = "delete" => index' = index \ m.keys
    BY <1>7, Zenon DEF BackendHandles
  <2>4. \A i \in DOMAIN wire' : i + 1 \in DOMAIN wire /\ wire'[i] = wire[i + 1]
    BY <1>t, <2>1, TailElements
  <2>5. conn
    BY <2>1 DEF AnsweredInOrder
  <2>6. \A l \in Loops : pc[l] # "acked"
    BY <2>1 DEF AnsweredInOrder, Gone
  <2>7. ASSUME NEW l \in Loops, pc[l] = "await", NEW i \in DOMAIN wire', wire'[i].id = cid[l]
        PROVE  i = Len(wire')
    <3>1. i + 1 = Len(wire)
      BY <2>4, <2>7 DEF AnsweredInOrder
    <3>2. i \in Nat /\ Len(wire) \in Nat
      BY <1>t, <2>1, <2>7
    <3> QED
      BY <2>2, <3>1, <3>2
  <2>8. ASSUME NEW l \in Loops, pc[l] = "await", NEW i \in DOMAIN acks', acks'[i].id = cid[l]
        PROVE  Gone(l)'
    <3> DEFINE a == [id |-> m.id, ok |-> ok]
    <3>1. a \in Acks
      BY <2>2 DEF Requests, Acks
    <3>2. (i \in DOMAIN acks /\ acks'[i] = acks[i]) \/ acks'[i] = a
      BY <1>t, <2>3, <3>1, AppendElements
    <3>3. acks'[i] = a
      BY <2>1, <2>8, <3>2 DEF AnsweredInOrder, Gone
    <3>4. wire[1].id = cid[l]
      BY <2>2, <2>8, <3>3
    <3>5. wire' = <<>>
      BY <2>2, <2>8, <3>4 DEF AnsweredInOrder
    <3>6. m.op = op[l] /\ m.keys = batch[l]
      BY <1>t, <2>2, <2>8, <3>4 DEF RequestIsOwn
    <3> QED
      BY <2>1, <2>3, <3>5, <3>6 DEF Gone
  <2> QED
    BY <2>1, <2>5, <2>6, <2>7, <2>8 DEF AnsweredInOrder
<1> QED
  BY <1>1, <1>2, <1>3, <1>4, <1>5, <1>6, <1>7
     DEF Next, ReceiverStep, LoopStep, StreamStep, BackendStep, Fault

\* CoverFrame.  A step that forgets no series and queues, sends and creates none.
LEMMA CoverFrame ==
  ASSUME TypeOK, CreatesCovered, Covered \cap Series \subseteq Covered',
         UNCHANGED <<index, wire>>, discovered' \subseteq discovered,
         \A l \in Loops : pc'[l] \in {"send", "await"} /\ op'[l] = "create" =>
           pc[l] \in {"send", "await"} /\ op[l] = "create" /\ batch'[l] = batch[l]
  PROVE  CreatesCovered'
<1>1. index \subseteq Series /\ discovered \subseteq Series
  BY DEF TypeOK, CachesOK, BackendOK
<1>2. (index \cup discovered \subseteq Covered)'
  BY <1>1 DEF CreatesCovered
<1>3. ASSUME NEW i \in DOMAIN wire, wire[i].op = "create" PROVE wire[i].keys \subseteq Covered'
  <2>1. wire[i] \in Requests
    BY <1>3 DEF TypeOK, StreamOK
  <2>2. wire[i].keys \subseteq Series
    BY <2>1 DEF Requests
  <2> QED
    BY <1>3, <2>2 DEF CreatesCovered
<1>4. ASSUME NEW l \in Loops, pc'[l] \in {"send", "await"}, op'[l] = "create"
      PROVE  batch'[l] \subseteq Covered'
  BY <1>4 DEF CreatesCovered, TypeOK, LoopsOK
<1> QED
  BY <1>2, <1>3, <1>4 DEF CreatesCovered

\* CoverStep.  What is created was seen, and is known or being made known until
\* a delete of it is acknowledged.
LEMMA CoverStep ==
  ASSUME TypeOK, Recent, AnsweredInOrder, CreatesCovered, OneLoop, [Next]_vars, ~Restart
  PROVE  CreatesCovered'
<1> USE DEF cacheVars, recvVars, loopVars, netVars, backVars, bounds
<1>t. /\ index \subseteq Series /\ discovered \subseteq Series
      /\ wire \in Seq(Requests) /\ NoSeries \notin Series
      /\ \A l \in Loops : batch[l] \subseteq Series
  BY ConstantsAssumption DEF ConstantsAssumption, TypeOK, CachesOK, BackendOK, StreamOK, LoopsOK
<1>1. ASSUME NEW r \in Receivers, NEW k \in Series, IsTimeseriesKnown(r, k) PROVE CreatesCovered'
  <2>1. /\ recvKey[r] = NoSeries
        /\ \A q \in Receivers \ {r} : recvKey'[q] = recvKey[q]
        /\ UNCHANGED <<known, discovered, index, wire, pc, op, batch>>
    BY <1>1 DEF IsTimeseriesKnown, Recent, IdleIsFree, TypeOK, ReceiversOK
  <2>2. Covered \cap Series \subseteq Covered'
    BY <1>t, <2>1 DEF Covered
  <2> QED
    BY <2>1, <2>2, CoverFrame, Zenon
<1>2. ASSUME NEW r \in Receivers, AddDiscovered(r) PROVE CreatesCovered'
  <2>1. /\ discovered' = discovered \cup {recvKey[r]}
        /\ UNCHANGED <<known, recvKey, index, wire, pc, op, batch>>
    BY <1>2 DEF AddDiscovered
  <2>2. Covered' = Covered /\ recvKey[r] \in Covered
    BY <2>1 DEF Covered
  <2> QED
    BY <2>1, <2>2 DEF CreatesCovered
<1>3. ASSUME NEW r \in Receivers, UpdateTimeseries(r) PROVE CreatesCovered'
  <2>1. /\ known' = known \cup {recvKey[r]}
        /\ \A q \in Receivers \ {r} : recvKey'[q] = recvKey[q]
        /\ UNCHANGED <<discovered, index, wire, pc, op, batch>>
    BY <1>3 DEF UpdateTimeseries, TypeOK, ReceiversOK
  <2>2. Covered \cap Series \subseteq Covered'
    BY <2>1 DEF Covered
  <2> QED
    BY <2>1, <2>2, CoverFrame
<1>4. ASSUME NEW l \in Loops, GetDiscoveredBatch(l) PROVE CreatesCovered'
  <2>1. batch'[l] \subseteq discovered /\ UNCHANGED <<known, discovered, recvKey, index, wire>>
    BY <1>4 DEF GetDiscoveredBatch, BatchesOf, TypeOK, LoopsOK
  <2>2. Covered' = Covered
    BY <2>1 DEF Covered
  <2> QED
    BY <2>1, <2>2 DEF CreatesCovered, OneLoop
<1>5. ASSUME NEW l \in Loops, SendAndWaitAck(l) PROVE CreatesCovered'
  <2>1. /\ pc[l] = "send" /\ UNCHANGED <<known, discovered, recvKey, index, op, batch>>
        /\ \E id \in CorrIds :
             wire' = IF conn THEN Append(wire, [id |-> id, op |-> op[l], keys |-> batch[l]])
                             ELSE wire
    BY <1>5 DEF SendAndWaitAck
  <2>2. Covered' = Covered
    BY <2>1 DEF Covered
  <2>3. op[l] = "create" => batch[l] \subseteq Covered
    BY <2>1, Zenon DEF CreatesCovered
  <2>4. ASSUME NEW i \in DOMAIN wire', wire'[i].op = "create"
        PROVE  wire'[i].keys \subseteq Covered
    <3>1. PICK id \in CorrIds :
            wire' = IF conn THEN Append(wire, [id |-> id, op |-> op[l], keys |-> batch[l]])
                            ELSE wire
      BY <2>1
    <3> DEFINE m == [id |-> id, op |-> op[l], keys |-> batch[l]]
    <3>2. m \in Requests
      BY <2>1 DEF TypeOK, LoopsOK, Requests
    <3>3. wire' = wire \/ wire' = Append(wire, m)
      BY <3>1
    <3>4. (i \in DOMAIN wire /\ wire'[i] = wire[i]) \/ wire'[i] = m
      <4>1. CASE wire' = wire
        BY <4>1
      <4>2. CASE wire' = Append(wire, m)
        BY <1>t, <3>2, <4>2, AppendElements
      <4> QED
        BY <3>3, <4>1, <4>2
    <3>5. CASE i \in DOMAIN wire /\ wire'[i] = wire[i]
      BY <2>4, <3>5, Zenon DEF CreatesCovered
    <3>6. CASE wire'[i] = m
      <4>1. m.op = op[l] /\ m.keys = batch[l]
        OBVIOUS
      <4> HIDE DEF m
      <4> QED
        BY <2>3, <2>4, <3>6, <4>1
    <3> QED
      BY <3>4, <3>5, <3>6
  <2>5. \A k \in Loops : op'[k] = "create" => batch'[k] \subseteq Covered'
    BY <2>1, <2>2, <2>3 DEF OneLoop
  <2> QED
    BY <2>1, <2>2, <2>4, <2>5 DEF CreatesCovered
<1>6. ASSUME NEW l \in Loops, DeleteBatch(l) PROVE CreatesCovered'
  <2>1. /\ pc[l] = "acked" /\ op[l] = "delete" /\ known' = known \ batch[l]
        /\ UNCHANGED <<discovered, recvKey, index, wire>>
        /\ pc'[l] \in {"pause", "between"}
    BY <1>6 DEF DeleteBatch, Finish, TypeOK, LoopsOK
  <2>2. wire = <<>> /\ batch[l] \cap index = {}
    BY <2>1, Zenon DEF AnsweredInOrder, Gone
  <2>3. batch[l] \cap discovered = {}
    BY <2>1 DEF Recent, DeletesSilent, Deleting
  <2>4. Covered \ batch[l] \subseteq Covered'
    BY <2>1 DEF Covered
  <2>5. (index \cup discovered \subseteq Covered)'
    BY <2>1, <2>2, <2>3, <2>4 DEF CreatesCovered
  <2>6. (\A i \in DOMAIN wire : wire[i].op = "create" => wire[i].keys \subseteq Covered)'
    BY <2>1, <2>2
  <2>7. \A k \in Loops : pc'[k] \notin {"send", "await"}
    BY <2>1 DEF OneLoop
  <2> QED
    BY <2>5, <2>6, <2>7, Zenon DEF CreatesCovered
<1>7. ASSUME NEW l \in Loops,
             \/ GetActiveTimeseriesBatch(l) \/ GetInactiveTimeseriesBatch(l) \/ PurgeBatch(l)
             \/ MarkSyncedBatch(l) \/ Between(l) \/ Pause(l) \/ LoopExit(l)
             \/ ContextDone(l) \/ SendFails(l) \/ AckTimesOut(l) \/ Connect(l)
      PROVE  CreatesCovered'
  <2> USE DEF GetActiveTimeseriesBatch, GetInactiveTimeseriesBatch, PurgeBatch,
              MarkSyncedBatch, Between, SendActive, Pause, LoopExit, ContextDone, SendFails,
              AckTimesOut, AwaitFails, Finish, Connect
  <2>1. UNCHANGED <<known, recvKey, index, wire>> /\ discovered' \subseteq discovered
    BY <1>7, ZenonT(40)
  <2>2. ~(pc'[l] \in {"send", "await"} /\ op'[l] = "create")
    BY <1>7, Zenon DEF TypeOK, LoopsOK
  <2>3. Covered' = Covered
    BY <2>1 DEF Covered
  <2> QED
    BY <2>1, <2>2, <2>3, CoverFrame DEF OneLoop
<1>8. ASSUME ResolvePending \/ HourPasses \/ (\E k \in Series : SyncExpires(k)) \/ UNCHANGED vars
      PROVE  CreatesCovered'
  <2>1. UNCHANGED <<known, discovered, recvKey, index, wire, op, batch>>
    BY <1>8 DEF ResolvePending, HourPasses, SyncExpires, vars
  <2>2. \A l \in Loops : pc'[l] \in {"send", "await"} => pc[l] = pc'[l]
    BY <1>8 DEF ResolvePending, HourPasses, SyncExpires, vars
  <2>3. Covered' = Covered
    BY <2>1 DEF Covered
  <2> QED
    BY <2>1, <2>2, <2>3, CoverFrame
<1>9. ASSUME StreamEnds PROVE CreatesCovered'
  <2>1. wire' = <<>> /\ UNCHANGED <<known, discovered, recvKey, index, pc, op, batch>>
    BY <1>9 DEF StreamEnds
  <2>2. Covered' = Covered
    BY <2>1 DEF Covered
  <2>3. DOMAIN wire' = {}
    BY <2>1
  <2>4. (index \cup discovered \subseteq Covered)'
    BY <2>1, <2>2 DEF CreatesCovered
  <2>5. \A l \in Loops :
          pc'[l] \in {"send", "await"} /\ op'[l] = "create" => batch'[l] \subseteq Covered'
    BY <2>1, <2>2 DEF CreatesCovered
  <2> QED
    BY <2>3, <2>4, <2>5, Zenon DEF CreatesCovered
<1>10. ASSUME BackendHandles PROVE CreatesCovered'
  <2> DEFINE m == Head(wire)
  <2>1. /\ wire # <<>> /\ wire' = Tail(wire)
        /\ UNCHANGED <<known, discovered, recvKey, pc, op, batch>>
        /\ index' \subseteq index \cup (IF m.op = "create" THEN m.keys ELSE {})
    BY <1>10 DEF BackendHandles
  <2>2. 1 \in DOMAIN wire /\ m = wire[1]
    BY <1>t, <2>1
  <2>3. \A i \in DOMAIN wire' : i + 1 \in DOMAIN wire /\ wire'[i] = wire[i + 1]
    BY <1>t, <2>1, TailElements
  <2>4. Covered' = Covered
    BY <2>1 DEF Covered
  <2>5. (index \cup discovered \subseteq Covered)'
    BY <2>1, <2>2, <2>4 DEF CreatesCovered
  <2> QED
    BY <2>1, <2>3, <2>4, <2>5 DEF CreatesCovered
<1> QED
  BY <1>1, <1>2, <1>3, <1>4, <1>5, <1>6, <1>7, <1>8, <1>9, <1>10
     DEF Next, ReceiverStep, LoopStep, StreamStep, BackendStep, Fault

\* The inductive invariant behind NoGhost.
GInv == restarts = 0 => Recent /\ AnsweredInOrder /\ CreatesCovered

\* FirstLife.  A step within the first life of the process is no restart.
LEMMA FirstLife ==
  ASSUME TypeOK, [Next]_vars, restarts' = 0
  PROVE  restarts = 0 /\ ~Restart
<1> USE DEF cacheVars, recvVars, loopVars, netVars, backVars, bounds
<1>1. ~Restart
  BY ConstantsAssumption DEF ConstantsAssumption, Restart, TypeOK, BoundsOK
<1>2. CASE \E l \in Loops : LoopStep(l)
  BY <1>1, <1>2, Zenon DEF LoopStep, GetDiscoveredBatch, GetActiveTimeseriesBatch,
     GetInactiveTimeseriesBatch, SendAndWaitAck, PurgeBatch, DeleteBatch, MarkSyncedBatch,
     Between, Pause, LoopExit, ContextDone, AwaitFails
<1>3. CASE StreamStep \/ BackendStep \/ Fault
  BY <1>1, <1>3, Zenon DEF StreamStep, BackendStep, Fault, ResolvePending, Connect,
     BackendHandles,
     StreamEnds, SendFails, AckTimesOut, AwaitFails
<1>4. CASE \/ \E r \in Receivers, k \in Series : IsTimeseriesKnown(r, k) /\ SameHour
           \/ \E r \in Receivers : ReceiverStep(r)
           \/ HourPasses \/ \E k \in Series : SyncExpires(k) /\ SameHour
  BY <1>1, <1>4 DEF ReceiverStep, IsTimeseriesKnown, AddDiscovered, UpdateTimeseries, HourPasses,
     SyncExpires
<1>5. CASE UNCHANGED vars
  BY <1>1, <1>5 DEF vars
<1> QED
  BY <1>1, <1>2, <1>3, <1>4, <1>5 DEF Next

\* NeverForgotten.  Until the process restarts, the backend's index holds no
\* series that processOneKnownBatch could not delete later: it is in the known
\* cache, or a receiver is about to put it there.  This is so for a single
\* loop, whatever times out or fails, when the backend carries out the deletes
\* it acknowledges and a series is silent for two hours before it is deleted.
THEOREM NeverForgotten ==
  ASSUME OneLoop, "delete" \notin Rejects, HoursLog >= 2
  PROVE  Spec => [](restarts = 0 => NoGhost)
<1>1. Init => GInv
  <2> SUFFICES ASSUME Init PROVE Recent /\ AnsweredInOrder /\ CreatesCovered
    BY DEF GInv
  <2>1. Recent
    BY DEF Init, Recent, IdleIsFree, CheckIsRecent, QueueIsRecent, DeletesSilent, Unsure, Deleting
  <2>2. AnsweredInOrder
    BY DEF Init, AnsweredInOrder
  <2>3. CreatesCovered
    <3>1. /\ index \cup discovered = {} /\ DOMAIN wire = {}
          /\ \A l \in Loops : pc[l] = "exit"
      BY DEF Init
    <3> QED
      BY <3>1 DEF CreatesCovered
  <2> QED
    BY <2>1, <2>2, <2>3
<1>2. IInv /\ GInv /\ [Next]_vars => GInv'
  <2> SUFFICES ASSUME IInv, GInv, [Next]_vars, restarts' = 0
               PROVE  (Recent /\ AnsweredInOrder /\ CreatesCovered)'
    BY DEF GInv
  <2>1. TypeOK /\ restarts = 0 /\ ~Restart
    BY FirstLife DEF IInv
  <2>2. Recent /\ AnsweredInOrder /\ CreatesCovered
    BY <2>1 DEF GInv
  <2> QED
    BY <2>1, <2>2, RecentStep, OrderStep, CoverStep
<1>3. GInv => (restarts = 0 => NoGhost)
  BY DEF GInv, CreatesCovered, Covered, NoGhost
<1> QED
  BY <1>1, <1>2, <1>3, InitIInv, ReportStep, PTL DEF Spec

=============================================================================
