----------------------------- MODULE DemandPath -----------------------------
(* DemandFlow and TraceRouter composed: what the trace filter passes on goes *)
(* to the trace router's exporter, and the ingest edge rejects pushes that  *)
(* name a rule of no current demand.                                        *)
EXTENDS DemandFlow

VARIABLES batch, todo, landed, rejected, errors

CONSTANTS MaxErrors

ASSUME RouterAssumption == MaxErrors \in Nat

LiveRules == {r.rule : r \in TraceRoutesFromProto(want)}

R == INSTANCE TraceRouter WITH live <- LiveRules

routerVars == <<batch, todo, landed, rejected, errors>>
allVars == <<vars, routerVars>>

PathTypeOK == TypeOK /\ R!TypeOK

PathInit == Init /\ R!Init

\* A trace worker that passes its batch on offers it to the exporter.
Forward(w) ==
  /\ Filter(w)
  /\ IF kind[w] = "trace" /\ pc'[w] = "done" THEN R!Offer(out'[w])
                                             ELSE UNCHANGED routerVars

\* A restart also loses the exporter's queue, which is kept in memory.
PathRestart ==
  /\ Restart
  /\ batch' = {} /\ todo' = {} /\ landed' = {} /\ rejected' = {}
  /\ UNCHANGED errors

PathNext ==
  \/ (DemandChanges \/ ServerGetsPing \/ Agent \/ StreamEnds) /\ UNCHANGED routerVars
  \/ \E w \in Workers : Forward(w) \/ (Return(w) /\ UNCHANGED routerVars)
  \/ R!Next /\ UNCHANGED vars
  \/ PathRestart

PathSpec == PathInit /\ [][PathNext]_allVars

\* The loops of the edge controller run, the control plane reads heartbeats,
\* and pushes are answered.
Fairness ==
  /\ WF_allVars(Connect /\ UNCHANGED routerVars)
  /\ WF_allVars(PingLoop /\ UNCHANGED routerVars)
  /\ WF_allVars(UpdateDemands /\ UNCHANGED routerVars)
  /\ WF_allVars(UpdateTraceRoutes /\ UNCHANGED routerVars)
  /\ WF_allVars(ServerGetsPing /\ UNCHANGED routerVars)
  /\ \A rule \in Rules \cup {NoRule} : WF_allVars(R!Push(rule) /\ UNCHANGED vars)

FairPathSpec == PathSpec /\ Fairness

-----------------------------------------------------------------------------
\* SpansSettle.  Every batch the exporter takes is pushed to all its orgs or
\* dropped for a rejection: retries of the whole batch do not go on for ever.
SpansSettle == todo # {} ~> todo = {}

\* NoSilentLoss, of the trace router: a batch it is done with has reached the
\* orgs it was routed to and no other, unless one of its rules was rejected.
NoSilentLoss == R!NoSilentLoss

=============================================================================
