---------------------------- MODULE TraceRouter ----------------------------
(* leansignal_trace_router, behind the queue and the retries of             *)
(* exporterhelper.  A batch is a set of <<resource, rule>> pairs; pushTraces *)
(* splits it by rule and pushes the groups one by one, in map order.        *)
EXTENDS Naturals

CONSTANTS
  Resources, Rules,
  NoRule,       \* unstamped: the tenant-wide org
  MaxErrors

VARIABLES
  live,      \* ingest edge: the rules that exist; others are answered 403
  batch,     \* the batch the exporter holds
  todo,      \* groups this attempt has still to push
  landed,    \* pairs of the batch that Tempo has taken
  rejected,  \* rules of the batch answered with a permanent error
  errors     \* retryable failures so far

vars == <<live, batch, todo, landed, rejected, errors>>
router == <<batch, todo, landed, rejected, errors>>

Pairs == Resources \X (Rules \cup {NoRule})

TypeOK ==
  /\ batch \subseteq Pairs /\ landed \subseteq Pairs
  /\ todo \subseteq Rules \cup {NoRule}
  /\ rejected \subseteq Rules \cup {NoRule}
  /\ errors \in 0..MaxErrors

Init ==
  /\ batch = {} /\ todo = {} /\ landed = {} /\ rejected = {} /\ errors = 0

GroupByFilterID(b) == {p[2] : p \in b}
Group(rule) == {p \in batch : p[2] = rule}
Idle == todo = {}

-----------------------------------------------------------------------------
\* exporterhelper takes a batch, or refuses it when its queue is full.
Offer(b) ==
  IF Idle /\ b # {}
  THEN /\ batch' = b /\ todo' = GroupByFilterID(b)
       /\ landed' = {} /\ rejected' = {}
       /\ UNCHANGED errors
  ELSE UNCHANGED router

PushOK(rule) ==
  /\ rule \in todo /\ rule \in live \cup {NoRule}
  /\ landed' = landed \cup Group(rule)
  /\ todo' = todo \ {rule}
  /\ UNCHANGED <<batch, rejected, errors>>

\* Mutant: the retry does not come back to the group that failed.
PushFailsForward(rule) ==
  /\ rule \in todo
  /\ errors < MaxErrors /\ errors' = errors + 1
  /\ todo' = todo \ {rule}
  /\ UNCHANGED <<batch, landed, rejected>>

\* A transport error, 5xx, 408 or 429: the whole batch is pushed again.
\* Outages are shorter than retry_on_failure.max_elapsed_time.
PushFails(rule) ==
  /\ rule \in todo
  /\ errors < MaxErrors /\ errors' = errors + 1
  /\ todo' = GroupByFilterID(batch)
  /\ UNCHANGED <<batch, landed, rejected>>

\* Mutant: a permanent error is retried like any other.
PushRejectedRetried(rule) ==
  /\ rule \in todo
  /\ rejected' = rejected \cup {rule}
  /\ todo' = GroupByFilterID(batch)
  /\ UNCHANGED <<batch, landed, errors>>

\* Any other 4xx, be it the 403 for a deleted rule or one for a rule that
\* exists, is permanent: pushTraces returns and exporterhelper drops the batch.
PushRejected(rule) ==
  /\ rule \in todo
  /\ rejected' = rejected \cup {rule}
  /\ todo' = {}
  /\ UNCHANGED <<batch, landed, errors>>

Push(rule) == PushOK(rule) \/ PushRejected(rule)

Next == \E rule \in Rules \cup {NoRule} : Push(rule) \/ PushFails(rule)

-----------------------------------------------------------------------------
\* NoSilentLoss.  A batch the exporter is done with has reached every org it
\* was routed to and no other, whatever groups failed and were retried in
\* which order; only a push that was rejected for good makes it stop short.
NoSilentLoss == Idle => landed \subseteq batch /\ (rejected = {} => landed = batch)

=============================================================================
