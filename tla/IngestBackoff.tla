---------------------------- MODULE IngestBackoff ----------------------------
(***************************************************************************)
(* The ingest backoff valve: after the ingest edge rejects a push with     *)
(* 403, pushes are answered locally until retryInterval has passed; then   *)
(* one push is let through as a probe.  Exporter workers run RoundTrip     *)
(* concurrently; allow and observe are its two critical sections, and the  *)
(* request is on the network between them.                                 *)
(*                                                                         *)
(* holdUntil is kept as the ticks left until it, 0 once it is reached: the *)
(* code only compares it with the (monotonic) clock.                       *)
(***************************************************************************)
EXTENDS Naturals

CONSTANTS
  Workers,        \* concurrent RoundTrips of one signal's exporter
  RetryInterval,  \* in ticks
  MaxErrors       \* bound: transport errors

ASSUME BackoffAssumption ==
  /\ RetryInterval \in Nat \ {0}          \* Config.Validate
  /\ MaxErrors \in Nat

VARIABLES
  paused,
  hold,       \* holdUntil - now
  at,         \* where each worker is in RoundTrip
  got,        \* the answer each worker has, or had last
  limited,    \* the edge is over an ingest limit
  quiet,      \* history: ticks, up to RetryInterval, since the last 403 was
              \* observed or the last probe was let through
  errors      \* transport errors so far

vars == <<paused, hold, at, got, limited, quiet, errors>>

Statuses == {"forbidden", "other"}

TypeOK ==
  /\ paused \in BOOLEAN
  /\ hold \in 0..RetryInterval
  /\ at \in [Workers -> {"idle", "flight", "answered"}]
  /\ got \in [Workers -> Statuses \cup {"none", "suppressed", "error"}]
  /\ limited \in BOOLEAN
  /\ quiet \in 0..RetryInterval
  /\ errors \in 0..MaxErrors

Init ==
  /\ paused = FALSE /\ hold = 0
  /\ at = [w \in Workers |-> "idle"]
  /\ got = [w \in Workers |-> "none"]
  /\ limited = FALSE
  /\ quiet = RetryInterval /\ errors = 0

-----------------------------------------------------------------------------
(* allow: the push goes to the network, as a push or as the probe of a      *)
(* pause, or is answered with a synthesized 403.                            *)

AllowPush(w) ==
  /\ at[w] = "idle" /\ ~paused
  /\ at' = [at EXCEPT ![w] = "flight"]
  /\ UNCHANGED <<paused, hold, got, limited, quiet, errors>>

\* Mutant: the probe slot is not claimed.
AllowProbeUnclaimed(w) ==
  /\ at[w] = "idle" /\ paused /\ hold = 0
  /\ quiet' = 0
  /\ at' = [at EXCEPT ![w] = "flight"]
  /\ UNCHANGED <<paused, hold, got, limited, errors>>

AllowProbe(w) ==
  /\ at[w] = "idle" /\ paused /\ hold = 0
  /\ hold' = RetryInterval /\ quiet' = 0
  /\ at' = [at EXCEPT ![w] = "flight"]
  /\ UNCHANGED <<paused, got, limited, errors>>

\* Mutant: a suppressed push re-arms the hold.
SuppressRearming(w) ==
  /\ at[w] = "idle" /\ paused /\ hold > 0
  /\ hold' = RetryInterval
  /\ got' = [got EXCEPT ![w] = "suppressed"]
  /\ UNCHANGED <<paused, at, limited, quiet, errors>>

Suppress(w) ==
  /\ at[w] = "idle" /\ paused /\ hold > 0
  /\ got' = [got EXCEPT ![w] = "suppressed"]
  /\ UNCHANGED <<paused, hold, at, limited, quiet, errors>>

\* The edge answers: 403 only while it is over a limit, and then not always,
\* since the limit is checked before the push can fail for other reasons.
EdgeAnswers(w) ==
  /\ at[w] = "flight"
  /\ \E status \in IF limited THEN Statuses ELSE {"other"} :
       got' = [got EXCEPT ![w] = status]
  /\ at' = [at EXCEPT ![w] = "answered"]
  /\ UNCHANGED <<paused, hold, limited, quiet, errors>>

\* base.RoundTrip returns an error: the state is left alone.
TransportError(w) ==
  /\ at[w] = "flight"
  /\ errors < MaxErrors /\ errors' = errors + 1
  /\ at' = [at EXCEPT ![w] = "idle"]
  /\ got' = [got EXCEPT ![w] = "error"]
  /\ UNCHANGED <<paused, hold, limited, quiet>>

ObserveForbidden(w) ==
  /\ at[w] = "answered" /\ got[w] = "forbidden"
  /\ paused' = TRUE
  /\ hold' = RetryInterval /\ quiet' = 0
  /\ at' = [at EXCEPT ![w] = "idle"]
  /\ UNCHANGED <<got, limited, errors>>

ObserveOther(w) ==
  /\ at[w] = "answered" /\ got[w] = "other"
  /\ paused' = FALSE
  /\ at' = [at EXCEPT ![w] = "idle"]
  /\ UNCHANGED <<hold, got, limited, quiet, errors>>

-----------------------------------------------------------------------------
Tick ==
  /\ hold' = IF hold > 0 THEN hold - 1 ELSE 0
  /\ quiet' = IF quiet < RetryInterval THEN quiet + 1 ELSE quiet
  /\ UNCHANGED <<paused, at, got, limited, errors>>

\* A limit is exceeded, or clears on retention or month rollover.
LimitChanges ==
  /\ limited' = ~limited
  /\ UNCHANGED <<paused, hold, at, got, quiet, errors>>

Allow(w) == AllowPush(w) \/ AllowProbe(w) \/ Suppress(w)
Return(w) == EdgeAnswers(w) \/ ObserveForbidden(w) \/ ObserveOther(w)

Next ==
  \/ \E w \in Workers : Allow(w) \/ Return(w) \/ TransportError(w)
  \/ Tick
  \/ LimitChanges

Spec == Init /\ [][Next]_vars

\* Exporters keep having batches to push, requests return, time passes.
Fairness ==
  /\ \A w \in Workers : WF_vars(Allow(w)) /\ WF_vars(Return(w))
  /\ WF_vars(Tick)

FairSpec == Spec /\ Fairness

-----------------------------------------------------------------------------
\* QuietPeriod.  While pushes are paused, a push reaches the network only when
\* a full retryInterval has passed since the last 403 was observed and since
\* the last probe was let through, however many workers call allow at once
\* and however slowly probes are answered.
QuietPeriod ==
  [][\A w \in Workers :
       paused /\ at[w] = "idle" /\ at'[w] = "flight" => quiet = RetryInterval]_vars

\* Resumes.  Once the edge stays below its limits, the pause ends for good:
\* probes keep being let through, and no late 403 pauses pushes for ever.
Resumes == <>[](~limited) => <>[](~paused)

=============================================================================
