------------------------- MODULE IngestBackoffProofs -------------------------
(***************************************************************************)
(* The length of a pause, for every number of workers, every retry         *)
(* interval and every order of answers.  The properties speak of a history *)
(* (`quiet`), the code of a deadline (`hold`); HoldCovers relates them:    *)
(* what is left of the hold is exactly what is missing from the quiet      *)
(* period.  So pushes are not let through too early, nor held up for       *)
(* longer than the interval.                                               *)
(***************************************************************************)
EXTENDS IngestBackoff, TLAPS

HoldCovers == hold + quiet = RetryInterval

QInv == TypeOK /\ HoldCovers

\* QuietInit.  A valve that has not seen a 403 has nothing left to hold.
LEMMA QuietInit == Init => QInv
<1> SUFFICES ASSUME Init PROVE QInv
  OBVIOUS
<1>1. paused \in BOOLEAN /\ limited \in BOOLEAN
  BY Zenon DEF Init
<1>2. /\ hold \in 0..RetryInterval /\ quiet \in 0..RetryInterval /\ errors \in 0..MaxErrors
      /\ at \in [Workers -> {"idle", "flight", "answered"}]
      /\ got \in [Workers -> Statuses \cup {"none", "suppressed", "error"}]
  BY BackoffAssumption DEF BackoffAssumption, Init, Statuses
<1>3. HoldCovers
  BY BackoffAssumption DEF BackoffAssumption, Init, HoldCovers
<1> QED
  BY <1>1, <1>2, <1>3 DEF QInv, TypeOK

\* QuietInductive.  allow, observe, the edge and the clock keep the hold and the
\* quiet period in step.
LEMMA QuietInductive == QInv /\ [Next]_vars => QInv'
<1> SUFFICES ASSUME QInv, [Next]_vars PROVE QInv'
  OBVIOUS
<1> USE BackoffAssumption DEF BackoffAssumption, QInv, TypeOK, HoldCovers
<1>1. ASSUME NEW w \in Workers, AllowPush(w) PROVE QInv'
  BY <1>1 DEF AllowPush
<1>2. ASSUME NEW w \in Workers, AllowProbe(w) PROVE QInv'
  BY <1>2 DEF AllowProbe
<1>3. ASSUME NEW w \in Workers, Suppress(w) PROVE QInv'
  BY <1>3 DEF Suppress
<1>4. ASSUME NEW w \in Workers, EdgeAnswers(w) PROVE QInv'
  BY <1>4 DEF EdgeAnswers, Statuses
<1>5. ASSUME NEW w \in Workers, TransportError(w) PROVE QInv'
  BY <1>5 DEF TransportError
<1>6. ASSUME NEW w \in Workers, ObserveForbidden(w) PROVE QInv'
  BY <1>6 DEF ObserveForbidden
<1>7. ASSUME NEW w \in Workers, ObserveOther(w) PROVE QInv'
  BY <1>7, Zenon DEF ObserveOther
<1>8. ASSUME Tick PROVE QInv'
  BY <1>8 DEF Tick
<1>9. ASSUME LimitChanges PROVE QInv'
  BY <1>9 DEF LimitChanges
<1>10. ASSUME UNCHANGED vars PROVE QInv'
  BY <1>10 DEF vars
<1> QED
  BY <1>1, <1>2, <1>3, <1>4, <1>5, <1>6, <1>7, <1>8, <1>9, <1>10 DEF Next, Allow, Return

\* PausedIsQuiet.  In a pause no two pushes reach the network within one
\* retryInterval of each other, nor one within a retryInterval of a 403.
THEOREM PausedIsQuiet == Spec => QuietPeriod
<1>1. QInv /\ [Next]_vars =>
        [\A w \in Workers :
           paused /\ at[w] = "idle" /\ at'[w] = "flight" => quiet = RetryInterval]_vars
  <2> SUFFICES ASSUME QInv, Next, NEW w \in Workers,
                      paused, at[w] = "idle", at'[w] = "flight"
               PROVE  quiet = RetryInterval
    OBVIOUS
  <2>1. hold = 0
    BY Zenon DEF Next, Allow, Return, AllowPush, AllowProbe, Suppress, EdgeAnswers, TransportError,
           ObserveForbidden, ObserveOther, Tick, LimitChanges, QInv, TypeOK
  <2> QED
    BY <2>1, BackoffAssumption DEF BackoffAssumption, QInv, TypeOK, HoldCovers
<1> QED
  BY <1>1, QuietInit, QuietInductive, PTL DEF Spec, QuietPeriod

\* ProbeDue.  Once a full retryInterval has passed since the last 403 was
\* observed and since the last probe was let through, a pause holds no push
\* back any more: the next call of allow is let through as the probe.
ProbeDue == paused /\ quiet = RetryInterval => hold = 0

\* PauseIsProbed.  Neither suppressed pushes nor lost or late answers put the
\* next probe off: allow re-arms holdUntil only when it lets a probe through,
\* observe only for a 403.
THEOREM PauseIsProbed == Spec => []ProbeDue
<1>1. QInv => ProbeDue
  BY BackoffAssumption DEF BackoffAssumption, QInv, TypeOK, HoldCovers, ProbeDue
<1> QED
  BY <1>1, QuietInit, QuietInductive, PTL DEF Spec

=============================================================================
