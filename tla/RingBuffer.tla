------------------------------ MODULE RingBuffer ------------------------------
(***************************************************************************)
(* One entry of the known-timeseries cache: a ring of hourly sample counts *)
(* that is advanced in place, to the hour of the wall clock, whenever the  *)
(* entry is touched.  The clock is read under the cache's mutex and may    *)
(* have gone backwards or leapt ahead since the last time.                 *)
(***************************************************************************)
EXTENDS Naturals

CONSTANTS
  HoursLog,     \* slots of the ring
  MaxHour,      \* bound: hours of the clock
  MaxSamples    \* bound: samples of one batch

ASSUME RingAssumption ==
  /\ HoursLog \in Nat \ {0}
  /\ MaxHour \in Nat
  /\ MaxSamples \in Nat

VARIABLES
  present,      \* the entry exists
  lastHour,     \* hour the ring was last brought up to
  head,         \* slot of that hour
  samples,      \* the ring
  lastSample    \* history: the hour under which the last sample was counted

vars == <<present, lastHour, head, samples, lastSample>>

Slots == 0..HoursLog - 1

TypeOK ==
  /\ present \in BOOLEAN
  /\ lastHour \in 0..MaxHour
  /\ head \in Slots
  /\ samples \in [Slots -> Nat]
  /\ lastSample \in 0..MaxHour

Zeros == [s \in Slots |-> 0]

Init ==
  /\ present = FALSE
  /\ lastHour = 0 /\ head = 0 /\ samples = Zeros
  /\ lastSample = 0

-----------------------------------------------------------------------------
(* advanceRingBuffer: the head and the ring after it, for the current hour. *)

HoursPassed(h) == IF h > lastHour THEN h - lastHour ELSE 0

\* The slots that the loop moves the head over, or all of them.
Cleared(h) ==
  IF HoursPassed(h) >= HoursLog THEN Slots
  ELSE {(head + i) % HoursLog : i \in 1..HoursPassed(h)}

\* Mutant: a clock that went backwards moves the head back.
AdvancedHeadAlways(h) == h % HoursLog

AdvancedHead(h) ==
  IF HoursPassed(h) >= HoursLog THEN h % HoursLog
  ELSE (head + HoursPassed(h)) % HoursLog

Advanced(h) == [s \in Slots |-> IF s \in Cleared(h) THEN 0 ELSE samples[s]]

AdvancedHour(h) == lastHour + HoursPassed(h)

-----------------------------------------------------------------------------
\* UpdateTimeseries for a key that is not in the cache.
NewEntry(h, n) ==
  /\ ~present /\ present' = TRUE
  /\ lastHour' = h
  /\ head' = h % HoursLog
  /\ samples' = [Zeros EXCEPT ![h % HoursLog] = n]
  /\ lastSample' = h

\* UpdateTimeseries for a key that is.
UpdateTimeseries(h, n) ==
  /\ present /\ UNCHANGED present
  /\ lastHour' = AdvancedHour(h)
  /\ head' = AdvancedHead(h)
  /\ samples' = [Advanced(h) EXCEPT ![AdvancedHead(h)] = @ + n]
  /\ lastSample' = AdvancedHour(h)

\* Mutant: the head moves on without clearing the slots it enters.
SweepNoClear(h) ==
  /\ present /\ UNCHANGED present
  /\ lastHour' = AdvancedHour(h)
  /\ head' = AdvancedHead(h)
  /\ UNCHANGED <<samples, lastSample>>

\* GetActiveTimeseriesBatch and GetInactiveTimeseriesBatch reach the entry.
Sweep(h) ==
  /\ present /\ UNCHANGED present
  /\ lastHour' = AdvancedHour(h)
  /\ head' = AdvancedHead(h)
  /\ samples' = Advanced(h)
  /\ UNCHANGED lastSample

DeleteBatch ==
  /\ present /\ present' = FALSE
  /\ lastHour' = 0 /\ head' = 0 /\ samples' = Zeros
  /\ lastSample' = 0

Next ==
  \/ \E h \in 0..MaxHour, n \in 1..MaxSamples : NewEntry(h, n) \/ UpdateTimeseries(h, n)
  \/ \E h \in 0..MaxHour : Sweep(h)
  \/ DeleteBatch

Spec == Init /\ [][Next]_vars

-----------------------------------------------------------------------------
\* sumSamples = 0, for counts that are never negative.
IsSilent == \A s \in Slots : samples[s] = 0

\* SilentExactly.  An entry sums to zero, and so is reported as inactive and
\* deleted, exactly when its last sample is HoursLog or more hours old.
SilentExactly ==
  present => (IsSilent <=> lastHour - lastSample >= HoursLog)

\* The slot of d hours before the hour of slot k.
SlotBefore(k, d) == IF d <= k THEN k - d ELSE k + HoursLog - d

Window == [d \in Slots |-> samples[SlotBefore(head, d)]]

W == INSTANCE HourWindow WITH latest <- lastHour, window <- Window

\* KeepsWindow.  The ring implements the hourly window: advancing it in place
\* forgets the hours that leave the window and no others.
KeepsWindow == W!WSpec

=============================================================================
