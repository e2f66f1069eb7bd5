--------------------------- MODULE RingBufferProofs ---------------------------
(***************************************************************************)
(* The ring of an entry of the known-timeseries cache implements the       *)
(* hourly window, and an entry sums to zero exactly when its last sample   *)
(* is HoursLog or more hours old: for every number of slots, every         *)
(* sequence of clock readings and every sample count.                      *)
(***************************************************************************)
EXTENDS RingBuffer, TLAPS

\* SlotSum.  The remainders that advanceRingBuffer takes of a slot moved by
\* less than a turn of the ring are at most one subtraction away.
LEMMA SlotSum ==
  ASSUME NEW a \in Slots, NEW i \in Slots
  PROVE  (a + i) % HoursLog = IF a + i < HoursLog THEN a + i ELSE a + i - HoursLog
<1> USE RingAssumption DEF RingAssumption, Slots
<1> DEFINE x == a + i
<1>1. x \in 0..2 * HoursLog - 1
  OBVIOUS
<1> HIDE DEF x
<1>2. x % HoursLog = IF x < HoursLog THEN x ELSE x - HoursLog
  <2>1. CASE x < HoursLog
    BY <1>1, <2>1
  <2>2. CASE x >= HoursLog
    BY <1>1, <2>2
  <2> QED
    BY <1>1, <2>1, <2>2
<1> QED
  BY <1>2 DEF x

\* ModSlot.  The slot of an hour is a slot.
LEMMA ModSlot ==
  ASSUME NEW h \in Nat
  PROVE  h % HoursLog \in Slots
  BY RingAssumption DEF RingAssumption, Slots

\* SlotType.  Every hour of the window has a slot of the ring; the current hour,
\* and no other, has the head.
LEMMA SlotType ==
  ASSUME NEW k \in Slots, NEW d \in Slots
  PROVE  SlotBefore(k, d) \in Slots /\ (SlotBefore(k, d) = k <=> d = 0)
  BY RingAssumption DEF RingAssumption, Slots, SlotBefore

\* AdvanceType.  advanceRingBuffer keeps the entry well typed.
LEMMA AdvanceType ==
  ASSUME TypeOK, NEW h \in 0..MaxHour
  PROVE  /\ HoursPassed(h) \in Nat
         /\ AdvancedHour(h) \in 0..MaxHour
         /\ AdvancedHour(h) = IF h > lastHour THEN h ELSE lastHour
         /\ AdvancedHead(h) \in Slots
         /\ Advanced(h) \in [Slots -> Nat]
<1>1. HoursPassed(h) \in Nat /\ AdvancedHour(h) \in 0..MaxHour
  BY RingAssumption DEF RingAssumption, TypeOK, HoursPassed, AdvancedHour
<1>2. AdvancedHour(h) = IF h > lastHour THEN h ELSE lastHour
  BY RingAssumption DEF RingAssumption, TypeOK, HoursPassed, AdvancedHour
<1>3. head + HoursPassed(h) \in Nat
  BY <1>1, RingAssumption DEF RingAssumption, TypeOK, Slots
<1>4. AdvancedHead(h) \in Slots
  BY <1>3, ModSlot DEF AdvancedHead
<1>5. Advanced(h) \in [Slots -> Nat]
  BY DEF Advanced, TypeOK
<1> QED
  BY <1>1, <1>2, <1>4, <1>5

\* AdvanceShifts.  Seen from its head, the ring is shifted by the hours that
\* have passed: the hours since are empty and the others keep their counts.
LEMMA AdvanceShifts ==
  ASSUME TypeOK, NEW h \in 0..MaxHour, NEW d \in Slots
  PROVE  Advanced(h)[SlotBefore(AdvancedHead(h), d)] =
           IF d < HoursPassed(h) THEN 0 ELSE samples[SlotBefore(head, d - HoursPassed(h))]
<1> DEFINE p == HoursPassed(h)
           k == AdvancedHead(h)
           s == SlotBefore(k, d)
<1> USE RingAssumption DEF RingAssumption
<1>1. p \in Nat /\ k \in Slots /\ head \in Slots
  BY AdvanceType DEF TypeOK
<1>2. s \in Slots
  BY <1>1 DEF SlotBefore, Slots
<1>3. Advanced(h)[s] = IF s \in Cleared(h) THEN 0 ELSE samples[s]
  BY <1>2 DEF Advanced
<1>4. CASE p >= HoursLog
  BY <1>1, <1>2, <1>3, <1>4 DEF Cleared, Slots
<1>5. CASE p < HoursLog
  <2>1. k = IF head + p < HoursLog THEN head + p ELSE head + p - HoursLog
    <3>1. p \in Slots /\ k = (head + p) % HoursLog
      BY <1>1, <1>5 DEF Slots, AdvancedHead
    <3> QED
      BY <1>1, <3>1, SlotSum, Zenon
  <2>2. \A i \in 1..p :
          (head + i) % HoursLog = IF head + i < HoursLog THEN head + i ELSE head + i - HoursLog
    <3>1. \A i \in 1..p : i \in Slots
      BY <1>1, <1>5 DEF Slots
    <3> QED
      BY <1>1, <3>1, SlotSum, Zenon
  <2>3. Cleared(h) = {(head + i) % HoursLog : i \in 1..p}
    BY <1>1, <1>5 DEF Cleared
  <2>4. CASE d < p
    <3> DEFINE i == p - d
    <3>1. i \in 1..p
      BY <1>1, <2>4 DEF Slots
    <3>2. s = IF head + i < HoursLog THEN head + i ELSE head + i - HoursLog
      BY <1>1, <1>5, <2>1, <2>4 DEF Slots, SlotBefore
    <3>3. s = (head + i) % HoursLog
      BY <2>2, <3>1, <3>2, Zenon
    <3> QED
      BY <1>3, <2>3, <2>4, <3>1, <3>3
  <2>5. CASE d >= p
    <3>1. s = SlotBefore(head, d - p)
      BY <1>1, <1>5, <2>1, <2>5 DEF Slots, SlotBefore
    <3>2. \A i \in 1..p : (head + i) % HoursLog # s
      BY <1>1, <1>5, <2>1, <2>2, <2>5 DEF Slots, SlotBefore
    <3> QED
      BY <1>1, <1>3, <2>3, <2>5, <3>1, <3>2 DEF Slots
  <2> QED
    BY <1>1, <2>4, <2>5 DEF Slots
<1> QED
  BY <1>1, <1>4, <1>5

-----------------------------------------------------------------------------
(* The entry, action by action.                                             *)

\* InitTypeOK, TypeStep.  The entry stays well typed.
LEMMA InitTypeOK == Init => TypeOK
<1> SUFFICES ASSUME Init PROVE TypeOK
  OBVIOUS
<1>1. present \in BOOLEAN
  BY Zenon DEF Init
<1>2. head \in Slots /\ samples \in [Slots -> Nat]
  BY RingAssumption DEF RingAssumption, Init, Zeros, Slots
<1> QED
  BY <1>1, <1>2, RingAssumption DEF RingAssumption, Init, TypeOK

LEMMA TypeStep == TypeOK /\ [Next]_vars => TypeOK'
<1> SUFFICES ASSUME TypeOK, [Next]_vars PROVE TypeOK'
  OBVIOUS
<1> USE RingAssumption DEF RingAssumption
<1>1. ASSUME NEW h \in 0..MaxHour, NEW n \in 1..MaxSamples, NewEntry(h, n) PROVE TypeOK'
  <2>1. h % HoursLog \in Slots
    BY ModSlot
  <2>2. samples' \in [Slots -> Nat]
    BY <1>1, <2>1 DEF NewEntry, Zeros
  <2> QED
    BY <1>1, <2>1, <2>2 DEF NewEntry, TypeOK
<1>2. ASSUME NEW h \in 0..MaxHour, NEW n \in 1..MaxSamples, UpdateTimeseries(h, n) PROVE TypeOK'
  <2>1. samples' \in [Slots -> Nat]
    BY <1>2, AdvanceType DEF UpdateTimeseries
  <2> QED
    BY <1>2, <2>1, AdvanceType DEF UpdateTimeseries, TypeOK
<1>3. ASSUME NEW h \in 0..MaxHour, Sweep(h) PROVE TypeOK'
  BY <1>3, AdvanceType DEF Sweep, TypeOK
<1>4. ASSUME DeleteBatch PROVE TypeOK'
  <2>1. present' \in BOOLEAN
    BY <1>4, Zenon DEF DeleteBatch
  <2>2. head' \in Slots /\ samples' \in [Slots -> Nat]
    BY <1>4 DEF DeleteBatch, Zeros, Slots
  <2> QED
    BY <1>4, <2>1, <2>2 DEF DeleteBatch, TypeOK
<1>5. ASSUME UNCHANGED vars PROVE TypeOK'
  BY <1>5 DEF vars, TypeOK
<1> QED
  BY <1>1, <1>2, <1>3, <1>4, <1>5 DEF Next

\* NewWindow, UpdatedWindow, SweptWindow.  What each operation of the cache does
\* to the window that the ring stands for.
LEMMA NewWindow ==
  ASSUME TypeOK, NEW h \in 0..MaxHour, NEW n \in 1..MaxSamples, NewEntry(h, n)
  PROVE  Window' = [d \in Slots |-> IF d = 0 THEN n ELSE 0]
<1>1. head' \in Slots /\ samples' = [s \in Slots |-> IF s = head' THEN n ELSE 0]
  BY ModSlot, RingAssumption DEF RingAssumption, NewEntry, Zeros
<1>2. \A d \in Slots : SlotBefore(head', d) \in Slots /\ (SlotBefore(head', d) = head' <=> d = 0)
  BY <1>1, SlotType
<1> QED
  BY <1>1, <1>2 DEF Window

LEMMA SweptWindow ==
  ASSUME TypeOK, NEW h \in 0..MaxHour, Sweep(h)
  PROVE  Window' = W!Shifted(h)
<1>1. HoursPassed(h) \in Nat
  BY AdvanceType
<1>2. \A d \in Slots : samples'[SlotBefore(head', d)] =
        IF d < HoursPassed(h) THEN 0 ELSE samples[SlotBefore(head, d - HoursPassed(h))]
  BY AdvanceShifts DEF Sweep
<1>3. \A d \in Slots : ~(d < HoursPassed(h)) => d - HoursPassed(h) \in Slots
  BY <1>1, RingAssumption DEF RingAssumption, Slots
<1> QED
  BY <1>2, <1>3 DEF Window, W!Shifted, HoursPassed, Slots

LEMMA UpdatedWindow ==
  ASSUME TypeOK, NEW h \in 0..MaxHour, NEW n \in 1..MaxSamples, UpdateTimeseries(h, n)
  PROVE  Window' = [W!Shifted(h) EXCEPT ![0] = @ + n]
<1> DEFINE k == AdvancedHead(h)
<1>1. HoursPassed(h) \in Nat
  BY AdvanceType
<1>2. k \in Slots /\ Advanced(h) \in [Slots -> Nat]
  BY AdvanceType
<1>3. \A d \in Slots : SlotBefore(k, d) \in Slots /\ (SlotBefore(k, d) = k <=> d = 0)
  BY <1>2, SlotType
<1>4. \A d \in Slots : samples'[SlotBefore(head', d)] =
        IF d = 0 THEN Advanced(h)[SlotBefore(k, d)] + n ELSE Advanced(h)[SlotBefore(k, d)]
  BY <1>2, <1>3 DEF UpdateTimeseries
<1>5. \A d \in Slots : Advanced(h)[SlotBefore(k, d)] =
        IF d < HoursPassed(h) THEN 0 ELSE samples[SlotBefore(head, d - HoursPassed(h))]
  BY AdvanceShifts
<1>6. \A d \in Slots : ~(d < HoursPassed(h)) => d - HoursPassed(h) \in Slots
  BY <1>1, RingAssumption DEF RingAssumption, Slots
<1>7. W!Shifted(h) = [d \in Slots |-> Advanced(h)[SlotBefore(k, d)]]
  BY <1>5, <1>6, Zenon DEF Window, W!Shifted, HoursPassed, Slots
<1>8. 0 \in Slots
  BY RingAssumption DEF RingAssumption, Slots
<1> QED
  BY <1>4, <1>7, <1>8 DEF Window

\* RingImplementsWindow.  Advancing the ring in place, with its two branches and
\* a clock that may go back or leap, is indistinguishable from keeping the
\* counts of the last HoursLog hours and forgetting the older ones.
THEOREM RingImplementsWindow == Spec => KeepsWindow
<1> USE RingAssumption DEF RingAssumption
<1>1. Init => W!WInit
  <2> SUFFICES ASSUME Init PROVE W!WInit
    OBVIOUS
  <2>1. \A d \in Slots : SlotBefore(head, d) \in Slots
    BY SlotType, InitTypeOK DEF TypeOK
  <2> QED
    BY <2>1 DEF Init, W!WInit, W!Empty, Window, Zeros, Slots
<1>2. TypeOK /\ TypeOK' /\ [Next]_vars => [W!WNext]_(W!winVars)
  <2> SUFFICES ASSUME TypeOK, TypeOK', [Next]_vars PROVE [W!WNext]_(W!winVars)
    OBVIOUS
  <2>1. ASSUME NEW h \in 0..MaxHour, NEW n \in 1..MaxSamples, NewEntry(h, n) PROVE W!WNext
    <3>1. Window' = [W!Empty EXCEPT ![0] = n]
      BY <2>1, NewWindow DEF W!Empty, Slots
    <3>2. W!Create(h, n)
      BY <2>1, <3>1 DEF NewEntry, W!Create
    <3> QED
      BY <3>2 DEF W!WNext
  <2>2. ASSUME NEW h \in 0..MaxHour, NEW n \in 1..MaxSamples, UpdateTimeseries(h, n) PROVE W!WNext
    <3>1. W!Record(h, n)
      BY <2>2, UpdatedWindow, AdvanceType, Zenon DEF UpdateTimeseries, W!Record, W!UpTo
    <3> QED
      BY <3>1 DEF W!WNext
  <2>3. ASSUME NEW h \in 0..MaxHour, Sweep(h) PROVE W!WNext
    <3>1. W!Look(h)
      BY <2>3, SweptWindow, AdvanceType DEF Sweep, W!Look, W!UpTo
    <3> QED
      BY <3>1 DEF W!WNext
  <2>4. ASSUME DeleteBatch PROVE W!WNext
    <3>1. \A d \in Slots : SlotBefore(head', d) \in Slots
      BY SlotType DEF TypeOK
    <3>2. W!Drop
      BY <2>4, <3>1 DEF DeleteBatch, W!Drop, W!Empty, Window, Zeros, Slots
    <3> QED
      BY <3>2 DEF W!WNext
  <2>5. ASSUME UNCHANGED vars PROVE UNCHANGED W!winVars
    BY <2>5 DEF vars, W!winVars, Window
  <2> QED
    BY <2>1, <2>2, <2>3, <2>4, <2>5 DEF Next
<1> QED
  BY <1>1, <1>2, InitTypeOK, TypeStep, PTL DEF Spec, KeepsWindow, W!WSpec

-----------------------------------------------------------------------------
(* SilentExactly, by an invariant on the window: the hours after the last    *)
(* sample are empty and the hour of the last sample is not.                  *)

LastIsNewest ==
  LET gap == lastHour - lastSample IN
  present => /\ \A d \in Slots : d < gap => Window[d] = 0
             /\ gap < HoursLog => Window[gap] > 0

RInv == TypeOK /\ lastSample <= lastHour /\ LastIsNewest

\* NewestStep.  Every operation of the cache keeps the newest hour of the window
\* that of the last sample.
LEMMA NewestStep == RInv /\ [Next]_vars => RInv'
<1> SUFFICES ASSUME RInv, [Next]_vars PROVE RInv'
  OBVIOUS
<1>t. TypeOK /\ TypeOK'
  BY TypeStep DEF RInv
<1> USE RingAssumption DEF RingAssumption
<1>0. 0 \in Slots /\ lastHour \in Nat /\ lastSample \in Nat /\ lastSample <= lastHour
  BY <1>t DEF TypeOK, Slots, RInv
<1>1. ASSUME NEW h \in 0..MaxHour, NEW n \in 1..MaxSamples, NewEntry(h, n) PROVE RInv'
  <2>1. Window' = [d \in Slots |-> IF d = 0 THEN n ELSE 0]
    BY <1>t, <1>1, NewWindow
  <2>2. lastHour' - lastSample' = 0 /\ lastSample' <= lastHour'
    BY <1>1 DEF NewEntry
  <2>3. LastIsNewest'
    BY <1>0, <2>1, <2>2 DEF LastIsNewest, Slots
  <2> QED
    BY <1>t, <2>2, <2>3 DEF RInv
<1>2. ASSUME NEW h \in 0..MaxHour, NEW n \in 1..MaxSamples, UpdateTimeseries(h, n) PROVE RInv'
  <2>1. Window' = [W!Shifted(h) EXCEPT ![0] = @ + n]
    BY <1>t, <1>2, UpdatedWindow
  <2>2. lastHour' - lastSample' = 0 /\ lastSample' <= lastHour'
    BY <1>t, <1>2, AdvanceType DEF UpdateTimeseries
  <2>3. W!Shifted(h)[0] \in Nat
    <3>1. \A d \in Slots : Window[d] \in Nat
      BY <1>t, SlotType DEF Window, TypeOK
    <3> QED
      BY <1>0, <3>1 DEF W!Shifted, Slots
  <2>4. Window'[0] > 0
    BY <1>0, <2>1, <2>3 DEF W!Shifted, Slots
  <2>5. LastIsNewest'
    BY <2>2, <2>4 DEF LastIsNewest, Slots
  <2> QED
    BY <1>t, <2>2, <2>5 DEF RInv
<1>3. ASSUME NEW h \in 0..MaxHour, Sweep(h) PROVE RInv'
  <2> DEFINE p == HoursPassed(h)
             gap == lastHour - lastSample
  <2>1. \A d \in Slots : Window'[d] = IF d < p THEN 0 ELSE Window[d - p]
    BY <1>t, <1>3, SweptWindow DEF W!Shifted, HoursPassed, Slots
  <2>2. p \in Nat /\ gap \in Nat /\ lastSample' <= lastHour'
    BY <1>t, <1>0, <1>3, AdvanceType DEF Sweep
  <2>3. lastHour' - lastSample' = gap + p
    BY <1>0, <1>3, <2>2 DEF Sweep, AdvancedHour
  <2>4. present /\ LastIsNewest
    BY <1>3 DEF Sweep, RInv
  <2> HIDE DEF p
  <2>5. \A d \in Slots : d < gap + p => Window'[d] = 0
    BY <2>1, <2>2, <2>4 DEF LastIsNewest, Slots
  <2>6. gap + p < HoursLog => Window'[gap + p] > 0
    <3> SUFFICES ASSUME gap + p < HoursLog PROVE Window'[gap + p] > 0
      OBVIOUS
    <3>1. gap + p \in Slots /\ ~(gap + p < p) /\ (gap + p) - p = gap /\ gap < HoursLog
      BY <2>2 DEF Slots
    <3> QED
      BY <2>1, <2>4, <3>1 DEF LastIsNewest
  <2>7. LastIsNewest'
    BY <2>3, <2>5, <2>6 DEF LastIsNewest
  <2> QED
    BY <1>t, <2>2, <2>7 DEF RInv
<1>4. ASSUME DeleteBatch PROVE RInv'
  BY <1>t, <1>4 DEF DeleteBatch, RInv, LastIsNewest
<1>5. ASSUME UNCHANGED vars PROVE RInv'
  BY <1>t, <1>5 DEF vars, RInv, LastIsNewest, Window
<1> QED
  BY <1>1, <1>2, <1>3, <1>4, <1>5 DEF Next

\* SilentSeriesAreExact.  No entry is deleted as inactive while it has a sample
\* of the last HoursLog hours, and every entry without one is.
THEOREM SilentSeriesAreExact == Spec => []SilentExactly
<1> USE RingAssumption DEF RingAssumption
<1>1. Init => RInv
  BY InitTypeOK DEF Init, RInv, LastIsNewest
<1>2. RInv => SilentExactly
  <2> SUFFICES ASSUME RInv, present PROVE IsSilent <=> lastHour - lastSample >= HoursLog
    BY DEF SilentExactly
  <2> DEFINE gap == lastHour - lastSample
  <2>1. gap \in Nat /\ head \in Slots /\ LastIsNewest
    BY DEF RInv, TypeOK
  <2>2. CASE gap >= HoursLog
    <3>1. \A d \in Slots : Window[d] = 0
      BY <2>1, <2>2 DEF LastIsNewest, Slots
    <3>2. \A s \in Slots : SlotBefore(head, s) \in Slots /\ SlotBefore(head, SlotBefore(head, s)) = s
      BY <2>1 DEF Slots, SlotBefore
    <3>3. \A s \in Slots : samples[s] = Window[SlotBefore(head, s)]
      BY <3>2 DEF Window
    <3> QED
      BY <2>2, <3>1, <3>2, <3>3 DEF IsSilent
  <2>3. CASE gap < HoursLog
    <3>1. gap \in Slots /\ Window[gap] > 0
      BY <2>1, <2>3 DEF LastIsNewest, Slots
    <3>2. samples[SlotBefore(head, gap)] > 0 /\ SlotBefore(head, gap) \in Slots
      BY <2>1, <3>1, SlotType DEF Window
    <3> QED
      BY <2>1, <2>3, <3>2 DEF IsSilent
  <2> QED
    BY <2>1, <2>2, <2>3
<1> QED
  BY <1>1, <1>2, NewestStep, PTL DEF Spec

=============================================================================
