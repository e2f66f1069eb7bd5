------------------------------ MODULE HourWindow ------------------------------
(***************************************************************************)
(* What an entry of the known-timeseries cache promises: the samples of    *)
(* the last HoursLog hours, hour by hour.  window[d] counts the samples    *)
(* recorded d hours before `latest`, the latest hour the entry was brought *)
(* up to; hours that leave the window are forgotten.  Module RingBuffer    *)
(* shows that the ring in the code keeps this promise.                     *)
(***************************************************************************)
EXTENDS Naturals

CONSTANTS HoursLog, MaxHour, MaxSamples

VARIABLES present, latest, window

winVars == <<present, latest, window>>

Empty == [d \in 0..HoursLog - 1 |-> 0]

\* The window once it is brought up to hour h; a clock that stands still or
\* has gone back moves nothing.
Shifted(h) ==
  LET p == IF h > latest THEN h - latest ELSE 0
  IN [d \in 0..HoursLog - 1 |-> IF d < p THEN 0 ELSE window[d - p]]

UpTo(h) == IF h > latest THEN h ELSE latest

WInit == present = FALSE /\ latest = 0 /\ window = Empty

Create(h, n) ==
  /\ ~present /\ present' = TRUE
  /\ latest' = h
  /\ window' = [Empty EXCEPT ![0] = n]

Record(h, n) ==
  /\ present /\ UNCHANGED present
  /\ latest' = UpTo(h)
  /\ window' = [Shifted(h) EXCEPT ![0] = @ + n]

Look(h) ==
  /\ present /\ UNCHANGED present
  /\ latest' = UpTo(h)
  /\ window' = Shifted(h)

Drop ==
  /\ present /\ present' = FALSE
  /\ latest' = 0 /\ window' = Empty

WNext ==
  \/ \E h \in 0..MaxHour, n \in 1..MaxSamples : Create(h, n) \/ Record(h, n)
  \/ \E h \in 0..MaxHour : Look(h)
  \/ Drop

WSpec == WInit /\ [][WNext]_winVars

=============================================================================
