----------------------------- MODULE MCIndexSync -----------------------------
EXTENDS IndexSync, TLC

CONSTANTS s1, s2, r1, r2, l1, l2

OneSeries == {s1}
TwoSeries == {s1, s2}
OneReceiver == {r1}
TwoReceivers == {r1, r2}
OneLoop == {l1}
TwoLoops == {l1, l2}
NoRejects == {}
CreateRejects == {"create"}
AllRejects == Ops

Symmetry ==
  Permutations(Series) \cup Permutations(Receivers) \cup Permutations(Loops)

=============================================================================
