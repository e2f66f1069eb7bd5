----------------------------- MODULE MCRingBuffer -----------------------------
EXTENDS RingBuffer

CONSTANT MaxCount       \* bound: samples counted in one slot

Bounded == \A s \in Slots : samples[s] <= MaxCount

=============================================================================
