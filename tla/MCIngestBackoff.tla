--------------------------- MODULE MCIngestBackoff ---------------------------
EXTENDS IngestBackoff

CONSTANTS w1, w2

TwoWorkers == {w1, w2}

=============================================================================
