------------------------- MODULE MCExtractionJob -------------------------
EXTENDS ExtractionJob, TLC

CONSTANTS w1, w2

\* The clock of w2 is one tick ahead.
MCSkew == [w \in Worker |-> IF w = w2 THEN 1 ELSE 0]

NoSkew == [w \in Worker |-> 0]
=============================================================================
