--------------------------- MODULE MCErasureGate ---------------------------
EXTENDS ErasureGate
=============================================================================
