--------------------------- MODULE MCBatchWrite ---------------------------
EXTENDS BatchWrite, TLC

CONSTANTS k1, b1, b2

\* Every batch of these items; a keyless item needs one payload only.
AnyBatch ==
  [Item -> [key : {k1}, body : {b1, b2}, kind : {"good", "unbuildable", "invalid"}]
             \cup [key : {NoKey}, body : {b1}, kind : {"good", "invalid"}]]
=============================================================================
