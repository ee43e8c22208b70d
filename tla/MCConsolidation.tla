-------------------------- MODULE MCConsolidation --------------------------
EXTENDS Consolidation, TLC

CONSTANTS e1, e2

Kinds == (e1 :> "fact") @@ (e2 :> "injection")
=============================================================================
