-------------------------- MODULE MCManagerClose --------------------------
EXTENDS ManagerClose, TLC

CONSTANTS c1, c2, c3
=============================================================================
