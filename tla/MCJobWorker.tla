---------------------------- MODULE MCJobWorker ----------------------------
EXTENDS JobWorker
=============================================================================
