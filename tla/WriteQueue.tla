----------------------------- MODULE WriteQueue -----------------------------
(***************************************************************************)
(* The intake and the shutdown of one manager: the bounded serial queue    *)
(* every event write goes through (enqueueBoundedWrite), the queue of      *)
(* derivations the writes feed, the sync in flight, and close(), which     *)
(* awaits them one after the other before it stops the job worker.         *)
(*                                                                         *)
(* JavaScript runs one of these steps at a time; awaits are what separates *)
(* them.  A promise chain is a sequence of the calls that have not settled *)
(* yet, and awaiting a chain is waiting for the calls that were on it when *)
(* the await was reached.  ManagerClose composes this module with the      *)
(* manager's change stream and access tracker.                             *)
(***************************************************************************)
EXTENDS Integers, Sequences, FiniteSets, SequencesExt

CONSTANTS
  Call,       \* calls of writeConversationEvent and writeConversationEventsBatch
  Barrier,    \* those that ask for a search barrier
  MaxDepth,   \* MEMONGO_WRITE_QUEUE_MAX_DEPTH
  MaxSync     \* bound on the syncs

ASSUME QueueConstants ==
  /\ Barrier \subseteq Call
  /\ MaxDepth \in Nat \ {0} /\ MaxSync \in Nat

VARIABLES
  pc,          \* Call -> where the call is
  writes,      \* writeQueue: calls that were accepted and have not settled
  depth,       \* writeQueueDepth
  derivations, \* derivationQueue: calls whose derivation has not run
  early,       \* calls that were accepted before close() began
  syncing,     \* a sync is in flight
  syncs,       \* syncs so far
  close,       \* how far close() is
  awaited      \* the calls close() awaits

queueVars == <<pc, writes, depth, derivations, early, syncing, syncs, close, awaited>>

closed == close # "no"

-----------------------------------------------------------------------------
(***************************************************************************)
(* Intake.                                                                 *)
(***************************************************************************)
\* enqueueBoundedWrite: WriteQueueFullError at the cap.
Enqueue(c) ==
  IF depth >= MaxDepth
  THEN pc' = [pc EXCEPT ![c] = "refused"] /\ UNCHANGED <<writes, depth, early>>
  ELSE /\ pc' = [pc EXCEPT ![c] = "queued"]
       /\ writes' = Append(writes, c)
       /\ depth' = depth + 1
       /\ early' = IF closed THEN early ELSE early \cup {c}

\* A call of a closed manager throws.
CallClosed(c) ==
  /\ pc[c] = "new" /\ closed
  /\ pc' = [pc EXCEPT ![c] = "refused"]
  /\ UNCHANGED <<writes, depth, derivations, early, syncing, syncs, close, awaited>>

\* A plain write or a batch: from the check of closed to the queue without an await.
CallWrite(c) ==
  /\ pc[c] = "new" /\ c \notin Barrier /\ ~ closed
  /\ Enqueue(c)
  /\ UNCHANGED <<derivations, syncing, syncs, close, awaited>>

\* A barrier write asks for the search indexes first: assertSearchBarrierTargets.
CallBarrier(c) ==
  /\ pc[c] = "new" /\ c \in Barrier /\ ~ closed
  /\ pc' = [pc EXCEPT ![c] = "targets"]
  /\ UNCHANGED <<writes, depth, derivations, early, syncing, syncs, close, awaited>>

\* The indexes are there: the write is queued.
TargetsFound(c) ==
  /\ pc[c] = "targets"
  /\ Enqueue(c)
  /\ UNCHANGED <<derivations, syncing, syncs, close, awaited>>

\* SearchBarrierUnsupportedError
TargetsMissing(c) ==
  /\ pc[c] = "targets"
  /\ pc' = [pc EXCEPT ![c] = "refused"]
  /\ UNCHANGED <<writes, depth, derivations, early, syncing, syncs, close, awaited>>

-----------------------------------------------------------------------------
(***************************************************************************)
(* The two chains.                                                         *)
(***************************************************************************)
\* The write at the head runs its transactions and queues its derivation.
Write(c) ==
  /\ writes # <<>> /\ c = Head(writes) /\ pc[c] = "queued"
  /\ pc' = [pc EXCEPT ![c] = "written"]
  /\ derivations' = Append(derivations, c)
  /\ UNCHANGED <<writes, depth, early, syncing, syncs, close, awaited>>

\* Its transaction fails, or there was a receipt to replay: no derivation.
WriteNothing(c) ==
  /\ writes # <<>> /\ c = Head(writes) /\ pc[c] = "queued"
  /\ pc' = [pc EXCEPT ![c] = "failed"]
  /\ UNCHANGED <<writes, depth, derivations, early, syncing, syncs, close, awaited>>

\* Defective variants: the depth is given back only by writes that succeed; a
\* rejected write blocks the chain.
SettleLeaking(c) ==
  /\ pc[c] \in {"written", "failed"}
  /\ writes' = Tail(writes)
  /\ depth' = IF pc[c] = "failed" THEN depth ELSE depth - 1
  /\ pc' = [pc EXCEPT ![c] = "done"]
  /\ UNCHANGED <<derivations, early, syncing, syncs, close, awaited>>

SettleWritten(c) ==
  /\ pc[c] = "written"
  /\ writes' = Tail(writes)
  /\ depth' = depth - 1
  /\ pc' = [pc EXCEPT ![c] = "done"]
  /\ UNCHANGED <<derivations, early, syncing, syncs, close, awaited>>

\* The promise of the write settles either way: the next one starts and the depth is
\* given back.
Settle(c) ==
  /\ pc[c] \in {"written", "failed"}
  /\ writes' = Tail(writes)
  /\ depth' = depth - 1
  /\ pc' = [pc EXCEPT ![c] = "done"]
  /\ UNCHANGED <<derivations, early, syncing, syncs, close, awaited>>

\* The derivation at the head runs; its failure is recorded and swallowed.
Derive ==
  /\ derivations # <<>>
  /\ derivations' = Tail(derivations)
  /\ UNCHANGED <<pc, writes, depth, early, syncing, syncs, close, awaited>>

\* sync: nothing on a closed manager, the one in flight when there is one.
Sync ==
  /\ ~ closed /\ ~ syncing /\ syncs < MaxSync
  /\ syncing' = TRUE /\ syncs' = syncs + 1
  /\ UNCHANGED <<pc, writes, depth, derivations, early, close, awaited>>

SyncEnds ==
  /\ syncing
  /\ syncing' = FALSE
  /\ UNCHANGED <<pc, writes, depth, derivations, early, syncs, close, awaited>>

-----------------------------------------------------------------------------
(***************************************************************************)
(* close().                                                                *)
(***************************************************************************)
Close ==
  /\ ~ closed
  /\ close' = "sync"
  /\ UNCHANGED <<pc, writes, depth, derivations, early, syncing, syncs, awaited>>

\* await this.syncing, then await this.writeQueue as it is now.
AwaitWrites ==
  /\ close = "sync" /\ ~ syncing
  /\ close' = "writes" /\ awaited' = ToSet(writes)
  /\ UNCHANGED <<pc, writes, depth, derivations, early, syncing, syncs>>

\* Defective variant: the derivations that are awaited are those there were when
\* close began to wait for the writes.
AwaitDerivationsTooSoon ==
  /\ close = "writes"
  /\ close' = "derivations" /\ awaited' = ToSet(derivations)
  /\ UNCHANGED <<pc, writes, depth, derivations, early, syncing, syncs>>

\* await this.derivationQueue once the awaited writes have settled.
AwaitDerivations ==
  /\ close = "writes" /\ awaited \cap ToSet(writes) = {}
  /\ close' = "derivations" /\ awaited' = ToSet(derivations)
  /\ UNCHANGED <<pc, writes, depth, derivations, early, syncing, syncs>>

\* stopMemoryJobWorker; the file watcher is closed next.
StopWorker ==
  /\ close = "derivations" /\ awaited \cap ToSet(derivations) = {}
  /\ close' = "stopped" /\ awaited' = {}
  /\ UNCHANGED <<pc, writes, depth, derivations, early, syncing, syncs>>

-----------------------------------------------------------------------------
QueueInit ==
  /\ pc = [c \in Call |-> "new"]
  /\ writes = <<>> /\ depth = 0 /\ derivations = <<>> /\ early = {}
  /\ syncing = FALSE /\ syncs = 0
  /\ close = "no" /\ awaited = {}

Intake(c) ==
  CallClosed(c) \/ CallWrite(c) \/ CallBarrier(c) \/ TargetsFound(c) \/ TargetsMissing(c)

Chain(c) == Write(c) \/ WriteNothing(c) \/ Settle(c)

-----------------------------------------------------------------------------
\* The depth is exactly the number of unfinished writes, failed ones included: the
\* queue neither grows past its cap nor shrinks for good (enqueueBoundedWrite).
DepthCounts ==
  /\ depth = Len(writes) /\ depth <= MaxDepth
  /\ ToSet(writes) = {c \in Call : pc[c] \in {"queued", "written", "failed"}}

\* When close() stops the worker, every write that was accepted before it began has
\* settled and its derivation has run, whatever was queued meanwhile.
DrainedBeforeStop ==
  close \notin {"no", "sync", "writes", "derivations"} =>
    early \cap (ToSet(writes) \cup ToSet(derivations)) = {}
=============================================================================
