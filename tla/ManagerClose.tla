---------------------------- MODULE ManagerClose ----------------------------
(***************************************************************************)
(* One manager: its write queue (WriteQueue), its access tracker           *)
(* (AccessTracker) and its change stream (ChangeStream), which run side by *)
(* side until close() takes them down one after the other.                 *)
(*                                                                         *)
(* The parts share the flag that the manager is closed, the sync that a    *)
(* gap of the change stream asks for, and the order of close(), nothing    *)
(* else.  A behaviour is therefore about one part under load at a time,    *)
(* with the others idle.                                                   *)
(***************************************************************************)
EXTENDS WriteQueue, AccessTracker, ChangeStream

ASSUME CloseConstants == MaxChange \in Nat /\ MaxLoss \in Nat

VARIABLES
  load,    \* the part that is in use
  gapReSyncInFlight

vars == <<queueVars, trackerVars, streamVars, load, gapReSyncInFlight>>

Init ==
  /\ load \in {"queue", "tracker", "stream"}
  /\ QueueInit /\ TrackerInit /\ StreamInit
  /\ load # "stream" => saved = 0
  /\ gapReSyncInFlight = FALSE

-----------------------------------------------------------------------------
Queue ==
  /\ \/ \E c \in Call : load = "queue" /\ (Intake(c) \/ Chain(c))
     \/ Derive
     \/ load # "tracker" /\ Sync
     \/ Close \/ AwaitWrites \/ AwaitDerivations \/ StopWorker
  /\ UNCHANGED <<trackerVars, streamVars, load, gapReSyncInFlight>>

\* The sync ends, well or not; so does the re-scan that waited for it.
SyncSettles ==
  /\ SyncEnds
  /\ gapReSyncInFlight' = FALSE
  /\ UNCHANGED <<trackerVars, streamVars, load>>

\* The part of close() that comes before the tracker's turn has no effect on the
\* tracker: the tracker's steps are taken before it or after it.
TrackerUse == load = "tracker" /\ close \in {"no", "stream", "tracker", "ended"}

FlushCalls ==
  /\ load = "tracker" => TrackerUse
  /\ \E f \in Flusher : Flush(f)
  /\ UNCHANGED <<queueVars, streamVars, load, gapReSyncInFlight>>

Tracker ==
  /\ TrackerUse
  /\ \/ \E a \in Access : Record(a)
     \/ Interval \/ Flushing \/ Erase
  /\ UNCHANGED <<queueVars, streamVars, load, gapReSyncInFlight>>

\* deleteAllForAgent flushes the tracker before it erases.
EraseHere ==
  /\ TrackerUse /\ flusher["close"].pc # "done" /\ epoch < MaxErase
  /\ CallFlush("erasure")
  /\ UNCHANGED <<queueVars, streamVars, load, gapReSyncInFlight, access, buffer, flight,
                 batches, memory, interval, epoch, faults, twins>>

Stream ==
  /\ load = "stream"
  /\ \/ AttemptReopen \/ ReopenFails \/ Unsupported
     \/ Change \/ HandleChange \/ FlushChanges
     \/ \E t \in saving : PersistToken(t)
  /\ UNCHANGED <<queueVars, trackerVars, load, gapReSyncInFlight>>

\* The gap callback: one re-scan at a time, on the sync in flight if there is one, and
\* none on a closed manager.
Gap ==
  /\ load = "stream" /\ LoseStream
  /\ IF gapReSyncInFlight \/ closed
     THEN UNCHANGED <<syncing, gapReSyncInFlight>>
     ELSE syncing' = TRUE /\ gapReSyncInFlight' = TRUE
  /\ UNCHANGED <<pc, writes, depth, derivations, early, syncs, close, awaited, trackerVars, load>>

-----------------------------------------------------------------------------
(***************************************************************************)
(* The rest of close().                                                    *)
(***************************************************************************)
\* The token of the change stream is saved; a failure is recorded.
CloseSavesToken ==
  /\ close = "stopped"
  /\ close' = "token"
  /\ saved' \in IF token = 0 THEN {saved} ELSE {token, saved}
  /\ UNCHANGED <<pc, writes, depth, derivations, early, syncing, syncs, awaited, trackerVars,
                 load, gapReSyncInFlight, head, stream, opened, alive, reopenTimers, attempts,
                 token, debounce, saving, losses, ended, seen, signalled, dark>>

CloseStream ==
  /\ close = "token"
  /\ close' = "stream"
  /\ CloseWatcher /\ UNCHANGED saved
  /\ UNCHANGED <<pc, writes, depth, derivations, early, syncing, syncs, awaited, trackerVars,
                 load, gapReSyncInFlight>>

\* The tracker's close(): no more intervals, one last flush.
CloseTracker ==
  /\ close = "stream"
  /\ close' = "tracker"
  /\ interval' = FALSE
  /\ CallFlush("close")
  /\ UNCHANGED <<pc, writes, depth, derivations, early, syncing, syncs, awaited, streamVars, load,
                 gapReSyncInFlight, access, buffer, flight, batches, memory, epoch, faults,
                 twins>>

\* The client is closed or given back: what is left in memory is gone.
CloseEnds ==
  /\ close = "tracker" /\ flusher["close"].pc = "done"
  /\ close' = "ended"
  /\ UNCHANGED <<pc, writes, depth, derivations, early, syncing, syncs, awaited, trackerVars,
                 streamVars, load, gapReSyncInFlight>>

Closing == CloseSavesToken \/ CloseStream \/ CloseTracker \/ CloseEnds

Next == Queue \/ SyncSettles \/ Tracker \/ FlushCalls \/ EraseHere \/ Stream \/ Gap \/ Closing

Spec == Init /\ [][Next]_vars

(***************************************************************************)
(* Fairness: every await of the code is on work that ends (transactions    *)
(* and commits have a time limit), promise reactions are run and timers    *)
(* fire.  Nothing is assumed of the callers, of close() or of the server   *)
(* beyond the bound on its failures.                                       *)
(***************************************************************************)
Fairness ==
  /\ \A c \in Call : /\ WF_vars(Queue /\ Chain(c))
                     /\ WF_vars(Queue /\ (TargetsFound(c) \/ TargetsMissing(c)))
  /\ WF_vars(Queue /\ Derive) /\ WF_vars(SyncSettles)
  /\ WF_vars(Queue /\ (AwaitWrites \/ AwaitDerivations \/ StopWorker)) /\ WF_vars(Closing)
  /\ \A a \in Access : WF_vars(Tracker /\ (AdmissionArrives(a) \/ AdmissionFails(a)))
  /\ WF_vars(Tracker /\ Interval) /\ WF_vars(Tracker /\ Flushing) /\ WF_vars(FlushCalls)
  /\ WF_vars(Stream /\ AttemptReopen) /\ WF_vars(Stream /\ HandleChange)

FairSpec == Spec /\ Fairness

-----------------------------------------------------------------------------
\* When close() has stopped the worker, every write that was accepted before it has
\* settled and been derived from; when its flush has returned, the accesses it was called
\* for are stored or refused, unless the flush failed or was overtaken (the order of
\* close() and what it awaits).
CloseLosesNothing == DrainedBeforeStop /\ FlushedWhenDone

\* However the parts race with close(): no stream leaks, and no change is missed
\* outside a gap.
StreamSupervised == NoStreamLeaks /\ MissedOnlyInGaps

\* Nothing waits for ever: a manager that is not being closed is, again and again,
\* without a running write, derivation, sync or re-scan, with every recorded access
\* stored or refused and a stream open unless the watcher gave up; and a close() that
\* began ends.
Quiet ==
  /\ writes = <<>> /\ derivations = <<>> /\ ~ syncing /\ ~ gapReSyncInFlight
  /\ IF closed THEN close = "ended"
     ELSE /\ buffer = NoEntries /\ ~ flight.on
          /\ stream.id # 0 \/ ended

AllSettle == []<>Quiet
=============================================================================
