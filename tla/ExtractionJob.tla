--------------------------- MODULE ExtractionJob ---------------------------
(***************************************************************************)
(* One event and its extraction job "extraction-<eventId>": the write that *)
(* stages the job next to its outbox marker, the queue of                  *)
(* mongodb-memory-jobs.ts that leases it, the workers of                   *)
(* mongodb-manager-jobs.ts that run it in batches of effects, and an       *)
(* erasure of the tenant at any point.  Rows of different jobs meet only   *)
(* at the gate, so one row is enough.                                      *)
(*                                                                         *)
(* A fenced transaction that does nothing between its reads and its        *)
(* writes is one step.  An effect batch is not: it reads the gate and the  *)
(* row, calls out, and commits later, so it is a step that opens it and    *)
(* one that commits it, and every write to either document in between      *)
(* makes it conflict (txn = "conflict").  Gate writes that only count the  *)
(* serial cause nothing but further retries and are left out.              *)
(*                                                                         *)
(* Time.  lease and retry count down what is left of leaseExpiresAt and    *)
(* retryAt on the slowest worker clock; Skew[w] is how far the clock of w  *)
(* is ahead of it.                                                         *)
(***************************************************************************)
EXTENDS GateDoc, FiniteSets

CONSTANTS
  Worker,
  MaxAttempts,  \* MEMORY_JOB_MAX_ATTEMPTS
  Lease,        \* MEMORY_JOB_LEASE_MS, in ticks
  Backoff,      \* memoryJobRetryDelayMs, in ticks
  Skew,         \* Worker -> ticks its clock is ahead
  Batches,      \* effect batches of one extraction: entities and promotion at least
  MaxRequeue    \* bound on scheduleBackgroundExtraction calls that change the row

ASSUME JobConstants ==
  /\ {MaxAttempts, Lease, Backoff, Batches, MaxRequeue} \subseteq Nat
  /\ MaxAttempts > 0 /\ Batches > 0
  /\ Skew \in [Worker -> Nat]

VARIABLES
  event,     \* the canonical event: stored, extractionJobPendingAt set
  row,       \* the memory_jobs document
  effects,   \* documents the effect batches have written
  issued,    \* lease tokens drawn so far: randomUUID
  requeued,
  writer,    \* the call of writeConversationEvent that writes this event
  wk         \* Worker -> where its drain is

vars == <<gate, event, row, effects, issued, requeued, writer, wk>>

Row == [status    : {"absent", "pending", "running", "failed", "completed"},
        attempts  : Nat,
        token     : Nat,       \* leaseToken, 0 when unset
        lease     : Nat,
        retry     : Nat,
        staged    : BOOLEAN,   \* stagedAt exists
        dead      : BOOLEAN,   \* deadLetterAt exists
        finished  : BOOLEAN,   \* completedAt exists: the TTL index applies
        epoch     : Nat]       \* admissionEpoch

NewRow(e, staged) ==
  [status |-> "pending", attempts |-> 0, token |-> 0, lease |-> 0, retry |-> 0,
   staged |-> staged, dead |-> FALSE, finished |-> FALSE, epoch |-> e]

NoRow == [NewRow(0, FALSE) EXCEPT !.status = "absent"]

Effect == [token : Nat, batch : Nat, epoch : Nat]

IdleWorker ==
  [pc |-> "idle", adm |-> 0, token |-> 0, epoch |-> 0, attempts |-> 0, done |-> 0,
   aim |-> "effect", txn |-> "none"]

-----------------------------------------------------------------------------
(***************************************************************************)
(* The filters of mongodb-memory-jobs.ts.                                  *)
(***************************************************************************)
\* leaseExpiresAt <= now on the clock of w; an unset lease is 0.
Expired(w) == row.lease <= Skew[w]

\* Defective variant: the lease is checked and not whose lease it is.
OwnsAnyLease(w) == row.status = "running" /\ ~ Expired(w)

\* The filter of renew, finish and the effect batch.
Owns(w) == row.status = "running" /\ row.token = wk[w].token /\ ~ Expired(w)

\* Defective variant: no attempt budget on the reclaim of an expired lease.
ClaimableWithoutBudget(w) ==
  \/ row.status = "pending" /\ ~ row.staged
  \/ row.status = "running" /\ Expired(w)
  \/ row.status = "failed" /\ ~ row.dead /\ row.attempts < MaxAttempts /\ row.retry <= Skew[w]

\* The $or of claimMemoryJob.
Claimable(w) ==
  \/ row.status = "pending" /\ ~ row.staged
  \/ row.status = "running" /\ Expired(w) /\ row.attempts < MaxAttempts
  \/ row.status = "failed" /\ ~ row.dead /\ row.attempts < MaxAttempts /\ row.retry <= Skew[w]

\* Defective variant: the sweep waits for one attempt more than a claim allows.
SpentLater(w) == row.status = "running" /\ row.attempts > MaxAttempts /\ Expired(w)

\* The filter of deadLetterExpiredMemoryJobs.
Spent(w) == row.status = "running" /\ row.attempts >= MaxAttempts /\ Expired(w)

\* The update of claimMemoryJob.
Claimed ==
  [row EXCEPT !.status = "running", !.attempts = @ + 1, !.token = issued + 1,
              !.lease = Lease, !.retry = 0, !.staged = FALSE, !.finished = FALSE]

\* The update of deadLetterExpiredMemoryJobs.
DeadLettered ==
  [row EXCEPT !.status = "failed", !.dead = TRUE, !.token = 0, !.lease = 0,
              !.retry = 0, !.finished = FALSE]

\* finishClaimedMemoryJob with status "completed".
Completed ==
  [row EXCEPT !.status = "completed", !.finished = TRUE, !.token = 0, !.lease = 0]

\* Defective variant: a terminal failure below the budget is marked dead and still
\* carries completedAt.
FailedKeepingCompletedAt(attempts, terminal) ==
  LET dead == terminal \/ attempts >= MaxAttempts
  IN  [row EXCEPT !.status = "failed", !.token = 0, !.lease = 0,
                  !.dead = dead, !.finished = TRUE,
                  !.retry = IF dead THEN 0 ELSE Backoff]

\* finishClaimedMemoryJob with status "failed", given the attempts of the claim.
Failed(attempts, terminal) ==
  LET dead == terminal \/ attempts >= MaxAttempts
  IN  [row EXCEPT !.status = "failed", !.token = 0, !.lease = 0,
                  !.dead = dead, !.finished = ~ dead,
                  !.retry = IF dead THEN 0 ELSE Backoff]

\* retryFailedMemoryJob: attempts are kept.
Requeued ==
  [row EXCEPT !.status = "pending", !.epoch = gate.epoch, !.dead = FALSE,
              !.finished = FALSE, !.token = 0, !.lease = 0, !.retry = 0]

-----------------------------------------------------------------------------
\* A write of the row or of the gate's epoch or state: every effect batch that is
\* open on them will fail its commit.  others is what becomes of the workers.
Conflicting(others) ==
  [w \in Worker |-> IF others[w].txn = "open" THEN [others[w] EXCEPT !.txn = "conflict"]
                                              ELSE others[w]]

At(w, pc) == [wk EXCEPT ![w].pc = pc]

\* The worker holds no claim, whatever came before, and claims the next job.  The
\* admission of the drain only matters until here: every row has an epoch.
Released(w) ==
  [wk EXCEPT ![w] = [IdleWorker EXCEPT !.pc = "claim"]]

-----------------------------------------------------------------------------
(***************************************************************************)
(* The event write.                                                        *)
(***************************************************************************)
WriteEvent ==
  /\ writer = "new"
  /\ IsOpen(gate)
  /\ event' = [stored |-> TRUE, marker |-> TRUE]
  /\ row' = NewRow(gate.epoch, TRUE)
  /\ writer' = "staged"
  /\ wk' = Conflicting(wk)
  /\ UNCHANGED <<gate, effects, issued, requeued>>

\* releaseStagedMemoryJob: unfenced; when it matches nothing the marker is left to
\* the repair pass.
ReleaseJob ==
  /\ writer = "staged"
  /\ IF row.status = "pending" /\ row.staged
     THEN /\ row' = [row EXCEPT !.staged = FALSE]
          /\ writer' = "released"
          /\ wk' = Conflicting(wk)
     ELSE /\ writer' = "done"
          /\ UNCHANGED <<row, wk>>
  /\ UNCHANGED <<gate, event, effects, issued, requeued>>

\* Defective variant: the marker is cleared before the job is released.
ClearMarkerEarly ==
  /\ writer \in {"staged", "released"}
  /\ event' = [event EXCEPT !.marker = FALSE]
  /\ writer' = IF writer = "staged" THEN "staged" ELSE "done"
  /\ UNCHANGED <<gate, row, effects, issued, requeued, wk>>

ClearMarker ==
  /\ writer = "released"
  /\ event' = [event EXCEPT !.marker = FALSE]
  /\ writer' = "done"
  /\ UNCHANGED <<gate, row, effects, issued, requeued, wk>>

\* The writing process stops, or the call fails, between two of these steps.
WriterStops ==
  /\ writer \in {"staged", "released"}
  /\ writer' = "done"
  /\ UNCHANGED <<gate, event, row, effects, issued, requeued, wk>>

\* scheduleBackgroundExtraction: create the job, or requeue a failed one of this
\* epoch; any other row is left alone.
Schedule ==
  /\ writer # "new"
  /\ IsOpen(gate)
  /\ requeued < MaxRequeue
  /\ \/ row = NoRow /\ row' = NewRow(gate.epoch, FALSE)
     \/ row.status = "failed" /\ row.epoch = gate.epoch /\ row' = Requeued
  /\ requeued' = requeued + 1
  /\ wk' = Conflicting(wk)
  /\ UNCHANGED <<gate, event, effects, issued, writer>>

-----------------------------------------------------------------------------
(***************************************************************************)
(* A drain of the queue: drainMemoryJobQueue.                              *)
(***************************************************************************)
Drain(w) ==
  /\ wk[w].pc = "idle"
  /\ IsOpen(gate)
  /\ wk' = [wk EXCEPT ![w].pc = "scan", ![w].adm = gate.epoch]
  /\ UNCHANGED <<gate, event, row, effects, issued, requeued, writer>>

\* getPendingExtractionEvents reads outside the transaction that repairs.
Scan(w) ==
  /\ wk[w].pc = "scan"
  /\ wk' = At(w, IF event.marker THEN "repair" ELSE "sweep")
  /\ UNCHANGED <<gate, event, row, effects, issued, requeued, writer>>

\* The transaction of repairExtractionOutbox: a missing job is created, a staged
\* one released, the marker cleared.
Repair(w) ==
  /\ wk[w].pc = "repair"
  /\ AdmissionMatches(gate, Admission(wk[w].adm))
  /\ row' = IF row = NoRow THEN NewRow(wk[w].adm, FALSE)
            ELSE IF row.status = "pending" THEN [row EXCEPT !.staged = FALSE]
            ELSE row
  /\ event' = [event EXCEPT !.marker = FALSE]
  /\ wk' = IF row' = row THEN At(w, "sweep") ELSE Conflicting(At(w, "sweep"))
  /\ UNCHANGED <<gate, effects, issued, requeued, writer>>

\* The repair of this event fails: counted, and the drain goes on.
RepairFails(w) ==
  /\ wk[w].pc = "repair"
  /\ wk' = At(w, "sweep")
  /\ UNCHANGED <<gate, event, row, effects, issued, requeued, writer>>

\* The repair meets an erasure: ErasureGateConflictError ends the drain.
RepairRefused(w) ==
  /\ wk[w].pc = "repair"
  /\ ~ AdmissionMatches(gate, Admission(wk[w].adm))
  /\ wk' = [wk EXCEPT ![w] = IdleWorker]
  /\ UNCHANGED <<gate, event, row, effects, issued, requeued, writer>>

\* deadLetterExpiredMemoryJobs in its fenced transaction.
Sweep(w) ==
  /\ wk[w].pc = "sweep"
  /\ AdmissionMatches(gate, Admission(wk[w].adm))
  /\ Spent(w)
  /\ row' = DeadLettered
  /\ wk' = Conflicting(Released(w))
  /\ UNCHANGED <<gate, event, effects, issued, requeued, writer>>

\* sweepStep lets only the conflict with an erasure through: it ends the drain.
SweepRefused(w) ==
  /\ wk[w].pc = "sweep"
  /\ ~ AdmissionMatches(gate, Admission(wk[w].adm))
  /\ wk' = [wk EXCEPT ![w] = IdleWorker]
  /\ UNCHANGED <<gate, event, row, effects, issued, requeued, writer>>

\* Nothing to sweep, or the sweep failed otherwise and was logged.
SweepNothing(w) ==
  /\ wk[w].pc = "sweep"
  /\ wk' = Released(w)
  /\ UNCHANGED <<gate, event, row, effects, issued, requeued, writer>>

\* claimMemoryJob, unfenced: the update never inserts, and it keeps the epoch the
\* job was admitted in.
Claim(w) ==
  /\ wk[w].pc = "claim"
  /\ Claimable(w)
  /\ row' = Claimed
  /\ issued' = issued + 1
  /\ wk' = Conflicting(
             [wk EXCEPT ![w] = [@ EXCEPT !.pc = "prefetch", !.token = issued + 1,
                                         !.epoch = row.epoch, !.attempts = row.attempts + 1]])
  /\ UNCHANGED <<gate, event, effects, requeued, writer>>

NothingToClaim(w) ==
  /\ wk[w].pc = "claim"
  /\ ~ Claimable(w)
  /\ wk' = [wk EXCEPT ![w] = IdleWorker]
  /\ UNCHANGED <<gate, event, row, effects, issued, requeued, writer>>

-----------------------------------------------------------------------------
(***************************************************************************)
(* The run of a claimed job: runExtractionJob.                             *)
(***************************************************************************)
HasClaim(w) == wk[w].pc \in {"prefetch", "work", "renewed", "txn"}

\* renewMemoryJobLease, from the timer of the prefetch or of the runner.
Heartbeat(w) ==
  /\ HasClaim(w)
  /\ Owns(w)
  /\ row.lease # Lease
  /\ row' = [row EXCEPT !.lease = Lease]
  /\ wk' = Conflicting(wk)
  /\ UNCHANGED <<gate, event, effects, issued, requeued, writer>>

\* The renewal after the prefetch: the runner starts only for jobs still owned.
Prefetched(w) ==
  /\ wk[w].pc = "prefetch"
  /\ Owns(w)
  /\ row' = [row EXCEPT !.lease = Lease]
  /\ wk' = Conflicting(At(w, "work"))
  /\ UNCHANGED <<gate, event, effects, issued, requeued, writer>>

\* recordClaimedJobFailure, after a failed prefetch or before any batch: the one
\* terminal write outside a fenced transaction.
FailDirectly(w) ==
  /\ wk[w].pc = "work"
  /\ wk[w].done = 0
  /\ wk[w].aim = "effect"
  /\ IF Owns(w)
     THEN \E terminal \in BOOLEAN : row' = Failed(wk[w].attempts, terminal)
     ELSE UNCHANGED row
  /\ wk' = Conflicting(Released(w))
  /\ UNCHANGED <<gate, event, effects, issued, requeued, writer>>

\* The heartbeat commitBatch waits for before it opens the transaction.
BeginBatch(w) ==
  /\ wk[w].pc = "work"
  /\ Owns(w)
  /\ row' = [row EXCEPT !.lease = Lease]
  /\ wk' = Conflicting(At(w, "renewed"))
  /\ UNCHANGED <<gate, event, effects, issued, requeued, writer>>

\* Defective variant: the batch checks the lease and not the gate.
BatchOwned(w) == Owns(w) /\ row.epoch = wk[w].epoch

BatchAdmitted(w) ==
  /\ AdmissionMatches(gate, Admission(wk[w].epoch))
  /\ Owns(w)
  /\ row.epoch = wk[w].epoch

\* withClaimedMemoryJobEffectBatch: the fence and the ownership update; batches
\* other than the failure record also find the event unchanged.
OpenBatch(w) ==
  /\ wk[w].pc = "renewed"
  /\ BatchAdmitted(w)
  /\ wk[w].aim \in {"effect", "complete"} => event.stored
  /\ wk' = [wk EXCEPT ![w].pc = "txn", ![w].txn = "open"]
  /\ UNCHANGED <<gate, event, row, effects, issued, requeued, writer>>

\* MongoDB aborts a transaction whose documents were written since its snapshot.
NoConflict(w) == wk[w].txn = "open"

\* The writes are upserts keyed by receipts of the event: a batch that is run again
\* replaces what an earlier claim wrote.
CommitEffects(w) ==
  /\ wk[w].pc = "txn" /\ wk[w].aim = "effect"
  /\ NoConflict(w)
  /\ effects' = {x \in effects : x.batch # wk[w].done + 1}
                  \cup {[token |-> wk[w].token, batch |-> wk[w].done + 1, epoch |-> wk[w].epoch]}
  /\ LET done == wk[w].done + 1
     IN  wk' = Conflicting(
                 [wk EXCEPT ![w] = [@ EXCEPT !.pc = "work", !.txn = "none", !.done = done,
                            !.aim = IF done = Batches THEN "complete" ELSE "effect"]])
  /\ UNCHANGED <<gate, event, row, issued, requeued, writer>>

\* completeClaimedMemoryJob and failClaimedMemoryJob inside the last batch.  They
\* compare the lease with the clock again, so the batch may commit without them.
CommitFinish(w) ==
  /\ wk[w].pc = "txn" /\ wk[w].aim # "effect"
  /\ NoConflict(w)
  /\ row' = IF ~ Owns(w) THEN row
            ELSE IF wk[w].aim = "complete" THEN Completed
            ELSE Failed(wk[w].attempts, wk[w].aim = "terminal")
  /\ wk' = Conflicting(Released(w))
  /\ UNCHANGED <<gate, event, effects, issued, requeued, writer>>

\* The driver retries the transaction from its first read.
RetryBatch(w) ==
  /\ wk[w].pc = "txn" /\ wk[w].txn = "conflict"
  /\ wk' = [wk EXCEPT ![w].pc = "renewed", ![w].txn = "none"]
  /\ UNCHANGED <<gate, event, row, effects, issued, requeued, writer>>

\* Any other error of the extraction: the failure is recorded in a batch of its
\* own; an error of that one is logged and the row is left to its lease.
Error(w) ==
  /\ wk[w].pc \in {"work", "renewed", "txn"}
  /\ IF wk[w].aim \in {"effect", "complete"}
     THEN \E aim \in {"fail", "terminal"} :
            wk' = [wk EXCEPT ![w] = [@ EXCEPT !.pc = "work", !.txn = "none", !.aim = aim]]
     ELSE wk' = Released(w)
  /\ UNCHANGED <<gate, event, row, effects, issued, requeued, writer>>

\* A lost lease or an erasure: MemoryJobOwnershipLostError or
\* ErasureGateConflictError end the run without a write.
LoseClaim(w) ==
  /\ \/ wk[w].pc \in {"prefetch", "work"} /\ ~ Owns(w)
     \/ wk[w].pc = "renewed" /\ ~ BatchAdmitted(w)
  /\ wk' = Released(w)
  /\ UNCHANGED <<gate, event, row, effects, issued, requeued, writer>>

\* The worker stops anywhere; MongoDB aborts the transaction it had open.
Crash(w) ==
  /\ wk[w].pc # "idle"
  /\ wk' = [wk EXCEPT ![w] = IdleWorker]
  /\ UNCHANGED <<gate, event, row, effects, issued, requeued, writer>>

-----------------------------------------------------------------------------
(***************************************************************************)
(* An erasure of the tenant, time and the TTL index.                       *)
(***************************************************************************)
BeginErasure ==
  /\ ~ IsErasing(gate)
  /\ gate.epoch < MaxEpoch
  /\ \E r \in Run : gate' = Begun(gate, r)
  /\ wk' = Conflicting(wk)
  /\ UNCHANGED <<event, row, effects, issued, requeued, writer>>

EraseEvent ==
  /\ IsErasing(gate)
  /\ event.stored
  /\ event' = [stored |-> FALSE, marker |-> FALSE]
  /\ UNCHANGED <<gate, row, effects, issued, requeued, writer, wk>>

EraseEffects ==
  /\ IsErasing(gate)
  /\ effects # {}
  /\ effects' = {}
  /\ UNCHANGED <<gate, event, row, issued, requeued, writer, wk>>

EraseJob ==
  /\ IsErasing(gate)
  /\ row # NoRow
  /\ row' = NoRow
  /\ wk' = Conflicting(wk)
  /\ UNCHANGED <<gate, event, effects, issued, requeued, writer>>

Reopen ==
  /\ IsErasing(gate)
  /\ ~ event.stored /\ effects = {} /\ row = NoRow
  /\ gate' = Reopened(gate)
  /\ wk' = Conflicting(wk)
  /\ UNCHANGED <<event, row, effects, issued, requeued, writer>>

Tick ==
  /\ row.lease > 0 \/ row.retry > 0
  /\ row' = [row EXCEPT !.lease = IF @ > 0 THEN @ - 1 ELSE 0,
                        !.retry = IF @ > 0 THEN @ - 1 ELSE 0]
  /\ UNCHANGED <<gate, event, effects, issued, requeued, writer, wk>>

\* idx_memory_jobs_completed_ttl takes a row that carries completedAt.
ExpireRow ==
  /\ row.finished
  /\ row' = NoRow
  /\ wk' = Conflicting(wk)
  /\ UNCHANGED <<gate, event, effects, issued, requeued, writer>>

-----------------------------------------------------------------------------
Init ==
  /\ gate = OpenGate(0)
  /\ event = [stored |-> FALSE, marker |-> FALSE]
  /\ row = NoRow
  /\ effects = {}
  /\ issued = 0
  /\ requeued = 0
  /\ writer = "new"
  /\ wk = [w \in Worker |-> IdleWorker]

Job(w) ==
  \/ Heartbeat(w) \/ Prefetched(w) \/ FailDirectly(w) \/ BeginBatch(w)
  \/ OpenBatch(w) \/ CommitEffects(w) \/ CommitFinish(w) \/ RetryBatch(w)
  \/ Error(w) \/ LoseClaim(w) \/ Crash(w)

Queue(w) ==
  \/ Drain(w) \/ Scan(w) \/ Repair(w) \/ RepairFails(w) \/ RepairRefused(w)
  \/ Sweep(w) \/ SweepRefused(w) \/ SweepNothing(w) \/ Claim(w) \/ NothingToClaim(w)

Write == WriteEvent \/ ReleaseJob \/ ClearMarker \/ WriterStops \/ Schedule

Erase == BeginErasure \/ EraseEvent \/ EraseEffects \/ EraseJob \/ Reopen

Next ==
  \/ Write \/ Erase \/ Tick \/ ExpireRow
  \/ \E w \in Worker : Queue(w) \/ Job(w)

Spec == Init /\ [][Next]_vars

-----------------------------------------------------------------------------
(***************************************************************************)
(* Fairness.  Timers fire, so time passes, a worker that is up drains      *)
(* again, and calls return or time out.  A worker may crash at any point,  *)
(* but not every time just before the same step, and an erasure that was   *)
(* begun is resumed until it is done.                                      *)
(***************************************************************************)
RunStep(w) ==
  \/ Prefetched(w) \/ BeginBatch(w) \/ OpenBatch(w) \/ CommitEffects(w)
  \/ CommitFinish(w) \/ RetryBatch(w) \/ LoseClaim(w) \/ Error(w)

Fairness ==
  /\ WF_vars(Tick)
  /\ WF_vars(EraseJob)
  /\ WF_vars(EraseEvent \/ EraseEffects \/ Reopen)
  /\ \A w \in Worker :
       /\ WF_vars(Queue(w))
       /\ SF_vars(Scan(w)) /\ SF_vars(Repair(w)) /\ SF_vars(Claim(w))
       /\ SF_vars(Sweep(w)) /\ SF_vars(Sweep(w) \/ SweepNothing(w))
       /\ WF_vars(RunStep(w))
       /\ SF_vars(CommitEffects(w)) /\ SF_vars(CommitFinish(w))

FairSpec == Spec /\ Fairness

-----------------------------------------------------------------------------
\* Every variable has its type.
TypeOK ==
  /\ gate \in Gate
  /\ event \in [stored : BOOLEAN, marker : BOOLEAN]
  /\ row \in Row
  /\ effects \subseteq Effect
  /\ issued \in Nat
  /\ requeued \in 0..MaxRequeue
  /\ writer \in {"new", "staged", "released", "done"}
  /\ wk \in [Worker ->
       [pc : {"idle", "scan", "repair", "sweep", "claim", "prefetch", "work", "renewed", "txn"},
        adm : Nat, token : Nat, epoch : Nat, attempts : Nat, done : 0..Batches,
        aim : {"effect", "complete", "fail", "terminal"},
        txn : {"none", "open", "conflict"}]]

\* A batch of effects becomes visible only while the claim that computed it is the
\* job's current one, the tenant is open in the epoch the job was admitted in, and
\* the event it was extracted from is stored (withClaimedMemoryJobEffectBatch).
EffectsFenced ==
  [][\A x \in effects' \ effects :
       /\ row.status = "running" /\ row.token = x.token
       /\ IsOpen(gate) /\ gate.epoch = x.epoch
       /\ event.stored]_vars

\* A job is completed only when one and the same claim has committed every batch
\* (the completion is the last batch of runExtractionJob).
CompletedMeansAllEffects ==
  (row.status = "completed" /\ IsOpen(gate)) =>
    \E t \in 1..issued : \A b \in 1..Batches :
      [token |-> t, batch |-> b, epoch |-> row.epoch] \in effects

\* When a tenant is open again, neither a job nor an effect of an earlier epoch is
\* there, although claims are not fenced and runs outlive the erasure.
NoStaleWork ==
  IsOpen(gate) =>
    /\ row # NoRow => row.epoch = gate.epoch
    /\ \A x \in effects : x.epoch = gate.epoch

\* Neither the TTL index nor a claim takes queued work or a dead letter away: a
\* dead letter stays until it is requeued, and rows of either kind disappear only
\* in an erasure.  And a job is paid for at most MEMORY_JOB_MAX_ATTEMPTS times, crash
\* loops included, and once more for every deliberate requeue.
JobsKept ==
  [][/\ row'.attempts <= MaxAttempts + requeued'
     /\ (row.status \in {"pending", "running"} \/ row.dead) /\ row' = NoRow
          => IsErasing(gate)
     /\ row.dead /\ row' # NoRow => row'.status = "pending" \/ row' = row]_vars

\* A job that is still staged can be found by the repair pass: its event carries
\* the outbox marker, whenever the writer stopped (clearEventExtractionJobPending
\* follows releaseStagedMemoryJob).
StagedJobsMarked ==
  (IsOpen(gate) /\ row.staged) => event.stored /\ event.marker

\* A job in the queue, running or awaiting a retry.
Live ==
  \/ row.status \in {"pending", "running"}
  \/ row.status = "failed" /\ ~ row.dead

\* Every job is eventually completed, dead-lettered or gone, however often
\* workers crash, lose their lease or fail.
JobSettles == Live ~> ~ Live
=============================================================================
