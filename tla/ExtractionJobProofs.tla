------------------------ MODULE ExtractionJobProofs ------------------------
(***************************************************************************)
(* ExtractionJob for any workers, clock skews, leases, budgets, batches    *)
(* and bounds: its five safety properties; and JobWorker, the worker that  *)
(* drains such jobs, for any callers of stop and any bounds.               *)
(*                                                                         *)
(* None is inductive.  OpenTxn says that the documents an open batch has   *)
(* read are still as it read them, for every write of them makes it        *)
(* conflict; Claims that lease tokens are drawn once, so a worker that     *)
(* finds its token in the row is the one claim the row knows; Progress     *)
(* that the batches of that claim are all stored, as long as the tenant    *)
(* is open; RowShape and Budget what a row of each status can contain; and *)
(* Outbox how far the writing call can be.                                 *)
(*                                                                         *)
(* The last part is about the worker: the two modules share the gate, and  *)
(* a theorem is about one specification or the other.                      *)
(***************************************************************************)
EXTENDS ExtractionJob, JobWorker, TLAPS

\* Before the claim of a job a worker has nothing of a job.
Unclaimed == {"idle", "scan", "repair", "sweep", "claim"}

RowShape ==
  /\ row.dead => row.status = "failed" /\ row.lease = 0 /\ row.retry = 0 /\ ~ row.finished
  /\ row.finished => row.status \in {"completed", "failed"}
  /\ row.staged => row.status = "pending"

Budget ==
  /\ row.attempts <= MaxAttempts + requeued
  /\ row.status = "pending" => row.attempts < MaxAttempts + requeued

Outbox ==
  /\ writer = "new" =>
       /\ row = NoRow /\ ~ event.marker
       /\ \A w \in Worker : wk[w].pc # "repair"
  /\ writer = "released" => ~ row.staged

OpenTxn ==
  \A w \in Worker : wk[w].txn = "open" =>
    /\ IsOpen(gate) /\ gate.epoch = wk[w].epoch
    /\ row.status = "running" /\ row.token = wk[w].token /\ row.epoch = wk[w].epoch
    /\ wk[w].aim \in {"effect", "complete"} => event.stored

Claims ==
  /\ row.token <= issued
  /\ \A w \in Worker :
       /\ wk[w].pc \in Unclaimed =>
            wk[w].done = 0 /\ wk[w].aim = "effect" /\ wk[w].txn = "none"
       /\ HasClaim(w) => wk[w].token \in 1..issued
       /\ wk[w].aim = "complete" => wk[w].done = Batches
       /\ wk[w].aim = "effect" => wk[w].done < Batches
  /\ \A v, w \in Worker : v # w /\ HasClaim(v) /\ HasClaim(w) => wk[v].token # wk[w].token

\* The row belongs to the claim of this worker.
Holds(w) == HasClaim(w) /\ row.status = "running" /\ row.token = wk[w].token

Progress ==
  \A w \in Worker : Holds(w) /\ IsOpen(gate) =>
    \A b \in 1..wk[w].done : [token |-> wk[w].token, batch |-> b, epoch |-> wk[w].epoch] \in effects

IInv ==
  /\ TypeOK /\ RowShape /\ Budget /\ Outbox /\ OpenTxn /\ Claims /\ Progress
  /\ StagedJobsMarked /\ NoStaleWork /\ CompletedMeansAllEffects
-----------------------------------------------------------------------------
(***************************************************************************)
(* The rows and workers the helpers make.                                  *)
(***************************************************************************)
WorkerState ==
  [pc : {"idle", "scan", "repair", "sweep", "claim", "prefetch", "work", "renewed", "txn"},
   adm : Nat, token : Nat, epoch : Nat, attempts : Nat, done : 0..Batches,
   aim : {"effect", "complete", "fail", "terminal"},
   txn : {"none", "open", "conflict"}]

\* The constants are numbers.
LEMMA Numbers ==
  /\ MaxAttempts \in Nat /\ Lease \in Nat /\ Backoff \in Nat /\ Batches \in Nat
  /\ MaxEpoch \in Nat /\ MaxRequeue \in Nat /\ MaxAttempts > 0 /\ Batches > 0
BY JobConstants, EpochBoundAssumption

\* A write that conflicts changes nothing of a worker but its open transaction.
LEMMA ConflictingFields ==
  ASSUME NEW others \in [Worker -> WorkerState]
  PROVE  /\ Conflicting(others) \in [Worker -> WorkerState]
         /\ \A w \in Worker :
              /\ Conflicting(others)[w].txn # "open"
              /\ others[w].txn = "none" => Conflicting(others)[w].txn = "none"
              /\ Conflicting(others)[w].pc = others[w].pc
              /\ Conflicting(others)[w].adm = others[w].adm
              /\ Conflicting(others)[w].token = others[w].token
              /\ Conflicting(others)[w].epoch = others[w].epoch
              /\ Conflicting(others)[w].attempts = others[w].attempts
              /\ Conflicting(others)[w].done = others[w].done
              /\ Conflicting(others)[w].aim = others[w].aim
BY DEF Conflicting, WorkerState

\* A worker without a job is a worker.
LEMMA IdleType == IdleWorker \in WorkerState
BY Numbers DEF IdleWorker, WorkerState

\* The rows the updates store are rows.
LEMMA RowTypes ==
  ASSUME row \in Row, issued \in Nat, gate \in Gate
  PROVE  /\ NoRow \in Row
         /\ \A e \in Nat, staged \in BOOLEAN : NewRow(e, staged) \in Row
         /\ Claimed \in Row /\ DeadLettered \in Row /\ Completed \in Row /\ Requeued \in Row
         /\ \A attempts \in Nat, terminal \in BOOLEAN : Failed(attempts, terminal) \in Row
         /\ [row EXCEPT !.lease = Lease] \in Row
         /\ [row EXCEPT !.staged = FALSE] \in Row
<1>1. \A e \in Nat, staged \in BOOLEAN : NewRow(e, staged) \in Row
  BY DEF NewRow, Row
<1>2. NoRow \in Row
  BY DEF NoRow, NewRow, Row
<1>3. Claimed \in Row
  <2>1. issued + 1 \in Nat /\ row.attempts + 1 \in Nat /\ Lease \in Nat
    BY Numbers DEF Row
  <2>2. QED BY <2>1 DEF Claimed, Row
<1>l. [row EXCEPT !.lease = Lease] \in Row
  BY Numbers DEF Row
<1>4. DeadLettered \in Row /\ Completed \in Row /\ [row EXCEPT !.staged = FALSE] \in Row
  BY DEF DeadLettered, Completed, Row
<1>5. Requeued \in Row
  BY DEF Requeued, Row, Gate
<1>6. ASSUME NEW attempts \in Nat, NEW terminal \in BOOLEAN PROVE Failed(attempts, terminal) \in Row
  BY Numbers DEF Failed, Row
<1>7. QED BY <1>1, <1>2, <1>3, <1>4, <1>5, <1>6, <1>l

-----------------------------------------------------------------------------
(***************************************************************************)
(* Every step preserves the invariant.                                     *)
(***************************************************************************)
\* Every variable keeps its type.
LEMMA TypeStep == IInv /\ [Next]_vars => TypeOK'
<1> SUFFICES ASSUME IInv, [Next]_vars PROVE TypeOK'
  OBVIOUS
<1> DEFINE Event == [stored : BOOLEAN, marker : BOOLEAN]
           Wk == [Worker -> WorkerState]
<1>a. /\ gate \in Gate /\ event \in Event /\ row \in Row /\ effects \subseteq Effect
      /\ issued \in Nat /\ requeued \in 0..MaxRequeue
      /\ writer \in {"new", "staged", "released", "done"} /\ wk \in Wk
  BY DEF IInv, TypeOK, WorkerState
<1>b. gate.epoch \in Nat
  BY <1>a DEF Gate
<1>c. ASSUME gate' \in Gate, event' \in Event, row' \in Row, effects' \subseteq Effect,
             issued' \in Nat, requeued' \in 0..MaxRequeue,
             writer' \in {"new", "staged", "released", "done"}, wk' \in Wk
      PROVE  TypeOK'
  BY <1>c DEF TypeOK, WorkerState
<1>r. /\ NoRow \in Row
      /\ \A e \in Nat, staged \in BOOLEAN : NewRow(e, staged) \in Row
      /\ Claimed \in Row /\ DeadLettered \in Row /\ Completed \in Row /\ Requeued \in Row
      /\ \A attempts \in Nat, terminal \in BOOLEAN : Failed(attempts, terminal) \in Row
      /\ [row EXCEPT !.lease = Lease] \in Row
      /\ [row EXCEPT !.staged = FALSE] \in Row
  BY <1>a, RowTypes
<1> USE <1>a, <1>b, <1>c, <1>r, Numbers, IdleType
<1>f. \A others \in Wk : Conflicting(others) \in Wk
  BY ConflictingFields
<1> USE <1>f
<1>1. CASE WriteEvent
  BY <1>1 DEF WriteEvent
<1>2. CASE ReleaseJob
  BY <1>2 DEF ReleaseJob
<1>3. CASE ClearMarker \/ WriterStops
  BY <1>3 DEF ClearMarker, WriterStops
<1>4. CASE Schedule
  <2>1. requeued' \in 0..MaxRequeue /\ row' \in Row
    <3>1. requeued' \in 0..MaxRequeue
      BY <1>4 DEF Schedule
    <3>2. row' = NewRow(gate.epoch, FALSE) \/ row' = Requeued
      BY <1>4 DEF Schedule
    <3>3. NewRow(gate.epoch, FALSE) \in Row /\ Requeued \in Row
      OBVIOUS
    <3>4. QED BY <3>1, <3>2, <3>3
  <2>2. QED BY <1>4, <2>1 DEF Schedule
<1>5. CASE BeginErasure
  <2>1. gate' \in Gate
    BY <1>5 DEF BeginErasure, Begun, Gate
  <2>2. QED BY <1>5, <2>1 DEF BeginErasure
<1>e. CASE EraseEvent
  <2>1. event' \in Event
    BY <1>e DEF EraseEvent
  <2>2. QED BY <1>e, <2>1 DEF EraseEvent
<1>g. CASE EraseEffects
  BY <1>g DEF EraseEffects
<1>6. CASE EraseJob
  BY <1>6 DEF EraseJob
<1>7. CASE Reopen
  BY <1>7 DEF Reopen, Reopened, Gate
<1>8. CASE Tick
  <2>1. PICK lease \in Nat, retry \in Nat :
          row' = [row EXCEPT !.lease = lease, !.retry = retry]
    <3>1. /\ (IF row.lease > 0 THEN row.lease - 1 ELSE 0) \in Nat
          /\ (IF row.retry > 0 THEN row.retry - 1 ELSE 0) \in Nat
      BY DEF Row
    <3>2. QED BY <1>8, <3>1 DEF Tick
  <2>r. row' \in Row
    BY <2>1 DEF Row
  <2>2. QED BY <1>8, <2>r DEF Tick
<1>9. CASE ExpireRow
  BY <1>9 DEF ExpireRow
<1>10. ASSUME NEW w \in Worker, Drain(w) \/ Scan(w) PROVE TypeOK'
  BY <1>10 DEF Drain, Scan, At, WorkerState
<1>11. ASSUME NEW w \in Worker, Repair(w) PROVE TypeOK'
  <2>1. At(w, "sweep") \in Wk
    BY DEF At, WorkerState
  <2>2. row' \in Row /\ event' \in Event
    BY <1>11 DEF Repair, WorkerState
  <2>3. QED BY <1>11, <2>1, <2>2 DEF Repair
<1>12. ASSUME NEW w \in Worker, RepairFails(w) \/ RepairRefused(w) \/ SweepRefused(w) PROVE TypeOK'
  BY <1>12 DEF RepairFails, RepairRefused, SweepRefused, At, WorkerState
<1>d. ASSUME NEW w \in Worker PROVE Released(w) \in Wk
  BY DEF Released, IdleWorker, WorkerState
<1>13. ASSUME NEW w \in Worker, Sweep(w) \/ SweepNothing(w) PROVE TypeOK'
  BY <1>d, <1>13 DEF Sweep, SweepNothing
<1>14. ASSUME NEW w \in Worker, Claim(w) PROVE TypeOK'
  <2>1. row.epoch \in Nat /\ row.attempts + 1 \in Nat /\ issued + 1 \in Nat
    BY DEF Row
  <2>2. [wk EXCEPT ![w] = [@ EXCEPT !.pc = "prefetch", !.token = issued + 1,
                                    !.epoch = row.epoch, !.attempts = row.attempts + 1]] \in Wk
    BY <2>1 DEF WorkerState
  <2>3. row' \in Row /\ wk' \in Wk
    BY <1>14, <2>2 DEF Claim
  <2>4. QED BY <1>14, <2>1, <2>3 DEF Claim
<1>15. ASSUME NEW w \in Worker, NothingToClaim(w) \/ Crash(w) PROVE TypeOK'
  BY <1>15 DEF NothingToClaim, Crash
<1>16. ASSUME NEW w \in Worker, Heartbeat(w) PROVE TypeOK'
  BY <1>16 DEF Heartbeat
<1>17. ASSUME NEW w \in Worker, Prefetched(w) \/ BeginBatch(w) PROVE TypeOK'
  <2>1. At(w, "work") \in Wk /\ At(w, "renewed") \in Wk
    BY DEF At, WorkerState
  <2>2. QED BY <1>17, <2>1 DEF Prefetched, BeginBatch
<1>18. ASSUME NEW w \in Worker, FailDirectly(w) PROVE TypeOK'
  <2>1. wk[w].attempts \in Nat
    BY DEF WorkerState
  <2>2. QED BY <1>d, <1>18, <2>1 DEF FailDirectly
<1>19. ASSUME NEW w \in Worker, OpenBatch(w) \/ RetryBatch(w) PROVE TypeOK'
  BY <1>19 DEF OpenBatch, RetryBatch, WorkerState
<1>20. ASSUME NEW w \in Worker, CommitEffects(w) PROVE TypeOK'
  <2>1. wk[w].token \in Nat /\ wk[w].epoch \in Nat /\ wk[w].done \in 0..Batches
    BY DEF WorkerState
  <2>2. wk[w].done + 1 \in 0..Batches
    BY <1>20, <2>1 DEF CommitEffects, IInv, Claims
  <2>3. ASSUME NEW done \in 0..Batches, NEW aim \in {"complete", "effect"}
        PROVE  [wk EXCEPT ![w] = [@ EXCEPT !.pc = "work", !.txn = "none", !.done = done,
                                           !.aim = aim]] \in Wk
    BY DEF WorkerState
  <2>4. effects' \subseteq Effect
    BY <1>20, <2>1 DEF CommitEffects, Effect
  <2>5. wk' \in Wk
    BY <1>20, <2>2, <2>3 DEF CommitEffects
  <2>6. QED BY <1>20, <2>4, <2>5 DEF CommitEffects
<1>21. ASSUME NEW w \in Worker, CommitFinish(w) PROVE TypeOK'
  <2>1. wk[w].attempts \in Nat
    BY DEF WorkerState
  <2>2. QED BY <1>d, <1>21, <2>1 DEF CommitFinish
<1>22. ASSUME NEW w \in Worker, Error(w) PROVE TypeOK'
  <2>1. CASE wk[w].aim \in {"effect", "complete"}
    <3>1. PICK aim \in {"fail", "terminal"} :
            wk' = [wk EXCEPT ![w] = [@ EXCEPT !.pc = "work", !.txn = "none", !.aim = aim]]
      BY ONLY <1>22, <2>1 DEF Error
    <3>2. [wk EXCEPT ![w] = [@ EXCEPT !.pc = "work", !.txn = "none", !.aim = aim]] \in Wk
      BY DEF WorkerState
    <3>3. wk' \in Wk
      BY <3>1, <3>2
    <3>4. QED BY <1>22, <3>3 DEF Error
  <2>2. CASE wk[w].aim \notin {"effect", "complete"}
    BY <1>d, <1>22, <2>2 DEF Error
  <2>3. QED BY <2>1, <2>2
<1>23. ASSUME NEW w \in Worker, LoseClaim(w) PROVE TypeOK'
  BY <1>d, <1>23 DEF LoseClaim
<1>24. CASE UNCHANGED vars
  BY <1>24 DEF vars
<1>25. QED
  BY <1>1, <1>2, <1>3, <1>4, <1>5, <1>e, <1>g, <1>6, <1>7, <1>8, <1>9, <1>10, <1>11, <1>12, <1>13,
     <1>14, <1>15, <1>16, <1>17, <1>18, <1>19, <1>20, <1>21, <1>22, <1>23, <1>24
     DEF Next, Write, Erase, Queue, Job
-----------------------------------------------------------------------------
(***************************************************************************)
(* What a step can do to the row, to the gate and to a worker.             *)
(***************************************************************************)
Quiet == \A w \in Worker : wk[w].txn # "open"

Vanishes == row' = NoRow /\ (IsErasing(gate) \/ row.finished)

Appears ==
  /\ row = NoRow /\ IsOpen(gate) /\ writer' # "new"
  /\ \E staged \in BOOLEAN :
       /\ row' = NewRow(gate.epoch, staged)
       /\ staged => writer' = "staged" /\ event'.stored /\ event'.marker

Leaves == row.status = "pending" /\ row' = [row EXCEPT !.staged = FALSE]

Renews == row.status = "running" /\ row' = [row EXCEPT !.lease = Lease]

Taken == \E w \in Worker : Claim(w)

Dies == row.status = "running" /\ row' = DeadLettered

Completes ==
  /\ row.status = "running" /\ row' = Completed
  /\ \E w \in Worker :
       wk[w].pc = "txn" /\ wk[w].txn = "open" /\ wk[w].aim = "complete"

Fails ==
  /\ row.status = "running"
  /\ \E attempts \in Nat, terminal \in BOOLEAN : row' = Failed(attempts, terminal)

Requeues ==
  /\ row.status = "failed" /\ IsOpen(gate) /\ row' = Requeued
  /\ requeued' = requeued + 1

Ages ==
  \E lease, retry \in Nat :
    /\ row' = [row EXCEPT !.lease = lease, !.retry = retry]
    /\ row.lease = 0 => lease = 0
    /\ row.retry = 0 => retry = 0

\* A batch that is open stays so only across steps that leave the row to its worker.
LEMMA ConflictQuiet ==
  ASSUME NEW others \in [Worker -> WorkerState], wk' = Conflicting(others)
  PROVE  Quiet'
BY ConflictingFields DEF Quiet

\* Every write of the row is one of the updates of mongodb-memory-jobs.ts, a deletion
\* or the passing of time.
LEMMA RowChange ==
  IInv /\ [Next]_vars =>
    \/ row' = row \/ Vanishes \/ Appears \/ Leaves \/ Renews \/ Taken
    \/ Dies \/ Completes \/ Fails \/ Requeues \/ Ages
<1> SUFFICES ASSUME IInv, [Next]_vars, row' # row
             PROVE  \/ Vanishes \/ Appears \/ Leaves \/ Renews \/ Taken
                    \/ Dies \/ Completes \/ Fails \/ Requeues \/ Ages
  OBVIOUS
<1>a. row \in Row /\ wk \in [Worker -> WorkerState] /\ Lease \in Nat
  BY Numbers DEF IInv, TypeOK, WorkerState
<1>1. CASE WriteEvent
  BY <1>1 DEF WriteEvent, Appears, IInv, Outbox
<1>2. CASE ReleaseJob
  BY <1>2 DEF ReleaseJob, Leaves
<1>3. CASE Schedule
  BY <1>3 DEF Schedule, Appears, Requeues, IInv, Outbox
<1>4. CASE EraseJob \/ ExpireRow
  BY <1>4 DEF EraseJob, ExpireRow, Vanishes
<1>5. CASE Tick
  <2> DEFINE lease == IF row.lease > 0 THEN row.lease - 1 ELSE 0
             retry == IF row.retry > 0 THEN row.retry - 1 ELSE 0
  <2>1. lease \in Nat /\ retry \in Nat
    BY <1>a DEF Row
  <2>2. row' = [row EXCEPT !.lease = lease, !.retry = retry]
    BY <1>5 DEF Tick
  <2>3. (row.lease = 0 => lease = 0) /\ (row.retry = 0 => retry = 0)
    BY <1>a DEF Row
  <2> HIDE DEF lease, retry
  <2>4. QED BY <2>1, <2>2, <2>3 DEF Ages
<1>6. ASSUME NEW w \in Worker, Repair(w) PROVE Appears \/ Leaves
  BY <1>6 DEF Repair, Appears, Leaves, AdmissionMatches, Admission, IInv, Outbox
<1>7. ASSUME NEW w \in Worker, Sweep(w) PROVE Dies
  BY <1>7 DEF Sweep, Spent, Dies
<1>8. ASSUME NEW w \in Worker, Heartbeat(w) \/ Prefetched(w) \/ BeginBatch(w) PROVE Renews
  BY <1>8 DEF Heartbeat, Prefetched, BeginBatch, Owns, Renews
<1>9. ASSUME NEW w \in Worker, FailDirectly(w) PROVE Fails
  <2>1. wk[w].attempts \in Nat
    BY <1>a DEF WorkerState
  <2>2. QED BY <1>9, <2>1 DEF FailDirectly, Owns, Fails
<1>10. ASSUME NEW w \in Worker, CommitFinish(w) PROVE Completes \/ Fails
  <2>1. wk[w].attempts \in Nat
    BY <1>a DEF WorkerState
  <2>2. Owns(w) /\ row.status = "running"
    BY <1>10 DEF CommitFinish, Owns
  <2>3. CASE wk[w].aim = "complete"
    BY <1>10, <2>2, <2>3 DEF CommitFinish, NoConflict, Completes
  <2>4. CASE wk[w].aim # "complete"
    <3>1. row' = Failed(wk[w].attempts, wk[w].aim = "terminal")
      BY <1>10, <2>2, <2>4 DEF CommitFinish
    <3>2. QED BY <2>1, <2>2, <3>1 DEF Fails
  <2>5. QED BY <2>3, <2>4
<1>11. CASE \/ ClearMarker \/ WriterStops \/ BeginErasure \/ EraseEvent \/ EraseEffects
            \/ Reopen \/ UNCHANGED vars
  BY <1>11
     DEF ClearMarker, WriterStops, BeginErasure, EraseEvent, EraseEffects, Reopen, vars
<1>12. ASSUME NEW w \in Worker,
              \/ Drain(w) \/ Scan(w) \/ RepairFails(w) \/ RepairRefused(w) \/ SweepRefused(w)
              \/ SweepNothing(w) \/ NothingToClaim(w) \/ OpenBatch(w) \/ CommitEffects(w)
              \/ RetryBatch(w) \/ Error(w) \/ LoseClaim(w) \/ Crash(w)
       PROVE  FALSE
  BY <1>12
     DEF Drain, Scan, RepairFails, RepairRefused, SweepRefused, SweepNothing, NothingToClaim,
         OpenBatch, CommitEffects, RetryBatch, Error, LoseClaim, Crash
<1>13. QED
  BY <1>1, <1>2, <1>3, <1>4, <1>5, <1>6, <1>7, <1>8, <1>9, <1>10, <1>11, <1>12
     DEF Next, Write, Erase, Queue, Job, Taken
Keeps(v) ==
  \/ wk'[v] = wk[v]
  \/ wk[v].txn = "open" /\ wk'[v] = [wk[v] EXCEPT !.txn = "conflict"]

Rests(v) ==
  /\ wk'[v].pc \in Unclaimed
  /\ wk'[v].done = 0 /\ wk'[v].aim = "effect" /\ wk'[v].txn = "none"
  /\ wk'[v].pc = "repair" => event.marker

Takes(v) ==
  /\ Claim(v)
  /\ wk'[v] = [wk[v] EXCEPT !.pc = "prefetch", !.token = issued + 1,
                            !.epoch = row.epoch, !.attempts = row.attempts + 1]

Moves(v) ==
  /\ HasClaim(v)
  /\ \E pc \in {"work", "renewed"}, txn \in {"none", "conflict"} :
       wk'[v] = [wk[v] EXCEPT !.pc = pc, !.txn = txn]

Opens(v) == OpenBatch(v) /\ wk'[v] = [wk[v] EXCEPT !.pc = "txn", !.txn = "open"]

Commits(v) ==
  /\ CommitEffects(v)
  /\ wk'[v] = [wk[v] EXCEPT !.pc = "work", !.txn = "none", !.done = wk[v].done + 1,
                            !.aim = IF wk[v].done + 1 = Batches THEN "complete" ELSE "effect"]

Errs(v) ==
  /\ HasClaim(v)
  /\ \E aim \in {"fail", "terminal"} :
       wk'[v] = [wk[v] EXCEPT !.pc = "work", !.txn = "none", !.aim = aim]

\* What a step makes of a worker: it is left as it is, ends its job, claims one,
\* moves on, or meets the outcome of a batch.
LEMMA WorkerChange ==
  ASSUME IInv, [Next]_vars, NEW v \in Worker
  PROVE  \/ Keeps(v) \/ Rests(v) \/ Takes(v) \/ Moves(v) \/ Opens(v) \/ Commits(v) \/ Errs(v)
<1> DEFINE Wk == [Worker -> WorkerState]
           Goal == \/ Keeps(v) \/ Rests(v) \/ Takes(v) \/ Moves(v) \/ Opens(v) \/ Commits(v)
                   \/ Errs(v)
<1>a. wk \in Wk
  BY DEF IInv, TypeOK, WorkerState
<1>b. /\ wk[v].pc \in Unclaimed => wk[v].done = 0 /\ wk[v].aim = "effect" /\ wk[v].txn = "none"
      /\ HasClaim(v) <=> wk[v].pc \notin Unclaimed
  BY <1>a DEF IInv, Claims, HasClaim, Unclaimed, WorkerState
<1>c. ASSUME NEW others, others[v] = wk[v], wk' = others \/ wk' = Conflicting(others)
      PROVE  Keeps(v)
  BY <1>c DEF Conflicting, Keeps
<1>d. ASSUME NEW others, others[v].txn # "open", wk' = others \/ wk' = Conflicting(others)
      PROVE  wk'[v] = others[v]
  BY <1>d DEF Conflicting
<1>e. ASSUME wk' = wk \/ wk' = Conflicting(wk) PROVE Keeps(v)
  BY <1>a, <1>e DEF Conflicting, Keeps
<1> HIDE DEF Goal
<1>1. CASE Write \/ Erase \/ Tick \/ ExpireRow \/ UNCHANGED vars
  <2>1. wk' = wk \/ wk' = Conflicting(wk)
    BY <1>1
       DEF Write, WriteEvent, ReleaseJob, ClearMarker, WriterStops, Schedule, Erase,
           BeginErasure, EraseEvent, EraseEffects, EraseJob, Reopen, Tick, ExpireRow, vars
  <2>2. QED BY <2>1, <1>e DEF Goal

<1>2. ASSUME NEW w \in Worker, Queue(w) \/ Job(w), w # v PROVE Goal
  <2>1. CASE Drain(w) \/ OpenBatch(w) \/ RetryBatch(w) \/ Scan(w)
    BY <1>2, <2>1, <1>a DEF Drain, OpenBatch, RetryBatch, Scan, At, Keeps, Goal
  <2>2. CASE Repair(w)
    <3>1. wk' = At(w, "sweep") \/ wk' = Conflicting(At(w, "sweep"))
      BY <2>2 DEF Repair
    <3>2. At(w, "sweep")[v] = wk[v]
      BY <1>2, <1>a DEF At
    <3>3. QED BY <3>1, <3>2, <1>c DEF Goal
  <2>3. CASE \/ RepairFails(w) \/ RepairRefused(w) \/ SweepRefused(w) \/ NothingToClaim(w)
             \/ Crash(w)
    BY <1>2, <2>3, <1>a
       DEF RepairFails, RepairRefused, SweepRefused, NothingToClaim, Crash, At, Keeps, Goal
  <2>4. CASE \/ Sweep(w) \/ SweepNothing(w) \/ FailDirectly(w) \/ CommitFinish(w) \/ LoseClaim(w)
    <3>1. Released(w)[v] = wk[v]
      BY <1>2, <1>a DEF Released
    <3>2. wk' = Released(w) \/ wk' = Conflicting(Released(w))
      BY <2>4 DEF Sweep, SweepNothing, FailDirectly, CommitFinish, LoseClaim
    <3>3. QED BY <3>1, <3>2, <1>c DEF Goal
  <2>5. CASE Claim(w)
    <3> DEFINE others == [wk EXCEPT ![w] = [@ EXCEPT !.pc = "prefetch", !.token = issued + 1,
                                   !.epoch = row.epoch, !.attempts = row.attempts + 1]]
    <3>1. others[v] = wk[v] /\ wk' = Conflicting(others)
      BY <1>2, <2>5, <1>a DEF Claim
    <3> HIDE DEF others
    <3>2. QED BY <3>1, <1>c DEF Goal
  <2>6. CASE Heartbeat(w)
    BY <2>6, <1>e DEF Heartbeat, Goal
  <2>7. CASE Prefetched(w) \/ BeginBatch(w)
    <3>1. At(w, "work")[v] = wk[v] /\ At(w, "renewed")[v] = wk[v]
      BY <1>2, <1>a DEF At
    <3>2. wk' = Conflicting(At(w, "work")) \/ wk' = Conflicting(At(w, "renewed"))
      BY <2>7 DEF Prefetched, BeginBatch
    <3>3. QED BY <3>1, <3>2, <1>c DEF Goal
  <2>8. CASE CommitEffects(w)
    <3> DEFINE others ==
          [wk EXCEPT ![w] = [@ EXCEPT !.pc = "work", !.txn = "none", !.done = wk[w].done + 1,
                             !.aim = IF wk[w].done + 1 = Batches THEN "complete" ELSE "effect"]]
    <3>1. others[v] = wk[v] /\ wk' = Conflicting(others)
      BY <1>2, <2>8, <1>a DEF CommitEffects
    <3> HIDE DEF others
    <3>2. QED BY <3>1, <1>c DEF Goal
  <2>9. CASE Error(w)
    <3>1. Released(w)[v] = wk[v]
      BY <1>2, <1>a DEF Released
    <3>2. CASE wk[w].aim \in {"effect", "complete"}
      <4>1. PICK aim \in {"fail", "terminal"} :
              wk' = [wk EXCEPT ![w] = [@ EXCEPT !.pc = "work", !.txn = "none", !.aim = aim]]
        BY ONLY <2>9, <3>2 DEF Error
      <4>2. QED BY <1>2, <4>1, <1>a DEF Keeps, Goal
    <3>3. CASE wk[w].aim \notin {"effect", "complete"}
      BY <2>9, <3>1, <3>3, <1>c DEF Error, Goal
    <3>4. QED BY <3>2, <3>3
  <2>10. QED
    BY <1>2, <2>1, <2>2, <2>3, <2>4, <2>5, <2>6, <2>7, <2>8, <2>9 DEF Queue, Job
<1>3. ASSUME Queue(v) \/ Job(v) PROVE Goal
  <2>1. CASE Drain(v) \/ Scan(v)
    <3>1. PICK pc \in {"scan", "repair", "sweep"}, adm \in Nat :
            /\ wk[v].pc \in Unclaimed
            /\ wk'[v] = [wk[v] EXCEPT !.pc = pc, !.adm = adm]
            /\ pc = "repair" => event.marker
      <4>1. CASE Drain(v)
        <5>1. /\ wk[v].pc \in Unclaimed /\ gate.epoch \in Nat
              /\ wk'[v] = [wk[v] EXCEPT !.pc = "scan", !.adm = gate.epoch]
          BY <4>1, <1>a DEF Drain, Unclaimed, IInv, TypeOK, Gate
        <5>2. QED BY <5>1
      <4>2. CASE Scan(v)
        <5> DEFINE pc == IF event.marker THEN "repair" ELSE "sweep"
        <5>1. wk' = At(v, pc) /\ wk[v].pc \in Unclaimed
          BY <4>2 DEF Scan, Unclaimed
        <5>2. wk'[v] = [wk[v] EXCEPT !.pc = pc, !.adm = wk[v].adm] /\ wk[v].adm \in Nat
          BY <5>1, <1>a DEF At, WorkerState
        <5>3. QED BY <5>1, <5>2
      <4>3. QED BY <2>1, <4>1, <4>2
    <3>2. QED BY <3>1, <1>a, <1>b DEF Rests, Unclaimed, Goal, WorkerState
  <2>2. CASE Repair(v)
    <3>1. wk' = At(v, "sweep") \/ wk' = Conflicting(At(v, "sweep"))
      BY <2>2 DEF Repair
    <3>2. At(v, "sweep")[v] = [wk[v] EXCEPT !.pc = "sweep"] /\ wk[v].txn = "none"
      BY <2>2, <1>a, <1>b DEF At, Repair, Unclaimed
    <3>3. wk'[v] = [wk[v] EXCEPT !.pc = "sweep"]
      BY <3>1, <3>2, <1>a, <1>d DEF WorkerState
    <3>4. QED BY <2>2, <3>3, <1>a, <1>b DEF Repair, Rests, Unclaimed, Goal, WorkerState
  <2>3. CASE RepairFails(v) \/ RepairRefused(v) \/ SweepRefused(v) \/ NothingToClaim(v) \/ Crash(v)
    <3>1. \/ wk'[v] = IdleWorker
          \/ wk'[v] = [wk[v] EXCEPT !.pc = "sweep"] /\ wk[v].pc \in Unclaimed
      BY <2>3, <1>a
         DEF RepairFails, RepairRefused, SweepRefused, NothingToClaim, Crash, At, Unclaimed
    <3>2. QED BY <3>1, <1>a, <1>b DEF Rests, IdleWorker, Unclaimed, Goal, WorkerState
  <2>4. CASE wk' = Released(v) \/ wk' = Conflicting(Released(v))
    <3>1. Released(v)[v] = [IdleWorker EXCEPT !.pc = "claim"]
      BY <1>a DEF Released
    <3>2. wk'[v] = [IdleWorker EXCEPT !.pc = "claim"]
      BY <2>4, <3>1, <1>d DEF IdleWorker
    <3>3. QED BY <3>2 DEF IdleWorker, Rests, Unclaimed, Goal
  <2>5. CASE Sweep(v) \/ SweepNothing(v) \/ FailDirectly(v) \/ CommitFinish(v) \/ LoseClaim(v)
    BY <2>4, <2>5 DEF Sweep, SweepNothing, FailDirectly, CommitFinish, LoseClaim
  <2>6. CASE Claim(v)
    <3> DEFINE others == [wk EXCEPT ![v] = [@ EXCEPT !.pc = "prefetch", !.token = issued + 1,
                                   !.epoch = row.epoch, !.attempts = row.attempts + 1]]
    <3>1. wk' = Conflicting(others)
      BY <2>6 DEF Claim
    <3>2. others[v] = [wk[v] EXCEPT !.pc = "prefetch", !.token = issued + 1,
                                    !.epoch = row.epoch, !.attempts = row.attempts + 1]
      BY <1>a
    <3>3. others[v].txn = "none"
      BY <2>6, <3>2, <1>a, <1>b DEF Claim, Unclaimed, WorkerState
    <3> HIDE DEF others
    <3>4. wk'[v] = others[v]
      BY <3>1, <3>3, <1>d
    <3>5. QED BY <2>6, <3>2, <3>4 DEF Takes, Goal
  <2>7. CASE Prefetched(v) \/ BeginBatch(v)
    <3>1. PICK pc \in {"work", "renewed"} : wk' = Conflicting(At(v, pc)) /\ HasClaim(v)
      BY <2>7 DEF Prefetched, BeginBatch, HasClaim
    <3>2. At(v, pc)[v] = [wk[v] EXCEPT !.pc = pc]
      BY <1>a DEF At
    <3>3. CASE wk[v].txn = "open"
      <4>1. wk'[v] = [wk[v] EXCEPT !.pc = pc, !.txn = "conflict"]
        BY <3>1, <3>2, <3>3, <1>a DEF Conflicting, WorkerState
      <4>2. QED BY <3>1, <4>1 DEF Moves, Goal
    <3>4. CASE wk[v].txn # "open"
      <4>1. wk'[v] = [wk[v] EXCEPT !.pc = pc]
        BY <3>1, <3>2, <3>4, <1>a, <1>d DEF WorkerState
      <4>2. wk[v].txn \in {"none", "conflict"} /\ wk[v] \in WorkerState
        BY <3>4, <1>a DEF WorkerState
      <4>3. wk'[v] = [wk[v] EXCEPT !.pc = pc, !.txn = wk[v].txn]
        BY <4>1, <4>2 DEF WorkerState
      <4>4. QED BY <3>1, <4>2, <4>3 DEF Moves, Goal
    <3>5. QED BY <3>3, <3>4
  <2>8. CASE OpenBatch(v)
    BY <2>8, <1>a DEF OpenBatch, Opens, Goal
  <2>9. CASE RetryBatch(v)
    <3>1. wk'[v] = [wk[v] EXCEPT !.pc = "renewed", !.txn = "none"]
      BY <2>9, <1>a DEF RetryBatch
    <3>2. QED BY <2>9, <3>1 DEF RetryBatch, HasClaim, Moves, Goal
  <2>10. CASE CommitEffects(v)
    <3> DEFINE others ==
          [wk EXCEPT ![v] = [@ EXCEPT !.pc = "work", !.txn = "none", !.done = wk[v].done + 1,
                             !.aim = IF wk[v].done + 1 = Batches THEN "complete" ELSE "effect"]]
    <3>1. wk' = Conflicting(others)
      BY <2>10 DEF CommitEffects
    <3>2. others[v] = [wk[v] EXCEPT !.pc = "work", !.txn = "none", !.done = wk[v].done + 1,
                         !.aim = IF wk[v].done + 1 = Batches THEN "complete" ELSE "effect"]
      BY <1>a
    <3>3. others[v].txn = "none"
      BY <3>2, <1>a DEF WorkerState
    <3> HIDE DEF others
    <3>4. wk'[v] = others[v]
      BY <3>1, <3>3, <1>d
    <3>5. QED BY <2>10, <3>2, <3>4 DEF Commits, Goal
  <2>11. CASE Error(v)
    <3>1. CASE wk[v].aim \in {"effect", "complete"}
      <4>1. PICK aim \in {"fail", "terminal"} :
              wk' = [wk EXCEPT ![v] = [@ EXCEPT !.pc = "work", !.txn = "none", !.aim = aim]]
        BY ONLY <2>11, <3>1 DEF Error
      <4>2. wk'[v] = [wk[v] EXCEPT !.pc = "work", !.txn = "none", !.aim = aim]
        BY <4>1, <1>a
      <4>3. QED BY <2>11, <4>2 DEF Error, HasClaim, Errs, Goal
    <3>2. CASE wk[v].aim \notin {"effect", "complete"}
      BY <2>4, <2>11, <3>2 DEF Error
    <3>3. QED BY <3>1, <3>2
  <2>12. CASE Heartbeat(v)
    BY <2>12, <1>e DEF Heartbeat, Goal
  <2>13. QED
    BY <1>3, <2>1, <2>2, <2>3, <2>5, <2>6, <2>7, <2>8, <2>9, <2>10, <2>11, <2>12 DEF Queue, Job
<1>4. QED
  <2>1. CASE \E w \in Worker : Queue(w) \/ Job(w)
    <3>1. PICK w \in Worker : Queue(w) \/ Job(w)
      BY <2>1
    <3>2. CASE w = v
      BY <1>3, <3>1, <3>2 DEF Goal
    <3>3. CASE w # v
      BY <1>2, <3>1, <3>3 DEF Goal
    <3>4. QED BY <3>2, <3>3
  <2>2. CASE ~ \E w \in Worker : Queue(w) \/ Job(w)
    BY <1>1, <2>2 DEF Next, Goal
  <2>3. QED BY <2>1, <2>2
\* The counters only grow, and a token is drawn with every claim.
LEMMA Counters ==
  IInv /\ [Next]_vars =>
    /\ requeued \in Nat /\ issued \in Nat
    /\ requeued' \in Nat /\ requeued <= requeued'
    /\ issued' = issued \/ issued' = issued + 1
    /\ Taken => issued' = issued + 1
<1> SUFFICES ASSUME IInv, [Next]_vars
             PROVE  /\ requeued \in Nat /\ issued \in Nat
                    /\ requeued' \in Nat /\ requeued <= requeued'
                    /\ issued' = issued \/ issued' = issued + 1
                    /\ Taken => issued' = issued + 1
  OBVIOUS
<1>1. requeued \in Nat /\ issued \in Nat
  BY Numbers DEF IInv, TypeOK
<1>2. requeued' = requeued \/ requeued' = requeued + 1
  BY DEF Next, Write, Erase, Queue, Job, WriteEvent, ReleaseJob, ClearMarker, WriterStops,
         Schedule, BeginErasure, EraseEvent, EraseEffects, EraseJob, Reopen, Tick, ExpireRow,
         Drain, Scan, Repair, RepairFails, RepairRefused, Sweep, SweepRefused, SweepNothing,
         Claim, NothingToClaim, Heartbeat, Prefetched, FailDirectly, BeginBatch, OpenBatch,
         CommitEffects, CommitFinish, RetryBatch, Error, LoseClaim, Crash, vars
<1>3. issued' = issued \/ Taken
  BY DEF Taken, Next, Write, Erase, Queue, Job, WriteEvent, ReleaseJob, ClearMarker, WriterStops,
         Schedule, BeginErasure, EraseEvent, EraseEffects, EraseJob, Reopen, Tick, ExpireRow,
         Drain, Scan, Repair, RepairFails, RepairRefused, Sweep, SweepRefused, SweepNothing,
         NothingToClaim, Heartbeat, Prefetched, FailDirectly, BeginBatch, OpenBatch,
         CommitEffects, CommitFinish, RetryBatch, Error, LoseClaim, Crash, vars
<1>4. Taken => issued' = issued + 1
  BY DEF Taken, Claim
<1>5. QED BY <1>1, <1>2, <1>3, <1>4

\* The writing call and the event change only in these steps.
LEMMA Writer ==
  IInv /\ [Next]_vars =>
    /\ writer' = writer \/ WriteEvent \/ ReleaseJob \/ ClearMarker \/ WriterStops
    /\ event' = event \/ WriteEvent \/ ClearMarker \/ EraseEvent \/ \E w \in Worker : Repair(w)
<1> SUFFICES ASSUME [Next]_vars
             PROVE  /\ writer' = writer \/ WriteEvent \/ ReleaseJob \/ ClearMarker \/ WriterStops
                    /\ \/ event' = event \/ WriteEvent \/ ClearMarker \/ EraseEvent
                       \/ \E w \in Worker : Repair(w)
  OBVIOUS
<1>1. CASE Write \/ Erase \/ Tick \/ ExpireRow \/ UNCHANGED vars
  BY <1>1 DEF Write, Erase, Schedule, ReleaseJob, WriterStops, ClearMarker,
         BeginErasure, EraseEvent, EraseEffects, EraseJob, Reopen, Tick, ExpireRow, vars
<1>2. ASSUME NEW w \in Worker, Queue(w), ~ Repair(w) PROVE writer' = writer /\ event' = event
  BY <1>2 DEF Queue, Drain, Scan, RepairFails, RepairRefused, Sweep, SweepRefused, SweepNothing,
         Claim, NothingToClaim
<1>3. ASSUME NEW w \in Worker, Job(w) PROVE writer' = writer /\ event' = event
  BY <1>3 DEF Job, Heartbeat, Prefetched, FailDirectly, BeginBatch, OpenBatch,
       CommitEffects, CommitFinish, RetryBatch, Error, LoseClaim, Crash
<1>4. ASSUME NEW w \in Worker, Repair(w) PROVE writer' = writer
  BY <1>4 DEF Repair
<1>5. QED BY <1>1, <1>2, <1>3, <1>4 DEF Next

\* Effects change with a commit or with the erasure.
LEMMA EffectChange ==
  IInv /\ [Next]_vars =>
    \/ effects' = effects
    \/ IsErasing(gate) /\ gate' = gate /\ effects' = {}
    \/ \E w \in Worker : CommitEffects(w)
BY DEF Next, Write, Erase, Queue, Job, WriteEvent, ReleaseJob, ClearMarker, WriterStops,
       Schedule, BeginErasure, EraseEvent, EraseEffects, EraseJob, Reopen, Tick, ExpireRow,
       Drain, Scan, Repair, RepairFails, RepairRefused, Sweep, SweepRefused, SweepNothing,
       Claim, NothingToClaim, Heartbeat, Prefetched, FailDirectly, BeginBatch, OpenBatch,
       CommitFinish, RetryBatch, Error, LoseClaim, Crash, vars

\* The gate changes when an erasure begins, and when it ends, at a time when nothing
\* of the tenant is there.
LEMMA GateChange ==
  IInv /\ [Next]_vars =>
    \/ gate' = gate
    \/ ~ IsErasing(gate) /\ IsErasing(gate') /\ ~ IsOpen(gate')
    \/ /\ IsErasing(gate) /\ ~ IsOpen(gate)
       /\ effects' = {} /\ row' = NoRow /\ \A w \in Worker : wk'[w].txn # "open"
<1> SUFFICES ASSUME IInv, [Next]_vars
             PROVE  \/ gate' = gate
                    \/ ~ IsErasing(gate) /\ IsErasing(gate') /\ ~ IsOpen(gate')
                    \/ /\ IsErasing(gate) /\ ~ IsOpen(gate)
                       /\ effects' = {} /\ row' = NoRow /\ \A w \in Worker : wk'[w].txn # "open"
  OBVIOUS
<1>a. wk \in [Worker -> WorkerState]
  BY DEF IInv, TypeOK, WorkerState
<1>1. CASE BeginErasure
  BY <1>1 DEF BeginErasure, Begun, IsErasing, IsOpen
<1>2. CASE Reopen
  <2>1. \A w \in Worker : wk'[w].txn # "open"
    BY <1>2, <1>a, ConflictingFields DEF Reopen
  <2>2. IsErasing(gate) /\ ~ IsOpen(gate) /\ effects' = {} /\ row' = NoRow
    BY <1>2 DEF Reopen, IsErasing, IsOpen
  <2>3. QED BY <2>1, <2>2
<1>3. CASE ~ (BeginErasure \/ Reopen)
  BY <1>3
     DEF Next, Write, Erase, Queue, Job, WriteEvent, ReleaseJob, ClearMarker, WriterStops,
         Schedule, EraseEvent, EraseEffects, EraseJob, Tick, ExpireRow,
         Drain, Scan, Repair, RepairFails, RepairRefused, Sweep, SweepRefused, SweepNothing,
         Claim, NothingToClaim, Heartbeat, Prefetched, FailDirectly, BeginBatch, OpenBatch,
         CommitEffects, CommitFinish, RetryBatch, Error, LoseClaim, Crash, vars
<1>4. QED BY <1>1, <1>2, <1>3

\* As long as a batch is open, nothing of what it has read is written.
LEMMA Window ==
  ASSUME IInv, [Next]_vars, NEW v \in Worker, wk'[v].txn = "open"
  PROVE  /\ gate' = gate
         /\ row'.status = row.status /\ row'.token = row.token /\ row'.epoch = row.epoch
         /\ event'.stored = event.stored \/ IsErasing(gate)
<1>a. wk \in [Worker -> WorkerState] /\ row \in Row
  BY DEF IInv, TypeOK, WorkerState
<1>b. \A others \in [Worker -> WorkerState] : wk' # Conflicting(others)
  BY ConflictingFields
<1>c. wk' # Conflicting(wk)
  BY <1>a, <1>b
<1>v. event \in [stored : BOOLEAN, marker : BOOLEAN]
  BY DEF IInv, TypeOK
<1>1. CASE Write \/ Erase \/ ExpireRow
  BY <1>1, <1>c, <1>v
     DEF Write, Erase, WriteEvent, ReleaseJob, ClearMarker, WriterStops, Schedule, BeginErasure,
         EraseEvent, EraseEffects, EraseJob, Reopen, ExpireRow
<1>2. CASE Tick
  BY <1>2, <1>a DEF Tick, Row
<1>d. ASSUME NEW w \in Worker
      PROVE  Released(w) \in [Worker -> WorkerState]
  BY <1>a, IdleType DEF Released, IdleWorker, WorkerState
<1>e. ASSUME NEW w \in Worker, NEW pc \in {"sweep", "work", "renewed"}
      PROVE  At(w, pc) \in [Worker -> WorkerState]
  BY <1>a DEF At, WorkerState
<1>3. ASSUME NEW w \in Worker,
             \/ Sweep(w) \/ FailDirectly(w) \/ CommitFinish(w) \/ Heartbeat(w)
             \/ Prefetched(w) \/ BeginBatch(w)
      PROVE  FALSE
  <2>1. \/ wk' = Conflicting(wk) \/ wk' = Conflicting(Released(w))
        \/ wk' = Conflicting(At(w, "work")) \/ wk' = Conflicting(At(w, "renewed"))
    BY <1>3 DEF Sweep, FailDirectly, CommitFinish, Heartbeat, Prefetched, BeginBatch
  <2>2. QED BY <2>1, <1>b, <1>c, <1>d, <1>e
<1>4. ASSUME NEW w \in Worker, Claim(w) PROVE FALSE
  <2>1. row.epoch \in Nat /\ row.attempts + 1 \in Nat /\ issued + 1 \in Nat
    BY <1>a DEF Row, IInv, TypeOK
  <2>2. [wk EXCEPT ![w] = [@ EXCEPT !.pc = "prefetch", !.token = issued + 1,
                         !.epoch = row.epoch, !.attempts = row.attempts + 1]]
          \in [Worker -> WorkerState]
    BY <1>a, <2>1 DEF WorkerState
  <2>3. QED BY <1>4, <1>b, <2>2 DEF Claim
<1>5. ASSUME NEW w \in Worker, Repair(w), row' # row PROVE FALSE
  BY <1>5, <1>b, <1>e DEF Repair
<1>6. ASSUME NEW w \in Worker,
             \/ Repair(w) /\ row' = row
             \/ Drain(w) \/ Scan(w) \/ RepairFails(w) \/ RepairRefused(w) \/ SweepRefused(w)
             \/ SweepNothing(w) \/ NothingToClaim(w) \/ OpenBatch(w) \/ CommitEffects(w)
             \/ RetryBatch(w) \/ Error(w) \/ LoseClaim(w) \/ Crash(w)
      PROVE  gate' = gate /\ row' = row /\ event'.stored = event.stored
  BY <1>6
     DEF Repair, Drain, Scan, RepairFails, RepairRefused, SweepRefused, SweepNothing,
         NothingToClaim, OpenBatch, CommitEffects, RetryBatch, Error, LoseClaim, Crash, IInv,
         TypeOK
<1>7. CASE UNCHANGED vars
  BY <1>7 DEF vars
<1>8. QED
  BY <1>1, <1>2, <1>3, <1>4, <1>5, <1>6, <1>7 DEF Next, Queue, Job
-----------------------------------------------------------------------------
(***************************************************************************)
(* Each part of the invariant.                                             *)
(***************************************************************************)
\* A row of each status holds what the updates leave in it.
LEMMA RowShapeStep == IInv /\ [Next]_vars => RowShape'
<1> SUFFICES ASSUME IInv, [Next]_vars PROVE RowShape'
  OBVIOUS
<1>a. row \in Row /\ RowShape
  BY DEF IInv, TypeOK
<1> USE DEF RowShape
<1>1. CASE row' = row
  BY <1>1, <1>a
<1>2. CASE Vanishes \/ Appears
  BY <1>2 DEF Vanishes, Appears, NoRow, NewRow
<1>3. CASE Leaves \/ Renews
  BY <1>3, <1>a DEF Leaves, Renews, Row
<1>4. CASE Taken \/ Requeues
  BY <1>4, <1>a DEF Taken, Claim, Claimable, Claimed, Requeues, Requeued, Row
<1>5. CASE Dies \/ Completes
  BY <1>5, <1>a DEF Dies, DeadLettered, Completes, Completed, Row
<1>6. CASE Fails
  <2>1. PICK attempts \in Nat, terminal \in BOOLEAN :
          row.status = "running" /\ row' = Failed(attempts, terminal)
    BY <1>6 DEF Fails
  <2>2. QED BY <2>1, <1>a DEF Failed, Row
<1>7. CASE Ages
  <2>1. PICK lease \in Nat, retry \in Nat :
          /\ row' = [row EXCEPT !.lease = lease, !.retry = retry]
          /\ row.lease = 0 => lease = 0
          /\ row.retry = 0 => retry = 0
    BY <1>7 DEF Ages
  <2>2. QED BY <2>1, <1>a DEF Row
<1>8. QED BY RowChange, <1>1, <1>2, <1>3, <1>4, <1>5, <1>6, <1>7

\* A claim costs an attempt, and a requeue buys one.
LEMMA BudgetStep == IInv /\ [Next]_vars => Budget'
<1> SUFFICES ASSUME IInv, [Next]_vars PROVE Budget'
  OBVIOUS
<1>a. row \in Row /\ Budget /\ RowShape /\ row.attempts \in Nat
  BY DEF IInv, TypeOK, Row
<1>b. /\ requeued \in Nat /\ requeued' \in Nat /\ requeued <= requeued'
      /\ MaxAttempts \in Nat /\ MaxAttempts > 0
  BY Counters, Numbers
<1> USE <1>a, <1>b DEF Budget
<1>1. CASE row' = row
  BY <1>1
<1>2. CASE Vanishes \/ Appears
  BY <1>2 DEF Vanishes, Appears, NoRow, NewRow
<1>3. CASE Leaves \/ Renews
  BY <1>3 DEF Leaves, Renews, Row
<1>4. CASE Taken
  <2>1. row' = Claimed
    BY <1>4 DEF Taken, Claim
  <2>2. row'.attempts = row.attempts + 1 /\ row'.status = "running"
    BY <2>1 DEF Claimed, Row
  <2>3. row.attempts < MaxAttempts + requeued
    BY <1>4 DEF Taken, Claim, Claimable
  <2>4. QED BY <2>2, <2>3
<1>5. CASE Requeues
  <2>1. row'.attempts = row.attempts /\ requeued' = requeued + 1
    BY <1>5 DEF Requeues, Requeued, Row
  <2>2. QED BY <2>1
<1>6. CASE Dies \/ Completes
  <2>1. row'.attempts = row.attempts /\ row'.status # "pending"
    BY <1>6 DEF Dies, DeadLettered, Completes, Completed, Row
  <2>2. QED BY <2>1
<1>7. CASE Fails
  <2>1. PICK attempts \in Nat, terminal \in BOOLEAN : row' = Failed(attempts, terminal)
    BY <1>7 DEF Fails
  <2>2. row'.attempts = row.attempts /\ row'.status = "failed"
    BY <2>1 DEF Failed, Row
  <2>3. QED BY <2>2
<1>8. CASE Ages
  <2>1. row'.attempts = row.attempts /\ row'.status = row.status
    BY <1>8 DEF Ages, Row
  <2>2. QED BY <2>1
<1>9. QED BY RowChange, <1>1, <1>2, <1>3, <1>4, <1>5, <1>6, <1>7, <1>8

\* Before the event is written there is neither a row nor a marker, and the marker
\* is cleared only when the job is no longer staged.
LEMMA OutboxStep == IInv /\ [Next]_vars => Outbox'
<1> SUFFICES ASSUME IInv, [Next]_vars PROVE Outbox'
  OBVIOUS
<1>a. /\ row \in Row /\ Outbox /\ event \in [stored : BOOLEAN, marker : BOOLEAN]
      /\ wk \in [Worker -> WorkerState]
  BY DEF IInv, TypeOK, WorkerState
<1>1. ASSUME writer' = "new" PROVE Outbox'
  <2>1. writer = "new" /\ ~ event'.marker
    <3>1. writer = "new"
      BY <1>1, Writer DEF WriteEvent, ReleaseJob, ClearMarker, WriterStops
    <3>2. ~ event.marker /\ \A w \in Worker : wk[w].pc # "repair"
      BY <3>1, <1>a DEF Outbox
    <3>3. ~ WriteEvent /\ ~ ClearMarker /\ \A w \in Worker : ~ Repair(w)
      BY <1>1, <3>1, <3>2 DEF WriteEvent, ClearMarker, Repair
    <3>4. event' = event \/ EraseEvent
      BY <3>3, Writer
    <3>5. QED BY <3>1, <3>2, <3>4 DEF EraseEvent
  <2>2. row = NoRow /\ ~ event.marker /\ \A w \in Worker : wk[w].pc # "repair"
    BY <2>1, <1>a DEF Outbox
  <2>3. row' = NoRow
    <3>1. row.status = "absent" /\ row.lease = 0 /\ row.retry = 0
      BY <2>2 DEF NoRow, NewRow
    <3>2. CASE Ages
      <4>1. PICK lease \in Nat, retry \in Nat :
              /\ row' = [row EXCEPT !.lease = lease, !.retry = retry]
              /\ row.lease = 0 => lease = 0
              /\ row.retry = 0 => retry = 0
        BY <3>2 DEF Ages
      <4>2. QED BY <2>2, <3>1, <4>1 DEF NoRow, NewRow
    <3>3. QED
      BY <1>1, <2>2, <3>1, <3>2, RowChange
         DEF Vanishes, Appears, Leaves, Renews, Taken, Claim, Claimable, Dies, Completes, Fails,
             Requeues
  <2>4. ASSUME NEW w \in Worker PROVE wk'[w].pc # "repair"
    <3>1. wk[w].pc # "repair" /\ wk[w] \in WorkerState
      BY <2>2, <1>a
    <3>2. CASE Keeps(w) \/ Rests(w)
      BY <3>1, <3>2, <2>2 DEF Keeps, Rests, WorkerState
    <3>3. CASE Takes(w) \/ Moves(w) \/ Opens(w) \/ Commits(w) \/ Errs(w)
      BY <3>1, <3>3 DEF Takes, Moves, Opens, Commits, Errs, WorkerState
    <3>4. QED BY <3>2, <3>3, WorkerChange
  <2>5. QED BY <1>1, <2>1, <2>3, <2>4 DEF Outbox
<1>2. ASSUME writer' = "released" PROVE ~ row'.staged
  <2>1. CASE writer = "released"
    <3>1. ~ row.staged
      BY <2>1, <1>a DEF Outbox
    <3>2. CASE Ages
      BY <3>1, <3>2, <1>a DEF Ages, Row
    <3>3. CASE Fails
      BY <3>1, <3>3, <1>a DEF Fails, Failed, Row
    <3>4. CASE row' = row \/ Vanishes
      BY <3>1, <3>4 DEF Vanishes, NoRow, NewRow
    <3>5. CASE Appears
      BY <1>2, <3>5 DEF Appears, NewRow
    <3>6. CASE Leaves \/ Renews \/ Dies
      BY <3>1, <3>6, <1>a DEF Leaves, Renews, Dies, DeadLettered, Row
    <3>7. CASE Taken \/ Completes \/ Requeues
      BY <3>1, <3>7, <1>a DEF Taken, Claim, Claimed, Completes, Completed, Requeues, Requeued, Row
    <3>8. QED BY <3>2, <3>3, <3>4, <3>5, <3>6, <3>7, RowChange
  <2>2. CASE writer # "released"
    <3>1. ReleaseJob
      BY <1>2, <2>2, Writer DEF WriteEvent, ClearMarker, WriterStops
    <3>2. QED BY <1>2, <3>1, <1>a DEF ReleaseJob, Row
  <2>3. QED BY <2>1, <2>2
<1>3. QED BY <1>1, <1>2 DEF Outbox
\* A batch opens on documents that admit it and stays open only while they are left
\* alone.
LEMMA OpenTxnStep == IInv /\ [Next]_vars => OpenTxn'
<1> SUFFICES ASSUME IInv, [Next]_vars, NEW v \in Worker, wk'[v].txn = "open"
             PROVE  (/\ IsOpen(gate) /\ gate.epoch = wk[v].epoch
                     /\ row.status = "running" /\ row.token = wk[v].token
                     /\ row.epoch = wk[v].epoch
                     /\ wk[v].aim \in {"effect", "complete"} => event.stored)'
  BY DEF OpenTxn
<1>a. /\ gate' = gate
      /\ row'.status = row.status /\ row'.token = row.token /\ row'.epoch = row.epoch
      /\ event'.stored = event.stored \/ IsErasing(gate)
  BY Window
<1>b. wk \in [Worker -> WorkerState] /\ OpenTxn /\ Claims
  BY DEF IInv, TypeOK, WorkerState
<1>1. CASE Keeps(v)
  <2>1. wk'[v] = wk[v] /\ wk[v].txn = "open"
    BY <1>1, <1>b DEF Keeps, WorkerState
  <2>2. ~ IsErasing(gate)
    BY <2>1, <1>b DEF OpenTxn, IsOpen, IsErasing
  <2>3. QED BY <1>a, <1>b, <2>1, <2>2 DEF OpenTxn
<1>2. CASE Opens(v)
  <2>1. /\ wk'[v].epoch = wk[v].epoch /\ wk'[v].token = wk[v].token /\ wk'[v].aim = wk[v].aim
        /\ event' = event
    BY <1>2, <1>b DEF Opens, OpenBatch, WorkerState
  <2>2. BatchAdmitted(v) /\ (wk[v].aim \in {"effect", "complete"} => event.stored)
    BY <1>2 DEF Opens, OpenBatch
  <2>3. QED
    BY <1>a, <2>1, <2>2 DEF BatchAdmitted, AdmissionMatches, Admission, Owns
<1>3. CASE Rests(v) \/ Takes(v) \/ Moves(v) \/ Commits(v) \/ Errs(v)
  <2>1. wk'[v].txn # "open"
    BY <1>3, <1>b DEF Rests, Takes, Claim, Moves, Commits, Errs, Claims, Unclaimed, WorkerState
  <2>2. QED BY <2>1
<1>4. QED BY <1>1, <1>2, <1>3, WorkerChange

\* A worker that has a claim drew its token itself, in this step or before.
LEMMA ClaimKept ==
  ASSUME IInv, [Next]_vars, NEW v \in Worker, wk'[v].pc \notin Unclaimed
  PROVE  \/ /\ HasClaim(v) /\ wk'[v].token = wk[v].token /\ wk'[v].epoch = wk[v].epoch
            /\ wk'[v].done = wk[v].done \/ (CommitEffects(v) /\ wk'[v].done = wk[v].done + 1)
         \/ Takes(v) /\ wk'[v].token = issued + 1 /\ wk'[v].done = 0
<1>a. wk \in [Worker -> WorkerState] /\ Claims
  BY DEF IInv, TypeOK, WorkerState
<1>b. HasClaim(v) <=> wk[v].pc \notin Unclaimed
  BY <1>a DEF HasClaim, Unclaimed, WorkerState
<1>1. CASE Keeps(v)
  BY <1>1, <1>a, <1>b DEF Keeps, WorkerState
<1>2. CASE Rests(v)
  BY <1>2 DEF Rests
<1>3. CASE Takes(v)
  BY <1>3, <1>a DEF Takes, Claim, Claims, Unclaimed, WorkerState
<1>4. CASE Moves(v) \/ Errs(v)
  BY <1>4, <1>a DEF Moves, Errs, WorkerState
<1>5. CASE Opens(v)
  BY <1>5, <1>a DEF Opens, OpenBatch, HasClaim, WorkerState
<1>6. CASE Commits(v)
  BY <1>6, <1>a DEF Commits, CommitEffects, HasClaim, WorkerState
<1>7. QED BY <1>1, <1>2, <1>3, <1>4, <1>5, <1>6, WorkerChange

\* Tokens are drawn once, and the aim of a claim follows its batches.
LEMMA ClaimsStep == IInv /\ [Next]_vars => Claims'
<1> SUFFICES ASSUME IInv, [Next]_vars PROVE Claims'
  OBVIOUS
<1>a. /\ wk \in [Worker -> WorkerState] /\ wk' \in [Worker -> WorkerState] /\ Claims
      /\ row \in Row /\ row.token \in Nat
  BY TypeStep DEF IInv, TypeOK, WorkerState, Row
<1>b. /\ issued \in Nat /\ (issued' = issued \/ issued' = issued + 1)
      /\ Taken => issued' = issued + 1
  BY Counters
<1>c. \A v \in Worker : HasClaim(v)' <=> wk'[v].pc \notin Unclaimed
  BY <1>a DEF HasClaim, Unclaimed, WorkerState
<1>1. row'.token <= issued'
  <2>1. row.token <= issued
    BY <1>a DEF Claims
  <2>2. row'.token \in {0, row.token} \/ Taken
    <3>1. CASE row' = row \/ Vanishes \/ Appears
      BY <3>1 DEF Vanishes, Appears, NoRow, NewRow
    <3>2. CASE Leaves \/ Renews \/ Ages
      BY <3>2, <1>a DEF Leaves, Renews, Ages, Row
    <3>3. CASE Dies \/ Completes \/ Requeues
      BY <3>3, <1>a DEF Dies, DeadLettered, Completes, Completed, Requeues, Requeued, Row
    <3>4. CASE Fails
      BY <3>4, <1>a DEF Fails, Failed, Row
    <3>5. QED BY <3>1, <3>2, <3>3, <3>4, RowChange
  <2>3. CASE Taken
    <3>1. row'.token = issued + 1
      BY <2>3, <1>a DEF Taken, Claim, Claimed, Row
    <3>2. QED BY <2>3, <3>1, <1>b
  <2>4. QED BY <2>1, <2>2, <2>3, <1>a, <1>b
<1>2. ASSUME NEW v \in Worker
      PROVE  /\ wk'[v].pc \in Unclaimed =>
                  wk'[v].done = 0 /\ wk'[v].aim = "effect" /\ wk'[v].txn = "none"
             /\ wk'[v].aim = "complete" => wk'[v].done = Batches
             /\ wk'[v].aim = "effect" => wk'[v].done < Batches
  <2>a. /\ wk[v].pc \in Unclaimed => wk[v].done = 0 /\ wk[v].aim = "effect" /\ wk[v].txn = "none"
        /\ wk[v].aim = "complete" => wk[v].done = Batches
        /\ wk[v].aim = "effect" => wk[v].done < Batches
        /\ wk[v] \in WorkerState /\ wk[v].done \in 0..Batches /\ Batches \in Nat /\ Batches > 0
    BY <1>a, Numbers DEF Claims, WorkerState
  <2>1. CASE Keeps(v)
    BY <2>1, <2>a DEF Keeps, Unclaimed, WorkerState
  <2>2. CASE Rests(v)
    BY <2>2, <2>a DEF Rests
  <2>3. CASE Takes(v) \/ Opens(v)
    BY <2>3, <2>a DEF Takes, Opens, Unclaimed, WorkerState
  <2>4. CASE Moves(v)
    BY <2>4, <2>a DEF Moves, Unclaimed, WorkerState
  <2>5. CASE Errs(v)
    BY <2>5, <2>a DEF Errs, Unclaimed, WorkerState
  <2>6. CASE Commits(v)
    <3>1. /\ wk'[v].pc = "work" /\ wk'[v].done = wk[v].done + 1
          /\ wk'[v].aim = IF wk[v].done + 1 = Batches THEN "complete" ELSE "effect"
      BY <2>6, <2>a DEF Commits, WorkerState
    <3>2. wk[v].done < Batches
      BY <2>6, <2>a DEF Commits, CommitEffects
    <3>3. QED BY <3>1, <3>2, <2>a DEF Unclaimed
  <2>7. QED BY <2>1, <2>2, <2>3, <2>4, <2>5, <2>6, WorkerChange
<1>3. ASSUME NEW v \in Worker, wk'[v].pc \notin Unclaimed PROVE wk'[v].token \in 1..issued'
  <2>1. HasClaim(v) => wk[v].token \in 1..issued
    BY <1>a DEF Claims
  <2>2. Takes(v) => Taken
    BY DEF Takes, Taken
  <2>3. QED BY <1>3, <2>1, <2>2, <1>b, ClaimKept
<1>4. ASSUME NEW v \in Worker, NEW w \in Worker, v # w,
             wk'[v].pc \notin Unclaimed, wk'[w].pc \notin Unclaimed
      PROVE  wk'[v].token # wk'[w].token
  <2>1. ~ (Takes(v) /\ Takes(w))
    <3>1. SUFFICES ASSUME Takes(v), Takes(w) PROVE FALSE
      OBVIOUS
    <3>2. wk[w].pc = "claim" /\ wk'[w].pc = "prefetch"
      BY <3>1, <1>a DEF Takes, Claim, WorkerState
    <3>3. wk'[w].pc = wk[w].pc
      BY <1>4, <3>1, <1>a DEF Takes, Claim, Conflicting, WorkerState
    <3>4. QED BY <3>2, <3>3
  <2>2. /\ HasClaim(v) => wk[v].token \in 1..issued
        /\ HasClaim(w) => wk[w].token \in 1..issued
        /\ HasClaim(v) /\ HasClaim(w) => wk[v].token # wk[w].token
    BY <1>4, <1>a DEF Claims
  <2>3. QED BY <1>4, <2>1, <2>2, <1>b, ClaimKept
<1>5. QED BY <1>1, <1>2, <1>3, <1>4, <1>c DEF Claims
\* While the tenant is open nobody else's commit removes what a running claim stored.
LEMMA ProgressStep == IInv /\ [Next]_vars => Progress'
<1> DEFINE Stored(v, b) == [token |-> wk[v].token, batch |-> b, epoch |-> wk[v].epoch]
<1> SUFFICES ASSUME IInv, [Next]_vars, NEW v \in Worker, Holds(v)', IsOpen(gate'),
                    NEW b \in 1..wk'[v].done
             PROVE  [token |-> wk'[v].token, batch |-> b, epoch |-> wk'[v].epoch] \in effects'
  BY DEF Progress
<1>a. /\ wk \in [Worker -> WorkerState] /\ row \in Row /\ issued \in Nat
      /\ Claims /\ Progress /\ OpenTxn /\ wk' \in [Worker -> WorkerState]
  BY TypeStep DEF IInv, TypeOK, WorkerState
<1>b. /\ wk'[v].pc \notin Unclaimed /\ row'.status = "running" /\ row'.token = wk'[v].token
  BY <1>a DEF Holds, HasClaim, Unclaimed
<1>c. wk[v].done \in Nat /\ wk[v].token \in Nat
  BY <1>a DEF WorkerState
<1>1. /\ HasClaim(v) /\ wk'[v].token = wk[v].token /\ wk'[v].epoch = wk[v].epoch
      /\ wk'[v].done = wk[v].done \/ (CommitEffects(v) /\ wk'[v].done = wk[v].done + 1)
  BY <1>b, ClaimKept
<1>2. gate' = gate /\ IsOpen(gate) /\ ~ IsErasing(gate)
  BY <1>b, GateChange DEF NoRow, NewRow, IsOpen, IsErasing
<1>3. Holds(v)
  <2>1. wk[v].token \in 1..issued
    BY <1>1, <1>a DEF Claims
  <2>2. ~ Taken
    <3>1. Taken => row'.token = issued + 1
      BY <1>a DEF Taken, Claim, Claimed, Row
    <3>2. QED BY <1>1, <1>a, <1>b, <2>1, <3>1
  <2>3. CASE row' = row \/ Vanishes \/ Appears
    BY <1>1, <1>b, <2>3 DEF Vanishes, Appears, NoRow, NewRow, Holds
  <2>4. CASE Leaves \/ Renews \/ Ages
    BY <1>1, <1>a, <1>b, <2>4 DEF Leaves, Renews, Ages, Row, Holds
  <2>5. CASE Dies \/ Completes \/ Requeues
    BY <1>a, <1>b, <2>5 DEF Dies, DeadLettered, Completes, Completed, Requeues, Requeued, Row
  <2>6. CASE Fails
    BY <1>a, <1>b, <2>6 DEF Fails, Failed, Row
  <2>7. QED BY <2>2, <2>3, <2>4, <2>5, <2>6, RowChange
<1>4. \A c \in 1..wk[v].done : Stored(v, c) \in effects
  BY <1>2, <1>3, <1>a DEF Progress
<1>5. CASE effects' = effects /\ wk'[v].done = wk[v].done
  BY <1>1, <1>4, <1>5
<1>6. CASE CommitEffects(v)
  <2>1. effects' = {x \in effects : x.batch # wk[v].done + 1} \cup {Stored(v, wk[v].done + 1)}
    BY <1>6 DEF CommitEffects
  <2>2. CASE b = wk[v].done + 1
    BY <1>1, <2>1, <2>2
  <2>3. CASE b # wk[v].done + 1
    <3>1. b \in 1..wk[v].done
      BY <1>1, <1>c, <2>3
    <3>2. Stored(v, b) \in effects /\ Stored(v, b).batch # wk[v].done + 1
      BY <1>4, <2>3, <3>1
    <3>3. QED BY <1>1, <2>1, <3>2
  <2>4. QED BY <2>2, <2>3
<1>7. ASSUME NEW w \in Worker, CommitEffects(w), w # v PROVE FALSE
  <2>1. HasClaim(w) /\ row.token = wk[w].token
    BY <1>7, <1>a DEF CommitEffects, NoConflict, OpenTxn, HasClaim
  <2>2. wk[v].token # wk[w].token
    BY <1>1, <1>7, <1>a, <2>1 DEF Claims
  <2>3. QED BY <1>3, <2>1, <2>2 DEF Holds
<1>8. QED BY <1>1, <1>2, <1>5, <1>6, <1>7, EffectChange

\* A staged job keeps its marker until it is released.
LEMMA StagedJobsMarkedStep == IInv /\ [Next]_vars => StagedJobsMarked'
<1> SUFFICES ASSUME IInv, [Next]_vars, IsOpen(gate'), row'.staged
             PROVE  event'.stored /\ event'.marker
  BY DEF StagedJobsMarked
<1>a. /\ row \in Row /\ RowShape /\ Outbox /\ StagedJobsMarked
      /\ event \in [stored : BOOLEAN, marker : BOOLEAN]
  BY DEF IInv, TypeOK
<1>1. IsOpen(gate) /\ ~ IsErasing(gate)
  BY GateChange DEF NoRow, NewRow, IsOpen, IsErasing
<1>2. CASE Appears
  BY <1>2 DEF Appears, NewRow
<1>3. CASE ~ Appears
  <2>1. row.staged
    <3>1. CASE row' = row \/ Vanishes \/ Leaves
      BY <3>1, <1>a DEF Vanishes, NoRow, NewRow, Leaves, Row
    <3>2. CASE Renews \/ Ages \/ Dies
      BY <3>2, <1>a DEF Renews, Ages, Dies, DeadLettered, Row
    <3>3. CASE Taken \/ Completes \/ Requeues
      BY <3>3, <1>a DEF Taken, Claim, Claimed, Completes, Completed, Requeues, Requeued, Row
    <3>4. CASE Fails
      BY <3>4, <1>a DEF Fails, Failed, Row
    <3>5. QED BY <1>3, <3>1, <3>2, <3>3, <3>4, RowChange
  <2>2. event.stored /\ event.marker /\ row.status = "pending"
    BY <1>1, <1>a, <2>1 DEF StagedJobsMarked, RowShape
  <2>3. ~ ClearMarker /\ ~ EraseEvent
    BY <1>1, <1>a, <2>1 DEF ClearMarker, EraseEvent, Outbox
  <2>4. ASSUME NEW w \in Worker, Repair(w) PROVE FALSE
    <3>1. row # NoRow
      BY <2>2 DEF NoRow, NewRow
    <3>2. row' = [row EXCEPT !.staged = FALSE]
      BY <2>2, <2>4, <3>1 DEF Repair
    <3>3. QED BY <1>a, <3>2 DEF Row
  <2>5. CASE WriteEvent
    BY <2>5 DEF WriteEvent
  <2>6. QED BY <2>2, <2>3, <2>4, <2>5, Writer
<1>4. QED BY <1>2, <1>3

\* Rows are admitted, and batches commit, in the epoch of the open gate only.
LEMMA NoStaleWorkStep == IInv /\ [Next]_vars => NoStaleWork'
<1> SUFFICES ASSUME IInv, [Next]_vars, IsOpen(gate')
             PROVE  /\ row' # NoRow => row'.epoch = gate'.epoch
                    /\ \A x \in effects' : x.epoch = gate'.epoch
  BY DEF NoStaleWork
<1>a. row \in Row /\ NoStaleWork /\ OpenTxn /\ gate \in Gate
  BY DEF IInv, TypeOK
<1>1. CASE gate' # gate
  BY <1>1, GateChange
<1>2. CASE gate' = gate
  <2>1. IsOpen(gate) /\ ~ IsErasing(gate)
    BY <1>2 DEF IsOpen, IsErasing
  <2>2. row' # NoRow => row'.epoch = gate'.epoch
    <3>1. SUFFICES ASSUME row' # NoRow, ~ Appears PROVE row'.epoch = gate.epoch
      BY <1>2 DEF Appears, NewRow
    <3>2. CASE Requeues
      BY <3>2, <1>a DEF Requeues, Requeued, Row
    <3>3. CASE row' = row \/ Vanishes
      BY <1>a, <2>1, <3>1, <3>3 DEF Vanishes, NoStaleWork
    <3>4. CASE Leaves \/ Renews \/ Dies
      <4>1. row # NoRow /\ row'.epoch = row.epoch
        BY <3>4, <1>a DEF Leaves, Renews, Dies, DeadLettered, NoRow, NewRow, Row
      <4>2. QED BY <1>a, <2>1, <4>1 DEF NoStaleWork
    <3>5. CASE Taken \/ Completes
      <4>1. row # NoRow /\ row'.epoch = row.epoch
        BY <3>5, <1>a
           DEF Taken, Claim, Claimable, Claimed, Completes, Completed, NoRow, NewRow, Row
      <4>2. QED BY <1>a, <2>1, <4>1 DEF NoStaleWork
    <3>6. CASE Fails
      <4>1. row # NoRow /\ row'.epoch = row.epoch
        BY <3>6, <1>a DEF Fails, Failed, NoRow, NewRow, Row
      <4>2. QED BY <1>a, <2>1, <4>1 DEF NoStaleWork
    <3>7. CASE Ages
      <4>1. PICK lease \in Nat, retry \in Nat :
              /\ row' = [row EXCEPT !.lease = lease, !.retry = retry]
              /\ row.lease = 0 => lease = 0
              /\ row.retry = 0 => retry = 0
        BY <3>7 DEF Ages
      <4>2. row # NoRow
        BY <3>1, <4>1 DEF NoRow, NewRow
      <4>3. row'.epoch = row.epoch
        BY <4>1, <1>a DEF Row
      <4>4. QED BY <1>a, <2>1, <4>2, <4>3 DEF NoStaleWork
    <3>8. QED BY <3>1, <3>2, <3>3, <3>4, <3>5, <3>6, <3>7, RowChange
  <2>3. ASSUME NEW x \in effects' PROVE x.epoch = gate'.epoch
    <3>1. CASE effects' = effects \/ effects' = {}
      BY <1>2, <1>a, <2>1, <2>3, <3>1 DEF NoStaleWork
    <3>2. ASSUME NEW w \in Worker, CommitEffects(w) PROVE x.epoch = gate'.epoch
      <4>1. gate.epoch = wk[w].epoch
        BY <3>2, <1>a DEF CommitEffects, NoConflict, OpenTxn
      <4>2. x \in effects \/ x = [token |-> wk[w].token, batch |-> wk[w].done + 1,
                                  epoch |-> wk[w].epoch]
        BY <2>3, <3>2 DEF CommitEffects
      <4>3. QED BY <1>2, <1>a, <2>1, <4>1, <4>2 DEF NoStaleWork
    <3>3. QED BY <3>1, <3>2, EffectChange
  <2>4. QED BY <2>2, <2>3
<1>3. QED BY <1>1, <1>2

\* The completion is the last batch of a claim whose other batches are stored.
LEMMA CompletedStep == IInv /\ [Next]_vars => CompletedMeansAllEffects'
<1> DEFINE Complete(t, e, eff) ==
             \A b \in 1..Batches : [token |-> t, batch |-> b, epoch |-> e] \in eff
<1> SUFFICES ASSUME IInv, [Next]_vars, row'.status = "completed", IsOpen(gate')
             PROVE  \E t \in 1..issued' : Complete(t, row'.epoch, effects')
  BY DEF CompletedMeansAllEffects
<1>a. /\ row \in Row /\ wk \in [Worker -> WorkerState] /\ Claims /\ Progress /\ OpenTxn
      /\ CompletedMeansAllEffects
  BY DEF IInv, TypeOK, WorkerState
<1>b. issued \in Nat /\ (issued' = issued \/ issued' = issued + 1)
  BY Counters
<1>1. gate' = gate /\ IsOpen(gate) /\ ~ IsErasing(gate)
  BY GateChange DEF NoRow, NewRow, IsOpen, IsErasing
<1>2. CASE Completes
  <2>1. PICK w \in Worker :
          /\ row.status = "running" /\ row' = Completed
          /\ wk[w].pc = "txn" /\ wk[w].txn = "open" /\ wk[w].aim = "complete"
    BY <1>2 DEF Completes
  <2>2. row.token = wk[w].token /\ row.epoch = wk[w].epoch /\ wk[w].done = Batches
    BY <2>1, <1>a DEF OpenTxn, Claims
  <2>3. HasClaim(w) /\ Holds(w)
    BY <2>1, <2>2 DEF HasClaim, Holds
  <2>4. Complete(wk[w].token, wk[w].epoch, effects)
    BY <1>1, <1>a, <2>2, <2>3 DEF Progress
  <2>5. row'.epoch = row.epoch /\ row' # row
    BY <2>1, <1>a DEF Completed, Row
  <2>6. effects' = effects
    BY <1>1, <2>5, EffectChange DEF CommitEffects
  <2>7. wk[w].token \in 1..issued
    BY <2>3, <1>a DEF Claims
  <2>8. QED BY <1>b, <2>2, <2>4, <2>5, <2>6, <2>7
<1>3. CASE ~ Completes
  <2>1. row.status = "completed" /\ row'.epoch = row.epoch
    <3>1. CASE row' = row \/ Vanishes \/ Appears
      BY <3>1 DEF Vanishes, Appears, NoRow, NewRow
    <3>2. CASE Leaves \/ Renews \/ Ages
      BY <3>2, <1>a DEF Leaves, Renews, Ages, Row
    <3>3. CASE Dies \/ Taken \/ Requeues
      BY <3>3, <1>a DEF Dies, DeadLettered, Taken, Claim, Claimed, Requeues, Requeued, Row
    <3>4. CASE Fails
      BY <3>4, <1>a DEF Fails, Failed, Row
    <3>5. QED BY <1>3, <3>1, <3>2, <3>3, <3>4, RowChange
  <2>2. effects' = effects
    BY <1>1, <1>a, <2>1, EffectChange DEF CommitEffects, NoConflict, OpenTxn
  <2>3. PICK t \in 1..issued : Complete(t, row.epoch, effects)
    BY <1>1, <1>a, <2>1 DEF CompletedMeansAllEffects
  <2>4. QED BY <1>b, <2>1, <2>2, <2>3
<1>4. QED BY <1>2, <1>3

\* The invariant holds initially.
LEMMA InitIInv == Init => IInv
<1> SUFFICES ASSUME Init PROVE IInv
  OBVIOUS
<1>1. TypeOK
  <2>1. gate \in Gate /\ row \in Row
    BY DEF Init, Gate, OpenGate, NoRow, NewRow, Row
  <2>2. wk \in [Worker -> WorkerState]
    BY IdleType DEF Init
  <2>3. QED BY <2>1, <2>2, Numbers DEF Init, TypeOK, WorkerState
<1>2. \A w \in Worker : wk[w] = IdleWorker
  BY DEF Init
<1>3. RowShape /\ Outbox /\ StagedJobsMarked
  BY <1>2 DEF Init, RowShape, Outbox, StagedJobsMarked, NoRow, NewRow, IdleWorker
<1>4. Budget
  BY Numbers DEF Init, Budget, NoRow, NewRow
<1>5. OpenTxn /\ Progress
  BY <1>2 DEF OpenTxn, Progress, Holds, HasClaim, IdleWorker
<1>6. Claims
  BY <1>2, Numbers DEF Init, Claims, HasClaim, IdleWorker, NoRow, NewRow, Unclaimed
<1>7. NoStaleWork /\ CompletedMeansAllEffects
  BY DEF Init, NoStaleWork, CompletedMeansAllEffects, NoRow, NewRow
<1>8. QED BY <1>1, <1>3, <1>4, <1>5, <1>6, <1>7 DEF IInv
-----------------------------------------------------------------------------
(***************************************************************************)
(* The theorems.                                                           *)
(***************************************************************************)
\* The types and everything the invariant says of rows, claims and open batches hold in
\* every state.
THEOREM Invariance == Spec => []IInv
<1>1. IInv /\ [Next]_vars => IInv'
  BY TypeStep, RowShapeStep, BudgetStep, OutboxStep, OpenTxnStep, ClaimsStep, ProgressStep,
     StagedJobsMarkedStep, NoStaleWorkStep, CompletedStep DEF IInv
<1>2. QED BY InitIInv, <1>1, PTL DEF Spec

\* When the tenant is open, no row and no effect of an earlier epoch is there, for any
\* number of workers that outlive the erasure.
THEOREM ErasureFinal == Spec => []NoStaleWork
<1>1. IInv => NoStaleWork
  BY DEF IInv
<1>2. QED BY Invariance, <1>1, PTL

\* A staged job can always be found by the repair pass of the outbox.
THEOREM OutboxSafety == Spec => []StagedJobsMarked
<1>1. IInv => StagedJobsMarked
  BY DEF IInv
<1>2. QED BY Invariance, <1>1, PTL

\* A completed job has all its batches from one claim.
THEOREM CompletionSafety == Spec => []CompletedMeansAllEffects
<1>1. IInv => CompletedMeansAllEffects
  BY DEF IInv
<1>2. QED BY Invariance, <1>1, PTL

\* Effects of a claim appear only while it is the job's current claim, the tenant is
\* open in its epoch and the event is stored.
THEOREM EffectFence == Spec => EffectsFenced
<1> DEFINE Fenced1 == \A x \in effects' \ effects :
                        /\ row.status = "running" /\ row.token = x.token
                        /\ IsOpen(gate) /\ gate.epoch = x.epoch
                        /\ event.stored
<1>1. IInv /\ [Next]_vars => Fenced1
  <2> SUFFICES ASSUME IInv, [Next]_vars, NEW x \in effects' \ effects
               PROVE  /\ row.status = "running" /\ row.token = x.token
                      /\ IsOpen(gate) /\ gate.epoch = x.epoch
                      /\ event.stored
    OBVIOUS
  <2>1. PICK w \in Worker : CommitEffects(w)
    BY EffectChange
  <2>2. x = [token |-> wk[w].token, batch |-> wk[w].done + 1, epoch |-> wk[w].epoch]
    BY <2>1 DEF CommitEffects
  <2>3. QED BY <2>1, <2>2 DEF CommitEffects, NoConflict, IInv, OpenTxn
<1>2. IInv /\ [Next]_vars => [Fenced1]_vars
  BY <1>1
<1>3. QED BY Invariance, <1>2, PTL DEF Spec, EffectsFenced

\* Attempts stay within the budget, queued work and dead letters disappear only in an
\* erasure, and a dead letter is changed by a requeue alone.
THEOREM QueueKeepsJobs == Spec => JobsKept
<1> DEFINE Kept == /\ row'.attempts <= MaxAttempts + requeued'
                   /\ (row.status \in {"pending", "running"} \/ row.dead) /\ row' = NoRow
                        => IsErasing(gate)
                   /\ row.dead /\ row' # NoRow => row'.status = "pending" \/ row' = row
<1>1. IInv /\ [Next]_vars => Kept
  <2> SUFFICES ASSUME IInv, [Next]_vars PROVE Kept
    OBVIOUS
  <2>a. row \in Row /\ RowShape
    BY DEF IInv, TypeOK
  <2>1. row'.attempts <= MaxAttempts + requeued'
    BY BudgetStep DEF Budget
  <2>2. ASSUME row.status \in {"pending", "running"} \/ row.dead, row' = NoRow
        PROVE  IsErasing(gate)
    <3>1. ~ row.finished /\ row # NoRow /\ row'.status = "absent"
      <4>1. ~ row.finished
        BY <2>a, <2>2 DEF RowShape
      <4>2. row # NoRow
        BY <2>2 DEF NoRow, NewRow
      <4>3. row'.status = "absent"
        BY <2>2 DEF NoRow, NewRow
      <4>4. QED BY <4>1, <4>2, <4>3
    <3>2. CASE row' = row \/ Appears \/ Leaves \/ Renews
      BY <2>2, <3>1, <3>2, <2>a DEF Appears, NewRow, Leaves, Renews, Row
    <3>3. CASE Taken \/ Dies \/ Completes \/ Requeues
      BY <3>1, <3>3, <2>a
         DEF Taken, Claim, Claimed, Dies, DeadLettered, Completes, Completed, Requeues, Requeued,
             Row
    <3>4. CASE Fails
      BY <3>1, <3>4, <2>a DEF Fails, Failed, Row
    <3>5. CASE Ages
      BY <2>2, <3>1, <3>5, <2>a DEF Ages, Row, RowShape
    <3>6. QED BY <3>1, <3>2, <3>3, <3>4, <3>5, RowChange DEF Vanishes
  <2>3. ASSUME row.dead, row' # NoRow PROVE row'.status = "pending" \/ row' = row
    <3>1. row.status = "failed" /\ row.lease = 0 /\ row.retry = 0
      BY <2>a, <2>3 DEF RowShape
    <3>2. CASE Requeues
      BY <3>2, <2>a DEF Requeues, Requeued, Row
    <3>3. CASE Ages
      <4>1. PICK lease \in Nat, retry \in Nat :
              /\ row' = [row EXCEPT !.lease = lease, !.retry = retry]
              /\ row.lease = 0 => lease = 0
              /\ row.retry = 0 => retry = 0
        BY <3>3 DEF Ages
      <4>2. row' = row
        BY <3>1, <4>1, <2>a DEF Row
      <4>3. QED BY <4>2
    <3>4. ~ Vanishes /\ ~ Appears
      BY <2>3, <3>1 DEF Vanishes, Appears, NoRow, NewRow
    <3>5. ~ Leaves /\ ~ Renews /\ ~ Dies /\ ~ Completes /\ ~ Fails
      BY <3>1 DEF Leaves, Renews, Dies, Completes, Fails
    <3>6. ~ Taken
      BY <2>3, <3>1 DEF Taken, Claim, Claimable
    <3>7. QED BY <3>2, <3>3, <3>4, <3>5, <3>6, RowChange
  <2>4. QED BY <2>1, <2>2, <2>3
<1>2. IInv /\ [Next]_vars => [Kept]_vars
  BY <1>1
<1>3. QED BY Invariance, <1>2, PTL DEF Spec, JobsKept
-----------------------------------------------------------------------------
(***************************************************************************)
(* The worker of a manager that drains these jobs (JobWorker), for any     *)
(* callers of stop and any bounds: the types, the timer invariant          *)
(* TimerAgrees, and the action properties QuietWhenStopReturns and         *)
(* StaleCallNeverStarts.                                                   *)
(*                                                                         *)
(* TimerAgrees and the types are inductive together and not apart: an      *)
(* interval gets an identity of its own only because at most one other is  *)
(* ticking.                                                                *)
(***************************************************************************)
WorkerInv == WorkerTypeOK /\ TimerAgrees

Wakes == [adm : Epoch, gen : Epoch]

Runs == [pc : {"done", "capture", "check", "drain"}, adm : Epoch, gen : Epoch,
         sel : TimerId \cup {0}]

WorkerShape == [active : BOOLEAN, pending : Wakes, run : Runs]

\* A worker is active exactly as long as a run is in flight.
Busy(s) == s.active <=> s.run.pc # "done"
-----------------------------------------------------------------------------
(***************************************************************************)
(* The helpers of the actions.                                             *)
(***************************************************************************)
\* The wake that is none is a wake, and the run that is none a run.
LEMMA IdleTypes == NoWake \in Wakes /\ NoRunState \in Runs /\ NoTimer.id = 0
BY DEF NoWake, NoRunState, NoTimer, Wakes, Runs, Epoch, None

\* A wake leaves a well-formed worker with a run in flight.
LEMMA WokenType ==
  ASSUME NEW s \in WorkerShape, Busy(s),
         NEW a \in Epoch, NEW g \in Epoch, NEW sel \in TimerId \cup {0}
  PROVE  Woken(s, a, g, sel) \in WorkerShape /\ Busy(Woken(s, a, g, sel))
<1>1. CASE s.active /\ Replaces(s.pending, a, g)
  BY <1>1 DEF Woken, WorkerShape, Wakes, Busy
<1>2. CASE s.active /\ ~ Replaces(s.pending, a, g)
  BY <1>2 DEF Woken
<1>3. CASE ~ s.active
  BY <1>3 DEF Woken, WorkerShape, Runs, Busy
<1>4. QED BY <1>1, <1>2, <1>3

\* A wake is remembered: by the run it starts, by the run in flight as pending, or by
\* the pending wake of the same generation that it does not replace.
LEMMA WokenGeneration ==
  ASSUME NEW s \in WorkerShape, NEW a \in Epoch, NEW g \in Epoch,
         NEW sel \in TimerId \cup {0}
  PROVE  g \in {Woken(s, a, g, sel).run.gen, Woken(s, a, g, sel).pending.gen}
<1>1. CASE s.active /\ Replaces(s.pending, a, g)
  BY <1>1 DEF Woken, WorkerShape
<1>2. CASE s.active /\ ~ Replaces(s.pending, a, g)
  BY <1>2 DEF Woken, Replaces
<1>3. CASE ~ s.active
  BY <1>3 DEF Woken
<1>4. QED BY <1>1, <1>2, <1>3

\* The end of a run leaves a well-formed worker and frees nobody who awaits a stop.
LEMMA FinishType ==
  ASSUME WorkerTypeOK, Finish
  PROVE  /\ worker' \in WorkerShape /\ Busy(worker')
         /\ stopping' \in [Stopper -> {"no", "current", "old"}]
         /\ \A c \in Stopper : stopping'[c] = "no" => stopping[c] = "no"
<1> DEFINE idle == [active |-> FALSE, pending |-> NoWake, run |-> NoRunState]
<1>1. idle \in WorkerShape /\ Busy(idle)
  BY IdleTypes DEF WorkerShape, Busy, NoRunState
<1>2. worker.pending.adm \in Epoch /\ worker.pending.gen \in Epoch
  BY DEF WorkerTypeOK
<1>3. CASE worker.pending # NoWake /\ Accepts(worker.pending.gen)
  <2>1. /\ worker' = Woken(idle, worker.pending.adm, worker.pending.gen, 0)
        /\ stopping' = NewPromise
    BY <1>3 DEF Finish
  <2>2. worker' \in WorkerShape /\ Busy(worker')
    BY <1>1, <1>2, <2>1, WokenType
  <2>3. QED BY <2>1, <2>2 DEF NewPromise, WorkerTypeOK
<1>4. CASE ~ (worker.pending # NoWake /\ Accepts(worker.pending.gen))
  <2>1. worker' = idle /\ stopping' = stopping
    BY <1>4 DEF Finish
  <2>2. QED BY <1>1, <2>1 DEF WorkerTypeOK
<1>5. QED BY <1>3, <1>4

\* A wake that passed its guards does the same.
LEMMA WakeType ==
  ASSUME WorkerTypeOK, NEW a \in Epoch, NEW g \in Epoch, NEW sel \in TimerId \cup {0},
         Wake(a, g, sel)
  PROVE  /\ worker' \in WorkerShape /\ Busy(worker')
         /\ stopping' \in [Stopper -> {"no", "current", "old"}]
         /\ \A c \in Stopper : stopping'[c] = "no" => stopping[c] = "no"
<1>1. worker \in WorkerShape /\ Busy(worker)
  BY DEF WorkerTypeOK, WorkerShape, Wakes, Runs, Busy
<1>2. worker' \in WorkerShape /\ Busy(worker')
  BY <1>1, WokenType DEF Wake
<1>3. QED BY <1>2 DEF Wake, NewPromise, WorkerTypeOK

\* A new interval has an identity that neither the run in flight nor a ticking one
\* uses, and is the only one that ticks.
LEMMA InstallTimer ==
  ASSUME WorkerInv, NEW a \in Epoch, Install(a), IsCurrent
  PROVE  /\ timer' \in [id : TimerId, adm : Epoch, gen : Epoch]
         /\ ticking' = {timer'} /\ timer'.adm = a /\ timer'.gen = gen
<1> DEFINE Free(i) == i # worker.run.sel /\ \A t \in ticking : t.id # i
           id == CHOOSE i \in TimerId : Free(i)
<1>1. ticking \subseteq {timer}
  BY DEF WorkerInv, TimerAgrees, OneTimer
<1>2. worker.run.sel \in TimerId \cup {0} /\ timer.id \in TimerId \cup {0}
  BY DEF WorkerInv, WorkerTypeOK
<1>3. \E i \in TimerId : i # worker.run.sel /\ i # timer.id
  BY <1>2 DEF TimerId
<1>4. \E i \in TimerId : Free(i)
  BY <1>1, <1>3
<1>5. id \in TimerId
  BY <1>4
<1>6. timer' = [id |-> id, adm |-> a, gen |-> worker.run.gen] /\ ticking' = {timer'}
  BY <1>1 DEF Install
<1>7. worker.run.gen \in Epoch /\ worker.run.gen = gen
  BY DEF WorkerInv, WorkerTypeOK, IsCurrent, Accepts
<1>8. QED BY <1>5, <1>6, <1>7
-----------------------------------------------------------------------------
(***************************************************************************)
(* Every step preserves the invariant.                                     *)
(***************************************************************************)
\* The invariant holds initially.
LEMMA InitWorker == WorkerInit => WorkerInv
<1> SUFFICES ASSUME WorkerInit PROVE WorkerInv
  OBVIOUS
<1>1. gate \in Gate
  BY DEF WorkerInit, Gate, OpenGate
<1>2. worker \in WorkerShape /\ Busy(worker)
  BY IdleTypes DEF WorkerInit, WorkerShape, Busy, NoRunState
<1>3. timer \in [id : TimerId \cup {0}, adm : Epoch, gen : Epoch] /\ wadm \in Epoch
  BY DEF WorkerInit, NoTimer, Epoch, None
<1>4. gen \in 0..MaxGen /\ writes \in 0..MaxWrites
  BY WorkerBounds DEF WorkerInit
<1>5. WorkerTypeOK
  BY <1>1, <1>2, <1>3, <1>4 DEF WorkerInit, WorkerTypeOK, WorkerShape, Wakes, Runs, Busy
<1>6. TimerAgrees
  BY DEF WorkerInit, TimerAgrees, OneTimer, AdmissionHasTimer
<1>7. QED BY <1>5, <1>6 DEF WorkerInv

\* The types of what most steps leave alone.
LEMMA WorkerRestType ==
  ASSUME WorkerTypeOK, gate' = gate, closed' \in BOOLEAN, stopped' \in BOOLEAN,
         gen' \in 0..MaxGen, writes' \in 0..MaxWrites,
         worker' \in WorkerShape, Busy(worker'),
         timer' \in [id : TimerId \cup {0}, adm : Epoch, gen : Epoch], wadm' \in Epoch,
         stopping' \in [Stopper -> {"no", "current", "old"}]
  PROVE  WorkerTypeOK'
BY DEF WorkerTypeOK, WorkerShape, Wakes, Runs, Busy

\* Every variable keeps its type.
LEMMA WorkerTypeStep == WorkerInv /\ [WorkerNext]_workerVars => WorkerTypeOK'
<1> SUFFICES ASSUME WorkerInv, [WorkerNext]_workerVars PROVE WorkerTypeOK'
  OBVIOUS
<1>a. WorkerTypeOK /\ worker \in WorkerShape /\ Busy(worker)
  BY DEF WorkerInv, WorkerTypeOK, WorkerShape, Wakes, Runs, Busy
<1>b. gen \in Epoch /\ None \in Epoch /\ gen \in Nat /\ gate.epoch \in Nat
  BY WorkerBounds DEF WorkerInv, WorkerTypeOK, Epoch, Gate
<1>1. CASE StartUp
  <2>1. Wake(None, gen, 0)
    BY <1>1 DEF StartUp
  <2>2. /\ worker' \in WorkerShape /\ Busy(worker')
        /\ stopping' \in [Stopper -> {"no", "current", "old"}]
    BY <1>a, <1>b, <2>1, WakeType
  <2>3. QED BY <1>a, <1>1, <2>2, WorkerRestType DEF StartUp, WorkerTypeOK
<1>2. CASE PostWrite
  <2>1. PICK a \in 0..gate.epoch, g \in 0..gen :
          /\ writes < MaxWrites /\ writes' = writes + 1 /\ stopped' = FALSE
          /\ IF g = gen THEN Wake(a, g, 0) ELSE UNCHANGED <<worker, stopping>>
          /\ UNCHANGED <<gate, closed, gen, timer, ticking, wadm>>
    BY <1>2 DEF PostWrite
  <2>2. a \in Epoch /\ g \in Epoch
    BY <1>b DEF Epoch
  <2>3. /\ worker' \in WorkerShape /\ Busy(worker')
        /\ stopping' \in [Stopper -> {"no", "current", "old"}]
    <3>1. CASE g = gen
      BY <1>a, <2>1, <2>2, <3>1, WakeType
    <3>2. CASE g # gen
      BY <1>a, <2>1, <3>2 DEF WorkerTypeOK
    <3>3. QED BY <3>1, <3>2
  <2>4. writes' \in 0..MaxWrites
    BY <1>a, <2>1, WorkerBounds DEF WorkerTypeOK
  <2>5. QED BY <1>a, <2>1, <2>3, <2>4, WorkerRestType DEF WorkerTypeOK
<1>3. CASE TimerFires
  <2>1. Wake(timer.adm, timer.gen, timer.id)
    BY <1>3 DEF TimerFires
  <2>2. timer.adm \in Epoch /\ timer.gen \in Epoch /\ timer.id \in TimerId \cup {0}
    BY <1>a DEF WorkerTypeOK
  <2>3. /\ worker' \in WorkerShape /\ Busy(worker')
        /\ stopping' \in [Stopper -> {"no", "current", "old"}]
    BY <1>a, <2>1, <2>2, WakeType
  <2>4. QED BY <1>a, <1>3, <2>3, WorkerRestType DEF TimerFires, WorkerTypeOK
<1>4. CASE Capture
  <2>1. worker' \in WorkerShape /\ Busy(worker')
    BY <1>a, <1>b, <1>4 DEF Capture, WorkerShape, Runs, Busy, Epoch
  <2>2. QED BY <1>a, <1>4, <2>1, WorkerRestType DEF Capture, WorkerTypeOK
<1>5. CASE Check
  <2>1. worker.run.adm \in Epoch
    BY <1>a DEF WorkerShape, Runs
  <2>2. timer' \in [id : TimerId \cup {0}, adm : Epoch, gen : Epoch]
    <3>1. CASE timer = NoTimer \/ wadm # worker.run.adm
      BY <1>5, <2>1, <3>1, InstallTimer DEF Check
    <3>2. CASE ~ (timer = NoTimer \/ wadm # worker.run.adm)
      BY <1>a, <1>5, <3>2 DEF Check, WorkerTypeOK
    <3>3. QED BY <3>1, <3>2
  <2>3. worker' \in WorkerShape /\ Busy(worker')
    BY <1>a, <1>5, <2>2 DEF Check, WorkerShape, Runs, Busy
  <2>4. QED BY <1>a, <1>5, <2>1, <2>2, <2>3, WorkerRestType DEF Check, WorkerTypeOK
<1>6. CASE Superseded \/ Drained
  <2>1. Finish
    BY <1>6 DEF Superseded, Drained
  <2>2. QED
    BY <1>a, <1>6, <2>1, FinishType, WorkerRestType DEF Superseded, Drained, WorkerTypeOK
<1>7. CASE Conflict
  <2>1. Finish
    BY <1>7 DEF Conflict
  <2>2. timer' \in [id : TimerId \cup {0}, adm : Epoch, gen : Epoch] /\ wadm' \in Epoch
    BY <1>a, <1>b, <1>7 DEF Conflict, ClearTimer, NoTimer, WorkerTypeOK
  <2>3. QED
    BY <1>a, <1>7, <2>1, <2>2, FinishType, WorkerRestType DEF Conflict, WorkerTypeOK
<1>8. CASE RunError
  <2>1. Finish
    BY <1>8 DEF RunError
  <2>2. worker.run.adm \in Epoch
    BY <1>a DEF WorkerShape, Runs
  <2>3. timer' \in [id : TimerId \cup {0}, adm : Epoch, gen : Epoch]
    <3>1. CASE IsCurrent /\ timer = NoTimer
      BY <1>8, <2>2, <3>1, InstallTimer DEF RunError
    <3>2. CASE ~ (IsCurrent /\ timer = NoTimer)
      BY <1>a, <1>8, <3>2 DEF RunError, WorkerTypeOK
    <3>3. QED BY <3>1, <3>2
  <2>4. QED
    BY <1>a, <1>8, <2>1, <2>3, FinishType, WorkerRestType DEF RunError, WorkerTypeOK
<1>9. ASSUME NEW c \in Stopper, Stop(c) PROVE WorkerTypeOK'
  <2>1. worker' \in WorkerShape /\ Busy(worker')
    BY <1>a, <1>9, IdleTypes DEF Stop, WorkerShape, Busy
  <2>2. timer' \in [id : TimerId \cup {0}, adm : Epoch, gen : Epoch] /\ wadm' \in Epoch
    BY <1>b, <1>9 DEF Stop, ClearTimer, NoTimer
  <2>3. gen' \in 0..MaxGen /\ stopping' \in [Stopper -> {"no", "current", "old"}]
    BY <1>a, <1>9, WorkerBounds DEF Stop, WorkerTypeOK
  <2>4. QED BY <1>a, <1>9, <2>1, <2>2, <2>3, WorkerRestType DEF Stop, WorkerTypeOK
<1>10. ASSUME NEW c \in Stopper, StopAgain(c) \/ StopReturns(c) PROVE WorkerTypeOK'
  BY <1>a, <1>10, WorkerRestType DEF StopAgain, StopReturns, WorkerTypeOK
<1>11. CASE Close
  BY <1>a, <1>11, WorkerRestType DEF Close, WorkerTypeOK
<1>12. CASE GateCloses
  <2>1. gate' \in Gate
    BY <1>a, <1>12 DEF GateCloses, Begun, Gate, WorkerTypeOK
  <2>2. QED BY <1>a, <1>12, <2>1 DEF GateCloses, WorkerTypeOK
<1>13. CASE GateReopens
  <2>1. gate' \in Gate
    BY <1>a, <1>13 DEF GateReopens, Reopened, Gate, WorkerTypeOK
  <2>2. QED BY <1>a, <1>13, <2>1 DEF GateReopens, WorkerTypeOK
<1>14. CASE UNCHANGED workerVars
  BY <1>a, <1>14 DEF workerVars, WorkerTypeOK
<1>15. QED
  BY <1>1, <1>2, <1>3, <1>4, <1>5, <1>6, <1>7, <1>8, <1>9, <1>10, <1>11, <1>12, <1>13, <1>14
     DEF WorkerNext

\* Of the steps that touch the intervals, the worker's state or its admission, each
\* leaves them in agreement.
LEMMA WorkerTimerStep == WorkerInv /\ [WorkerNext]_workerVars => TimerAgrees'
<1> SUFFICES ASSUME WorkerInv, [WorkerNext]_workerVars PROVE TimerAgrees'
  OBVIOUS
<1> USE DEF TimerAgrees, OneTimer, AdmissionHasTimer
<1>a. OneTimer /\ AdmissionHasTimer
  BY DEF WorkerInv
<1>b. worker.run.adm \in Epoch
  BY DEF WorkerInv, WorkerTypeOK
<1>1. CASE StartUp \/ PostWrite \/ TimerFires
  BY <1>a, <1>1 DEF StartUp, PostWrite, TimerFires
<1>2. CASE Check
  <2>1. ~ stopped
    BY <1>2 DEF Check, IsCurrent, Accepts
  <2>2. CASE timer = NoTimer \/ wadm # worker.run.adm
    <3>1. ticking' = {timer'} /\ timer'.adm = worker.run.adm /\ timer'.gen = gen
      BY <1>2, <1>b, <2>2, InstallTimer DEF Check
    <3>2. QED BY <1>2, <2>1, <3>1 DEF Check
  <2>3. CASE ~ (timer = NoTimer \/ wadm # worker.run.adm)
    BY <1>a, <1>2, <2>3 DEF Check
  <2>4. QED BY <2>2, <2>3
<1>3. CASE Conflict
  BY <1>a, <1>3 DEF Conflict, ClearTimer
<1>4. CASE RunError
  <2>1. CASE IsCurrent /\ timer = NoTimer
    <3>1. ticking' = {timer'} /\ timer'.gen = gen
      BY <1>4, <1>b, <2>1, InstallTimer DEF RunError
    <3>2. wadm = None /\ ~ stopped
      BY <1>a, <2>1 DEF NoTimer, IsCurrent, Accepts
    <3>3. QED BY <1>4, <3>1, <3>2 DEF RunError
  <2>2. CASE ~ (IsCurrent /\ timer = NoTimer)
    BY <1>a, <1>4, <2>2 DEF RunError
  <2>3. QED BY <2>1, <2>2
<1>5. ASSUME NEW c \in Stopper, Stop(c) PROVE TimerAgrees'
  BY <1>a, <1>5 DEF Stop, ClearTimer
<1>6. CASE \/ Capture \/ Superseded \/ Drained \/ Close \/ GateCloses \/ GateReopens
           \/ \E c \in Stopper : StopAgain(c) \/ StopReturns(c)
           \/ UNCHANGED workerVars
  <2>1. UNCHANGED <<stopped, gen, timer, ticking, wadm>>
    BY <1>6
       DEF Capture, Superseded, Drained, Close, GateCloses, GateReopens,
           StopAgain, StopReturns,
           workerVars
  <2>2. QED BY <1>a, <2>1
<1>7. QED BY <1>1, <1>2, <1>3, <1>4, <1>5, <1>6 DEF WorkerNext
-----------------------------------------------------------------------------
(***************************************************************************)
(* The theorems.                                                           *)
(***************************************************************************)
\* The types and the agreement of timer, worker and admission hold in every state.
THEOREM WorkerInvariance == WorkerSpec => []WorkerInv
<1>1. WorkerInv /\ [WorkerNext]_workerVars => WorkerInv'
  BY WorkerTypeStep, WorkerTimerStep DEF WorkerInv
<1>2. QED BY InitWorker, <1>1, PTL DEF WorkerSpec

\* No interval of the job worker is orphaned, and as long as a workerAdmission is
\* remembered the timer that sweeps with it ticks: a late conflict of an older run
\* never removes it (installInterval, wakeMemoryJobWorker).
THEOREM TimerSafety == WorkerSpec => []TimerAgrees
<1>1. WorkerInv => TimerAgrees
  BY DEF WorkerInv
<1>2. QED BY WorkerInvariance, <1>1, PTL

\* stopMemoryJobWorker returns to none of its callers while a run is in flight.
THEOREM StopQuiet == WorkerSpec => QuietWhenStopReturns
<1> DEFINE NobodyReturns ==
             \A c \in Stopper : stopping[c] # "no" /\ stopping'[c] = "no" => ~ worker.active
<1>1. WorkerInv /\ [WorkerNext]_workerVars => NobodyReturns
  <2> SUFFICES ASSUME WorkerInv, [WorkerNext]_workerVars PROVE NobodyReturns
    OBVIOUS
  <2>a. WorkerTypeOK
    BY DEF WorkerInv
  <2>b. gen \in Epoch /\ None \in Epoch /\ gen \in Nat /\ gate.epoch \in Nat
    BY <2>a, WorkerBounds DEF WorkerTypeOK, Epoch, Gate
  <2>1. CASE StartUp
    BY <2>a, <2>b, <2>1, WakeType DEF StartUp
  <2>2. CASE PostWrite
    <3>1. PICK a \in 0..gate.epoch, g \in 0..gen :
            IF g = gen THEN Wake(a, g, 0) ELSE UNCHANGED <<worker, stopping>>
      BY <2>2 DEF PostWrite
    <3>2. a \in Epoch /\ g \in Epoch
      BY <2>b DEF Epoch
    <3>3. QED BY <2>a, <3>1, <3>2, WakeType
  <2>3. CASE TimerFires
    <3>1. timer.adm \in Epoch /\ timer.gen \in Epoch /\ timer.id \in TimerId \cup {0}
      BY <2>a DEF WorkerTypeOK
    <3>2. Wake(timer.adm, timer.gen, timer.id)
      BY <2>3 DEF TimerFires
    <3>3. QED BY <2>a, <3>1, <3>2, WakeType
  <2>4. CASE Superseded \/ Drained \/ Conflict \/ RunError
    <3>1. Finish
      BY <2>4 DEF Superseded, Drained, Conflict, RunError
    <3>2. QED BY <2>a, <3>1, FinishType
  <2>5. ASSUME NEW c \in Stopper, Stop(c) \/ StopAgain(c) \/ StopReturns(c)
        PROVE  NobodyReturns
    BY <2>a, <2>5 DEF Stop, StopAgain, StopReturns, WorkerTypeOK
  <2>6. CASE Capture \/ Check \/ Close \/ GateCloses \/ GateReopens \/ UNCHANGED workerVars
    BY <2>6 DEF Capture, Check, Close, GateCloses, GateReopens, workerVars
  <2>7. QED BY <2>1, <2>2, <2>3, <2>4, <2>5, <2>6 DEF WorkerNext
<1>2. WorkerInv /\ [WorkerNext]_workerVars => [NobodyReturns]_workerVars
  BY <1>1
<1>3. QED BY WorkerInvariance, <1>2, PTL DEF WorkerSpec, QuietWhenStopReturns

\* A stopped worker comes up again only with a run, or a pending wake, of a call that
\* began in the new generation.
THEOREM StopFinal == WorkerSpec => StaleCallNeverStarts
<1> DEFINE Fresh == stopped /\ ~ stopped' => gen \in {worker'.run.gen, worker'.pending.gen}
<1>1. WorkerInv /\ [WorkerNext]_workerVars => Fresh
  <2> SUFFICES ASSUME WorkerInv, [WorkerNext]_workerVars, stopped, ~ stopped'
               PROVE  gen \in {worker'.run.gen, worker'.pending.gen}
    OBVIOUS
  <2>1. worker \in WorkerShape
    BY DEF WorkerInv, WorkerTypeOK, WorkerShape, Wakes, Runs
  <2>2. gen \in Epoch /\ None \in Epoch /\ gate.epoch \in Nat
    BY WorkerBounds DEF WorkerInv, WorkerTypeOK, Epoch, Gate
  <2>3. CASE StartUp
    BY <2>1, <2>2, <2>3, WokenGeneration DEF StartUp, Wake
  <2>4. CASE PostWrite
    <3>1. PICK a \in 0..gate.epoch, g \in 0..gen :
            /\ MayStart(g)
            /\ IF g = gen THEN Wake(a, g, 0) ELSE UNCHANGED <<worker, stopping>>
      BY <2>4 DEF PostWrite
    <3>2. a \in Epoch /\ worker' = Woken(worker, a, gen, 0)
      BY <2>2, <3>1 DEF MayStart, Wake, Epoch
    <3>3. QED BY <2>1, <2>2, <3>2, WokenGeneration
  <2>5. QED
    BY <2>3, <2>4
       DEF WorkerNext, TimerFires, Capture, Check, Superseded, Drained, Conflict,
           RunError, Stop,
           StopAgain, StopReturns, Close, GateCloses, GateReopens, workerVars
<1>2. WorkerInv /\ [WorkerNext]_workerVars => [Fresh]_workerVars
  BY <1>1
<1>3. QED BY WorkerInvariance, <1>2, PTL DEF WorkerSpec, StaleCallNeverStarts
=============================================================================
