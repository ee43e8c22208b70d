----------------------------- MODULE JobWorker -----------------------------
(***************************************************************************)
(* The worker of one manager that drains the job queue: wakes, its sweep   *)
(* timer, start and stop (mongodb-manager-jobs.ts).  JavaScript runs one   *)
(* thread, so every stretch between two awaits is one step; calls, timers  *)
(* and erasures by this or another process come in between.                *)
(***************************************************************************)
EXTENDS GateDoc, FiniteSets

CONSTANTS
  Stopper,   \* concurrent callers of stopMemoryJobWorker: close and erasures
  MaxGen,    \* bound on stops
  MaxWrites  \* bound on writes, so that a wake is not answered by a later write

ASSUME WorkerBounds == {MaxGen, MaxWrites} \subseteq Nat

VARIABLES
  closed,     \* the manager is closed
  stopped,    \* memoryJobWorkerStopped
  gen,        \* memoryJobWorkerGeneration
  worker,     \* memoryJobWorkerActive, pendingWake and the run in flight
  timer,      \* memoryJobWorkerTimer
  ticking,    \* intervals that were set and not cleared
  wadm,       \* workerAdmission: the epoch the timer was installed for
  writes,     \* writes so far
  stopping    \* Stopper -> which memoryJobWorkerPromise it awaits

workerVars == <<gate, closed, stopped, gen, worker, timer, ticking, wadm, writes, stopping>>

None == -1

Epoch == Nat \cup {None}

NoWake == [adm |-> None, gen |-> None]

\* Four identities are enough: the current interval, the one being installed and
\* one a run still refers to.
TimerId == 1..4

NoTimer == [id |-> 0, adm |-> None, gen |-> None]

NoRunState == [pc |-> "done", adm |-> None, gen |-> None, sel |-> 0]

-----------------------------------------------------------------------------
Accepts(g) == ~ closed /\ ~ stopped /\ g = gen

\* isCurrent of the run in flight.
IsCurrent == Accepts(worker.run.gen)

\* Defective variant: the last wake wins, whatever its epoch.
LatestWake(old, a, g) == TRUE

\* A wake replaces the pending one unless it carries an older admission, or none.
Replaces(old, a, g) ==
  \/ old = NoWake
  \/ old.gen # g
  \/ a # None /\ (old.adm = None \/ a >= old.adm)

\* wakeMemoryJobWorker once its guards have passed: s is worker, sel the timer.
Woken(s, a, g, sel) ==
  IF s.active
  THEN IF Replaces(s.pending, a, g) THEN [s EXCEPT !.pending = [adm |-> a, gen |-> g]]
                                    ELSE s
  ELSE [active |-> TRUE, pending |-> s.pending,
        run |-> [pc |-> IF a = None THEN "capture" ELSE "check",
                 adm |-> a, gen |-> g, sel |-> sel]]

\* memoryJobWorkerPromise is replaced: who awaited the old one will notice.
NewPromise == [c \in Stopper |-> IF stopping[c] = "current" THEN "old" ELSE stopping[c]]

\* A wake that passed the guards: it starts a run unless one is in flight.
Wake(a, g, sel) ==
  /\ worker' = Woken(worker, a, g, sel)
  /\ stopping' = IF worker.active THEN stopping ELSE NewPromise

\* The finally of a run: it consumes the pending wake, which may start another.
Finish ==
  LET next == worker.pending
      idle == [active |-> FALSE, pending |-> NoWake, run |-> NoRunState]
  IN  IF next # NoWake /\ Accepts(next.gen)
      THEN worker' = Woken(idle, next.adm, next.gen, 0) /\ stopping' = NewPromise
      ELSE worker' = idle /\ UNCHANGED stopping

\* installInterval for admission a of the run in flight.
Install(a) ==
  LET live == ticking \ {timer}
      id   == CHOOSE i \in TimerId : i # worker.run.sel /\ \A t \in ticking : t.id # i
      new  == [id |-> id, adm |-> a, gen |-> worker.run.gen]
  IN  timer' = new /\ ticking' = live \cup {new}

ClearTimer ==
  /\ ticking' = ticking \ {timer}
  /\ timer' = NoTimer

-----------------------------------------------------------------------------
(***************************************************************************)
(* Callers.                                                                *)
(***************************************************************************)
\* startMemoryJobWorker() of a new manager: no admission.
StartUp ==
  /\ stopped /\ ~ closed /\ gen = 0
  /\ stopped' = FALSE
  /\ Wake(None, gen, 0)
  /\ UNCHANGED <<gate, closed, gen, timer, ticking, wadm, writes>>

\* Defective variant: a call that began before a stop starts the worker again.
StartAccepts(g) == ~ closed

\* The guard of startMemoryJobWorker.
MayStart(g) == ~ closed /\ g = gen

\* The end of a write or of scheduleBackgroundExtraction: it carries the admission
\* and the generation it began with and wakes the worker, or starts a stopped one.
PostWrite ==
  \E a \in 0..gate.epoch, g \in 0..gen :
    /\ writes < MaxWrites
    /\ writes' = writes + 1
    /\ a = gate.epoch => ~ IsErasing(gate)
    /\ IF stopped THEN MayStart(g) ELSE ~ closed
    /\ stopped' = FALSE
    /\ IF g = gen THEN Wake(a, g, 0) ELSE UNCHANGED <<worker, stopping>>
    /\ UNCHANGED <<gate, closed, gen, timer, ticking, wadm>>

\* The interval's callback; clearInterval has removed every other timer.
TimerFires ==
  \E t \in ticking :
    /\ Accepts(t.gen)
    /\ t = timer
    /\ Wake(t.adm, t.gen, t.id)
    /\ UNCHANGED <<gate, closed, stopped, gen, timer, ticking, wadm, writes>>

-----------------------------------------------------------------------------
(***************************************************************************)
(* The run in flight.                                                      *)
(***************************************************************************)
\* captureAdmissionToken, for a wake without an admission.
Capture ==
  /\ worker.run.pc = "capture"
  /\ IsOpen(gate)
  /\ worker' = [worker EXCEPT !.run.adm = gate.epoch, !.run.pc = "check"]
  /\ UNCHANGED <<gate, closed, stopped, gen, timer, ticking, wadm, writes, stopping>>

\* The gate still has the admission's epoch: install the timer and drain.
Check ==
  /\ worker.run.pc = "check"
  /\ AdmissionMatches(gate, Admission(worker.run.adm))
  /\ IsCurrent
  /\ IF timer = NoTimer \/ wadm # worker.run.adm
     THEN Install(worker.run.adm)
     ELSE UNCHANGED <<timer, ticking>>
  /\ worker' = [worker EXCEPT !.run.pc = "drain", !.run.sel = timer'.id]
  /\ wadm' = worker.run.adm
  /\ UNCHANGED <<gate, closed, stopped, gen, writes, stopping>>

\* The worker was stopped, closed or restarted while the run awaited the gate.
Superseded ==
  /\ worker.run.pc = "check"
  /\ AdmissionMatches(gate, Admission(worker.run.adm))
  /\ ~ IsCurrent
  /\ Finish
  /\ UNCHANGED <<gate, closed, stopped, gen, timer, ticking, wadm, writes>>

Drained ==
  /\ worker.run.pc = "drain"
  /\ Finish
  /\ UNCHANGED <<gate, closed, stopped, gen, timer, ticking, wadm, writes>>

\* Defective variant: any conflict removes the timer, whoever installed it.
ConflictClearsTimer ==
  /\ \/ worker.run.pc = "capture" /\ IsErasing(gate)
     \/ worker.run.pc \in {"check", "drain"}
        /\ ~ AdmissionMatches(gate, Admission(worker.run.adm))
  /\ IF IsCurrent THEN ClearTimer ELSE UNCHANGED <<timer, ticking>>
  /\ Finish
  /\ UNCHANGED <<gate, closed, stopped, gen, wadm, writes>>

\* ErasureGateConflictError: the timer of the erased epoch is removed, never one a
\* newer admission installed.
Conflict ==
  /\ \/ worker.run.pc = "capture" /\ IsErasing(gate)
     \/ worker.run.pc \in {"check", "drain"}
        /\ ~ AdmissionMatches(gate, Admission(worker.run.adm))
  /\ IF /\ IsCurrent
        /\ timer # NoTimer /\ worker.run.sel = timer.id
        /\ wadm \in {None, worker.run.adm}
     THEN ClearTimer /\ wadm' = None
     ELSE UNCHANGED <<timer, ticking, wadm>>
  /\ Finish
  /\ UNCHANGED <<gate, closed, stopped, gen, writes>>

\* Any other error: it is logged, and a timer is there to try again.
RunError ==
  /\ worker.active
  /\ IF IsCurrent /\ timer = NoTimer
     THEN Install(worker.run.adm)
     ELSE UNCHANGED <<timer, ticking>>
  /\ Finish
  /\ UNCHANGED <<gate, closed, stopped, gen, wadm, writes>>

-----------------------------------------------------------------------------
(***************************************************************************)
(* Stopping.                                                               *)
(***************************************************************************)
\* Defective variant: the timer survives the stop.
StopKeepsTimer(c) ==
  /\ stopping[c] = "no"
  /\ gen < MaxGen
  /\ gen' = gen + 1
  /\ stopped' = TRUE
  /\ worker' = [worker EXCEPT !.pending = NoWake]
  /\ wadm' = None
  /\ stopping' = [stopping EXCEPT ![c] = "current"]
  /\ UNCHANGED <<gate, closed, timer, ticking, writes>>

Stop(c) ==
  /\ stopping[c] = "no"
  /\ gen < MaxGen
  /\ gen' = gen + 1
  /\ stopped' = TRUE
  /\ worker' = [worker EXCEPT !.pending = NoWake]
  /\ wadm' = None
  /\ ClearTimer
  /\ stopping' = [stopping EXCEPT ![c] = "current"]
  /\ UNCHANGED <<gate, closed, writes>>

\* Defective variant: the stop awaits only the promise it saw first.
StopAwaitsOnce(c) ==
  /\ stopping[c] = "old"
  /\ stopping' = [stopping EXCEPT ![c] = "no"]
  /\ UNCHANGED <<gate, closed, stopped, gen, worker, timer, ticking, wadm, writes>>

\* The promise it awaited is no longer the current one: await again.
StopAgain(c) ==
  /\ stopping[c] = "old"
  /\ stopping' = [stopping EXCEPT ![c] = "current"]
  /\ UNCHANGED <<gate, closed, stopped, gen, worker, timer, ticking, wadm, writes>>

StopReturns(c) ==
  /\ stopping[c] = "current"
  /\ ~ worker.active
  /\ stopping' = [stopping EXCEPT ![c] = "no"]
  /\ UNCHANGED <<gate, closed, stopped, gen, worker, timer, ticking, wadm, writes>>

\* close() sets the flag first and stops the worker later.
Close ==
  /\ ~ closed
  /\ closed' = TRUE
  /\ UNCHANGED <<gate, stopped, gen, worker, timer, ticking, wadm, writes, stopping>>

GateCloses ==
  /\ ~ IsErasing(gate)
  /\ gate.epoch < MaxEpoch
  /\ \E r \in Run : gate' = Begun(gate, r)
  /\ UNCHANGED <<closed, stopped, gen, worker, timer, ticking, wadm, writes, stopping>>

GateReopens ==
  /\ IsErasing(gate)
  /\ gate' = Reopened(gate)
  /\ UNCHANGED <<closed, stopped, gen, worker, timer, ticking, wadm, writes, stopping>>

-----------------------------------------------------------------------------
WorkerInit ==
  /\ gate = OpenGate(0)
  /\ closed = FALSE
  /\ stopped = TRUE
  /\ gen = 0
  /\ worker = [active |-> FALSE, pending |-> NoWake, run |-> NoRunState]
  /\ timer = NoTimer
  /\ ticking = {}
  /\ wadm = None
  /\ writes = 0
  /\ stopping = [c \in Stopper |-> "no"]

WorkerNext ==
  \/ StartUp \/ PostWrite \/ TimerFires
  \/ Capture \/ Check \/ Superseded \/ Drained \/ Conflict \/ RunError
  \/ \E c \in Stopper : Stop(c) \/ StopAgain(c) \/ StopReturns(c)
  \/ Close \/ GateCloses \/ GateReopens

WorkerSpec == WorkerInit /\ [][WorkerNext]_workerVars

\* Awaited calls return, intervals fire, and MongoDB errors are not permanent.
WorkerFairSpec ==
  /\ WorkerSpec
  /\ WF_workerVars(Capture \/ Check \/ Superseded \/ Drained \/ Conflict \/ RunError)
  /\ SF_workerVars(Capture) /\ SF_workerVars(Check)
  /\ WF_workerVars(TimerFires)

-----------------------------------------------------------------------------
WorkerTypeOK ==
  /\ gate \in Gate
  /\ closed \in BOOLEAN /\ stopped \in BOOLEAN
  /\ gen \in 0..MaxGen
  /\ worker \in [active : BOOLEAN, pending : [adm : Epoch, gen : Epoch],
                 run : [pc : {"done", "capture", "check", "drain"}, adm : Epoch,
                        gen : Epoch, sel : TimerId \cup {0}]]
  /\ worker.active <=> worker.run.pc # "done"
  /\ timer \in [id : TimerId \cup {0}, adm : Epoch, gen : Epoch]
  /\ wadm \in Epoch
  /\ writes \in 0..MaxWrites
  /\ stopping \in [Stopper -> {"no", "current", "old"}]

\* No interval is ever orphaned: the only one ticking is the current one, and it
\* belongs to the current generation of a worker that is not stopped.
OneTimer ==
  /\ ticking \subseteq {timer}
  /\ ticking # {} => ~ stopped /\ timer.gen = gen

\* A remembered admission has its timer: as long as it is remembered the queue is
\* swept with that admission.  A late conflict of an older run may not remove it.
AdmissionHasTimer ==
  wadm # None => timer \in ticking /\ timer.adm = wadm

\* The timer, the admission it sweeps with and the state of the worker agree between
\* any two awaits.
TimerAgrees == OneTimer /\ AdmissionHasTimer

\* stopMemoryJobWorker returns only when no run is in flight, although another
\* write may start the worker again while it waits; the erasure that follows relies
\* on the effects of the runner having landed.
QuietWhenStopReturns ==
  [][\A c \in Stopper : stopping[c] # "no" /\ stopping'[c] = "no" => ~ worker.active]_workerVars

\* A stop is final for the calls that began before it: a stopped worker is up again
\* only together with a run, or a pending wake, of a call of the new generation.
StaleCallNeverStarts ==
  [][stopped /\ ~ stopped' => gen \in {worker'.run.gen, worker'.pending.gen}]_workerVars

\* A wake that arrives while a run is in flight is not lost: a run of its epoch or
\* of a later one follows, unless the worker is stopped.
PendingWakeRuns ==
  \A e \in 0..MaxEpoch :
    (worker.pending.adm = e /\ worker.pending.gen = gen)
      ~> (worker.run.adm >= e \/ stopped \/ closed)

\* The engine's README: "The existing worker wakes and sweep interval provide retry
\* opportunities while the worker remains active"; worker-lifecycle-admission.e2e
\* tests that it "retries a transient boot validation failure".  A run that was started for the
\* tenant's current epoch leads to a drain of that epoch, unless the worker is
\* stopped or the tenant erased meanwhile.
TransientFailureRetried ==
  \A e \in 0..MaxEpoch :
    (worker.run.pc = "check" /\ worker.run.adm = e /\ gate.epoch = e)
      ~> (\/ worker.run.pc = "drain" /\ worker.run.adm = e
          \/ gate.epoch # e \/ stopped \/ closed)
=============================================================================
