--------------------------- MODULE Consolidation ---------------------------
(***************************************************************************)
(* Consolidation (mongodb-consolidator.ts): runs that turn unprocessed     *)
(* events of one scope into facts, quarantine records and graph entries,   *)
(* retire near-duplicate facts and acknowledge the events, under a lease   *)
(* on the scope's row of consolidation_runs.  Several processes run it;    *)
(* leases lapse, processes stop, writes fail or land without an            *)
(* acknowledgement, users update facts and the tenant is erased meanwhile. *)
(*                                                                         *)
(* Every write of a run is one transaction that first passes the erasure   *)
(* fence and then renews the lease row, so it conflicts with an erasure    *)
(* and with a claim of the row: it is one step here.  Time is the lapse of *)
(* a lease and of the pacing interval.  Scores, patterns, similarity and   *)
(* the verdicts of a model are choices.  Diagnostics, telemetry and the    *)
(* search budget write nothing that is read here.                          *)
(***************************************************************************)
EXTENDS GateDoc, FiniteSets

CONSTANTS
  Caller,      \* processes that call consolidateMemory
  NoCaller,
  Event,       \* unprocessed events of the scope
  Kind,        \* Event -> what matchPatterns and classifyInjection make of it
  Inference,   \* the fact deduction and induction come up with
  MaxUpdate,   \* bound on the updates users make to a fact
  MaxFault     \* bound on failures, crashes and leases lost by a live run

ASSUME ConsolidationConstants ==
  /\ NoCaller \notin Caller /\ Inference \notin Event
  /\ Kind \in [Event -> {"fact", "injection", "plain"}]
  /\ MaxUpdate \in Nat /\ MaxFault \in Nat

VARIABLES
  row,     \* the row of the scope in consolidation_runs
  event,   \* Event -> the event, its graph projection and its quarantine record
  fact,    \* Event \cup {Inference} -> the structured memory made from it
  call,    \* Caller -> the run it makes
  faults

vars == <<gate, row, event, fact, call, faults>>

FactKey == Event \cup {Inference}

NoRow == [status |-> "none", owner |-> NoCaller, live |-> FALSE, paced |-> FALSE]

NoFact == [state |-> "none", revision |-> 0, epoch |-> 0]

\* settled: a run has decided about the event, and what it decided is stored.
NoEvent == [stored |-> FALSE, processed |-> FALSE, graph |-> FALSE, settled |-> FALSE]

\* The pair of near-duplicates a phase has judged: the older one and its revision,
\* the one that is kept and its revision.
NoPin == [key |-> Inference, revision |-> 0, kept |-> Inference, keptRevision |-> 0]

IdleCall == [pc |-> "idle", adm |-> 0, batch |-> {}, todo |-> {}, failed |-> {},
             error |-> FALSE, heartbeat |-> "ok", pin |-> NoPin,
             committed |-> FALSE, uncertain |-> FALSE, wrote |-> FALSE,
             report |-> "none"]

\* The statuses of a run between the claim of the row and its last write.
Writing == {"candidates", "graph", "reason", "dedup", "prune", "spend", "ack"}

Working(c) == call[c].pc \in Writing \cup {"read", "score", "finish", "fail"}

-----------------------------------------------------------------------------
(***************************************************************************)
(* The lease.                                                              *)
(***************************************************************************)
\* The filter of touchConsolidationLease and finishConsolidationRun.
HoldsLease(c) == row.status = "running" /\ row.owner = c /\ row.live

\* The fenced transaction of runFencedWrite gets through.
Admitted(c) == AdmissionMatches(gate, Admission(call[c].adm))

\* Defective variant: a row that is running is never claimed.
ClaimableWhenEnded ==
  \/ row.status \in {"none", "failed"}
  \/ row.status = "completed" /\ ~ row.paced

\* claimFilter, or no row to match: the upsert inserts one.
Claimable ==
  \/ row.status \in {"none", "failed"}
  \/ row.status = "completed" /\ ~ row.paced
  \/ row.status = "running" /\ ~ row.live

\* captureAdmissionToken, by the caller or by the run.
Start(c) ==
  /\ call[c].pc = "idle" /\ IsOpen(gate)
  /\ call' = [call EXCEPT ![c] = [IdleCall EXCEPT !.pc = "claim", !.adm = gate.epoch]]
  /\ UNCHANGED <<gate, row, event, fact, faults>>

\* Phase 0: the row is claimed; the claim can land and be reported as an error.
Claim(c) ==
  /\ call[c].pc = "claim" /\ Admitted(c) /\ Claimable
  /\ row' = [status |-> "running", owner |-> c, live |-> TRUE, paced |-> FALSE]
  /\ \/ call' = [call EXCEPT ![c].pc = "read"] /\ UNCHANGED faults
     \/ /\ faults < MaxFault /\ faults' = faults + 1
        /\ call' = [call EXCEPT ![c] = IdleCall]
  /\ UNCHANGED <<gate, event, fact>>

\* The row is held or paced (E11000: an empty result), or the fence refuses.
ClaimRefused(c) ==
  /\ call[c].pc = "claim" /\ (~ Admitted(c) \/ ~ Claimable)
  /\ call' = [call EXCEPT ![c] = IdleCall]
  /\ UNCHANGED <<gate, row, event, fact, faults>>

\* A renewal of the heartbeat fails: on the fence, on a lost lease or in the driver.
\* What it failed with is thrown by every later write of the run.
HeartbeatFails(c) ==
  /\ Working(c) /\ call[c].heartbeat = "ok"
  /\ \/ /\ ~ Admitted(c) \/ ~ HoldsLease(c)
        /\ call' = [call EXCEPT ![c].heartbeat = "lost"] /\ UNCHANGED faults
     \/ /\ faults < MaxFault /\ faults' = faults + 1
        /\ call' = [call EXCEPT ![c].heartbeat = "error"]
  /\ UNCHANGED <<gate, row, event, fact>>

-----------------------------------------------------------------------------
(***************************************************************************)
(* The batch.                                                              *)
(***************************************************************************)
Unprocessed == {e \in Event : event[e].stored /\ ~ event[e].processed}

\* The query of the batch, outside the fence.
Read(c) ==
  /\ call[c].pc = "read"
  /\ call' = [call EXCEPT ![c] =
                IF Unprocessed = {} THEN [@ EXCEPT !.pc = "finish"]
                ELSE [@ EXCEPT !.pc = "score", !.batch = Unprocessed]]
  /\ UNCHANGED <<gate, row, event, fact, faults>>

\* The novelty scan and the scores: an event that is vetoed or scores low is decided
\* without a write.
Score(c) ==
  /\ call[c].pc = "score"
  /\ \E candidates \in SUBSET call[c].batch :
       /\ call' = [call EXCEPT ![c].pc = "candidates", ![c].todo = candidates]
       /\ event' = [e \in Event |-> IF e \in call[c].batch \ candidates
                                    THEN [event[e] EXCEPT !.settled = TRUE] ELSE event[e]]
  /\ UNCHANGED <<gate, row, fact, faults>>

\* The query or the scan fails.
ReadFails(c) ==
  /\ call[c].pc \in {"read", "score"} /\ faults < MaxFault
  /\ faults' = faults + 1
  /\ call' = [call EXCEPT ![c].pc = "fail"]
  /\ UNCHANGED <<gate, row, event, fact>>

\* So is a candidate that matches no pattern, contradicts or repeats a fact, or can be
\* read off the code.
Skip(c, e) ==
  /\ call[c].pc = "candidates" /\ e \in call[c].todo /\ Kind[e] # "injection"
  /\ call' = [call EXCEPT ![c].todo = @ \ {e}]
  /\ event' = [event EXCEPT ![e].settled = TRUE]
  /\ UNCHANGED <<gate, row, fact, faults>>

\* The last event of a phase: the next phase begins.
NextPhase(c) ==
  /\ call[c].todo = {}
  /\ \/ /\ call[c].pc = "candidates"
        /\ call' = [call EXCEPT ![c].pc = "graph", ![c].todo = call[c].batch]
     \/ /\ call[c].pc = "graph"
        /\ call' = [call EXCEPT ![c].pc = "reason"]
  /\ UNCHANGED <<gate, row, event, fact, faults>>

\* No model is configured, it infers nothing, or no pair of facts is close enough.
PhaseEmpty(c) ==
  /\ \/ call[c].pc = "reason" /\ call' = [call EXCEPT ![c].pc = "dedup"]
     \/ call[c].pc = "dedup" /\ call[c].pin = NoPin
        /\ call' = [call EXCEPT ![c].pc = "prune"]
     \/ call[c].pc = "prune" /\ call[c].pin = NoPin
        /\ call' = [call EXCEPT ![c].pc = "spend"]
     \/ call[c].pc = "spend" /\ call' = [call EXCEPT ![c].pc = "ack"]
     \/ call[c].pc = "ack" /\ call[c].batch \subseteq call[c].failed
        /\ call' = [call EXCEPT ![c].pc = "finish"]
  /\ UNCHANGED <<gate, row, event, fact, faults>>

\* The vector search finds a pair: the facts are judged by the revisions they have.
Judge(c, k, j) ==
  /\ call[c].pc \in {"dedup", "prune"} /\ call[c].pin = NoPin
  /\ k # j /\ fact[k].state = "active" /\ fact[j].state = "active"
  /\ call' = [call EXCEPT ![c].pin = [key |-> k, revision |-> fact[k].revision,
                                     kept |-> j, keptRevision |-> fact[j].revision]]
  /\ UNCHANGED <<gate, row, event, fact, faults>>

-----------------------------------------------------------------------------
(***************************************************************************)
(* The writes of a run.  e is the event a write is about; the phases that  *)
(* are not about one event ignore it.                                      *)
(***************************************************************************)
\* What can be written now.
HasWrite(c, e) ==
  \/ call[c].pc = "candidates" /\ e \in call[c].todo /\ Kind[e] # "plain"
  \/ call[c].pc = "graph" /\ e \in call[c].todo
  \/ call[c].pc \in {"reason", "spend"}
  \/ call[c].pc \in {"dedup", "prune"} /\ call[c].pin # NoPin
  \/ call[c].pc = "ack" /\ ~ (call[c].batch \subseteq call[c].failed)

\* A structured memory still has the revision it was judged in.
Unmoved(k, revision) == fact[k].state = "active" /\ fact[k].revision = revision

\* writeStructuredMemory inserts the fact or updates it under a new revision.
Upserted(f, k, epoch) ==
  [f EXCEPT ![k] = [state |-> "active", revision |-> @.revision + 1, epoch |-> epoch]]

\* invalidateStructuredMemoryByHandle
Invalidated(f, k) == [f EXCEPT ![k].state = "invalidated", ![k].revision = @ + 1]

\* Phase 2: an injection-shaped candidate is quarantined, a fact is promoted.
Decided(e) == [event EXCEPT ![e].settled = @ \/ event[e].stored]

Promoted(c, e) == IF Kind[e] = "fact" THEN Upserted(fact, e, call[c].adm) ELSE fact

\* Phase 2.5: extractAndUpsertEntities.
Projected(e) == [event EXCEPT ![e].graph = TRUE]

\* Phases 3 and 4: deduction and induction.
Inferred(c) == Upserted(fact, Inference, call[c].adm)

\* Phase 4.6: both facts are read again in the transaction; when one moved on the
\* merge does not apply (MemoryLifecycleConflictError).
Merged(c) ==
  LET pin == call[c].pin IN
  IF Unmoved(pin.key, pin.revision) /\ Unmoved(pin.kept, pin.keptRevision)
  THEN Invalidated(Upserted(fact, pin.kept, call[c].adm), pin.key) ELSE fact

\* Defective variant: the older fact is retired whatever its revision is.
PrunedAnyRevision(c) ==
  IF fact[call[c].pin.key].state = "active" THEN Invalidated(fact, call[c].pin.key) ELSE fact

\* Phase 5: the older fact is retired if its revision is the one that was compared.
Pruned(c) ==
  IF Unmoved(call[c].pin.key, call[c].pin.revision)
  THEN Invalidated(fact, call[c].pin.key) ELSE fact

\* markEventsDreamerProcessed matches stored events only.
Acknowledged(c) ==
  [e \in Event |-> IF e \in call[c].batch \ call[c].failed /\ event[e].stored
                   THEN [event[e] EXCEPT !.processed = TRUE] ELSE event[e]]

Effect(c, e) ==
  /\ fact' = CASE call[c].pc = "candidates" -> Promoted(c, e)
               [] call[c].pc = "reason" -> Inferred(c)
               [] call[c].pc = "dedup" -> Merged(c)
               [] call[c].pc = "prune" -> Pruned(c)
               [] OTHER -> fact
  /\ event' = CASE call[c].pc = "candidates" -> Decided(e)
                [] call[c].pc = "graph" -> Projected(e)
                [] call[c].pc = "ack" -> Acknowledged(c)
                [] OTHER -> event

\* Where the run goes after a write.  After an error of the write, the event, or every
\* event when a phase failed, stays unacknowledged.
Advanced(c, e) ==
  CASE call[c].pc \in {"candidates", "graph"} -> [call[c] EXCEPT !.todo = @ \ {e}]
    [] call[c].pc = "reason" -> [call[c] EXCEPT !.pc = "dedup"]
    [] call[c].pc = "dedup" -> [call[c] EXCEPT !.pc = "prune", !.pin = NoPin]
    [] call[c].pc = "prune" -> [call[c] EXCEPT !.pc = "spend", !.pin = NoPin]
    [] call[c].pc = "spend" -> [call[c] EXCEPT !.pc = "ack"]
    [] call[c].pc = "ack" -> [call[c] EXCEPT !.pc = "finish"]

\* Defective variant: an event whose write reported an error is acknowledged.
EventFailedForgotten(c, e) == [Advanced(c, e) EXCEPT !.error = TRUE]

\* The catch of a candidate, and of an event's graph projection.
EventFailed(c, e) == [Advanced(c, e) EXCEPT !.error = TRUE, !.failed = @ \cup {e}]

\* The catch of a phase.
PhaseFailed(c, e) == [Advanced(c, e) EXCEPT !.error = TRUE, !.failed = call[c].batch]

Failed(c, e) ==
  CASE call[c].pc \in {"candidates", "graph"} -> EventFailed(c, e)
    [] call[c].pc \in {"reason", "dedup", "prune"} -> PhaseFailed(c, e)
    [] OTHER -> [call[c] EXCEPT !.pc = "fail"]

\* The commit report of a run that ends with an error.
Report(k) == IF k.uncertain THEN "unknown" ELSE IF k.committed THEN "committed" ELSE "none"

\* An erasure or a lost lease ends the run at once; the row is its successor's.
Abandoned(k) == [IdleCall EXCEPT !.report = Report(k), !.wrote = k.wrote]

\* Defective variant: a write looks at the lease alone, and not even that when an
\* erasure has removed the row.
MayWriteUnfenced(c) == call[c].heartbeat = "ok" /\ (HoldsLease(c) \/ row = NoRow)

\* heartbeat.throwIfFailed, the fence and touchConsolidationLease; the ledger of the
\* spend is written under the fence alone.
MayWrite(c) ==
  IF call[c].pc = "spend" THEN Admitted(c)
  ELSE call[c].heartbeat = "ok" /\ Admitted(c) /\ HoldsLease(c)

WriteLands(c, e) ==
  /\ HasWrite(c, e) /\ MayWrite(c)
  /\ Effect(c, e)
  /\ call' = [call EXCEPT ![c] = [Advanced(c, e) EXCEPT !.committed = TRUE, !.wrote = TRUE]]
  /\ UNCHANGED <<gate, row, faults>>

\* Defective variant: an error whose outcome is unknown is counted as a failure.
LandsUnreportedCertain(c, e) ==
  /\ HasWrite(c, e) /\ MayWrite(c) /\ faults < MaxFault
  /\ Effect(c, e)
  /\ call' = [call EXCEPT ![c] = [Failed(c, e) EXCEPT !.wrote = TRUE]]
  /\ faults' = faults + 1
  /\ UNCHANGED <<gate, row>>

\* The commit lands and the driver reports an error whose outcome it does not know.
LandsUnreported(c, e) ==
  /\ HasWrite(c, e) /\ MayWrite(c) /\ faults < MaxFault
  /\ Effect(c, e)
  /\ call' = [call EXCEPT ![c] = [Failed(c, e) EXCEPT !.uncertain = TRUE, !.wrote = TRUE]]
  /\ faults' = faults + 1
  /\ UNCHANGED <<gate, row>>

\* The write, or the model or search call before it, fails: with or without an
\* unknown outcome.
WriteFails(c, e) ==
  /\ HasWrite(c, e) /\ faults < MaxFault
  /\ \E u \in BOOLEAN :
       call' = [call EXCEPT ![c] = [Failed(c, e) EXCEPT !.uncertain = @ \/ u]]
  /\ faults' = faults + 1
  /\ UNCHANGED <<gate, row, event, fact>>

\* ErasureGateConflictError or ConsolidationLeaseLostError, from the write or from an
\* earlier renewal.
WriteRefused(c, e) ==
  /\ HasWrite(c, e)
  /\ \/ ~ Admitted(c)
     \/ call[c].pc # "spend" /\ (call[c].heartbeat = "lost" \/ ~ HoldsLease(c))
  /\ call' = [call EXCEPT ![c] = Abandoned(@)]
  /\ UNCHANGED <<gate, row, event, fact, faults>>

\* An earlier renewal failed in the driver: every write fails with its error.
WriteAfterFailedRenewal(c, e) ==
  /\ HasWrite(c, e) /\ call[c].pc # "spend" /\ call[c].heartbeat = "error"
  /\ \E u \in BOOLEAN :
       call' = [call EXCEPT ![c] = [Failed(c, e) EXCEPT !.uncertain = @ \/ u]]
  /\ UNCHANGED <<gate, row, event, fact, faults>>

-----------------------------------------------------------------------------
(***************************************************************************)
(* The end of a run.                                                       *)
(***************************************************************************)
\* Defective variant: the terminal update does not look at the lease.
TerminalAnyLease(c, status) ==
  IF row.status = "running"
  THEN [status |-> status, owner |-> row.owner, live |-> FALSE, paced |-> status = "completed"]
  ELSE row

\* finishConsolidationRun: a run that lost its lease changes nothing.
Terminal(c, status) ==
  IF HoldsLease(c)
  THEN [status |-> status, owner |-> c, live |-> FALSE, paced |-> status = "completed"]
  ELSE row

Finish(c) ==
  /\ call[c].pc = "finish" /\ call[c].heartbeat = "ok"
  /\ row' = Terminal(c, IF call[c].error THEN "failed" ELSE "completed")
  /\ call' = [call EXCEPT ![c] = IF call[c].error THEN Abandoned(@) ELSE IdleCall]
  /\ UNCHANGED <<gate, event, fact, faults>>

\* throwIfFailed after the last renewal, or the update fails.
FinishFails(c) ==
  /\ call[c].pc = "finish"
  /\ \/ call[c].heartbeat # "ok" /\ UNCHANGED faults
     \/ faults < MaxFault /\ faults' = faults + 1
  /\ call' = [call EXCEPT ![c] =
                IF call[c].heartbeat = "lost" THEN Abandoned(@) ELSE [@ EXCEPT !.pc = "fail"]]
  /\ UNCHANGED <<gate, row, event, fact>>

\* The catch of runConsolidation: the row is marked failed, best effort.
FailRun(c) ==
  /\ call[c].pc = "fail"
  /\ row' \in {Terminal(c, "failed")} \cup (IF faults < MaxFault THEN {row} ELSE {})
  /\ faults' = IF row' = row /\ HoldsLease(c) THEN faults + 1 ELSE faults
  /\ call' = [call EXCEPT ![c] = Abandoned(@)]
  /\ UNCHANGED <<gate, event, fact>>

-----------------------------------------------------------------------------
(***************************************************************************)
(* The environment.                                                        *)
(***************************************************************************)
Crash(c) ==
  /\ call[c].pc # "idle" /\ faults < MaxFault
  /\ call' = [call EXCEPT ![c] = IdleCall]
  /\ faults' = faults + 1
  /\ UNCHANGED <<gate, row, event, fact>>

\* A lease that is not renewed lapses; that of a live run only when it is starved.
LeaseLapses ==
  /\ row.status = "running" /\ row.live
  /\ IF row.owner # NoCaller /\ Working(row.owner)
     THEN faults < MaxFault /\ faults' = faults + 1 ELSE UNCHANGED faults
  /\ row' = [row EXCEPT !.live = FALSE]
  /\ UNCHANGED <<gate, event, fact, call>>

\* minIntervalMs passes.
IntervalPasses ==
  /\ row.paced
  /\ row' = [row EXCEPT !.paced = FALSE]
  /\ UNCHANGED <<gate, event, fact, call, faults>>

\* A user's write of the fact, fenced like every write of structured memory.
Update(k) ==
  /\ IsOpen(gate) /\ fact[k].state = "active" /\ fact[k].revision < MaxUpdate
  /\ fact' = Upserted(fact, k, gate.epoch)
  /\ UNCHANGED <<gate, row, event, call, faults>>

BeginErasure ==
  /\ IsOpen(gate) /\ gate.epoch < MaxEpoch
  /\ \E r \in Run : gate' = Begun(gate, r)
  /\ UNCHANGED <<row, event, fact, call, faults>>

\* deleteAllForAgent sweeps the collections of the tenant, then reopens the gate.
Erase ==
  /\ IsErasing(gate)
  /\ gate' = Reopened(gate)
  /\ row' = NoRow
  /\ event' = [e \in Event |-> NoEvent] /\ fact' = [k \in FactKey |-> NoFact]
  /\ UNCHANGED <<call, faults>>

-----------------------------------------------------------------------------
Init ==
  /\ gate = OpenGate(0)
  /\ row = NoRow
  /\ event = [e \in Event |-> [NoEvent EXCEPT !.stored = TRUE]]
  /\ fact = [k \in FactKey |-> NoFact]
  /\ call = [c \in Caller |-> IdleCall]
  /\ faults = 0

Write(c, e) ==
  \/ WriteLands(c, e) \/ LandsUnreported(c, e) \/ WriteFails(c, e)
  \/ WriteRefused(c, e) \/ WriteAfterFailedRenewal(c, e)

Step(c) ==
  \/ Claim(c) \/ ClaimRefused(c) \/ Read(c) \/ Score(c) \/ ReadFails(c) 
  \/ NextPhase(c) \/ PhaseEmpty(c)
  \/ \E e \in Event : Skip(c, e) \/ Write(c, e)
  \/ \E k, j \in FactKey : Judge(c, k, j)
  \/ Finish(c) \/ FinishFails(c) \/ FailRun(c)

Next ==
  \/ \E c \in Caller : Start(c) \/ Step(c) \/ HeartbeatFails(c) \/ Crash(c)
  \/ LeaseLapses \/ IntervalPasses
  \/ \E k \in FactKey : Update(k)
  \/ BeginErasure \/ Erase

Spec == Init /\ [][Next]_vars

(***************************************************************************)
(* Fairness: a run proceeds, time passes, and each process consolidates    *)
(* again and again (the drain of the job worker stages a job per window).  *)
(* Nothing obliges a user, a failure or an erasure to happen.              *)
(***************************************************************************)
Fairness ==
  /\ \A c \in Caller : WF_vars(Step(c)) /\ WF_vars(Start(c))
  /\ WF_vars(LeaseLapses) /\ WF_vars(IntervalPasses) /\ WF_vars(Erase)

FairSpec == Spec /\ Fairness

-----------------------------------------------------------------------------
\* Every variable has its type.
TypeOK ==
  /\ row \in [status : {"none", "running", "completed", "failed"},
              owner : Caller \cup {NoCaller}, live : BOOLEAN, paced : BOOLEAN]
  /\ event \in [Event -> [stored : BOOLEAN, processed : BOOLEAN, graph : BOOLEAN,
                          settled : BOOLEAN]]
  /\ fact \in [FactKey -> [state : {"none", "active", "invalidated"}, revision : Nat,
                           epoch : Nat]]
  /\ \A c \in Caller :
       /\ call[c].pc \in Writing \cup {"idle", "claim", "read", "score", "finish", "fail"}
       /\ call[c].batch \subseteq Event /\ call[c].todo \subseteq Event
       /\ call[c].failed \subseteq Event
       /\ call[c].heartbeat \in {"ok", "lost", "error"}
       /\ call[c].report \in {"none", "committed", "unknown"}
  /\ faults \in 0..MaxFault

\* An event is acknowledged (dreamerProcessedAt) only when a decision about it and
\* its graph projection are stored: no failed, lost or unreported write, and no lease
\* that changed hands, lets an event be skipped for good.
AckedMeansDone ==
  \A e \in Event : event[e].processed => event[e].settled /\ event[e].graph

\* A consolidation that was admitted before an erasure leaves nothing behind it.
NoStaleFacts ==
  IsOpen(gate) => \A k \in FactKey : fact[k].state # "none" => fact[k].epoch = gate.epoch

\* The report on a failed run is true: "none" only when nothing was committed,
\* "committed" only when something was.
ReportTrue ==
  \A c \in Caller : call[c].pc = "idle" =>
    /\ call[c].report = "none" => ~ call[c].wrote
    /\ call[c].report = "committed" => call[c].wrote

\* What a run acknowledges and what it reports are true.
RunsHonest == AckedMeansDone /\ ReportTrue

\* A predecessor that comes back never disturbs a run that holds the row: while the
\* run works and its lease is alive the row stays its own until it ends itself.
SuccessorUndisturbed ==
  \A c \in Caller : HoldsLease(c) /\ Working(c) /\ Working(c)' =>
    (row'.owner = c /\ row'.status = "running") \/ row' = NoRow

\* A fact is retired only in the revision that was compared with its near-duplicate:
\* what a user writes meanwhile survives.
RetiresWhatItJudged ==
  \A k \in FactKey : fact[k].state = "active" /\ fact'[k].state = "invalidated" =>
    \E c \in Caller : call[c].pin.key = k /\ call[c].pin.revision = fact[k].revision

\* No step of a run acts on what has changed since the run read it: neither on the
\* row of a successor nor on a fact that was written meanwhile.
NoStaleStep == [][SuccessorUndisturbed /\ RetiresWhatItJudged]_vars

\* Every event is eventually consolidated or erased, whatever run it was in.
EventuallyConsolidated ==
  \A e \in Event : event[e].stored ~> event[e].processed \/ ~ event[e].stored
=============================================================================
