--------------------------- MODULE TenantErasure ---------------------------
(***************************************************************************)
(* deleteAllForAgent (mongodb-erasure.ts): the phases of an erasure        *)
(* attempt, what each may do when a step fails, and the receipt it         *)
(* returns.  Attempts follow one another through takeovers and crashes.    *)
(*                                                                         *)
(* Every fenced transaction is one step here: ErasureGate shows that a     *)
(* committed one sees and keeps the gate it checked, so the serial, which  *)
(* only makes transactions conflict, is left out of the fenced writes.     *)
(* "events" stands for every agent-keyed collection that is swept like any *)
(* other; memory_mutations holds the audit records.                        *)
(***************************************************************************)
EXTENDS GateDoc, Sequences, FiniteSets

CONSTANTS
  RelRun,      \* relevance run documents
  Unusable,    \* those stored without a usable runId
  Event

ASSUME UnusableAssumption == Unusable \subseteq RelRun

VARIABLES
  db,          \* collection -> the agent's documents in it
  marker,      \* the kb_last_auto_refresh meta document exists
  timeseries,  \* a diagnostic sink is still a time-series collection
  att          \* Run -> the state of that attempt

vars == <<gate, db, marker, timeseries, att>>

\* A relevance artifact: rows written before artifacts carried an agentId are
\* reachable only through the runId of their parent.
Artifact == [parent : RelRun, tagged : BOOLEAN]

Audit == [run : Run, epoch : Nat, status : {"complete", "partial"}]

Db == [relevance_artifacts : SUBSET Artifact,
       events              : SUBSET Event,
       relevance_runs      : SUBSET RelRun,
       memory_mutations    : SUBSET Audit]

\* The sweep order: the artifacts first, then agentKeyedCollections.
SweepOrder == <<"relevance_artifacts", "events", "relevance_runs", "memory_mutations">>

Coll == {SweepOrder[i] : i \in DOMAIN SweepOrder}

\* The fields of TenantErasureReceipt a caller acts on.
NoReceipt == [status |-> "none", gateState |-> "omitted", why |-> "none"]

Receipt(status, gateState, why) ==
  [status |-> status, gateState |-> gateState, why |-> why]

NewAttempt ==
  [pc |-> "new", epoch |-> 0, at |-> 0, ids |-> {}, unresolved |-> FALSE,
   failed |-> {}, receipt |-> NoReceipt]

-----------------------------------------------------------------------------
Owner(e) == OwnershipMatches(gate, Erasure(att[e].epoch, e))

\* Local state of the attempt only.
Set(e, a) == att' = [att EXCEPT ![e] = a]

Return(e, status, gateState, why) ==
  Set(e, [att[e] EXCEPT !.pc = "returned", !.receipt = Receipt(status, gateState, why)])

\* Defective variant: a failed artifact sweep does not retain the parents.
RetainIfUnresolved(unresolved, failed) == unresolved

\* retainRelevanceRuns
RetainWhen(unresolved, failed) == unresolved \/ "relevance_artifacts" \in failed

Retain(e) == RetainWhen(att[e].unresolved, att[e].failed)

\* The documents a collection's delete filter selects for this attempt.
Match(e, c) ==
  IF c = "relevance_artifacts"
  THEN {a \in db[c] : a.tagged \/ a.parent \in att[e].ids}
  ELSE db[c]

\* The collections swept and verified: the retained parents are left out.
Targets(e) == {c \in Coll : ~ (c = "relevance_runs" /\ Retain(e))}

Residual(e) == {c \in Targets(e) : Match(e, c) # {}}

\* The attempt moves on to the next target, skipping retained parents, and to the
\* verification after the last; failing is what this collection adds to the receipts.
Advance(e, failing) ==
  LET failed == att[e].failed \cup failing
      skip   == SweepOrder[att[e].at] = "events" /\ RetainWhen(att[e].unresolved, failed)
      next   == att[e].at + IF skip THEN 2 ELSE 1
  IN  Set(e, [att[e] EXCEPT !.failed = failed, !.at = next,
                            !.pc = IF next > Len(SweepOrder) THEN "verify" ELSE "sweep"])

-----------------------------------------------------------------------------
(***************************************************************************)
(* Gate entry.                                                             *)
(***************************************************************************)
Begin(e) ==
  /\ att[e].pc = "new"
  /\ ~ IsErasing(gate)
  /\ gate.epoch < MaxEpoch
  /\ gate' = Begun(gate, e)
  /\ Set(e, [att[e] EXCEPT !.pc = "sinks", !.epoch = gate.epoch + 1])
  /\ UNCHANGED <<db, marker, timeseries>>

\* recovery: "takeover" goes straight to takeoverErasure, never to a fresh begin.
Recover(e) ==
  /\ att[e].pc = "new"
  /\ IsErasing(gate)
  /\ gate' = TakenOver(gate, e)
  /\ Set(e, [att[e] EXCEPT !.pc = "sinks", !.epoch = gate.epoch])
  /\ UNCHANGED <<db, marker, timeseries>>

\* Beginning while an owner holds the gate, or taking over an open one: 409.
EntryConflict(e) ==
  /\ att[e].pc = "new"
  /\ Return(e, "conflict", "omitted", "gate")
  /\ UNCHANGED <<gate, db, marker, timeseries>>

\* Any other entry failure: nothing is swept.  The begin may have committed
\* without its acknowledgement arriving.
EntryFails(e) ==
  /\ att[e].pc = "new"
  /\ \/ UNCHANGED gate
     \/ ~ IsErasing(gate) /\ gate.epoch < MaxEpoch /\ gate' = Begun(gate, e)
  /\ Return(e, "partial", "omitted", "epochError")
  /\ UNCHANGED <<db, marker, timeseries>>

-----------------------------------------------------------------------------
(***************************************************************************)
(* The sweep.                                                              *)
(***************************************************************************)
\* Defective variant: the sinks are not checked.
CheckSinksSkipped(e) ==
  /\ att[e].pc = "sinks"
  /\ Set(e, [att[e] EXCEPT !.pc = "collect"])
  /\ UNCHANGED <<gate, db, marker, timeseries>>

\* A retained time-series sink, or a check that fails, ends the attempt before
\* anything is deleted.
CheckSinks(e) ==
  /\ att[e].pc = "sinks"
  /\ \/ ~ timeseries /\ Set(e, [att[e] EXCEPT !.pc = "collect"])
     \/ Set(e, [att[e] EXCEPT !.pc = "partialAudit", !.failed = {"sinks"}])
  /\ UNCHANGED <<gate, db, marker, timeseries>>

\* Phase 1: the ids of the agent's relevance runs, or the failure to get them all.
CollectRunIds(e) ==
  /\ att[e].pc = "collect"
  /\ \E read \in BOOLEAN :
       Set(e, [att[e] EXCEPT
                 !.pc = "sweep", !.at = 1,
                 !.ids = IF read THEN db["relevance_runs"] \ Unusable ELSE {},
                 !.unresolved = ~ read \/ db["relevance_runs"] \cap Unusable # {}])
  /\ UNCHANGED <<gate, db, marker, timeseries>>

Current(e) == SweepOrder[att[e].at]

\* One round of sweepCollectionFenced: a batch of the matching documents.
SweepBatch(e) ==
  /\ att[e].pc = "sweep"
  /\ Owner(e)
  /\ \E ids \in SUBSET Match(e, Current(e)) \ {{}} :
       db' = [db EXCEPT ![Current(e)] = @ \ ids]
  /\ UNCHANGED <<gate, marker, timeseries, att>>

\* The find returns nothing: no transaction runs, so ownership is not looked at.
SweepDone(e) ==
  /\ att[e].pc = "sweep"
  /\ Match(e, Current(e)) = {}
  /\ Advance(e, {})
  /\ UNCHANGED <<gate, db, marker, timeseries>>

\* The find fails, or the batch does, possibly after its commit landed: this
\* collection is over for this attempt and the sweep goes on with the next.
SweepFails(e) ==
  /\ att[e].pc = "sweep"
  /\ \/ UNCHANGED db
     \/ /\ Owner(e)
        /\ \E ids \in SUBSET Match(e, Current(e)) \ {{}} :
             db' = [db EXCEPT ![Current(e)] = @ \ ids]
  /\ Advance(e, {Current(e)})
  /\ UNCHANGED <<gate, marker, timeseries>>

\* The fence refuses the batch: the attempt stops at once.
SweepLost(e) ==
  /\ att[e].pc = "sweep"
  /\ Match(e, Current(e)) # {}
  /\ ~ Owner(e)
  /\ Return(e, "partial", "omitted", "ownershipLost")
  /\ UNCHANGED <<gate, db, marker, timeseries>>

\* Stage 1: every target is counted again with plain reads; a count that fails
\* is a residual too.
Verify(e) ==
  /\ att[e].pc = "verify"
  /\ \E countFailed \in BOOLEAN :
       LET clean == /\ att[e].failed = {} /\ ~ Retain(e)
                    /\ Residual(e) = {} /\ ~ countFailed
       IN  Set(e, [att[e] EXCEPT !.pc = IF clean THEN "finalize" ELSE "partialAudit"])
  /\ UNCHANGED <<gate, db, marker, timeseries>>

-----------------------------------------------------------------------------
(***************************************************************************)
(* Completion.                                                             *)
(***************************************************************************)
Record(e, status) ==
  [db EXCEPT !["memory_mutations"] =
     @ \cup {[run |-> e, epoch |-> att[e].epoch, status |-> status]}]

\* Defective variant: the gate is reopened without the proof of erasure.
FinalizeWithoutAudit(e) ==
  /\ Owner(e)
  /\ Residual(e) = {}
  /\ UNCHANGED db
  /\ marker' = FALSE
  /\ gate' = Reopened(gate)

\* The finalize transaction: owner check, stage-2 recount, marker, audit, reopen.
FinalizeCommits(e) ==
  /\ Owner(e)
  /\ Residual(e) = {}
  /\ db' = Record(e, "complete")
  /\ marker' = FALSE
  /\ gate' = Reopened(gate)

Finalize(e) ==
  /\ att[e].pc = "finalize"
  /\ FinalizeCommits(e)
  /\ Return(e, "complete", "open", "none")
  /\ UNCHANGED timeseries

FinalizeLost(e) ==
  /\ att[e].pc = "finalize"
  /\ ~ Owner(e)
  /\ Return(e, "partial", "omitted", "ownershipLost")
  /\ UNCHANGED <<gate, db, marker, timeseries>>

\* UnknownTransactionCommitResult: the commit may or may not have landed.
FinalizeAmbiguous(e) ==
  /\ att[e].pc = "finalize"
  /\ Owner(e) /\ Residual(e) = {}
  /\ FinalizeCommits(e) \/ UNCHANGED <<gate, db, marker>>
  /\ Return(e, "partial", "omitted", "indeterminate")
  /\ UNCHANGED timeseries

\* The recount finds something, or the audit or the reopen fails: all rolled back.
FinalizeFails(e) ==
  /\ att[e].pc = "finalize"
  /\ Owner(e)
  /\ Set(e, [att[e] EXCEPT !.pc = "partialAudit"])
  /\ UNCHANGED <<gate, db, marker, timeseries>>

\* Defective variant: the partial audit is written without the fence.
PartialAuditUnfenced(e) ==
  /\ att[e].pc = "partialAudit"
  /\ db' = Record(e, "partial")
  /\ Return(e, "partial", "erasing", "none")
  /\ UNCHANGED <<gate, marker, timeseries>>

\* writeFencedPartialAudit: its acknowledgement is what gateState "erasing" cites.
PartialAudit(e) ==
  /\ att[e].pc = "partialAudit"
  /\ Owner(e)
  /\ db' = Record(e, "partial")
  /\ Return(e, "partial", "erasing", "none")
  /\ UNCHANGED <<gate, marker, timeseries>>

PartialAuditLost(e) ==
  /\ att[e].pc = "partialAudit"
  /\ ~ Owner(e)
  /\ Return(e, "partial", "omitted", "ownershipLost")
  /\ UNCHANGED <<gate, db, marker, timeseries>>

\* The audit fails for another reason, possibly after it was stored.
PartialAuditFails(e) ==
  /\ att[e].pc = "partialAudit"
  /\ UNCHANGED db \/ (Owner(e) /\ db' = Record(e, "partial"))
  /\ Return(e, "partial", "omitted", "auditError")
  /\ UNCHANGED <<gate, marker, timeseries>>

\* The process dies; nobody gets a receipt.
Crash(e) ==
  /\ att[e].pc \notin {"new", "returned"}
  /\ Set(e, [NewAttempt EXCEPT !.pc = "returned"])
  /\ UNCHANGED <<gate, db, marker, timeseries>>

-----------------------------------------------------------------------------
(***************************************************************************)
(* The rest of the system: admitted writes, and the sink migration.        *)
(***************************************************************************)
\* Fenced writes of admitted work (mongodb-relevance.ts and others); an artifact
\* written today carries its agentId.  The first admission creates the gate.
Write ==
  /\ ~ IsErasing(gate)
  /\ gate' = Captured(gate)
  /\ \/ \E x \in Event : db' = [db EXCEPT !["events"] = @ \cup {x}]
     \/ \E n \in RelRun \ Unusable :
          db' = [db EXCEPT !["relevance_runs"] = @ \cup {n},
                           !["relevance_artifacts"] =
                              @ \cup {[parent |-> n, tagged |-> TRUE]}]
  /\ UNCHANGED <<marker, timeseries, att>>

\* maybeAutoRefreshKB stores its marker.
WriteMarker ==
  /\ IsOpen(gate)
  /\ ~ marker
  /\ marker' = TRUE
  /\ UNCHANGED <<gate, db, timeseries, att>>

\* scripts/migrate-diagnostics-to-ordinary.ts
MigrateSinks ==
  /\ timeseries
  /\ timeseries' = FALSE
  /\ UNCHANGED <<gate, db, marker, att>>

Attempt(e) ==
  \/ Begin(e) \/ Recover(e) \/ EntryConflict(e) \/ EntryFails(e)
  \/ CheckSinks(e) \/ CollectRunIds(e)
  \/ SweepBatch(e) \/ SweepDone(e) \/ SweepFails(e) \/ SweepLost(e)
  \/ Verify(e)
  \/ Finalize(e) \/ FinalizeLost(e) \/ FinalizeAmbiguous(e) \/ FinalizeFails(e)
  \/ PartialAudit(e) \/ PartialAuditLost(e) \/ PartialAuditFails(e)
  \/ Crash(e)

Init ==
  /\ gate \in {AbsentGate, OpenGate(0)}
  /\ db \in {d \in [relevance_artifacts : SUBSET Artifact, events : {{}, Event},
                    relevance_runs : SUBSET RelRun, memory_mutations : {{}}] :
               \A a \in d.relevance_artifacts : a.parent \in d.relevance_runs}
  /\ marker = FALSE
  /\ timeseries \in BOOLEAN
  /\ att = [e \in Run |-> NewAttempt]

Next == (\E e \in Run : Attempt(e)) \/ Write \/ WriteMarker \/ MigrateSinks

Spec == Init /\ [][Next]_vars

-----------------------------------------------------------------------------
TypeOK ==
  /\ gate \in Gate /\ WellFormed(gate)
  /\ db \in Db
  /\ marker \in BOOLEAN /\ timeseries \in BOOLEAN
  /\ \A e \in Run :
       /\ att[e].at \in 0 .. Len(SweepOrder) + 1
       /\ att[e].pc = "sweep" => att[e].at \in DOMAIN SweepOrder
       /\ att[e].ids \subseteq RelRun
       /\ att[e].failed \subseteq Coll \cup {"sinks"}

\* W02: an artifact that can only be found through its parent always has its
\* parent.  Were the parents swept after a failed or incomplete artifact sweep, the
\* artifacts would be unreachable for every later attempt.
NoOrphanArtifacts ==
  \A a \in db["relevance_artifacts"] : ~ a.tagged => a.parent \in db["relevance_runs"]

NewReceipt(e) == att[e].receipt = NoReceipt /\ att'[e].receipt # NoReceipt

\* A receipt says "complete" only when nothing of the tenant is left, whatever
\* earlier attempts did and failed to do: no artifacts either, no stale audit,
\* no refresh marker.
CompleteMeansErased(e) ==
  att'[e].receipt.status = "complete" =>
    /\ \A c \in Coll \ {"memory_mutations"} : db'[c] = {}
    /\ db'["memory_mutations"] =
         {[run |-> e, epoch |-> att[e].epoch, status |-> "complete"]}
    /\ ~ marker'

\* What a receipt says about the gate was true when it was decided: "erasing" only
\* of a gate this attempt still owned, "open" only of the one it reopened.
GateStateHonest(e) ==
  CASE att'[e].receipt.gateState = "erasing" -> Owner(e) /\ gate' = gate
    [] att'[e].receipt.gateState = "open" ->
         IsOpen(gate') /\ gate'.epoch = att[e].epoch
    [] OTHER -> TRUE

\* A receipt of deleteAllForAgent is true when it is given, of the data and of the
\* gate.
ReceiptsTrue ==
  [][\A e \in Run : NewReceipt(e) => CompleteMeansErased(e) /\ GateStateHonest(e)]_vars

\* The durable audit trail agrees with the gate: after an erasure the reopened gate
\* has exactly one audit record, the complete one of its epoch, also when the
\* finalizing process never learned that its commit landed.
AuditTrailAgrees ==
  ~ IsErasing(gate) /\ gate.epoch > 0 =>
    \E e \in Run : db["memory_mutations"] =
                     {[run |-> e, epoch |-> gate.epoch, status |-> "complete"]}

\* A fail-closed sink check deletes nothing: while a time-series sink is retained
\* no attempt that started its checks removes data.
FailClosedDeletesNothing ==
  [][\A c \in Coll : db[c] \ db'[c] # {} => ~ timeseries]_vars
=============================================================================
