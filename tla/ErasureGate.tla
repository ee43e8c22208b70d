---------------------------- MODULE ErasureGate ----------------------------
(***************************************************************************)
(* Fenced writes against erasure runs on one agent's data                  *)
(* (mongodb-write-fence.ts, mongodb-erasure-epoch.ts, and the sweep of     *)
(* mongodb-erasure.ts).  Writers are requests or jobs that captured an     *)
(* admission token; runs are deleteAllForAgent calls.                      *)
(*                                                                         *)
(* A MongoDB transaction is modelled by its snapshot of the gate and by    *)
(* what it will store: the snapshot is taken by its first read, and it     *)
(* commits only if no document it wrote changed since (the server's write  *)
(* conflict, which withTransaction answers by running the callback again). *)
(* The tenant's documents carry, as a history, the epoch of the token they *)
(* were written under.                                                     *)
(***************************************************************************)
EXTENDS GateDoc, FiniteSets

CONSTANTS
  Writer,
  MaxSerial   \* bound on the number of fenced writes by writers

ASSUME WriterRunAssumption == Writer \cap Run = {}
ASSUME BoundsAssumption == MaxSerial \in Nat

VARIABLES
  docs,   \* the agent's stored documents
  pc,     \* Writer \cup Run -> where the actor's code is
  tok,    \* Writer \cup Run -> the token the actor holds
  found,  \* Run -> the ids its last find returned
  txn     \* Writer \cup Run -> the transaction in progress (or the takeover's read)

vars == <<gate, docs, pc, tok, found, txn>>

Actor == Writer \cup Run

Doc == [by : Writer, epoch : Nat]

Txn == [snap : Gate, put : Gate, add : SUBSET Doc, del : SUBSET Doc]

IdleTxn == [snap |-> AbsentGate, put |-> AbsentGate, add |-> {}, del |-> {}]

NoToken == Admission(0)

WriterPc == {"idle", "admitted", "writing"}

RunPc == {"new", "beginning", "takingOver", "sweeping", "batch", "deleting",
          "counted", "finalizing", "complete", "lost", "partial"}

-----------------------------------------------------------------------------
(***************************************************************************)
(* Transactions.                                                           *)
(***************************************************************************)
\* A transaction that read the gate and will store g, add and del.
Open(a, g, add, del) ==
  txn' = [txn EXCEPT ![a] = [snap |-> gate, put |-> g, add |-> add, del |-> del]]

Close(a) == txn' = [txn EXCEPT ![a] = IdleTxn]

\* No write conflict: the gate is unchanged since the snapshot, or was not written.
Committable(a) == txn[a].put = txn[a].snap \/ gate = txn[a].snap

\* What commitTransaction stores.
Store(a) ==
  /\ gate' = IF txn[a].put = txn[a].snap THEN gate ELSE txn[a].put
  /\ docs' = (docs \ txn[a].del) \cup txn[a].add

GoTo(a, l) == pc' = [pc EXCEPT ![a] = l]

-----------------------------------------------------------------------------
(***************************************************************************)
(* Writers.                                                                *)
(***************************************************************************)
\* captureAdmissionToken; it throws while an erasure is in progress.
Capture(w) ==
  /\ pc[w] = "idle"
  /\ ~ IsErasing(gate)
  /\ gate' = Captured(gate)
  /\ tok' = [tok EXCEPT ![w] = Admission(Captured(gate).epoch)]
  /\ GoTo(w, "admitted")
  /\ UNCHANGED <<docs, found, txn>>

\* withFencedWrite: the gate is read in the transaction and accepts the token.
BeginWrite(w) ==
  /\ pc[w] = "admitted"
  /\ FenceAccepts(gate, tok[w])
  /\ gate.serial < MaxSerial
  /\ Open(w, Fenced(gate), {[by |-> w, epoch |-> tok[w].epoch]}, {})
  /\ GoTo(w, "writing")
  /\ UNCHANGED <<gate, docs, tok, found>>

\* ErasureGateConflictError: the admission is stale, the work is abandoned.
RejectWrite(w) ==
  /\ pc[w] = "admitted"
  /\ ~ FenceAccepts(gate, tok[w])
  /\ tok' = [tok EXCEPT ![w] = NoToken]
  /\ GoTo(w, "idle")
  /\ UNCHANGED <<gate, docs, found, txn>>

\* The token stays valid for the rest of the admitted work.
CommitWrite(w) ==
  /\ pc[w] = "writing"
  /\ Committable(w)
  /\ Store(w)
  /\ Close(w)
  /\ GoTo(w, "admitted")
  /\ UNCHANGED <<tok, found>>

\* A write conflict (withTransaction runs the callback again), or an error or
\* crash that aborts the transaction; a job keeps its token on its row.
AbortWrite(w) ==
  /\ pc[w] = "writing"
  /\ Close(w)
  /\ GoTo(w, "admitted")
  /\ UNCHANGED <<gate, docs, tok, found>>

\* The admitted work is over.
EndWork(w) ==
  /\ pc[w] = "admitted"
  /\ tok' = [tok EXCEPT ![w] = NoToken]
  /\ GoTo(w, "idle")
  /\ UNCHANGED <<gate, docs, found, txn>>

-----------------------------------------------------------------------------
(***************************************************************************)
(* Erasure runs.                                                           *)
(***************************************************************************)
\* beginErasure reads the gate; it throws if another run owns it.
BeginErasure(r) ==
  /\ pc[r] = "new"
  /\ ~ IsErasing(gate)
  /\ gate.epoch < MaxEpoch
  /\ Open(r, Begun(gate, r), {}, {})
  /\ GoTo(r, "beginning")
  /\ UNCHANGED <<gate, docs, tok, found>>

CommitBegin(r) ==
  /\ pc[r] = "beginning"
  /\ Committable(r)
  /\ Store(r)
  /\ Close(r)
  /\ tok' = [tok EXCEPT ![r] = Erasure(txn[r].put.epoch, r)]
  /\ GoTo(r, "sweeping")
  /\ UNCHANGED found

\* A write conflict; the callback runs again and sees the newer gate.
RetryBegin(r) ==
  /\ pc[r] = "beginning"
  /\ ~ Committable(r)
  /\ Close(r)
  /\ GoTo(r, "new")
  /\ UNCHANGED <<gate, docs, tok, found>>

\* takeoverErasure: a plain read, later a compare-and-set on what it saw.
TakeoverRead(r) ==
  /\ pc[r] = "new"
  /\ IsErasing(gate)
  /\ Open(r, TakenOver(gate, r), {}, {})
  /\ GoTo(r, "takingOver")
  /\ UNCHANGED <<gate, docs, tok, found>>

\* The filter of the compare-and-set names epoch, state, runId, startedAt and serial.
TakeoverMatches(g, seen) ==
  /\ IsErasing(g)
  /\ g.epoch = seen.epoch
  /\ g.runId = seen.runId
  /\ g.serial = seen.serial

Takeover(r) ==
  /\ pc[r] = "takingOver"
  /\ TakeoverMatches(gate, txn[r].snap)
  /\ gate' = TakenOver(gate, r)
  /\ tok' = [tok EXCEPT ![r] = Erasure(gate.epoch, r)]
  /\ Close(r)
  /\ GoTo(r, "sweeping")
  /\ UNCHANGED <<docs, found>>

TakeoverLost(r) ==
  /\ pc[r] = "takingOver"
  /\ ~ TakeoverMatches(gate, txn[r].snap)
  /\ Close(r)
  /\ GoTo(r, "lost")
  /\ UNCHANGED <<gate, docs, tok, found>>

\* sweepCollectionFenced finds a batch of ids outside any transaction ...
FindBatch(r) ==
  /\ pc[r] = "sweeping"
  /\ \E ids \in SUBSET docs \ {{}} : found' = [found EXCEPT ![r] = ids]
  /\ GoTo(r, "batch")
  /\ UNCHANGED <<gate, docs, tok, txn>>

\* Defective variant: the batch is deleted without the fence's check.
BeginDeleteUnchecked(r) ==
  /\ pc[r] = "batch"
  /\ Open(r, Fenced(gate), {}, found[r] \cap docs)
  /\ GoTo(r, "deleting")
  /\ UNCHANGED <<gate, docs, tok, found>>

\* ... and deletes them in a fenced one.
BeginDelete(r) ==
  /\ pc[r] = "batch"
  /\ FenceAccepts(gate, tok[r])
  /\ Open(r, Fenced(gate), {}, found[r] \cap docs)
  /\ GoTo(r, "deleting")
  /\ UNCHANGED <<gate, docs, tok, found>>

CommitDelete(r) ==
  /\ pc[r] = "deleting"
  /\ Committable(r)
  /\ Store(r)
  /\ Close(r)
  /\ found' = [found EXCEPT ![r] = {}]
  /\ GoTo(r, "sweeping")
  /\ UNCHANGED tok

RetryDelete(r) ==
  /\ pc[r] = "deleting"
  /\ ~ Committable(r)
  /\ Close(r)
  /\ GoTo(r, "batch")
  /\ UNCHANGED <<gate, docs, tok, found>>

\* The sweep found nothing more and the stage-1 count is clean.
Count(r) ==
  /\ pc[r] = "sweeping"
  /\ docs = {}
  /\ GoTo(r, "counted")
  /\ UNCHANGED <<gate, docs, tok, found, txn>>

\* Defective variant: finalizeErasure without the owner check.
BeginFinalizeUnchecked(r) ==
  /\ pc[r] = "counted"
  /\ docs = {}
  /\ Open(r, Reopened(gate), {}, {})
  /\ GoTo(r, "finalizing")
  /\ UNCHANGED <<gate, docs, tok, found>>

\* finalizeErasure: the owner check, then the audit's recount, in one snapshot.
BeginFinalize(r) ==
  /\ pc[r] = "counted"
  /\ OwnershipMatches(gate, tok[r])
  /\ docs = {}
  /\ Open(r, Reopened(gate), {}, {})
  /\ GoTo(r, "finalizing")
  /\ UNCHANGED <<gate, docs, tok, found>>

CommitFinalize(r) ==
  /\ pc[r] = "finalizing"
  /\ Committable(r)
  /\ Store(r)
  /\ Close(r)
  /\ GoTo(r, "complete")
  /\ UNCHANGED <<tok, found>>

RetryFinalize(r) ==
  /\ pc[r] = "finalizing"
  /\ ~ Committable(r)
  /\ Close(r)
  /\ GoTo(r, "counted")
  /\ UNCHANGED <<gate, docs, tok, found>>

\* Defective variant: only the sweep reacts to a conflict.
LoseOwnershipInSweep(r) ==
  /\ pc[r] = "batch"
  /\ ~ OwnershipMatches(gate, tok[r])
  /\ found' = [found EXCEPT ![r] = {}]
  /\ GoTo(r, "lost")
  /\ UNCHANGED <<gate, docs, tok, txn>>

\* A fence or finalize conflict: another run owns the gate, this one stops.
LoseOwnership(r) ==
  /\ pc[r] \in {"batch", "counted"}
  /\ ~ OwnershipMatches(gate, tok[r])
  /\ found' = [found EXCEPT ![r] = {}]
  /\ GoTo(r, "lost")
  /\ UNCHANGED <<gate, docs, tok, txn>>

\* The process dies, or a step fails for good: the gate stays as it is and only
\* a takeover can resume the erasure.
Fail(r) ==
  /\ pc[r] \in {"beginning", "takingOver", "sweeping", "batch", "deleting",
                "counted", "finalizing"}
  /\ Close(r)
  /\ found' = [found EXCEPT ![r] = {}]
  /\ GoTo(r, "partial")
  /\ UNCHANGED <<gate, docs, tok>>

-----------------------------------------------------------------------------
Init ==
  /\ gate \in {AbsentGate} \cup {OpenGate(e) : e \in 0..MaxEpoch}
                           \cup {LegacyGate(e) : e \in 0..MaxEpoch}
  /\ docs \in SUBSET {[by |-> w, epoch |-> gate.epoch] : w \in Writer}
  /\ pc = [a \in Actor |-> IF a \in Writer THEN "idle" ELSE "new"]
  /\ tok = [a \in Actor |-> NoToken]
  /\ found = [r \in Run |-> {}]
  /\ txn = [a \in Actor |-> IdleTxn]

WriterNext(w) ==
  \/ Capture(w) \/ BeginWrite(w) \/ RejectWrite(w)
  \/ CommitWrite(w) \/ AbortWrite(w) \/ EndWork(w)

\* The steps a live run takes once it owns the gate.
RunStep(r) ==
  \/ FindBatch(r) \/ BeginDelete(r) \/ CommitDelete(r) \/ RetryDelete(r)
  \/ Count(r) \/ BeginFinalize(r) \/ CommitFinalize(r) \/ RetryFinalize(r)
  \/ LoseOwnership(r)

RunNext(r) ==
  \/ BeginErasure(r) \/ CommitBegin(r) \/ RetryBegin(r)
  \/ TakeoverRead(r) \/ Takeover(r) \/ TakeoverLost(r)
  \/ RunStep(r)
  \/ Fail(r)

Next == (\E w \in Writer : WriterNext(w)) \/ (\E r \in Run : RunNext(r))

Spec == Init /\ [][Next]_vars

\* A run is one async function: it keeps taking its next step.  Nothing obliges
\* anyone to start or take over an erasure, or a writer to write.
FairSpec == Spec /\ \A r \in Run : WF_vars(RunStep(r))

-----------------------------------------------------------------------------
\* Types; and every document the writes produce is one parseErasureGateDoc accepts.
TypeOK ==
  /\ gate \in Gate /\ WellFormed(gate)
  /\ docs \subseteq Doc
  /\ pc \in [Actor -> WriterPc \cup RunPc]
  /\ tok \in [Actor -> AdmissionToken \cup ErasureToken]
  /\ found \in [Run -> SUBSET Doc]
  /\ txn \in [Actor -> Txn]

\* No write admitted before an erasure outlives it: during an erasure every stored
\* document was admitted in an earlier epoch, and outside one in the current epoch.
\* A late fenced write of an admission captured before beginErasure would break it,
\* also after the gate reopened.
NoStaleData ==
  \A d \in docs : IF IsErasing(gate) THEN d.epoch < gate.epoch
                                     ELSE d.epoch = gate.epoch

\* Of the runs that shared an epoch through takeovers, at most one ever reports
\* completion; a displaced run cannot finish what its successor owns.
OneCompletionPerEpoch ==
  \A r, s \in Run :
    pc[r] = "complete" /\ pc[s] = "complete" /\ tok[r].epoch = tok[s].epoch => r = s

\* Documents disappear only in a batch committed by the run that owns the gate
\* at that moment: a displaced or crashed run's batch never lands, and data
\* admitted after the gate reopened is never erased by an old run.
OnlyOwnerErases ==
  [][docs \ docs' # {} =>
       \E r \in Run : pc[r] = "deleting" /\ OwnershipMatches(gate, tok[r])
                      /\ pc'[r] = "sweeping"]_vars

\* The gate is reopened only by its owner's finalization, with nothing left.
ReopenOnlyWhenEmpty ==
  [][IsErasing(gate) /\ ~ IsErasing(gate') =>
       /\ docs = {} /\ docs' = {}
       /\ pc[gate.runId] = "finalizing" /\ pc'[gate.runId] = "complete"]_vars

\* Where an epoch stands: it is erased first and open afterwards.
Phase(g) == IF IsErasing(g) THEN 0 ELSE 1

\* Every change of the gate moves it strictly forward, so a gate equal to an
\* earlier read was never touched in between.  The fence's re-read, the takeover's
\* compare-and-set and the server's conflict check all rest on this.
GateNeverRewinds ==
  [][gate' # gate =>
       \/ ~ Exists(gate)
       \/ gate'.epoch > gate.epoch
       \/ /\ gate'.epoch = gate.epoch
          /\ \/ Phase(gate') > Phase(gate) /\ gate'.serial >= gate.serial
             \/ Phase(gate') = Phase(gate) /\ gate'.serial > gate.serial]_vars

\* A run that owns the gate gets through its sweep: writers cannot refill what it
\* deletes, so it completes unless it is displaced or fails.
SweepTerminates ==
  \A r \in Run : pc[r] = "sweeping" ~> pc[r] \in {"complete", "lost", "partial"}

\* The gate implements the abstract erasure.
Abstract == INSTANCE AtomicErasure
              WITH erasing <- IsErasing(gate), epoch <- gate.epoch

ImplementsAtomicErasure == Abstract!Spec
=============================================================================
