---------------------------- MODULE EventWrite ----------------------------
(***************************************************************************)
(* Writes of single conversation events (writeConversationEvent of         *)
(* mongodb-manager-write.ts) by any number of processes: the idempotency   *)
(* replay, the insert, the projection of the event into its search chunk,  *)
(* and everything that meets them: lost acknowledgements and retries under *)
(* the same key, the projection repair of the worker sweep, the retention  *)
(* of idempotency keys, the TTL indexes and an erasure of the tenant.      *)
(*                                                                         *)
(* A call mints one event id, before its transaction, so events and        *)
(* chunks are indexed by the call that created them.  The extraction job   *)
(* that is staged with the event is the subject of ExtractionJob; run      *)
(* records, lane coverage and cache invalidation write nothing that is     *)
(* read here.                                                              *)
(*                                                                         *)
(* A fenced transaction writes the gate document before its body runs, so  *)
(* it excludes every other fenced transaction and the start of an erasure  *)
(* until it ends: holder is the call whose transaction is between its      *)
(* lookup and its insert; the others are one step each.                    *)
(***************************************************************************)
EXTENDS GateDoc, FiniteSets

CONSTANTS
  Call,       \* calls of writeConversationEvent, and the ids they mint
  NoCall,
  Key,        \* idempotency keys
  NoKey,
  Body,       \* what the idempotency fingerprint of a request covers
  Request,    \* the requests that are made
  Outside     \* TRUE: some events are written without the fence

ASSUME WriteConstants ==
  /\ NoCall \notin Call /\ NoKey \notin Key
  /\ Outside \in BOOLEAN
  /\ Request \subseteq [key : Key \cup {NoKey}, body : Body,
                        ttl : BOOLEAN,      \* the event gets an expiresAt
                        barrier : BOOLEAN]  \* the caller asked for a search barrier
  /\ Request # {}

VARIABLES
  event,    \* Call -> the canonical event
  chunk,    \* Call -> the chunk "events/<eventId>"
  call,     \* Call -> where the call is
  holder,   \* the call whose fenced write transaction is open
  repair    \* the projection repair of the worker sweep

vars == <<gate, event, chunk, call, holder, repair>>

NoEvent == [stored |-> FALSE, key |-> NoKey, body |-> NoKey, epoch |-> 0,
            projected |-> FALSE, ttl |-> FALSE, old |-> FALSE]

NoChunk == [stored |-> FALSE, epoch |-> 0, ttl |-> FALSE]

NewCall(r) == [pc |-> "idle", req |-> r, adm |-> 0, out |-> "none", id |-> NoCall]

IdleRepair == [pc |-> "idle", adm |-> 0, seen |-> {}]

Stored == {e \in Call : event[e].stored}

-----------------------------------------------------------------------------
(***************************************************************************)
(* The operators of the write path.                                        *)
(***************************************************************************)
\* The events replayIdempotentEventWrite finds for a request; the unique index
\* on (agentId, idempotencyKey) allows one.
Known(r) == {e \in Stored : r.key # NoKey /\ event[e].key = r.key}

\* Defective variant: a known key replays whatever the payload is.
SamePayloadAlways(e, r) == TRUE

\* idempotencyPayloadMatches
SamePayload(e, r) == event[e].body = r.body

\* buildCanonicalEventDocument
Document(r, epoch) ==
  [stored |-> TRUE, key |-> r.key, body |-> r.body, epoch |-> epoch,
   projected |-> FALSE, ttl |-> r.ttl, old |-> FALSE]

\* Defective variant: the expiry of the event is not passed on to its chunk.
ChunksWithoutExpiry(ids) ==
  [e \in Call |->
     IF e \in ids THEN [stored |-> TRUE, epoch |-> call[e].adm, ttl |-> chunk[e].ttl]
                  ELSE chunk[e]]

\* The chunk upsert of projectEventChunk: expiresAt is set from the event that was
\* read when the work was planned, which may be gone by now, and is never unset.
\* epoch is the epoch the text comes from.
Upserted(e) ==
  [stored |-> TRUE, epoch |-> call[e].adm, ttl |-> chunk[e].ttl \/ call[e].req.ttl]

\* The same upsert for every event of projectEventChunksBatch.
Chunks(ids) == [e \in Call |-> IF e \in ids THEN Upserted(e) ELSE chunk[e]]

\* markEventsProjected: an update, which a missing event does not match.
Marked(ids) ==
  [e \in Call |-> IF e \in ids \cap Stored THEN [event[e] EXCEPT !.projected = TRUE]
                                           ELSE event[e]]

\* The fence lets a transaction of this admission through.
Admitted(adm) == holder = NoCall /\ AdmissionMatches(gate, Admission(adm))

Move(c, pc) == [call EXCEPT ![c].pc = pc]

\* The call ends with this outcome, naming this event.
Answer(c, out, id) == [call EXCEPT ![c] = [@ EXCEPT !.pc = "done", !.out = out, !.id = id]]

\* What a fenced lookup answers when it finds e: the receipt of the first write, or
\* IdempotencyConflictError.  A barrier call whose chunk is missing heals it first.
Replay(c, e) ==
  IF ~ SamePayload(e, call[c].req) THEN Answer(c, "conflict", NoCall)
  ELSE IF call[c].req.barrier /\ ~ chunk[e].stored
       THEN [call EXCEPT ![c] = [@ EXCEPT !.pc = "project", !.id = e]]
  ELSE Answer(c, "ok", e)

-----------------------------------------------------------------------------
(***************************************************************************)
(* One call.                                                               *)
(***************************************************************************)
\* captureAdmissionToken at the call boundary; the token is used after the queue
\* delay.
Begin(c) ==
  /\ call[c].pc = "idle"
  /\ \E r \in Request :
       call' = [call EXCEPT ![c] =
                  IF IsOpen(gate)
                  THEN [NewCall(r) EXCEPT !.pc = "admitted", !.adm = gate.epoch]
                  ELSE [NewCall(r) EXCEPT !.pc = "done", !.out = "refused"]]
  /\ UNCHANGED <<gate, event, chunk, holder, repair>>

\* The fence and the lookup of the write transaction.
Lookup(c) ==
  /\ call[c].pc = "admitted"
  /\ Admitted(call[c].adm)
  /\ IF Known(call[c].req) = {}
     THEN call' = Move(c, "insert") /\ holder' = c
     ELSE \E e \in Known(call[c].req) : call' = Replay(c, e) /\ UNCHANGED holder
  /\ UNCHANGED <<gate, event, chunk, repair>>

\* ErasureGateConflictError: the write was admitted in an epoch that is over.
Refused(c) ==
  /\ call[c].pc \in {"admitted", "duplicate"}
  /\ ~ AdmissionMatches(gate, Admission(call[c].adm))
  /\ call' = Answer(c, "refused", NoCall)
  /\ UNCHANGED <<gate, event, chunk, holder, repair>>

\* The insert and its commit.  The commit may land although the driver reports an
\* error: then the caller sees a failure and may retry.
Insert(c) ==
  /\ call[c].pc = "insert"
  /\ Known(call[c].req) = {}
  /\ event' = [event EXCEPT ![c] = Document(call[c].req, gate.epoch)]
  /\ \/ call' = [call EXCEPT ![c] = [@ EXCEPT !.pc = "project", !.id = c]]
     \/ call' = Answer(c, "error", NoCall)
  /\ holder' = NoCall
  /\ UNCHANGED <<gate, chunk, repair>>

\* The transaction aborts and its retries are used up.
InsertFails(c) ==
  /\ call[c].pc = "insert"
  /\ call' = Answer(c, "error", NoCall)
  /\ holder' = NoCall
  /\ UNCHANGED <<gate, event, chunk, repair>>

\* The unique index refuses the insert: the transaction is aborted and the replay
\* is looked up in a second one, under the first one's admission.
DuplicateKey(c) ==
  /\ call[c].pc = "insert"
  /\ Known(call[c].req) # {}
  /\ call' = Move(c, "duplicate")
  /\ holder' = NoCall
  /\ UNCHANGED <<gate, event, chunk, repair>>

\* The second lookup; when the key is free again the duplicate-key error is thrown.
ReplayDuplicate(c) ==
  /\ call[c].pc = "duplicate"
  /\ Admitted(call[c].adm)
  /\ IF Known(call[c].req) = {}
     THEN call' = Answer(c, "error", NoCall)
     ELSE \E e \in Known(call[c].req) : call' = Replay(c, e)
  /\ UNCHANGED <<gate, event, chunk, holder, repair>>

\* Defective variant: the mark is a write of its own, and the chunk's may fail.
ProjectMarkApart(c) ==
  /\ call[c].pc = "project"
  /\ Admitted(call[c].adm)
  /\ chunk' \in {chunk, Chunks({call[c].id})}
  /\ event' = Marked({call[c].id})
  /\ call' = Answer(c, "ok", call[c].id)
  /\ UNCHANGED <<gate, holder, repair>>

\* projectEventChunk in a fenced transaction: chunk and mark together.
Project(c) ==
  /\ call[c].pc = "project"
  /\ Admitted(call[c].adm)
  /\ chunk' = Chunks({call[c].id})
  /\ event' = Marked({call[c].id})
  /\ call' = Answer(c, "ok", call[c].id)
  /\ UNCHANGED <<gate, holder, repair>>

\* A projection that fails, an erasure included, is left to the repair; the write
\* is durable and acknowledged.
ProjectFails(c) ==
  /\ call[c].pc = "project"
  /\ call' = Answer(c, "ok", call[c].id)
  /\ UNCHANGED <<gate, event, chunk, holder, repair>>

\* The process stops; MongoDB aborts the transaction it had open.
Crash(c) ==
  /\ call[c].pc \notin {"idle", "done"}
  /\ call' = Answer(c, "error", NoCall)
  /\ holder' = IF holder = c THEN NoCall ELSE holder
  /\ UNCHANGED <<gate, event, chunk, repair>>

\* An event written by the path of mongodb-events.ts that takes no fence.
WriteOutside(c) ==
  /\ Outside
  /\ call[c].pc = "idle"
  /\ \E r \in Request :
       /\ Known(r) = {}
       /\ call' = [call EXCEPT ![c] = [NewCall(r) EXCEPT !.pc = "done", !.adm = gate.epoch]]
       /\ event' = [event EXCEPT ![c] = Document(r, gate.epoch)]
  /\ UNCHANGED <<gate, chunk, holder, repair>>

-----------------------------------------------------------------------------
(***************************************************************************)
(* The worker sweep: repairEventProjections and                            *)
(* pruneIdempotencyFingerprints.                                           *)
(***************************************************************************)
RepairBegin ==
  /\ repair.pc = "idle"
  /\ IsOpen(gate)
  /\ repair' = [pc |-> "scan", adm |-> gate.epoch, seen |-> {}]
  /\ UNCHANGED <<gate, event, chunk, call, holder>>

\* Defective variant: the clause that hides expired events hides every event that
\* has an expiry.
RepairScanUnexpiring ==
  /\ repair.pc = "scan"
  /\ AdmissionMatches(gate, Admission(repair.adm))
  /\ LET seen == {e \in Stored : ~ event[e].projected /\ ~ event[e].ttl}
     IN  repair' = IF seen = {} THEN IdleRepair
                                ELSE [repair EXCEPT !.pc = "commit", !.seen = seen]
  /\ UNCHANGED <<gate, event, chunk, call, holder>>

\* getUnprojectedEvents, outside the fence.
RepairScan ==
  /\ repair.pc = "scan"
  /\ AdmissionMatches(gate, Admission(repair.adm))
  /\ LET seen == {e \in Stored : ~ event[e].projected}
     IN  repair' = IF seen = {} THEN IdleRepair
                                ELSE [repair EXCEPT !.pc = "commit", !.seen = seen]
  /\ UNCHANGED <<gate, event, chunk, call, holder>>

\* Defective variant: the batch is written without the fence.
RepairCommitUnfenced ==
  /\ repair.pc = "commit"
  /\ chunk' = Chunks(repair.seen)
  /\ event' = Marked(repair.seen)
  /\ repair' = IdleRepair
  /\ UNCHANGED <<gate, call, holder>>

\* projectEventChunksBatch in a fenced transaction.
RepairCommit ==
  /\ repair.pc = "commit"
  /\ Admitted(repair.adm)
  /\ chunk' = Chunks(repair.seen)
  /\ event' = Marked(repair.seen)
  /\ repair' = IdleRepair
  /\ UNCHANGED <<gate, call, holder>>

\* The gate refuses, or the batch fails and is logged: nothing is written.
RepairFails ==
  /\ repair.pc # "idle"
  /\ repair' = IdleRepair
  /\ UNCHANGED <<gate, event, chunk, call, holder>>

\* The retention window of a key ends: its event was recorded long enough ago.
Age(e) ==
  /\ event[e].stored /\ ~ event[e].old
  /\ event' = [event EXCEPT ![e].old = TRUE]
  /\ UNCHANGED <<gate, chunk, call, holder, repair>>

\* Defective variant: the prune does not look at the age of the event.
PruneAnyAge ==
  /\ Admitted(gate.epoch)
  /\ \E e \in Stored : event[e].key # NoKey
  /\ event' = [e \in Call |-> [event[e] EXCEPT !.key = NoKey]]
  /\ UNCHANGED <<gate, chunk, call, holder, repair>>

\* Every key whose window is over is released; the event stays.  A sweep with an
\* older admission is refused and changes nothing.
Prune ==
  /\ Admitted(gate.epoch)
  /\ \E e \in Stored : event[e].old /\ event[e].key # NoKey
  /\ event' = [e \in Call |-> IF event[e].old THEN [event[e] EXCEPT !.key = NoKey]
                                              ELSE event[e]]
  /\ UNCHANGED <<gate, chunk, call, holder, repair>>

-----------------------------------------------------------------------------
(***************************************************************************)
(* The TTL indexes on expiresAt, and an erasure of the tenant.             *)
(***************************************************************************)
ExpireEvent(e) ==
  /\ event[e].stored /\ event[e].ttl
  /\ event' = [event EXCEPT ![e] = NoEvent]
  /\ UNCHANGED <<gate, chunk, call, holder, repair>>

ExpireChunk(e) ==
  /\ chunk[e].stored /\ chunk[e].ttl
  /\ chunk' = [chunk EXCEPT ![e] = NoChunk]
  /\ UNCHANGED <<gate, event, call, holder, repair>>

BeginErasure ==
  /\ IsOpen(gate)
  /\ holder = NoCall
  /\ gate.epoch < MaxEpoch
  /\ \E r \in Run : gate' = Begun(gate, r)
  /\ UNCHANGED <<event, chunk, call, holder, repair>>

EraseEvents ==
  /\ IsErasing(gate) /\ Stored # {}
  /\ event' = [e \in Call |-> NoEvent]
  /\ UNCHANGED <<gate, chunk, call, holder, repair>>

EraseChunks ==
  /\ IsErasing(gate) /\ \E e \in Call : chunk[e].stored
  /\ chunk' = [e \in Call |-> NoChunk]
  /\ UNCHANGED <<gate, event, call, holder, repair>>

Reopen ==
  /\ IsErasing(gate)
  /\ Stored = {} /\ \A e \in Call : ~ chunk[e].stored
  /\ gate' = Reopened(gate)
  /\ UNCHANGED <<event, chunk, call, holder, repair>>

-----------------------------------------------------------------------------
Init ==
  /\ gate = OpenGate(0)
  /\ event = [e \in Call |-> NoEvent]
  /\ chunk = [e \in Call |-> NoChunk]
  /\ call \in [Call -> {NewCall(r) : r \in {CHOOSE r \in Request : TRUE}}]
  /\ holder = NoCall
  /\ repair = IdleRepair

CallStep(c) ==
  \/ Begin(c) \/ Lookup(c) \/ Refused(c) \/ Insert(c) \/ InsertFails(c)
  \/ DuplicateKey(c) \/ ReplayDuplicate(c) \/ Project(c) \/ ProjectFails(c)
  \/ Crash(c) \/ WriteOutside(c)

Sweep == RepairBegin \/ RepairScan \/ RepairCommit \/ RepairFails \/ Prune

Erase == BeginErasure \/ EraseEvents \/ EraseChunks \/ Reopen

Next ==
  \/ \E c \in Call : CallStep(c) \/ Age(c) \/ ExpireEvent(c) \/ ExpireChunk(c)
  \/ Sweep \/ Erase

Spec == Init /\ [][Next]_vars

(***************************************************************************)
(* Fairness: the sweep runs again and again, reads and transactions of it  *)
(* do not fail every time, an open transaction ends, and a started erasure *)
(* is resumed until it is done.                                            *)
(***************************************************************************)
Fairness ==
  /\ WF_vars(RepairBegin) /\ SF_vars(RepairScan) /\ SF_vars(RepairCommit)
  /\ WF_vars(RepairFails)
  /\ WF_vars(EraseEvents \/ EraseChunks \/ Reopen)
  /\ \A c \in Call : WF_vars(Insert(c) \/ InsertFails(c) \/ DuplicateKey(c))

FairSpec == Spec /\ Fairness

-----------------------------------------------------------------------------
\* Every variable has its type.
TypeOK ==
  /\ gate \in Gate
  /\ event \in [Call -> [stored : BOOLEAN, key : Key \cup {NoKey}, body : Body \cup {NoKey},
                         epoch : Nat, projected : BOOLEAN, ttl : BOOLEAN, old : BOOLEAN]]
  /\ chunk \in [Call -> [stored : BOOLEAN, epoch : Nat, ttl : BOOLEAN]]
  /\ call \in [Call -> [pc : {"idle", "admitted", "insert", "duplicate", "project", "done"},
                        req : Request, adm : Nat,
                        out : {"none", "ok", "conflict", "refused", "error"},
                        id : Call \cup {NoCall}]]
  /\ holder \in Call \cup {NoCall}
  /\ repair \in [pc : {"idle", "scan", "commit"}, adm : Nat, seen : SUBSET Call]

\* However often a keyed write is retried, by whatever process and after whatever
\* lost acknowledgement, it is stored once within the retention window of its key.
KeyedOnce ==
  \A e, f \in Stored :
    (call[e].req.key = call[f].req.key /\ call[e].req.key # NoKey
       /\ ~ event[e].old /\ ~ event[f].old) => e = f

\* A receipt names a stored event with the payload of the request, unless the
\* event has expired or the tenant was erased since.
ReceiptsHold ==
  \A c \in Call :
    (call[c].out = "ok" /\ IsOpen(gate) /\ gate.epoch = call[c].adm) =>
      \/ event[call[c].id].stored /\ event[call[c].id].body = call[c].req.body
      \/ call[call[c].id].req.ttl

\* Idempotent writes: stored once, and every receipt of an original, a retry or a
\* replay is true (writeConversationEvent, replayIdempotentEventWrite).
KeyedWritesHold == KeyedOnce /\ ReceiptsHold

\* The mark that takes an event off the repair's list is only there when its chunk
\* is: chunk and mark commit together (projectEventChunk, projectEventChunksBatch).
ProjectedHasChunk ==
  IsOpen(gate) =>
    \A e \in Stored : event[e].projected => chunk[e].stored \/ event[e].ttl

\* A chunk whose event is gone is itself bound to expire, also when the repair
\* wrote it from an event that expired after it was read.
OrphanChunksExpire ==
  IsOpen(gate) => \A e \in Call : chunk[e].stored /\ ~ event[e].stored => chunk[e].ttl

\* When the tenant is open again no event and no chunk text of an earlier epoch is
\* there, although calls and the repair hold what they read before the erasure.
NoResurrection ==
  IsOpen(gate) =>
    \A e \in Call : /\ event[e].stored => event[e].epoch = gate.epoch
                    /\ chunk[e].stored => chunk[e].epoch = gate.epoch

\* Searchable text follows its event: it is there when the event says so, expires
\* with it, and is gone with its epoch.
TextFollowsEvent == ProjectedHasChunk /\ OrphanChunksExpire /\ NoResurrection

\* Every stored event becomes searchable or is gone: an event whose own projection
\* failed is found by the repair.
EventuallyProjected ==
  \A e \in Call :
    event[e].stored /\ ~ event[e].projected ~> event[e].projected \/ ~ event[e].stored
=============================================================================
