---------------------------- MODULE BatchWrite ----------------------------
(***************************************************************************)
(* One call of writeConversationEventsBatch: items with and without        *)
(* idempotency keys, grouped by key, are inserted in rounds of one fenced  *)
(* transaction each.  A round that aborts for reasons the server           *)
(* attributes to single items shrinks the batch and is followed by another *)
(* one; a round that commits, fails as a whole or ends in an unknown       *)
(* commit is the last.  Meanwhile a rival writes under the same key, its   *)
(* event expires, the worker of another process repairs the outbox, and    *)
(* the tenant is erased.                                                   *)
(*                                                                         *)
(* The id an item mints is the item itself.  A round reads the events of   *)
(* its keys and inserts later in the same transaction; the gate document   *)
(* it has written keeps other fenced transactions and erasures out until   *)
(* it ends (pc = "insert"), and only a writer without a fence can take a   *)
(* key in between.                                                         *)
(***************************************************************************)
EXTENDS GateDoc, FiniteSets, FiniteSetsExt

CONSTANTS
  Item,      \* positions of the batch
  Rival,     \* the id of the rival's event
  Key,
  NoKey,
  Body,      \* what the payload comparison covers
  Batch      \* the batches that are sent: Item -> item

ASSUME BatchConstants ==
  /\ Item \subseteq Nat \ {0} /\ IsFiniteSet(Item)
  /\ Rival \in Nat \ Item
  /\ NoKey \notin Key
  /\ Batch \subseteq [Item -> [key : Key \cup {NoKey}, body : Body,
                               kind : {"good", "unbuildable", "invalid"}]]

VARIABLES
  batch,     \* the items of the call
  stored,    \* the events
  staged,    \* events whose extraction job is staged
  marked,    \* events that carry the outbox marker
  projected, \* events that have their chunk
  pc,
  adm,       \* the admission of the call
  insert,    \* insertGroups: sets of items; batch order makes the least the leader
  resolve,   \* resolveGroups
  needsFence,\* needsResolutionFence
  view,      \* the events the open round has read
  receipts,  \* Item -> receipt
  written    \* writtenPrepared: items whose event is known to be stored

vars == <<gate, batch, stored, staged, marked, projected, pc, adm, insert, resolve,
          needsFence, view, receipts, written>>

database == <<gate, stored, staged, marked, projected>>
rounds == <<insert, resolve, needsFence, view>>

Event == [id : Item \cup {Rival}, key : Key \cup {NoKey}, body : Body]

Doc(i) == [id |-> i, key |-> batch[i].key, body |-> batch[i].body]

Ids == {e.id : e \in stored}

WithKey(events, key) == {e \in events : key # NoKey /\ e.key = key}

-----------------------------------------------------------------------------
(***************************************************************************)
(* Groups and receipts.                                                    *)
(***************************************************************************)
Receipt == [out : {"none", "ok", "replayed", "conflict", "failed", "unconfirmed"},
            id : Item \cup {Rival, 0}]

Says(out, id) == [out |-> out, id |-> id]

\* Items that share a key form a group; the others are alone.  members lists a
\* group in batch order, so members[0] is its least item and slice(1) the others.
Groups(items) ==
  LET sameKey(i) == IF batch[i].key = NoKey THEN {i}
                    ELSE {j \in items : batch[j].key = batch[i].key}
  IN  {sameKey(i) : i \in items}

KeyOf(group) == batch[Min(group)].key

Members(groups) == UNION groups

Leaders(groups) == {Min(g) : g \in groups}

\* Defective variant: every member of a group is told the winner's id.
AgainstAnyPayload(i, e) == Says("replayed", e.id)

\* draftGroupAgainstWinner and the followers of draftInsertedGroup.
Against(i, e) ==
  IF e.body = batch[i].body THEN Says("replayed", e.id) ELSE Says("conflict", 0)

\* draftInsertedGroup
Inserted(group, i) ==
  IF i = Min(group) THEN Says("ok", i) ELSE Against(i, Doc(Min(group)))

\* Insert groups whose key had no event when the round read.
Fresh == {g \in insert : WithKey(view, KeyOf(g)) = {}}

\* The receipts of a round that commits.
Drafted(i) ==
  LET g == CHOOSE g \in insert \cup resolve : i \in g
      winner == WithKey(view, KeyOf(g))
  IN  IF winner # {} THEN Against(i, CHOOSE e \in winner : TRUE)
      ELSE IF g \in Fresh THEN Inserted(g, i)
      ELSE Says("unconfirmed", 0)

\* The receipts of these items become what says gives them.
Answered(items, says(_)) ==
  [i \in Item |-> IF i \in items THEN says(i) ELSE receipts[i]]

\* The leaders the server cannot insert: schema validation, the unique key index.
Rejected ==
  {i \in Leaders(Fresh) :
     batch[i].kind = "invalid" \/ WithKey(stored, batch[i].key) # {}}

-----------------------------------------------------------------------------
(***************************************************************************)
(* The call.                                                               *)
(***************************************************************************)
\* Admission at the call boundary, and the preparation of the items: one that
\* cannot be built has its receipt before the first round.
Begin ==
  /\ pc = "new"
  /\ IF IsOpen(gate)
     THEN LET bad == {i \in Item : batch[i].kind = "unbuildable"}
          IN  /\ pc' = "round" /\ adm' = gate.epoch
              /\ receipts' = Answered(bad, LAMBDA i : Says("failed", 0))
              /\ insert' = Groups(Item \ bad)
     ELSE /\ pc' = "refused"
          /\ UNCHANGED <<adm, receipts, insert>>
  /\ UNCHANGED <<batch, database, resolve, needsFence, view, written>>

Rounds == insert # {} \/ resolve # {} \/ needsFence

\* The fence of a round and its read of the keys.
RoundReads ==
  /\ pc = "round" /\ Rounds
  /\ AdmissionMatches(gate, Admission(adm))
  /\ view' = UNION {WithKey(stored, KeyOf(g)) : g \in insert \cup resolve}
  /\ pc' = "insert"
  /\ UNCHANGED <<batch, database, adm, insert, resolve, needsFence, receipts, written>>

\* ErasureGateConflictError is thrown: no receipts.
RoundRefused ==
  /\ pc = "round" /\ Rounds
  /\ ~ AdmissionMatches(gate, Admission(adm))
  /\ pc' = "refused"
  /\ UNCHANGED <<batch, database, adm, rounds, receipts, written>>

\* The leaders and their staged jobs, in one transaction.
StoreLeaders ==
  /\ Rejected = {}
  /\ stored' = stored \cup {Doc(i) : i \in Leaders(Fresh)}
  /\ staged' = staged \cup Leaders(Fresh)
  /\ marked' = marked \cup Leaders(Fresh)
  /\ UNCHANGED <<gate, projected>>

RoundCommits ==
  /\ pc = "insert"
  /\ StoreLeaders
  /\ receipts' = Answered(Members(insert \cup resolve), Drafted)
  /\ written' = written \cup Leaders(Fresh)
  /\ insert' = {} /\ resolve' = {} /\ needsFence' = FALSE /\ view' = {}
  /\ pc' = "round"
  /\ UNCHANGED <<batch, adm>>

\* Defective variants: the group of a leader that failed validation stays as it is,
\* or its followers are dropped with it.
AfterIssuesUnshrunk(invalid, duplicate) ==
  /\ insert' = {g \in insert : Min(g) \notin duplicate}
  /\ resolve' = resolve \cup {g \in insert : Min(g) \in duplicate}

AfterIssuesDropping(invalid, duplicate) ==
  /\ insert' = {g \in insert : Min(g) \notin invalid \cup duplicate}
  /\ resolve' = resolve \cup {g \in insert : Min(g) \in duplicate}

\* What the next round works on: an invalid leader leaves its group to the next
\* member, a group that met a duplicate key is only resolved.
AfterIssues(invalid, duplicate) ==
  /\ insert' = ({g \in insert : Min(g) \notin invalid \cup duplicate}
                 \cup {g \ {Min(g)} : g \in {g \in insert : Min(g) \in invalid}}) \ {{}}
  /\ resolve' = resolve \cup {g \in insert : Min(g) \in duplicate}

\* AttributableEventBatchAbort: the server names some of the leaders it rejected.
RoundAborts ==
  /\ pc = "insert"
  /\ \E issues \in SUBSET Rejected \ {{}} :
       LET invalid == {i \in issues : batch[i].kind = "invalid"}
       IN  /\ AfterIssues(invalid, issues \ invalid)
           /\ receipts' = Answered(invalid, LAMBDA i : Says("failed", 0))
  /\ needsFence' = TRUE /\ view' = {}
  /\ pc' = "round"
  /\ UNCHANGED <<batch, database, adm, written>>

\* BatchBodyAbort: any other error inside the transaction ends the rounds.
RoundFails ==
  /\ pc = "insert"
  /\ receipts' = Answered(Members(insert \cup resolve), LAMBDA i : Says("failed", 0))
  /\ view' = {} /\ pc' = "project"
  /\ UNCHANGED <<batch, database, adm, insert, resolve, needsFence, written>>

\* Defective variant: an unknown commit is reported as a failure.
UncertainAsFailed == Answered(Members(insert \cup resolve), LAMBDA i : Says("failed", 0))

\* The receipts of a round whose commit is unknown.
Uncertain == Answered(Members(insert \cup resolve), LAMBDA i : Says("unconfirmed", 0))

\* The driver reports an error of the commit, or outside the body: the round may
\* or may not have landed.
RoundUncertain ==
  /\ pc = "insert"
  /\ StoreLeaders \/ UNCHANGED database
  /\ receipts' = Uncertain
  /\ pc' = "reconcile" /\ view' = {}
  /\ UNCHANGED <<batch, adm, insert, resolve, needsFence, written>>

\* findExistingEventsForReplay by minted id, outside the fence.
Reconcile ==
  /\ pc = "reconcile"
  /\ LET found == {g \in insert : Doc(Min(g)) \in stored}
     IN  /\ receipts' = Answered(Members(found),
              LAMBDA i : Inserted(CHOOSE g \in found : i \in g, i))
         /\ written' = written \cup Leaders(found)
  /\ pc' = "project"
  /\ UNCHANGED <<batch, database, adm, rounds>>

ReconcileFails ==
  /\ pc = "reconcile"
  /\ pc' = "project"
  /\ UNCHANGED <<batch, database, adm, rounds, receipts, written>>

\* No work is left for a round.
RoundsEnd ==
  /\ pc = "round" /\ ~ Rounds
  /\ pc' = "project"
  /\ UNCHANGED <<batch, database, adm, rounds, receipts, written>>

\* Defective variant: the projection does not ask the gate.
ProjectUnfenced ==
  /\ pc = "project"
  /\ projected' = projected \cup written
  /\ pc' = "release"
  /\ UNCHANGED <<gate, stored, staged, marked, batch, adm, rounds, receipts, written>>

\* projectEventChunksBatch in a fenced transaction; a failure is left to the repair.
Project ==
  /\ pc = "project"
  /\ \/ /\ AdmissionMatches(gate, Admission(adm))
        /\ projected' = projected \cup written
     \/ UNCHANGED projected
  /\ pc' = "release"
  /\ UNCHANGED <<gate, stored, staged, marked, batch, adm, rounds, receipts, written>>

\* releaseStagedMemoryJobsBatch, and whether it matched every job of the batch.
Release ==
  /\ pc = "release"
  /\ staged' = staged \ written
  /\ pc' = IF written # {} /\ written \subseteq staged THEN "clear" ELSE "done"
  /\ UNCHANGED <<gate, stored, marked, projected, batch, adm, rounds, receipts, written>>

\* Defective variant: markers are cleared although no job was released.
ReleaseFailsCleared ==
  /\ pc = "release"
  /\ pc' = IF written = {} THEN "done" ELSE "clear"
  /\ UNCHANGED <<batch, database, adm, rounds, receipts, written>>

\* The release fails: the markers stay.
ReleaseFails ==
  /\ pc = "release"
  /\ pc' = "done"
  /\ UNCHANGED <<batch, database, adm, rounds, receipts, written>>

\* clearEventExtractionJobPendingBatch, or its failure.
ClearMarkers ==
  /\ pc = "clear"
  /\ marked' \in {marked, marked \ written}
  /\ pc' = "done"
  /\ UNCHANGED <<gate, stored, staged, projected, batch, adm, rounds, receipts, written>>

-----------------------------------------------------------------------------
(***************************************************************************)
(* What happens around it.                                                 *)
(***************************************************************************)
\* A writer that takes no fence; another fenced one only runs between rounds.
RivalWrites ==
  /\ IsOpen(gate) /\ Rival \notin Ids
  /\ \E k \in Key, b \in Body :
       /\ WithKey(stored, k) = {}
       /\ stored' = stored \cup {[id |-> Rival, key |-> k, body |-> b]}
  /\ UNCHANGED <<gate, staged, marked, projected, batch, pc, adm, rounds, receipts, written>>

\* The rival's event expires.
RivalExpires ==
  /\ Rival \in Ids
  /\ stored' = {e \in stored : e.id # Rival}
  /\ UNCHANGED <<gate, staged, marked, projected, batch, pc, adm, rounds, receipts, written>>

\* repairExtractionOutbox of another process, for one event of the batch.
RepairOutbox(i) ==
  /\ i \in marked /\ IsOpen(gate) /\ pc # "insert"
  /\ staged' = staged \ {i} /\ marked' = marked \ {i}
  /\ UNCHANGED <<gate, stored, projected, batch, pc, adm, rounds, receipts, written>>

\* deleteAllForAgent, with no write transaction open.
BeginErasure ==
  /\ IsOpen(gate) /\ gate.epoch < MaxEpoch /\ pc # "insert"
  /\ \E r \in Run : gate' = Begun(gate, r)
  /\ UNCHANGED <<stored, staged, marked, projected, batch, pc, adm, rounds, receipts, written>>

Erase ==
  /\ IsErasing(gate)
  /\ stored' = {} /\ staged' = {} /\ marked' = {} /\ projected' = {}
  /\ gate' = Reopened(gate)
  /\ UNCHANGED <<batch, pc, adm, rounds, receipts, written>>

-----------------------------------------------------------------------------
Init ==
  /\ gate = OpenGate(0)
  /\ batch \in Batch
  /\ stored = {} /\ staged = {} /\ marked = {} /\ projected = {}
  /\ pc = "new" /\ adm = 0
  /\ insert = {} /\ resolve = {} /\ needsFence = FALSE /\ view = {}
  /\ receipts = [i \in Item |-> Says("none", 0)]
  /\ written = {}

CallStep ==
  \/ Begin \/ RoundReads \/ RoundRefused \/ RoundCommits \/ RoundAborts \/ RoundFails
  \/ RoundUncertain \/ Reconcile \/ ReconcileFails \/ RoundsEnd
  \/ Project \/ Release \/ ReleaseFails \/ ClearMarkers

Around ==
  \/ RivalWrites \/ RivalExpires \/ BeginErasure \/ Erase
  \/ \E i \in Item : RepairOutbox(i)

Next == CallStep \/ Around

Spec == Init /\ [][Next]_vars

\* The calls of the driver return.
FairSpec == Spec /\ WF_vars(CallStep)

-----------------------------------------------------------------------------
\* Every variable has its type.
TypeOK ==
  /\ gate \in Gate
  /\ batch \in Batch
  /\ stored \subseteq Event /\ view \subseteq Event
  /\ {staged, marked, projected, written} \subseteq SUBSET Item
  /\ pc \in {"new", "round", "insert", "reconcile", "project", "release", "clear", "done",
             "refused"}
  /\ adm \in Nat /\ needsFence \in BOOLEAN
  /\ insert \cup resolve \subseteq (SUBSET Item) \ {{}}
  /\ receipts \in [Item -> Receipt]

\* The call still works in the epoch it was admitted in.
Current == IsOpen(gate) /\ gate.epoch = adm

\* Every item is in a group, or has its receipt, from the first round on: the
\* answer "event write not attempted" is never given.
NoItemForgotten ==
  pc \notin {"new", "refused"} =>
    \A i \in Item : receipts[i].out # "none" \/ i \in Members(insert \cup resolve)

\* An item that is told it succeeded has its event, with its key and its payload;
\* only the event of the rival may have expired since.
BatchReceiptsHold ==
  (pc = "done" /\ Current) =>
    \A i \in Item :
      receipts[i].out \in {"ok", "replayed"} =>
        \/ \E e \in stored : /\ e.id = receipts[i].id
                             /\ e.body = batch[i].body /\ e.key = batch[i].key
        \/ receipts[i].id = Rival

\* An item that is told it failed, or conflicts, left nothing behind: only
\* "durability unconfirmed" may hide a stored event.
FailuresLeaveNothing ==
  \A i \in Item : receipts[i].out \in {"failed", "conflict"} => i \notin Ids

\* A staged job is found by the repair: its event carries the marker.
StagedMarked == staged \subseteq marked

\* The answer to a batch accounts for every item and is true of each one.
BatchAccounted == NoItemForgotten /\ BatchReceiptsHold /\ FailuresLeaveNothing /\ StagedMarked

\* Once the tenant is open again after an erasure, nothing of the batch is there,
\* wherever between its rounds, its projection and its release the erasure came.
ErasedBatchGone ==
  (IsOpen(gate) /\ gate.epoch # adm /\ pc # "new") =>
    Ids \cap Item = {} /\ projected = {} /\ staged = {}

\* Every call ends: the rounds shrink, whatever the rival does.
BatchEnds == <>(pc \in {"done", "refused"})
=============================================================================
