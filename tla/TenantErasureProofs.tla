------------------------ MODULE TenantErasureProofs ------------------------
(***************************************************************************)
(* TenantErasure for any attempts, relevance runs, events and number of    *)
(* erasures: its two state invariants and its two action properties.       *)
(*                                                                         *)
(* NoOrphanArtifacts is not inductive.  What makes the deletion of the     *)
(* parents safe is known only to the attempt that deletes them, and only   *)
(* while it owns the gate: the ids it collected are all the parents there  *)
(* are (Collected), the artifacts they lead to are gone (Behind), and it   *)
(* reaches the parents only when neither of the two failed (Ahead).        *)
(***************************************************************************)
EXTENDS TenantErasure, TLAPS

AttemptState ==
  [pc         : {"new", "sinks", "collect", "sweep", "verify", "finalize", "partialAudit",
                 "returned"},
   epoch      : Nat,
   at         : 0..5,
   ids        : SUBSET RelRun,
   unresolved : BOOLEAN,
   failed     : SUBSET (Coll \cup {"sinks"}),
   receipt    : [status : {"none", "complete", "partial", "conflict"},
                 gateState : {"omitted", "erasing", "open"},
                 why : {"none", "gate", "epochError", "ownershipLost", "indeterminate",
                        "auditError"}]]

Types ==
  /\ gate \in Gate /\ WellFormed(gate)
  /\ db \in Db
  /\ marker \in BOOLEAN /\ timeseries \in BOOLEAN
  /\ att \in [Run -> AttemptState]

\* The attempt has the ids of the relevance runs and has not returned.
Sweeping(e) == att[e].pc \in {"sweep", "verify", "finalize"}

Collected ==
  \A e \in Run : Owner(e) /\ Sweeping(e) /\ ~ att[e].unresolved =>
    db["relevance_runs"] \subseteq att[e].ids

Behind ==
  \A e \in Run : Owner(e) /\ Sweeping(e) /\ att[e].at >= 2 /\ ~ Retain(e) =>
    Match(e, "relevance_artifacts") = {}

Ahead ==
  \A e \in Run :
    /\ att[e].pc = "sweep" => att[e].at \in 1..4
    /\ att[e].pc = "sweep" /\ att[e].at = 3 => ~ Retain(e)
    /\ att[e].pc = "finalize" => ~ Retain(e)

\* No attempt gets past the sinks before they are migrated.
Migrated == \A e \in Run : att[e].pc = "collect" \/ Sweeping(e) => ~ timeseries

IInv ==
  /\ Types /\ Collected /\ Behind /\ Ahead /\ Migrated
  /\ NoOrphanArtifacts /\ AuditTrailAgrees
-----------------------------------------------------------------------------
(***************************************************************************)
(* The order of the sweep, and the database as a function of collections.  *)
(***************************************************************************)
\* The sweep order spelled out.
LEMMA Order ==
  /\ Len(SweepOrder) = 4 /\ DOMAIN SweepOrder = 1..4
  /\ SweepOrder[1] = "relevance_artifacts" /\ SweepOrder[2] = "events"
  /\ SweepOrder[3] = "relevance_runs" /\ SweepOrder[4] = "memory_mutations"
  /\ Coll = {"relevance_artifacts", "events", "relevance_runs", "memory_mutations"}
  /\ \A i \in 1..4 : SweepOrder[i] \in Coll
<1>1. /\ Len(SweepOrder) = 4 /\ DOMAIN SweepOrder = 1..4
      /\ SweepOrder[1] = "relevance_artifacts" /\ SweepOrder[2] = "events"
      /\ SweepOrder[3] = "relevance_runs" /\ SweepOrder[4] = "memory_mutations"
  BY DEF SweepOrder
<1>2. \A i \in 1..4 : i = 1 \/ i = 2 \/ i = 3 \/ i = 4
  OBVIOUS
<1>3. QED BY <1>1, <1>2 DEF Coll

\* A database stays one when one collection changes, and only that one does.
LEMMA DbUpdate ==
  ASSUME db \in Db, NEW c \in Coll, NEW s,
         c = "relevance_artifacts" => s \subseteq Artifact,
         c = "events" => s \subseteq Event,
         c = "relevance_runs" => s \subseteq RelRun,
         c = "memory_mutations" => s \subseteq Audit
  PROVE  /\ [db EXCEPT ![c] = s] \in Db
         /\ [db EXCEPT ![c] = s][c] = s
         /\ \A d \in Coll \ {c} : [db EXCEPT ![c] = s][d] = db[d]
<1>1. CASE c = "relevance_artifacts"
  BY <1>1, Order DEF Db
<1>2. CASE c = "events"
  BY <1>2, Order DEF Db
<1>3. CASE c = "relevance_runs"
  BY <1>3, Order DEF Db
<1>4. CASE c = "memory_mutations"
  BY <1>4, Order DEF Db
<1>5. QED BY <1>1, <1>2, <1>3, <1>4, Order
-----------------------------------------------------------------------------
(***************************************************************************)
(* What a step can do.                                                     *)
(***************************************************************************)
\* The sweep moves forward, and reaches the relevance runs only when they are not
\* retained.
LEMMA AdvanceStep ==
  ASSUME IInv, NEW e \in Run, att[e].pc = "sweep", NEW failing \in SUBSET Coll,
         Advance(e, failing)
  PROVE  /\ att' \in [Run -> AttemptState]
         /\ \A f \in Run \ {e} : att'[f] = att[f]
         /\ att'[e].failed = att[e].failed \cup failing
         /\ att'[e].ids = att[e].ids /\ att'[e].unresolved = att[e].unresolved
         /\ att'[e].epoch = att[e].epoch /\ att'[e].receipt = att[e].receipt
         /\ att'[e].pc \in {"sweep", "verify"}
         /\ att[e].at \in 1..4 /\ att'[e].at \in 2..5 /\ att'[e].at > att[e].at
         /\ att'[e].pc = "sweep" => att'[e].at \in 2..4
         /\ att'[e].at = 3 => ~ RetainWhen(att'[e].unresolved, att'[e].failed)
<1> DEFINE failed == att[e].failed \cup failing
           skip   == SweepOrder[att[e].at] = "events" /\ RetainWhen(att[e].unresolved, failed)
           next   == att[e].at + IF skip THEN 2 ELSE 1
           pc     == IF next > Len(SweepOrder) THEN "verify" ELSE "sweep"
<1>a. att \in [Run -> AttemptState] /\ att[e] \in AttemptState
  BY DEF IInv, Types
<1>b. att[e].at \in 1..4
  BY DEF IInv, Ahead
<1>1. att' = [att EXCEPT ![e] = [att[e] EXCEPT !.failed = failed, !.at = next, !.pc = pc]]
  BY DEF Advance, Set
<1>2. failed \in SUBSET (Coll \cup {"sinks"})
  BY <1>a DEF AttemptState
<1>3. att[e].at = 2 <=> SweepOrder[att[e].at] = "events"
  BY <1>b, Order
<1>4. next \in 2..5 /\ next > att[e].at /\ (next = 3 => ~ RetainWhen(att[e].unresolved, failed))
  <2>1. CASE skip
    BY <1>3, <2>1
  <2>2. CASE ~ skip
    BY <1>b, <1>3, <2>2
  <2>3. QED BY <2>1, <2>2
<1>5. pc \in {"sweep", "verify"} /\ (pc = "sweep" => next \in 2..4)
  BY <1>4, Order
<1> HIDE DEF failed, next, pc
<1>6. [att[e] EXCEPT !.failed = failed, !.at = next, !.pc = pc] \in AttemptState
  <2>1. next \in 0..5
    BY <1>4
  <2>2. QED BY <1>a, <1>2, <1>5, <2>1 DEF AttemptState
<1>7. att' \in [Run -> AttemptState] /\ \A f \in Run \ {e} : att'[f] = att[f]
  BY <1>a, <1>1, <1>6
<1>8. att'[e] = [att[e] EXCEPT !.failed = failed, !.at = next, !.pc = pc]
  BY <1>a, <1>1
<1>9. /\ att'[e].failed = failed /\ att'[e].at = next /\ att'[e].pc = pc
      /\ att'[e].ids = att[e].ids /\ att'[e].unresolved = att[e].unresolved
      /\ att'[e].epoch = att[e].epoch /\ att'[e].receipt = att[e].receipt
  BY <1>a, <1>8 DEF AttemptState
<1>10. QED BY <1>b, <1>4, <1>5, <1>7, <1>9 DEF failed

\* A step of an attempt changes no other.
LEMMA Local ==
  ASSUME Types, NEW e \in Run, Attempt(e)
  PROVE  \A f \in Run \ {e} : att'[f] = att[f]
<1>a. att \in [Run -> AttemptState]
  BY DEF Types
<1>1. CASE Begin(e) \/ Recover(e) \/ EntryConflict(e) \/ EntryFails(e) \/ CheckSinks(e)
  BY <1>a, <1>1 DEF Begin, Recover, EntryConflict, EntryFails, CheckSinks, Return, Set
<1>2. CASE CollectRunIds(e) \/ SweepBatch(e) \/ SweepLost(e) \/ Verify(e)
  BY <1>a, <1>2 DEF CollectRunIds, SweepBatch, SweepLost, Verify, Return, Set
<1>3. CASE SweepDone(e) \/ SweepFails(e)
  BY <1>a, <1>3 DEF SweepDone, SweepFails, Advance, Set
<1>4. CASE Finalize(e) \/ FinalizeLost(e) \/ FinalizeAmbiguous(e) \/ FinalizeFails(e)
  BY <1>a, <1>4 DEF Finalize, FinalizeLost, FinalizeAmbiguous, FinalizeFails, Return, Set
<1>5. CASE PartialAudit(e) \/ PartialAuditLost(e) \/ PartialAuditFails(e) \/ Crash(e)
  BY <1>a, <1>5 DEF PartialAudit, PartialAuditLost, PartialAuditFails, Crash, Return, Set
<1>6. QED BY <1>1, <1>2, <1>3, <1>4, <1>5 DEF Attempt

\* The current collection of a sweeping attempt, and what it can delete from it.
LEMMA BatchType ==
  ASSUME IInv, NEW e \in Run, att[e].pc = "sweep", NEW ids \in SUBSET Match(e, Current(e)),
         db' = [db EXCEPT ![Current(e)] = @ \ ids]
  PROVE  /\ Current(e) \in Coll /\ db' \in Db
         /\ db'[Current(e)] = db[Current(e)] \ ids
         /\ \A d \in Coll \ {Current(e)} : db'[d] = db[d]
<1>1. Current(e) \in Coll
  BY Order DEF Current, IInv, Ahead
<1>2. db \in Db
  BY DEF IInv, Types
<1>3. QED BY <1>1, <1>2, DbUpdate, Order DEF Db

\* A sweep only takes documents away.
LEMMA SweepShrinks ==
  ASSUME IInv, NEW e \in Run, SweepBatch(e) \/ SweepDone(e) \/ SweepFails(e)
  PROVE  \A c \in Coll : db'[c] \subseteq db[c]
<1>1. CASE db' = db
  BY <1>1
<1>2. CASE db' # db
  <2>1. /\ att[e].pc = "sweep"
        /\ \E ids \in SUBSET Match(e, Current(e)) : db' = [db EXCEPT ![Current(e)] = @ \ ids]
    BY <1>2 DEF SweepBatch, SweepDone, SweepFails
  <2>2. PICK ids \in SUBSET Match(e, Current(e)) : db' = [db EXCEPT ![Current(e)] = @ \ ids]
    BY <2>1
  <2>3. /\ db'[Current(e)] = db[Current(e)] \ ids
        /\ \A d \in Coll \ {Current(e)} : db'[d] = db[d]
    BY <2>1, <2>2, BatchType
  <2>4. QED BY <2>3
<1>3. QED BY <1>1, <1>2

\* An audit record of an attempt is added to the mutations.
LEMMA RecordType ==
  ASSUME IInv, NEW e \in Run, NEW status \in {"complete", "partial"}
  PROVE  /\ Record(e, status) \in Db
         /\ Record(e, status)["memory_mutations"] =
              db["memory_mutations"] \cup {[run |-> e, epoch |-> att[e].epoch, status |-> status]}
         /\ \A d \in Coll \ {"memory_mutations"} : Record(e, status)[d] = db[d]
<1>1. db \in Db /\ att[e].epoch \in Nat
  BY DEF IInv, Types, AttemptState
<1>2. [run |-> e, epoch |-> att[e].epoch, status |-> status] \in Audit
  BY <1>1 DEF Audit
<1>3. db["memory_mutations"] \subseteq Audit /\ "memory_mutations" \in Coll
  BY <1>1, Order DEF Db
<1>4. QED BY <1>1, <1>2, <1>3, DbUpdate, Order DEF Record
\* An attempt that has not begun is an attempt.
LEMMA NewType == NewAttempt \in AttemptState /\ NewAttempt.receipt = NoReceipt
<1>1. NoReceipt \in [status : {"none", "complete", "partial", "conflict"},
                    gateState : {"omitted", "erasing", "open"},
                    why : {"none", "gate", "epochError", "ownershipLost", "indeterminate",
                           "auditError"}]
  BY DEF NoReceipt
<1>2. 0 \in 0..5 /\ 0 \in Nat
  OBVIOUS
<1>3. QED BY <1>1, <1>2 DEF NewAttempt, AttemptState

\* An attempt that returns has the receipt it returns.
LEMMA ReturnType ==
  ASSUME Types, NEW e \in Run,
         NEW status \in {"complete", "partial", "conflict"},
         NEW gateState \in {"omitted", "erasing", "open"},
         NEW why \in {"none", "gate", "epochError", "ownershipLost", "indeterminate",
                      "auditError"},
         Return(e, status, gateState, why)
  PROVE  /\ att' \in [Run -> AttemptState]
         /\ att'[e].pc = "returned" /\ att'[e].receipt = Receipt(status, gateState, why)
<1>a. att \in [Run -> AttemptState] /\ att[e] \in AttemptState
  BY DEF Types
<1>1. Receipt(status, gateState, why) \in
        [status : {"none", "complete", "partial", "conflict"},
         gateState : {"omitted", "erasing", "open"},
         why : {"none", "gate", "epochError", "ownershipLost", "indeterminate", "auditError"}]
  BY DEF Receipt
<1> DEFINE a == [att[e] EXCEPT !.pc = "returned", !.receipt = Receipt(status, gateState, why)]
<1>2. a \in AttemptState
  BY <1>a, <1>1 DEF AttemptState
<1>3. att' = [att EXCEPT ![e] = a]
  BY DEF Return, Set
<1>4. a.pc = "returned" /\ a.receipt = Receipt(status, gateState, why)
  BY <1>a DEF AttemptState
<1> HIDE DEF a
<1>5. QED BY <1>a, <1>2, <1>3, <1>4

\* Every variable keeps its type.
LEMMA TypesStep == IInv /\ [Next]_vars => Types'
<1> SUFFICES ASSUME IInv, [Next]_vars PROVE Types'
  OBVIOUS
<1>a. /\ gate \in Gate /\ WellFormed(gate) /\ db \in Db /\ marker \in BOOLEAN
      /\ timeseries \in BOOLEAN /\ att \in [Run -> AttemptState] /\ Types
  BY DEF IInv, Types
<1>c. ASSUME gate' \in Gate, WellFormed(gate'), db' \in Db, marker' \in BOOLEAN,
             timeseries' \in BOOLEAN, att' \in [Run -> AttemptState]
      PROVE  Types'
  BY <1>c DEF Types
<1>g. ASSUME NEW e \in Run
      PROVE  /\ Begun(gate, e) \in Gate /\ WellFormed(Begun(gate, e))
             /\ IsErasing(gate) => TakenOver(gate, e) \in Gate /\ WellFormed(TakenOver(gate, e))
             /\ Owner(e) => Reopened(gate) \in Gate /\ WellFormed(Reopened(gate))
  <2>1. gate.epoch \in Nat /\ gate.epoch + 1 \in Nat /\ gate.serial \in Nat /\ gate.serial + 1 \in Nat
    BY <1>a DEF Gate
  <2>2. Begun(gate, e) \in Gate
    BY <2>1 DEF Begun, Gate
  <2>3. WellFormed(Begun(gate, e))
    BY DEF Begun, WellFormed, IsErasing, Exists
  <2>4. IsErasing(gate) => TakenOver(gate, e) \in Gate
    BY <2>1 DEF TakenOver, Gate, IsErasing
  <2>5. IsErasing(gate) => WellFormed(TakenOver(gate, e))
    BY DEF TakenOver, WellFormed, IsErasing, Exists
  <2>6. Reopened(gate) \in Gate
    BY <1>a DEF Reopened, Gate
  <2>7. WellFormed(Reopened(gate))
    BY <1>a DEF Reopened, Gate, WellFormed, IsErasing, Exists
  <2>8. QED BY <2>2, <2>3, <2>4, <2>5, <2>6, <2>7
<1>1. ASSUME NEW e \in Run, Begin(e) \/ Recover(e) PROVE Types'
  <2>1. PICK n \in Nat : att' = [att EXCEPT ![e] = [att[e] EXCEPT !.pc = "sinks", !.epoch = n]]
    <3>1. gate.epoch \in Nat /\ gate.epoch + 1 \in Nat
      BY <1>a DEF Gate
    <3>2. CASE Begin(e)
      BY <3>1, <3>2 DEF Begin, Set
    <3>3. CASE Recover(e)
      BY <3>1, <3>3 DEF Recover, Set
    <3>4. QED BY <1>1, <3>2, <3>3
  <2>2. [att[e] EXCEPT !.pc = "sinks", !.epoch = n] \in AttemptState
    BY <1>a DEF AttemptState
  <2>3. att' \in [Run -> AttemptState]
    BY <1>a, <2>1, <2>2
  <2>4. gate' \in Gate /\ WellFormed(gate')
    BY <1>1, <1>g DEF Begin, Recover
  <2>5. QED BY <1>1, <1>a, <1>c, <2>3, <2>4 DEF Begin, Recover
<1>2. ASSUME NEW e \in Run,
             \/ EntryConflict(e) \/ EntryFails(e) \/ SweepLost(e) \/ FinalizeLost(e)
             \/ PartialAuditLost(e)
      PROVE  Types'
  <2>1. att' \in [Run -> AttemptState]
    BY <1>2, <1>a, ReturnType
       DEF EntryConflict, EntryFails, SweepLost, FinalizeLost, PartialAuditLost
  <2>2. gate' \in Gate /\ WellFormed(gate')
    BY <1>2, <1>a, <1>g DEF EntryConflict, EntryFails, SweepLost, FinalizeLost, PartialAuditLost
  <2>3. UNCHANGED <<db, marker, timeseries>>
    BY <1>2 DEF EntryConflict, EntryFails, SweepLost, FinalizeLost, PartialAuditLost
  <2>4. QED BY <1>a, <1>c, <2>1, <2>2, <2>3
<1>3. ASSUME NEW e \in Run, CheckSinks(e) \/ Verify(e) \/ FinalizeFails(e) PROVE Types'
  <2>1. PICK pc \in {"collect", "finalize", "partialAudit"}, failed \in {{"sinks"}, att[e].failed} :
          att' = [att EXCEPT ![e] = [att[e] EXCEPT !.pc = pc, !.failed = failed]]
    <3>1. att[e] \in AttemptState
      BY <1>a
    <3>2. [att[e] EXCEPT !.failed = att[e].failed] = att[e]
      BY <3>1 DEF AttemptState
    <3>3. \A pc \in {"collect", "finalize", "partialAudit"} :
            [att[e] EXCEPT !.pc = pc] = [att[e] EXCEPT !.pc = pc, !.failed = att[e].failed]
      BY <3>1 DEF AttemptState
    <3>4. CASE CheckSinks(e)
      BY <3>3, <3>4 DEF CheckSinks, Set
    <3>5. CASE Verify(e)
      BY <3>3, <3>5 DEF Verify, Set
    <3>6. CASE FinalizeFails(e)
      BY <3>3, <3>6 DEF FinalizeFails, Set
    <3>7. QED BY <1>3, <3>4, <3>5, <3>6
  <2>2. [att[e] EXCEPT !.pc = pc, !.failed = failed] \in AttemptState
    BY <1>a DEF AttemptState
  <2>3. att' \in [Run -> AttemptState]
    BY <1>a, <2>1, <2>2
  <2>4. QED BY <1>3, <1>a, <1>c, <2>3 DEF CheckSinks, Verify, FinalizeFails
<1>4. ASSUME NEW e \in Run, CollectRunIds(e) PROVE Types'
  <2>1. PICK ids \in SUBSET RelRun, unresolved \in BOOLEAN :
          att' = [att EXCEPT ![e] = [att[e] EXCEPT !.pc = "sweep", !.at = 1, !.ids = ids,
                                                   !.unresolved = unresolved]]
    <3>1. PICK read \in BOOLEAN :
            Set(e, [att[e] EXCEPT
                      !.pc = "sweep", !.at = 1,
                      !.ids = IF read THEN db["relevance_runs"] \ Unusable ELSE {},
                      !.unresolved = ~ read \/ db["relevance_runs"] \cap Unusable # {}])
      BY <1>4 DEF CollectRunIds
    <3> DEFINE ids == IF read THEN db["relevance_runs"] \ Unusable ELSE {}
               unresolved == ~ read \/ db["relevance_runs"] \cap Unusable # {}
    <3>2. ids \in SUBSET RelRun
      BY <1>a DEF Db
    <3>3. unresolved \in BOOLEAN
      OBVIOUS
    <3>4. att' = [att EXCEPT ![e] = [att[e] EXCEPT !.pc = "sweep", !.at = 1, !.ids = ids,
                                                   !.unresolved = unresolved]]
      BY <3>1 DEF Set
    <3> HIDE DEF ids, unresolved
    <3>5. QED BY <3>2, <3>3, <3>4
  <2>2. [att[e] EXCEPT !.pc = "sweep", !.at = 1, !.ids = ids, !.unresolved = unresolved]
          \in AttemptState
    <3>1. 1 \in 0..5
      OBVIOUS
    <3>2. QED BY <1>a, <3>1 DEF AttemptState
  <2>3. att' \in [Run -> AttemptState]
    BY <1>a, <2>1, <2>2
  <2>4. QED BY <1>4, <1>a, <1>c, <2>3 DEF CollectRunIds
<1>5. ASSUME NEW e \in Run, SweepBatch(e) PROVE Types'
  <2>1. db' \in Db
    BY <1>5, BatchType DEF SweepBatch
  <2>2. QED BY <1>5, <1>a, <1>c, <2>1 DEF SweepBatch
<1>6. ASSUME NEW e \in Run, SweepDone(e) \/ SweepFails(e) PROVE Types'
  <2>1. Current(e) \in Coll /\ att[e].pc = "sweep"
    BY <1>6, Order DEF Current, IInv, Ahead, SweepDone, SweepFails
  <2>2. att' \in [Run -> AttemptState]
    BY <1>6, <2>1, AdvanceStep DEF SweepDone, SweepFails
  <2>3. db' \in Db
    BY <1>6, <1>a, <2>1, BatchType DEF SweepDone, SweepFails
  <2>4. QED BY <1>6, <1>a, <1>c, <2>2, <2>3 DEF SweepDone, SweepFails
<1>7. ASSUME NEW e \in Run, Finalize(e) \/ FinalizeAmbiguous(e) PROVE Types'
  <2>1. att' \in [Run -> AttemptState]
    BY <1>7, <1>a, ReturnType DEF Finalize, FinalizeAmbiguous
  <2>2. FinalizeCommits(e) \/ UNCHANGED <<gate, db, marker>>
    BY <1>7 DEF Finalize, FinalizeAmbiguous
  <2>3. gate' \in Gate /\ WellFormed(gate') /\ db' \in Db /\ marker' \in BOOLEAN
    BY <1>a, <1>g, <2>2, RecordType DEF FinalizeCommits
  <2>4. QED BY <1>7, <1>a, <1>c, <2>1, <2>3 DEF Finalize, FinalizeAmbiguous
<1>8. ASSUME NEW e \in Run, PartialAudit(e) \/ PartialAuditFails(e) PROVE Types'
  <2>1. att' \in [Run -> AttemptState]
    BY <1>8, <1>a, ReturnType DEF PartialAudit, PartialAuditFails
  <2>2. db' \in Db
    <3>1. Record(e, "partial") \in Db
      BY RecordType
    <3>2. db' = db \/ db' = Record(e, "partial")
      BY <1>8 DEF PartialAudit, PartialAuditFails
    <3>3. QED BY <1>a, <3>1, <3>2
  <2>3. QED BY <1>8, <1>a, <1>c, <2>1, <2>2 DEF PartialAudit, PartialAuditFails
<1>9. ASSUME NEW e \in Run, Crash(e) PROVE Types'
  <2>1. [NewAttempt EXCEPT !.pc = "returned"] \in AttemptState
    BY NewType DEF AttemptState
  <2>2. att' \in [Run -> AttemptState]
    BY <1>9, <1>a, <2>1 DEF Crash, Set
  <2>3. QED BY <1>9, <1>a, <1>c, <2>2 DEF Crash
<1>10. CASE Write
  <2>1. gate' \in Gate /\ WellFormed(gate')
    BY <1>10, <1>a
       DEF Write, Captured, OpenGate, Gate, WellFormed, Exists, IsErasing
  <2>2. db' \in Db
    <3>1. CASE \E x \in Event : db' = [db EXCEPT !["events"] = @ \cup {x}]
      <4>1. PICK x \in Event : db' = [db EXCEPT !["events"] = @ \cup {x}]
        BY <3>1
      <4>2. db["events"] \cup {x} \subseteq Event /\ "events" \in Coll
        BY <1>a, Order DEF Db
      <4>3. QED BY <1>a, <4>1, <4>2, DbUpdate
    <3>2. ASSUME NEW n \in RelRun,
                 db' = [db EXCEPT !["relevance_runs"] = @ \cup {n},
                                  !["relevance_artifacts"] = @ \cup {[parent |-> n, tagged |-> TRUE]}]
          PROVE  db' \in Db
      <4> DEFINE runs == db["relevance_runs"] \cup {n}
                 artifacts == db["relevance_artifacts"] \cup {[parent |-> n, tagged |-> TRUE]}
      <4>1. runs \in SUBSET RelRun /\ artifacts \in SUBSET Artifact
        <5>1. db["relevance_runs"] \subseteq RelRun /\ db["relevance_artifacts"] \subseteq Artifact
          BY <1>a DEF Db
        <5>2. [parent |-> n, tagged |-> TRUE] \in Artifact
          BY DEF Artifact
        <5>3. QED BY <5>1, <5>2
      <4>2. db' = [db EXCEPT !["relevance_runs"] = runs, !["relevance_artifacts"] = artifacts]
        BY <3>2
      <4> HIDE DEF runs, artifacts
      <4>3. [db EXCEPT !["relevance_runs"] = runs] \in Db
        BY <1>a, <4>1, DbUpdate, Order
      <4>4. db' = [db EXCEPT !.relevance_runs = runs, !.relevance_artifacts = artifacts]
        BY <4>2
      <4>5. QED BY <1>a, <4>1, <4>4 DEF Db
    <3>3. QED BY <1>10, <3>1, <3>2 DEF Write
  <2>3. QED BY <1>10, <1>a, <1>c, <2>1, <2>2 DEF Write
<1>11. CASE WriteMarker \/ MigrateSinks \/ UNCHANGED vars
  BY <1>11, <1>a, <1>c DEF WriteMarker, MigrateSinks, vars
<1>12. QED
  BY <1>1, <1>2, <1>3, <1>4, <1>5, <1>6, <1>7, <1>8, <1>9, <1>10, <1>11 DEF Next, Attempt
\* What an attempt changes it owns: the data, and the gate it takes or reopens.
LEMMA OwnersChange ==
  ASSUME IInv, NEW f \in Run, Attempt(f)
  PROVE  \/ gate' = gate /\ (db' = db \/ Owner(f))
         \/ IsErasing(gate') /\ gate'.runId = f
         \/ ~ IsErasing(gate') /\ att[f].pc = "finalize" /\ FinalizeCommits(f)
<1>1. CASE Begin(f) \/ Recover(f) \/ EntryConflict(f) \/ EntryFails(f)
  <2>1. /\ Begun(gate, f).runId = f /\ IsErasing(Begun(gate, f))
        /\ IsErasing(gate) => TakenOver(gate, f).runId = f /\ IsErasing(TakenOver(gate, f))
    BY DEF Begun, TakenOver, IsErasing
  <2>2. (gate' = gate /\ db' = db) \/ (IsErasing(gate') /\ gate'.runId = f)
    <3>1. CASE gate' = Begun(gate, f)
      BY <2>1, <3>1
    <3>2. CASE Recover(f)
      BY <2>1, <3>2 DEF Recover
    <3>3. CASE gate' # Begun(gate, f) /\ ~ Recover(f)
      BY <1>1, <3>3 DEF Begin, EntryConflict, EntryFails
    <3>4. QED BY <3>1, <3>2, <3>3
  <2>3. QED BY <2>2
<1>2. CASE \/ CheckSinks(f) \/ CollectRunIds(f) \/ SweepDone(f) \/ SweepLost(f) \/ Verify(f)
           \/ FinalizeLost(f) \/ FinalizeFails(f) \/ PartialAuditLost(f) \/ Crash(f)
  BY <1>2 DEF CheckSinks, CollectRunIds, SweepDone, SweepLost, Verify, FinalizeLost, FinalizeFails,
              PartialAuditLost, Crash
<1>3. CASE SweepBatch(f) \/ SweepFails(f) \/ PartialAudit(f) \/ PartialAuditFails(f)
  BY <1>3 DEF SweepBatch, SweepFails, PartialAudit, PartialAuditFails
<1>4. CASE Finalize(f) \/ FinalizeAmbiguous(f)
  <2>1. ~ IsErasing(Reopened(gate))
    BY DEF Reopened, IsErasing, IInv, Types, Gate
  <2>2. QED BY <1>4, <2>1 DEF Finalize, FinalizeAmbiguous, FinalizeCommits
<1>5. QED BY <1>1, <1>2, <1>3, <1>4 DEF Attempt

\* Outside the sweep and the verification an attempt is before them or has failed, and
\* it starts them when the sinks are migrated.
LEMMA Elsewhere ==
  ASSUME Types, NEW e \in Run, Attempt(e)
  PROVE  \/ CollectRunIds(e) \/ SweepBatch(e) \/ SweepDone(e) \/ SweepFails(e) \/ Verify(e)
         \/ /\ ~ Sweeping(e)'
            /\ att'[e].pc = "collect" => CheckSinks(e) /\ ~ timeseries
<1>a. att \in [Run -> AttemptState]
  BY DEF Types
<1>1. CASE Begin(e)
  <2>1. att'[e] = [att[e] EXCEPT !.pc = "sinks", !.epoch = gate.epoch + 1]
    BY <1>a, <1>1 DEF Begin, Set
  <2>2. QED BY <1>a, <2>1 DEF AttemptState, Sweeping
<1>2. CASE Recover(e)
  <2>1. att'[e] = [att[e] EXCEPT !.pc = "sinks", !.epoch = gate.epoch]
    BY <1>a, <1>2 DEF Recover, Set
  <2>2. QED BY <1>a, <2>1 DEF AttemptState, Sweeping
<1>3. CASE CheckSinks(e)
  <2>1. \/ ~ timeseries /\ att'[e] = [att[e] EXCEPT !.pc = "collect"]
        \/ att'[e] = [att[e] EXCEPT !.pc = "partialAudit", !.failed = {"sinks"}]
    BY <1>a, <1>3 DEF CheckSinks, Set
  <2>2. QED BY <1>a, <1>3, <2>1 DEF AttemptState, Sweeping
<1>4. CASE FinalizeFails(e)
  BY <1>a, <1>4 DEF FinalizeFails, Set, AttemptState, Sweeping
<1>5. CASE Crash(e)
  BY <1>a, <1>5 DEF Crash, Set, NewAttempt, Sweeping
<1>6. CASE \/ EntryConflict(e) \/ EntryFails(e) \/ SweepLost(e) \/ Finalize(e)
           \/ FinalizeLost(e) \/ FinalizeAmbiguous(e) \/ PartialAudit(e)
           \/ PartialAuditLost(e) \/ PartialAuditFails(e)
  <2>1. att'[e].pc = "returned"
    BY <1>a, <1>6, ReturnType
       DEF EntryConflict, EntryFails, SweepLost, Finalize, FinalizeLost,
           FinalizeAmbiguous, PartialAudit, PartialAuditLost, PartialAuditFails
  <2>2. QED BY <2>1 DEF Sweeping
<1>7. QED BY <1>1, <1>2, <1>3, <1>4, <1>5, <1>6 DEF Attempt

\* As long as an attempt owns the gate, only its own steps change the data.
LEMMA OwnStep ==
  ASSUME IInv, [Next]_vars, NEW e \in Run, Owner(e)', Sweeping(e)'
  PROVE  /\ gate' = gate /\ Owner(e)
         /\ \/ att'[e] = att[e] /\ db' = db
            \/ CollectRunIds(e) \/ SweepBatch(e) \/ SweepDone(e) \/ SweepFails(e) \/ Verify(e)
<1>a. /\ att \in [Run -> AttemptState] /\ IsErasing(gate') /\ gate'.runId = e
      /\ gate'.epoch = att'[e].epoch /\ Types /\ gate \in Gate
  BY DEF IInv, Types, Owner, OwnershipMatches, Erasure
<1>b. att'[e].pc \in {"sweep", "verify", "finalize"}
  BY DEF Sweeping
<1>1. ASSUME NEW f \in Run, f # e, Attempt(f)
      PROVE  gate' = gate /\ Owner(e) /\ att'[e] = att[e] /\ db' = db
  <2>1. att'[e] = att[e]
    BY <1>1, <1>a, Local
  <2>2. gate' = gate /\ (db' = db \/ Owner(f))
    BY <1>1, <1>a, OwnersChange
  <2>3. ~ Owner(f)
    BY <1>1, <1>a, <2>2 DEF Owner, OwnershipMatches, Erasure
  <2>4. Owner(e)
    BY <1>a, <2>1, <2>2 DEF Owner, OwnershipMatches, Erasure
  <2>5. QED BY <2>1, <2>2, <2>3, <2>4
<1>2. CASE Attempt(e)
  <2>1. \/ CollectRunIds(e) \/ SweepBatch(e) \/ SweepDone(e) \/ SweepFails(e) \/ Verify(e)
    BY <1>2, <1>a, <1>b, Elsewhere DEF Sweeping
  <2>2. CASE CollectRunIds(e) \/ SweepBatch(e) \/ Verify(e)
    <3>1. gate' = gate
      BY <2>2 DEF CollectRunIds, SweepBatch, Verify
    <3>2. att'[e].epoch = att[e].epoch
      <4>1. CASE CollectRunIds(e)
        BY <1>a, <4>1 DEF CollectRunIds, Set, AttemptState
      <4>2. CASE SweepBatch(e)
        BY <4>2 DEF SweepBatch
      <4>3. CASE Verify(e)
        BY <1>a, <4>3 DEF Verify, Set, AttemptState
      <4>4. QED BY <2>2, <4>1, <4>2, <4>3
    <3>3. QED BY <1>a, <2>2, <3>1, <3>2 DEF Owner, OwnershipMatches, Erasure
  <2>3. CASE SweepDone(e) \/ SweepFails(e)
    <3>1. gate' = gate /\ att[e].pc = "sweep"
      BY <2>3 DEF SweepDone, SweepFails
    <3>2. Current(e) \in Coll
      BY <3>1, Order DEF Current, IInv, Ahead
    <3>3. att'[e].epoch = att[e].epoch
      BY <2>3, <3>1, <3>2, AdvanceStep DEF SweepDone, SweepFails
    <3>4. QED BY <1>a, <2>3, <3>1, <3>3 DEF Owner, OwnershipMatches, Erasure
  <2>4. QED BY <2>1, <2>2, <2>3
<1>3. CASE Write
  BY <1>3, <1>a DEF Write, Captured, IsErasing, OpenGate
<1>4. CASE WriteMarker \/ MigrateSinks \/ UNCHANGED vars
  BY <1>4, <1>a DEF WriteMarker, MigrateSinks, vars, Owner, OwnershipMatches, Erasure
<1>5. QED BY <1>1, <1>2, <1>3, <1>4 DEF Next
-----------------------------------------------------------------------------
(***************************************************************************)
(* Each part of the invariant.                                             *)
(***************************************************************************)
\* The ids of an owner that could resolve them are all the runs there are.
LEMMA CollectedStep == IInv /\ [Next]_vars => Collected'
<1> SUFFICES ASSUME IInv, [Next]_vars, NEW e \in Run,
                    Owner(e)', Sweeping(e)', ~ att'[e].unresolved
             PROVE  db'["relevance_runs"] \subseteq att'[e].ids
  BY DEF Collected
<1>a. /\ att \in [Run -> AttemptState] /\ db \in Db /\ Owner(e)
      /\ Sweeping(e) /\ ~ att[e].unresolved => db["relevance_runs"] \subseteq att[e].ids
  BY OwnStep DEF IInv, Types, Collected
<1>1. CASE att'[e] = att[e] /\ db' = db
  BY <1>1, <1>a DEF Sweeping
<1>2. CASE CollectRunIds(e)
  <2>1. PICK read \in BOOLEAN :
          Set(e, [att[e] EXCEPT
                    !.pc = "sweep", !.at = 1,
                    !.ids = IF read THEN db["relevance_runs"] \ Unusable ELSE {},
                    !.unresolved = ~ read \/ db["relevance_runs"] \cap Unusable # {}])
    BY <1>2 DEF CollectRunIds
  <2>2. /\ att'[e].unresolved = (~ read \/ db["relevance_runs"] \cap Unusable # {})
        /\ att'[e].ids = IF read THEN db["relevance_runs"] \ Unusable ELSE {}
    BY <1>a, <2>1 DEF Set, AttemptState
  <2>3. db' = db
    BY <1>2 DEF CollectRunIds
  <2>4. QED BY <2>2, <2>3
<1>3. CASE SweepBatch(e)
  <2>1. att' = att /\ att[e].pc = "sweep" /\ db'["relevance_runs"] \subseteq db["relevance_runs"]
    BY <1>3, SweepShrinks, Order DEF SweepBatch
  <2>2. QED BY <1>a, <2>1 DEF Sweeping
<1>4. CASE SweepDone(e) \/ SweepFails(e)
  <2>1. att[e].pc = "sweep" /\ Current(e) \in Coll
    BY <1>4, Order DEF SweepDone, SweepFails, Current, IInv, Ahead
  <2>2. att'[e].ids = att[e].ids /\ att'[e].unresolved = att[e].unresolved
    BY <1>4, <2>1, AdvanceStep DEF SweepDone, SweepFails
  <2>3. db'["relevance_runs"] \subseteq db["relevance_runs"]
    BY <1>4, SweepShrinks, Order
  <2>4. QED BY <1>a, <2>1, <2>2, <2>3 DEF Sweeping
<1>5. CASE Verify(e)
  <2>1. /\ att[e].pc = "verify" /\ db' = db
        /\ att'[e].ids = att[e].ids /\ att'[e].unresolved = att[e].unresolved
    BY <1>5, <1>a DEF Verify, Set, AttemptState
  <2>2. QED BY <1>a, <2>1 DEF Sweeping
<1>6. QED BY OwnStep, <1>1, <1>2, <1>3, <1>4, <1>5

\* Once the artifact sweep is over and did not fail, nothing it could find is left.
LEMMA BehindStep == IInv /\ [Next]_vars => Behind'
<1> SUFFICES ASSUME IInv, [Next]_vars, NEW e \in Run,
                    Owner(e)', Sweeping(e)', att'[e].at >= 2, ~ Retain(e)'
             PROVE  Match(e, "relevance_artifacts")' = {}
  BY DEF Behind
<1>a. /\ att \in [Run -> AttemptState] /\ db \in Db /\ Owner(e)
      /\ Sweeping(e) /\ att[e].at >= 2 /\ ~ Retain(e) => Match(e, "relevance_artifacts") = {}
      /\ ~ RetainWhen(att'[e].unresolved, att'[e].failed)
  BY OwnStep DEF IInv, Types, Behind, Retain
<1>m. ASSUME db'["relevance_artifacts"] \subseteq db["relevance_artifacts"],
             att'[e].ids = att[e].ids, Match(e, "relevance_artifacts") = {}
      PROVE  Match(e, "relevance_artifacts")' = {}
  BY <1>m DEF Match
<1>1. CASE att'[e] = att[e] /\ db' = db
  BY <1>1, <1>a, <1>m DEF Sweeping, Retain
<1>2. CASE CollectRunIds(e)
  <2>1. att'[e].at = 1
    BY <1>2, <1>a DEF CollectRunIds, Set, AttemptState
  <2>2. QED BY <2>1
<1>3. CASE SweepBatch(e)
  <2>1. /\ att' = att /\ att[e].pc = "sweep"
        /\ db'["relevance_artifacts"] \subseteq db["relevance_artifacts"]
    BY <1>3, SweepShrinks, Order DEF SweepBatch
  <2>2. QED BY <1>a, <1>m, <2>1 DEF Sweeping, Retain
<1>4. CASE SweepDone(e) \/ SweepFails(e)
  <2>1. att[e].pc = "sweep" /\ Current(e) \in Coll
    BY <1>4, Order DEF SweepDone, SweepFails, Current, IInv, Ahead
  <2>2. PICK failing \in SUBSET Coll :
          /\ Advance(e, failing)
          /\ failing = {} => SweepDone(e)
          /\ failing = {} \/ failing = {Current(e)}
    BY <1>4, <2>1 DEF SweepDone, SweepFails
  <2>3. /\ att'[e].ids = att[e].ids /\ att'[e].unresolved = att[e].unresolved
        /\ att'[e].failed = att[e].failed \cup failing /\ att[e].at \in 1..4
    BY <2>1, <2>2, AdvanceStep
  <2>4. db'["relevance_artifacts"] \subseteq db["relevance_artifacts"]
    BY <1>4, SweepShrinks, Order
  <2>5. ~ Retain(e)
    BY <1>a, <2>3 DEF Retain, RetainWhen
  <2>6. CASE att[e].at >= 2
    BY <1>a, <1>m, <2>1, <2>3, <2>4, <2>5, <2>6 DEF Sweeping
  <2>7. CASE att[e].at = 1
    <3>1. Current(e) = "relevance_artifacts"
      BY <2>7, Order DEF Current
    <3>2. SweepDone(e)
      BY <1>a, <2>2, <2>3, <3>1 DEF RetainWhen
    <3>3. Match(e, "relevance_artifacts") = {}
      BY <3>1, <3>2 DEF SweepDone
    <3>4. QED BY <1>m, <2>3, <2>4, <3>3
  <2>8. QED BY <2>3, <2>6, <2>7
<1>5. CASE Verify(e)
  <2>1. /\ att[e].pc = "verify" /\ db' = db /\ att'[e].at = att[e].at
        /\ att'[e].ids = att[e].ids /\ att'[e].unresolved = att[e].unresolved
        /\ att'[e].failed = att[e].failed
    BY <1>5, <1>a DEF Verify, Set, AttemptState
  <2>2. QED BY <1>a, <1>m, <2>1 DEF Sweeping, Retain
<1>6. QED BY OwnStep, <1>1, <1>2, <1>3, <1>4, <1>5
\* The relevance runs are reached, and the erasure finalized, only when nothing made
\* the attempt retain them.
LEMMA AheadStep == IInv /\ [Next]_vars => Ahead'
<1> SUFFICES ASSUME IInv, [Next]_vars, NEW e \in Run
             PROVE  (/\ att[e].pc = "sweep" => att[e].at \in 1..4
                     /\ att[e].pc = "sweep" /\ att[e].at = 3 => ~ Retain(e)
                     /\ att[e].pc = "finalize" => ~ Retain(e))'
  BY DEF Ahead
<1>a. /\ att \in [Run -> AttemptState] /\ Types
      /\ att[e].pc = "sweep" => att[e].at \in 1..4
      /\ att[e].pc = "sweep" /\ att[e].at = 3 => ~ Retain(e)
      /\ att[e].pc = "finalize" => ~ Retain(e)
  BY DEF IInv, Types, Ahead
<1>1. CASE att'[e] = att[e]
  BY <1>1, <1>a DEF Retain
<1>2. CASE Attempt(e) /\ att'[e] # att[e]
  <2>1. CASE CollectRunIds(e)
    <3>1. att'[e].pc = "sweep" /\ att'[e].at = 1
      BY <2>1, <1>a DEF CollectRunIds, Set, AttemptState
    <3>2. QED BY <3>1
  <2>2. CASE SweepBatch(e)
    BY <1>2, <2>2 DEF SweepBatch
  <2>3. CASE SweepDone(e) \/ SweepFails(e)
    <3>1. att[e].pc = "sweep" /\ Current(e) \in Coll
      BY <2>3, <1>a, Order DEF SweepDone, SweepFails, Current
    <3>2. PICK failing \in SUBSET Coll : Advance(e, failing)
      BY <2>3, <3>1 DEF SweepDone, SweepFails
    <3>3. QED BY <3>1, <3>2, AdvanceStep DEF Retain
  <2>4. CASE Verify(e)
    <3>1. PICK clean \in BOOLEAN :
            /\ clean => ~ Retain(e)
            /\ Set(e, [att[e] EXCEPT !.pc = IF clean THEN "finalize" ELSE "partialAudit"])
      BY <2>4 DEF Verify
    <3>2. /\ att'[e].pc = IF clean THEN "finalize" ELSE "partialAudit"
          /\ att'[e].failed = att[e].failed /\ att'[e].unresolved = att[e].unresolved
      BY <3>1, <1>a DEF Set, AttemptState
    <3>3. QED BY <3>1, <3>2 DEF Retain
  <2>5. CASE ~ Sweeping(e)'
    BY <2>5 DEF Sweeping
  <2>6. QED BY <1>2, <1>a, <2>1, <2>2, <2>3, <2>4, <2>5, Elsewhere
<1>3. CASE \E f \in Run : f # e /\ Attempt(f)
  BY <1>1, <1>3, <1>a, Local
<1>4. CASE Write \/ WriteMarker \/ MigrateSinks \/ UNCHANGED vars
  BY <1>1, <1>4 DEF Write, WriteMarker, MigrateSinks, vars
<1>5. QED BY <1>1, <1>2, <1>3, <1>4 DEF Next

\* Time-series sinks are never created, and no attempt gets past them.
LEMMA MigratedStep == IInv /\ [Next]_vars => Migrated'
<1> SUFFICES ASSUME IInv, [Next]_vars, NEW e \in Run,
                    att'[e].pc = "collect" \/ Sweeping(e)'
             PROVE  ~ timeseries'
  BY DEF Migrated
<1>a. /\ Types /\ timeseries \in BOOLEAN
      /\ att[e].pc = "collect" \/ Sweeping(e) => ~ timeseries
  BY DEF IInv, Types, Migrated
<1>1. timeseries' = timeseries \/ ~ timeseries'
  BY DEF Next, Attempt, Begin, Recover, EntryConflict, EntryFails, CheckSinks, CollectRunIds,
         SweepBatch, SweepDone, SweepFails, SweepLost, Verify, Finalize, FinalizeLost,
         FinalizeAmbiguous, FinalizeFails, PartialAudit, PartialAuditLost, PartialAuditFails,
         Crash, Write, WriteMarker, MigrateSinks, vars
<1>2. CASE att'[e] = att[e]
  BY <1>1, <1>2, <1>a DEF Sweeping
<1>3. CASE Attempt(e)
  <2>1. \/ CollectRunIds(e) \/ SweepBatch(e) \/ SweepDone(e) \/ SweepFails(e) \/ Verify(e)
        \/ ~ timeseries
    BY <1>3, <1>a, Elsewhere
  <2>2. CASE CollectRunIds(e) \/ SweepBatch(e) \/ SweepDone(e) \/ SweepFails(e) \/ Verify(e)
    BY <1>1, <1>a, <2>2 DEF CollectRunIds, SweepBatch, SweepDone, SweepFails, Verify, Sweeping
  <2>3. QED BY <1>1, <2>1, <2>2
<1>4. CASE \E f \in Run : f # e /\ Attempt(f)
  BY <1>2, <1>4, <1>a, Local
<1>5. CASE Write \/ WriteMarker \/ MigrateSinks \/ UNCHANGED vars
  BY <1>2, <1>5 DEF Write, WriteMarker, MigrateSinks, vars
<1>6. QED BY <1>2, <1>3, <1>4, <1>5 DEF Next

Deletes(e) ==
  /\ att[e].pc = "sweep" /\ Owner(e) /\ gate' = gate
  /\ \E ids \in SUBSET Match(e, Current(e)) : db' = [db EXCEPT ![Current(e)] = @ \ ids]

\* The data change with an admitted write, a batch of an owner's sweep, and an audit.
LEMMA DbChange ==
  IInv /\ [Next]_vars =>
    \/ db' = db
    \/ Write
    \/ \E e \in Run : Deletes(e)
    \/ \E e \in Run : Owner(e) /\ gate' = gate /\ db' = Record(e, "partial")
    \/ \E e \in Run : att[e].pc = "finalize" /\ FinalizeCommits(e)
<1> SUFFICES ASSUME IInv, [Next]_vars, db' # db
             PROVE  \/ Write
                    \/ \E e \in Run : Deletes(e)
                    \/ \E e \in Run : Owner(e) /\ gate' = gate /\ db' = Record(e, "partial")
                    \/ \E e \in Run : att[e].pc = "finalize" /\ FinalizeCommits(e)
  OBVIOUS
<1>1. ASSUME NEW e \in Run, SweepBatch(e) \/ SweepFails(e) PROVE Deletes(e)
  BY <1>1 DEF SweepBatch, SweepFails, Deletes
<1>2. ASSUME NEW e \in Run, PartialAudit(e) \/ PartialAuditFails(e)
      PROVE  Owner(e) /\ gate' = gate /\ db' = Record(e, "partial")
  BY <1>2 DEF PartialAudit, PartialAuditFails
<1>3. ASSUME NEW e \in Run, Finalize(e) \/ FinalizeAmbiguous(e)
      PROVE  att[e].pc = "finalize" /\ FinalizeCommits(e)
  BY <1>3 DEF Finalize, FinalizeAmbiguous
<1>4. ASSUME NEW e \in Run,
             \/ Begin(e) \/ Recover(e) \/ EntryConflict(e) \/ EntryFails(e) \/ CheckSinks(e)
             \/ CollectRunIds(e) \/ SweepDone(e) \/ SweepLost(e) \/ Verify(e) \/ FinalizeLost(e)
             \/ FinalizeFails(e) \/ PartialAuditLost(e) \/ Crash(e)
      PROVE  FALSE
  BY <1>4 DEF Begin, Recover, EntryConflict, EntryFails, CheckSinks, CollectRunIds, SweepDone,
              SweepLost, Verify, FinalizeLost, FinalizeFails, PartialAuditLost, Crash
<1>5. ~ WriteMarker /\ ~ MigrateSinks /\ ~ UNCHANGED vars
  BY DEF WriteMarker, MigrateSinks, vars
<1>6. QED BY <1>1, <1>2, <1>3, <1>4, <1>5 DEF Next, Attempt

\* A parent is deleted only when no artifact needs it any more.
LEMMA NoOrphanArtifactsStep == IInv /\ [Next]_vars => NoOrphanArtifacts'
<1> SUFFICES ASSUME IInv, [Next]_vars,
                    NEW a \in db'["relevance_artifacts"], ~ a.tagged
             PROVE  a.parent \in db'["relevance_runs"]
  BY DEF NoOrphanArtifacts
<1>a. /\ db \in Db
      /\ \A x \in db["relevance_artifacts"] : ~ x.tagged => x.parent \in db["relevance_runs"]
  BY DEF IInv, Types, NoOrphanArtifacts
<1>1. CASE db' = db
  BY <1>1, <1>a
<1>2. CASE Write
  <2>1. CASE \E x \in Event : db' = [db EXCEPT !["events"] = @ \cup {x}]
    BY <1>a, <2>1 DEF Db
  <2>2. ASSUME NEW n \in RelRun,
               db' = [db EXCEPT !["relevance_runs"] = @ \cup {n},
                                !["relevance_artifacts"] = @ \cup {[parent |-> n, tagged |-> TRUE]}]
        PROVE  a.parent \in db'["relevance_runs"]
    <3>1. /\ db'["relevance_runs"] = db["relevance_runs"] \cup {n}
          /\ db'["relevance_artifacts"] =
               db["relevance_artifacts"] \cup {[parent |-> n, tagged |-> TRUE]}
      BY <1>a, <2>2 DEF Db
    <3>2. a \in db["relevance_artifacts"]
      BY <3>1
    <3>3. QED BY <1>a, <3>1, <3>2
  <2>3. QED BY <1>2, <2>1, <2>2 DEF Write
<1>3. ASSUME NEW e \in Run, Deletes(e) PROVE a.parent \in db'["relevance_runs"]
  <2>1. PICK ids \in SUBSET Match(e, Current(e)) : db' = [db EXCEPT ![Current(e)] = @ \ ids]
    BY <1>3 DEF Deletes
  <2>2. /\ att[e].pc = "sweep" /\ Owner(e) /\ Sweeping(e) /\ att[e].at \in 1..4
        /\ Current(e) \in Coll
        /\ db'[Current(e)] = db[Current(e)] \ ids
        /\ \A d \in Coll \ {Current(e)} : db'[d] = db[d]
    BY <1>3, <2>1, BatchType DEF Deletes, Sweeping, IInv, Ahead
  <2>3. a \in db["relevance_artifacts"]
    BY <2>2, Order
  <2>4. CASE Current(e) # "relevance_runs"
    BY <1>a, <2>2, <2>3, <2>4, Order
  <2>5. CASE Current(e) = "relevance_runs"
    <3>1. att[e].at = 3
      BY <2>2, <2>5, Order DEF Current
    <3>2. ~ Retain(e) /\ ~ att[e].unresolved
      BY <2>2, <3>1 DEF IInv, Ahead, Retain, RetainWhen
    <3>3. Match(e, "relevance_artifacts") = {} /\ db["relevance_runs"] \subseteq att[e].ids
      BY <2>2, <3>1, <3>2 DEF IInv, Behind, Collected
    <3>4. a \in Match(e, "relevance_artifacts")
      BY <1>a, <2>3, <3>3 DEF Match
    <3>5. QED BY <3>3, <3>4
  <2>6. QED BY <2>4, <2>5
<1>4. ASSUME NEW e \in Run, NEW status \in {"complete", "partial"}, db' = Record(e, status)
      PROVE  a.parent \in db'["relevance_runs"]
  BY <1>4, <1>a, RecordType, Order
<1>5. QED BY <1>1, <1>2, <1>3, <1>4, DbChange DEF FinalizeCommits

\* The finalization counts the old audits as residue and leaves its own.
LEMMA AuditTrailStep == IInv /\ [Next]_vars => AuditTrailAgrees'
<1> SUFFICES ASSUME IInv, [Next]_vars, ~ IsErasing(gate'), gate'.epoch > 0
             PROVE  \E e \in Run : db'["memory_mutations"] =
                      {[run |-> e, epoch |-> gate'.epoch, status |-> "complete"]}
  BY DEF AuditTrailAgrees
<1>a. /\ gate \in Gate /\ WellFormed(gate) /\ db \in Db /\ AuditTrailAgrees
  BY DEF IInv, Types
<1>1. CASE gate' = gate /\ db'["memory_mutations"] = db["memory_mutations"]
  BY <1>1, <1>a DEF AuditTrailAgrees
<1>2. ASSUME NEW e \in Run, FinalizeCommits(e)
      PROVE  db'["memory_mutations"] =
               {[run |-> e, epoch |-> gate'.epoch, status |-> "complete"]}
  <2>1. db["memory_mutations"] = {}
    BY <1>2, Order DEF FinalizeCommits, Residual, Targets, Match
  <2>2. gate'.epoch = gate.epoch /\ gate.epoch = att[e].epoch
    BY <1>2, <1>a DEF FinalizeCommits, Owner, OwnershipMatches, Erasure, Reopened, Gate
  <2>3. QED BY <1>2, <2>1, <2>2, RecordType DEF FinalizeCommits
<1>3. ASSUME NEW e \in Run, Attempt(e), gate' = gate PROVE db' = db
  BY <1>3, OwnersChange DEF Owner, OwnershipMatches, FinalizeCommits
<1>4. ASSUME NEW e \in Run, Attempt(e), gate' # gate PROVE FinalizeCommits(e)
  BY <1>4, OwnersChange
<1>5. CASE Write
  <2>1. Exists(gate)
    BY <1>5, <1>a DEF Write, Captured, OpenGate
  <2>2. gate' = gate
    BY <1>5, <2>1 DEF Write, Captured
  <2>3. db'["memory_mutations"] = db["memory_mutations"]
    BY <1>5, <1>a DEF Write, Db
  <2>4. QED BY <1>1, <2>2, <2>3
<1>6. CASE WriteMarker \/ MigrateSinks \/ UNCHANGED vars
  BY <1>1, <1>6 DEF WriteMarker, MigrateSinks, vars
<1>7. QED BY <1>1, <1>2, <1>3, <1>4, <1>5, <1>6 DEF Next
\* The invariant holds initially.
LEMMA InitIInv == Init => IInv
<1> SUFFICES ASSUME Init PROVE IInv
  OBVIOUS
<1>1. \A e \in Run : att[e] = NewAttempt
  BY DEF Init
<1>2. Types
  <2>1. gate \in Gate /\ WellFormed(gate)
    BY DEF Init, AbsentGate, OpenGate, Gate, WellFormed, IsErasing, Exists
  <2>2. db \in Db
    BY DEF Init, Db
  <2>3. att \in [Run -> AttemptState]
    BY NewType DEF Init
  <2>4. QED BY <2>1, <2>2, <2>3 DEF Init, Types
<1>3. Collected /\ Behind /\ Ahead /\ Migrated
  BY <1>1 DEF Collected, Behind, Ahead, Migrated, Sweeping, NewAttempt
<1>4. NoOrphanArtifacts
  BY DEF Init, NoOrphanArtifacts
<1>5. AuditTrailAgrees
  BY DEF Init, AuditTrailAgrees, AbsentGate, OpenGate
<1>6. QED BY <1>2, <1>3, <1>4, <1>5 DEF IInv
-----------------------------------------------------------------------------
(***************************************************************************)
(* The theorems.                                                           *)
(***************************************************************************)
\* The types, what an owner knows about the data, the orphans and the audit trail hold
\* in every state.
THEOREM Invariance == Spec => []IInv
<1>1. IInv /\ [Next]_vars => IInv'
  BY TypesStep, CollectedStep, BehindStep, AheadStep, MigratedStep, NoOrphanArtifactsStep,
     AuditTrailStep DEF IInv
<1>2. QED BY InitIInv, <1>1, PTL DEF Spec

\* However attempts fail, crash and take over, no sweep deletes a relevance run whose
\* untagged artifacts are still stored.
THEOREM OrphanSafety == Spec => []NoOrphanArtifacts
<1>1. IInv => NoOrphanArtifacts
  BY DEF IInv
<1>2. QED BY Invariance, <1>1, PTL

\* A gate that is open again has exactly the complete audit record of its epoch.
THEOREM AuditTrail == Spec => []AuditTrailAgrees
<1>1. IInv => AuditTrailAgrees
  BY DEF IInv
<1>2. QED BY Invariance, <1>1, PTL

\* A receipt of deleteAllForAgent is true, of the data and of the gate, when it is given.
THEOREM ReceiptHonesty == Spec => ReceiptsTrue
<1> DEFINE Honest == \A e \in Run : NewReceipt(e) => CompleteMeansErased(e) /\ GateStateHonest(e)
<1>1. IInv /\ [Next]_vars => Honest
  <2> SUFFICES ASSUME IInv, [Next]_vars, NEW e \in Run, NewReceipt(e)
               PROVE  CompleteMeansErased(e) /\ GateStateHonest(e)
    OBVIOUS
  <2>a. Types /\ att \in [Run -> AttemptState] /\ db \in Db /\ gate \in Gate
    BY DEF IInv, Types
  <2>1. Attempt(e)
    <3>1. att'[e] # att[e]
      BY DEF NewReceipt
    <3>2. \A f \in Run : Attempt(f) => f = e
      BY <2>a, <3>1, Local
    <3>3. QED BY <3>1, <3>2 DEF Next, Write, WriteMarker, MigrateSinks, vars
  <2>2. CASE Finalize(e)
    <3>1. /\ att'[e].receipt = Receipt("complete", "open", "none")
          /\ FinalizeCommits(e) /\ att[e].pc = "finalize"
      BY <2>a, <2>2, ReturnType DEF Finalize
    <3>2. ~ Retain(e)
      BY <3>1 DEF IInv, Ahead
    <3>3. \A c \in Coll : Match(e, c) = {}
      BY <3>1, <3>2 DEF FinalizeCommits, Residual, Targets
    <3>4. /\ db["events"] = {} /\ db["relevance_runs"] = {} /\ db["memory_mutations"] = {}
      BY <3>3, Order DEF Match
    <3>5. db["relevance_artifacts"] = {}
      <4>1. SUFFICES ASSUME NEW a \in db["relevance_artifacts"] PROVE FALSE
        OBVIOUS
      <4>2. a.tagged \/ a.parent \in db["relevance_runs"]
        BY DEF IInv, NoOrphanArtifacts
      <4>3. a \in Match(e, "relevance_artifacts")
        BY <3>4, <4>2 DEF Match
      <4>4. QED BY <3>3, <4>3, Order
    <3>6. /\ \A c \in Coll \ {"memory_mutations"} : db'[c] = {}
          /\ db'["memory_mutations"] = {[run |-> e, epoch |-> att[e].epoch, status |-> "complete"]}
      <4>1. db' = Record(e, "complete")
        BY <3>1 DEF FinalizeCommits
      <4>2. db'["memory_mutations"] = {[run |-> e, epoch |-> att[e].epoch, status |-> "complete"]}
        BY <3>4, <4>1, RecordType
      <4>3. \A c \in Coll \ {"memory_mutations"} : db'[c] = db[c]
        BY <4>1, RecordType
      <4>4. QED BY <3>4, <3>5, <4>2, <4>3, Order
    <3>7. CompleteMeansErased(e)
      BY <3>1, <3>6 DEF CompleteMeansErased, FinalizeCommits
    <3>8. IsOpen(gate') /\ gate'.epoch = att[e].epoch
      BY <2>a, <3>1
         DEF FinalizeCommits, Reopened, Owner, OwnershipMatches, Erasure, IsOpen, Gate
    <3>9. QED BY <3>1, <3>7, <3>8 DEF GateStateHonest, Receipt
  <2>3. CASE PartialAudit(e)
    <3>1. /\ att'[e].receipt = Receipt("partial", "erasing", "none")
          /\ Owner(e) /\ gate' = gate
      BY <2>a, <2>3, ReturnType DEF PartialAudit
    <3>2. QED BY <3>1 DEF CompleteMeansErased, GateStateHonest, Receipt
  <2>4. CASE \/ EntryConflict(e) \/ EntryFails(e) \/ SweepLost(e) \/ FinalizeLost(e)
             \/ FinalizeAmbiguous(e) \/ PartialAuditLost(e) \/ PartialAuditFails(e)
    <3>1. PICK status \in {"partial", "conflict"},
               why \in {"gate", "epochError", "ownershipLost", "indeterminate", "auditError"} :
            Return(e, status, "omitted", why)
      BY <2>4 DEF EntryConflict, EntryFails, SweepLost, FinalizeLost, FinalizeAmbiguous,
                  PartialAuditLost, PartialAuditFails
    <3>2. att'[e].receipt = Receipt(status, "omitted", why)
      BY <2>a, <3>1, ReturnType
    <3>3. QED BY <3>2 DEF CompleteMeansErased, GateStateHonest, Receipt
  <2>5. CASE \/ Begin(e) \/ Recover(e) \/ CheckSinks(e) \/ CollectRunIds(e) \/ SweepBatch(e)
             \/ SweepDone(e) \/ SweepFails(e) \/ Verify(e) \/ FinalizeFails(e) \/ Crash(e)
    <3>1. att'[e].receipt \in {att[e].receipt, NoReceipt}
      <4>1. CASE Begin(e) \/ Recover(e)
        <5>1. PICK n : att'[e] = [att[e] EXCEPT !.pc = "sinks", !.epoch = n]
          BY <2>a, <4>1 DEF Begin, Recover, Set
        <5>2. QED BY <2>a, <5>1 DEF AttemptState
      <4>2. CASE CheckSinks(e)
        <5>1. \/ att'[e] = [att[e] EXCEPT !.pc = "collect"]
              \/ att'[e] = [att[e] EXCEPT !.pc = "partialAudit", !.failed = {"sinks"}]
          BY <2>a, <4>2 DEF CheckSinks, Set
        <5>2. QED BY <2>a, <5>1 DEF AttemptState
      <4>3. CASE CollectRunIds(e)
        BY <2>a, <4>3 DEF CollectRunIds, Set, AttemptState
      <4>4. CASE SweepBatch(e)
        BY <4>4 DEF SweepBatch
      <4>5. CASE SweepDone(e) \/ SweepFails(e)
        <5>1. att[e].pc = "sweep" /\ Current(e) \in Coll
          BY <4>5, Order DEF SweepDone, SweepFails, Current, IInv, Ahead
        <5>2. QED BY <4>5, <5>1, AdvanceStep DEF SweepDone, SweepFails
      <4>6. CASE Verify(e)
        BY <2>a, <4>6 DEF Verify, Set, AttemptState
      <4>7. CASE FinalizeFails(e)
        BY <2>a, <4>7 DEF FinalizeFails, Set, AttemptState
      <4>8. CASE Crash(e)
        BY <2>a, <4>8 DEF Crash, Set, NewAttempt
      <4>9. QED BY <2>5, <4>1, <4>2, <4>3, <4>4, <4>5, <4>6, <4>7, <4>8
    <3>2. QED BY <3>1 DEF NewReceipt
  <2>6. QED BY <2>1, <2>2, <2>3, <2>4, <2>5 DEF Attempt
<1>2. IInv /\ [Next]_vars => [Honest]_vars
  BY <1>1
<1>3. QED BY Invariance, <1>2, PTL DEF Spec, ReceiptsTrue

\* While a time-series sink is retained no attempt removes any data.
THEOREM FailClosed == Spec => FailClosedDeletesNothing
<1> DEFINE Closed == \A c \in Coll : db[c] \ db'[c] # {} => ~ timeseries
<1>1. IInv /\ [Next]_vars => Closed
  <2> SUFFICES ASSUME IInv, [Next]_vars, NEW c \in Coll, db[c] \ db'[c] # {}
               PROVE  ~ timeseries
    OBVIOUS
  <2>a. db \in Db
    BY DEF IInv, Types
  <2>1. ~ Write
    <3>1. SUFFICES ASSUME Write PROVE FALSE
      OBVIOUS
    <3>2. CASE \E x \in Event : db' = [db EXCEPT !["events"] = @ \cup {x}]
      BY <2>a, <3>2, Order DEF Db
    <3>3. ASSUME NEW n \in RelRun,
                 db' = [db EXCEPT !["relevance_runs"] = @ \cup {n},
                                  !["relevance_artifacts"] = @ \cup {[parent |-> n, tagged |-> TRUE]}]
          PROVE  FALSE
      <4>1. /\ db'["relevance_runs"] = db["relevance_runs"] \cup {n}
            /\ db'["relevance_artifacts"] =
                 db["relevance_artifacts"] \cup {[parent |-> n, tagged |-> TRUE]}
            /\ db'["events"] = db["events"] /\ db'["memory_mutations"] = db["memory_mutations"]
        BY <2>a, <3>3 DEF Db
      <4>2. QED BY <4>1, Order
    <3>4. QED BY <3>1, <3>2, <3>3 DEF Write
  <2>2. ASSUME NEW e \in Run, NEW status \in {"complete", "partial"}, db' = Record(e, status)
        PROVE  FALSE
    BY <2>2, RecordType, Order
  <2>3. PICK e \in Run : Deletes(e)
    BY <2>1, <2>2, DbChange DEF FinalizeCommits
  <2>4. QED BY <2>3 DEF Deletes, Sweeping, IInv, Migrated
<1>2. IInv /\ [Next]_vars => [Closed]_vars
  BY <1>1
<1>3. QED BY Invariance, <1>2, PTL DEF Spec, FailClosedDeletesNothing
=============================================================================
