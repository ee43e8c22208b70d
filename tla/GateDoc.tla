------------------------------ MODULE GateDoc ------------------------------
(***************************************************************************)
(* The erasure gate of one agent: the document                             *)
(* "tenant-erasure-epoch:<agentId>" of the meta collection, as             *)
(* mongodb-erasure-epoch.ts parses it and as it and mongodb-write-fence.ts *)
(* rewrite it.  Everything here is a function of a gate value; the modules *)
(* that EXTEND this one decide when a value is read and when it is stored. *)
(***************************************************************************)
EXTENDS Integers

CONSTANTS
  Run,     \* run ids: every beginErasure/takeoverErasure call draws a fresh one
  NoRun,   \* an open gate carries no erase record
  MaxEpoch \* bound on erasures

ASSUME NoRunAssumption == NoRun \notin Run
ASSUME EpochBoundAssumption == MaxEpoch \in Nat

VARIABLE gate  \* the stored gate document of the agent

\* The stored document.  "absent" is a missing document, "legacy" one written
\* before the state field existed; a missing serial is stored as 0, the value
\* the parser gives it.
Gate == [state  : {"absent", "legacy", "open", "erasing"},
         epoch  : Nat,
         serial : Nat,
         runId  : Run \cup {NoRun}]

AbsentGate == [state |-> "absent", epoch |-> 0, serial |-> 0, runId |-> NoRun]

OpenGate(e) == [state |-> "open", epoch |-> e, serial |-> 0, runId |-> NoRun]

LegacyGate(e) == [OpenGate(e) EXCEPT !.state = "legacy"]

\* parseErasureGateDoc: a document without a state is open; an erasing one must
\* name its run and an open one must not, otherwise MalformedGateError is thrown.
Exists(g) == g.state # "absent"

IsOpen(g) == g.state \in {"legacy", "open"}

IsErasing(g) == g.state = "erasing"

WellFormed(g) ==
  /\ IsErasing(g) => g.runId \in Run
  /\ ~ IsErasing(g) => g.runId = NoRun
  /\ ~ Exists(g) => g = AbsentGate

-----------------------------------------------------------------------------
(***************************************************************************)
(* Tokens.  An admission token carries the epoch the work was admitted in, *)
(* an erasure token the epoch and the run id of the erasing run.           *)
(***************************************************************************)
AdmissionToken == [kind : {"admission"}, epoch : Nat, runId : {NoRun}]

ErasureToken == [kind : {"erasure"}, epoch : Nat, runId : Run]

Admission(e) == [kind |-> "admission", epoch |-> e, runId |-> NoRun]

Erasure(e, r) == [kind |-> "erasure", epoch |-> e, runId |-> r]

\* Defective variant, referred to by PROJECT.json: the filter forgets the epoch.
AdmissionMatchesAnyEpoch(g, tok) == IsOpen(g)

\* admissionGateFilter
AdmissionMatches(g, tok) == IsOpen(g) /\ g.epoch = tok.epoch

\* erasureOwnershipGateFilter
OwnershipMatches(g, tok) ==
  IsErasing(g) /\ g.epoch = tok.epoch /\ g.runId = tok.runId

\* The check applyGateFence makes on the gate it read inside the transaction.
FenceAccepts(g, tok) ==
  IF tok.kind = "admission" THEN AdmissionMatches(g, tok)
                            ELSE OwnershipMatches(g, tok)

-----------------------------------------------------------------------------
(***************************************************************************)
(* The writes.                                                             *)
(***************************************************************************)
\* Defective variants: the fence does not write the gate, a takeover does not
\* count.
FencedWithoutWrite(g) == g

TakenOverSameSerial(g, r) == [g EXCEPT !.runId = r]

\* captureAdmissionToken: the upsert's $setOnInsert.
Captured(g) == IF Exists(g) THEN g ELSE OpenGate(0)

\* applyGateFence: { $inc: { serial: 1 } }.  It is what makes two fenced
\* transactions, or a fenced one and an erasure, conflict on this document.
Fenced(g) == [g EXCEPT !.serial = @ + 1]

\* beginErasure: { $inc: { epoch: 1 }, $set: { state, erase } }, upserted when
\* the document is absent.
Begun(g, r) ==
  [state |-> "erasing", epoch |-> g.epoch + 1, serial |-> g.serial, runId |-> r]

\* takeoverErasure: { $set: { erase }, $inc: { serial: 1 } }.
TakenOver(g, r) ==
  [state |-> g.state, epoch |-> g.epoch, serial |-> g.serial + 1, runId |-> r]

\* finalizeErasure: { $set: { state: "open" }, $unset: { erase } }.
Reopened(g) == [g EXCEPT !.state = "open", !.runId = NoRun]
=============================================================================
