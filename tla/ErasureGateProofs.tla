------------------------- MODULE ErasureGateProofs -------------------------
(***************************************************************************)
(* ErasureGate for any writers, any runs and any bounds: the type          *)
(* invariant, NoStaleData, OneCompletionPerEpoch, the action properties    *)
(* and the refinement of AtomicErasure.                                    *)
(*                                                                         *)
(* NoStaleData is not inductive: a transaction in flight decides it later. *)
(* InFlight says what every open transaction will store as a function of   *)
(* its snapshot, so that "the gate still equals the snapshot" (the commit  *)
(* condition) says everything about the step; Counted says the recount a   *)
(* finalization made is still true if the gate has not moved, which holds  *)
(* because every other change of docs moves the serial; Completed places a *)
(* completed run's epoch behind the gate.                                  *)
(***************************************************************************)
EXTENDS ErasureGate, TLAPS

ActorPc ==
  /\ \A w \in Writer : pc[w] \in WriterPc
  /\ \A r \in Run : pc[r] \in RunPc

Owned == {"sweeping", "batch", "deleting", "counted", "finalizing", "complete"}

Tokens ==
  /\ \A w \in Writer : tok[w] \in AdmissionToken
  /\ \A r \in Run : pc[r] \in Owned => tok[r].kind = "erasure" /\ tok[r].runId = r

InFlight ==
  /\ \A w \in Writer : pc[w] = "writing" =>
       /\ AdmissionMatches(txn[w].snap, tok[w])
       /\ txn[w].put = Fenced(txn[w].snap)
       /\ txn[w].add = {[by |-> w, epoch |-> tok[w].epoch]}
       /\ txn[w].del = {}
  /\ \A r \in Run : pc[r] = "beginning" =>
       /\ ~ IsErasing(txn[r].snap)
       /\ txn[r].put = Begun(txn[r].snap, r)
       /\ txn[r].add = {} /\ txn[r].del = {}
  /\ \A r \in Run : pc[r] = "deleting" =>
       /\ OwnershipMatches(txn[r].snap, tok[r])
       /\ txn[r].put = Fenced(txn[r].snap)
       /\ txn[r].add = {}
  /\ \A r \in Run : pc[r] = "finalizing" =>
       /\ OwnershipMatches(txn[r].snap, tok[r])
       /\ txn[r].put = Reopened(txn[r].snap)
       /\ txn[r].add = {} /\ txn[r].del = {}

Counted ==
  \A r \in Run : pc[r] = "finalizing" =>
    /\ txn[r].snap.serial <= gate.serial
    /\ gate = txn[r].snap => docs = {}

Completed ==
  \A r \in Run : pc[r] = "complete" =>
    \/ tok[r].epoch < gate.epoch
    \/ tok[r].epoch = gate.epoch /\ ~ IsErasing(gate)

IInv ==
  /\ TypeOK /\ ActorPc /\ Tokens /\ InFlight
  /\ NoStaleData /\ Counted /\ Completed /\ OneCompletionPerEpoch
-----------------------------------------------------------------------------
(***************************************************************************)
(* The gate's writes produce well-formed gates of the expected kind.       *)
(***************************************************************************)
\* What the fence stores: the same gate with the next serial.
LEMMA FencedFields ==
  ASSUME NEW g \in Gate
  PROVE  /\ Fenced(g) \in Gate /\ Fenced(g).serial = g.serial + 1
         /\ Fenced(g).state = g.state /\ Fenced(g).epoch = g.epoch
         /\ Fenced(g).runId = g.runId
BY DEF Fenced, Gate

\* What beginErasure stores: an erasing gate of the next epoch, owned by the run.
LEMMA BegunFields ==
  ASSUME NEW g \in Gate, NEW r \in Run
  PROVE  /\ Begun(g, r) \in Gate /\ Begun(g, r).epoch = g.epoch + 1
         /\ Begun(g, r).state = "erasing" /\ Begun(g, r).serial = g.serial
         /\ Begun(g, r).runId = r
BY DEF Begun, Gate

\* What takeoverErasure stores: the same erasure under a new owner.
LEMMA TakenOverFields ==
  ASSUME NEW g \in Gate, NEW r \in Run
  PROVE  /\ TakenOver(g, r) \in Gate /\ TakenOver(g, r).serial = g.serial + 1
         /\ TakenOver(g, r).state = g.state /\ TakenOver(g, r).epoch = g.epoch
         /\ TakenOver(g, r).runId = r
BY DEF TakenOver, Gate

\* What finalizeErasure stores: an open gate of the same epoch and serial.
LEMMA ReopenedFields ==
  ASSUME NEW g \in Gate
  PROVE  /\ Reopened(g) \in Gate /\ Reopened(g).state = "open"
         /\ Reopened(g).epoch = g.epoch /\ Reopened(g).serial = g.serial
         /\ Reopened(g).runId = NoRun
BY DEF Reopened, Gate

\* capture leaves an existing gate alone and creates an open one of the same epoch.
LEMMA CapturedFields ==
  ASSUME NEW g \in Gate, WellFormed(g), ~ IsErasing(g)
  PROVE  /\ Captured(g) \in Gate /\ WellFormed(Captured(g))
         /\ Captured(g).epoch = g.epoch /\ Captured(g).serial = g.serial
         /\ ~ IsErasing(Captured(g))
BY NoRunAssumption
   DEF Captured, OpenGate, AbsentGate, Gate, WellFormed, Exists, IsErasing

\* Every initial state satisfies the inductive invariant.
LEMMA InitIInv == Init => IInv
<1> SUFFICES ASSUME Init PROVE IInv
  OBVIOUS
<1>1. gate \in Gate /\ WellFormed(gate) /\ ~ IsErasing(gate)
  <2>1. CASE gate = AbsentGate
    BY <2>1 DEF Gate, WellFormed, AbsentGate, IsErasing, Exists
  <2>2. CASE \E e \in 0..MaxEpoch : gate = OpenGate(e)
    BY <2>2, BoundsAssumption DEF Gate, WellFormed, OpenGate, IsErasing, Exists
  <2>3. CASE \E e \in 0..MaxEpoch : gate = LegacyGate(e)
    BY <2>3, BoundsAssumption
       DEF Gate, WellFormed, OpenGate, LegacyGate, IsErasing, Exists
  <2>4. QED BY <2>1, <2>2, <2>3 DEF Init
<1>2. docs \subseteq Doc /\ NoStaleData
  BY <1>1 DEF Init, Doc, NoStaleData, Gate
<1>3. /\ pc \in [Actor -> WriterPc \cup RunPc]
      /\ \A w \in Writer : pc[w] = "idle"
      /\ \A r \in Run : pc[r] = "new"
  BY WriterRunAssumption DEF Init, Actor, WriterPc, RunPc
<1>4. /\ tok \in [Actor -> AdmissionToken \cup ErasureToken]
      /\ \A w \in Writer : tok[w] \in AdmissionToken
  BY DEF Init, Actor, NoToken, Admission, AdmissionToken
<1>5. found \in [Run -> SUBSET Doc] /\ txn \in [Actor -> Txn]
  BY DEF Init, Txn, IdleTxn, Gate, AbsentGate
<1>6. QED
  BY <1>1, <1>2, <1>3, <1>4, <1>5
     DEF IInv, TypeOK, ActorPc, Tokens, InFlight, Counted, Completed,
         OneCompletionPerEpoch, WriterPc, RunPc, Owned
-----------------------------------------------------------------------------
(***************************************************************************)
(* Every step preserves the inductive invariant.                           *)
(***************************************************************************)
\* A commit happens on the gate the transaction read: each kind of transaction
\* writes the gate, so the server compares it with the snapshot.
LEMMA CommitOnSnapshot ==
  ASSUME IInv, NEW a \in Actor, Committable(a),
         \/ a \in Writer /\ pc[a] = "writing"
         \/ a \in Run /\ pc[a] \in {"beginning", "deleting", "finalizing"}
  PROVE  gate = txn[a].snap /\ txn[a].put # txn[a].snap /\ txn[a].snap \in Gate
<1>1. txn[a].snap \in Gate
  BY DEF IInv, TypeOK, Txn
<1>2. CASE a \in Writer /\ pc[a] = "writing"
  <2>1. txn[a].put.serial # txn[a].snap.serial
    <3>1. txn[a].put = Fenced(txn[a].snap)
      BY <1>2 DEF IInv, InFlight
    <3>2. QED BY <1>1, <3>1 DEF Fenced, Gate
  <2>2. QED BY <1>1, <2>1 DEF Committable
<1>3. CASE a \in Run /\ pc[a] = "beginning"
  <2>1. txn[a].put.epoch # txn[a].snap.epoch
    <3>1. txn[a].put = Begun(txn[a].snap, a)
      BY <1>3 DEF IInv, InFlight
    <3>2. QED BY <1>1, <3>1 DEF Begun, Gate
  <2>2. QED BY <1>1, <2>1 DEF Committable
<1>4. CASE a \in Run /\ pc[a] = "deleting"
  <2>1. txn[a].put.serial # txn[a].snap.serial
    <3>1. txn[a].put = Fenced(txn[a].snap)
      BY <1>4 DEF IInv, InFlight
    <3>2. QED BY <1>1, <3>1 DEF Fenced, Gate
  <2>2. QED BY <1>1, <2>1 DEF Committable
<1>5. CASE a \in Run /\ pc[a] = "finalizing"
  <2>1. txn[a].put.state # txn[a].snap.state
    BY <1>1, <1>5 DEF IInv, InFlight, Reopened, OwnershipMatches, IsErasing, Gate
  <2>2. QED BY <1>1, <2>1 DEF Committable
<1>6. QED BY <1>2, <1>3, <1>4, <1>5

\* Every actor stays within its own control points.
LEMMA PcStep == IInv /\ [Next]_vars => ActorPc'
<1> SUFFICES ASSUME IInv, [Next]_vars PROVE ActorPc'
  OBVIOUS
<1>1. ASSUME NEW w \in Writer, Capture(w) PROVE ActorPc'
  BY <1>1, WriterRunAssumption DEF Capture, GoTo, IInv, TypeOK, ActorPc, Actor, WriterPc, RunPc
<1>2. ASSUME NEW w \in Writer, BeginWrite(w) PROVE ActorPc'
  BY <1>2, WriterRunAssumption DEF BeginWrite, GoTo, IInv, TypeOK, ActorPc, Actor, WriterPc,
     RunPc
<1>3. ASSUME NEW w \in Writer, RejectWrite(w) PROVE ActorPc'
  BY <1>3, WriterRunAssumption DEF RejectWrite, GoTo, IInv, TypeOK, ActorPc, Actor, WriterPc,
     RunPc
<1>4. ASSUME NEW w \in Writer, CommitWrite(w) PROVE ActorPc'
  BY <1>4, WriterRunAssumption DEF CommitWrite, GoTo, IInv, TypeOK, ActorPc, Actor, WriterPc,
     RunPc
<1>5. ASSUME NEW w \in Writer, AbortWrite(w) PROVE ActorPc'
  BY <1>5, WriterRunAssumption DEF AbortWrite, GoTo, IInv, TypeOK, ActorPc, Actor, WriterPc,
     RunPc
<1>6. ASSUME NEW w \in Writer, EndWork(w) PROVE ActorPc'
  BY <1>6, WriterRunAssumption DEF EndWork, GoTo, IInv, TypeOK, ActorPc, Actor, WriterPc, RunPc
<1>7. ASSUME NEW r \in Run, BeginErasure(r) PROVE ActorPc'
  BY <1>7, WriterRunAssumption DEF BeginErasure, GoTo, IInv, TypeOK, ActorPc, Actor, WriterPc,
     RunPc
<1>8. ASSUME NEW r \in Run, CommitBegin(r) PROVE ActorPc'
  BY <1>8, WriterRunAssumption DEF CommitBegin, GoTo, IInv, TypeOK, ActorPc, Actor, WriterPc,
     RunPc
<1>9. ASSUME NEW r \in Run, RetryBegin(r) PROVE ActorPc'
  BY <1>9, WriterRunAssumption DEF RetryBegin, GoTo, IInv, TypeOK, ActorPc, Actor, WriterPc,
     RunPc
<1>10. ASSUME NEW r \in Run, TakeoverRead(r) PROVE ActorPc'
  BY <1>10, WriterRunAssumption DEF TakeoverRead, GoTo, IInv, TypeOK, ActorPc, Actor, WriterPc,
     RunPc
<1>11. ASSUME NEW r \in Run, Takeover(r) PROVE ActorPc'
  BY <1>11, WriterRunAssumption DEF Takeover, GoTo, IInv, TypeOK, ActorPc, Actor, WriterPc,
     RunPc
<1>12. ASSUME NEW r \in Run, TakeoverLost(r) PROVE ActorPc'
  BY <1>12, WriterRunAssumption DEF TakeoverLost, GoTo, IInv, TypeOK, ActorPc, Actor, WriterPc,
     RunPc
<1>13. ASSUME NEW r \in Run, FindBatch(r) PROVE ActorPc'
  BY <1>13, WriterRunAssumption DEF FindBatch, GoTo, IInv, TypeOK, ActorPc, Actor, WriterPc,
     RunPc
<1>14. ASSUME NEW r \in Run, BeginDelete(r) PROVE ActorPc'
  BY <1>14, WriterRunAssumption DEF BeginDelete, GoTo, IInv, TypeOK, ActorPc, Actor, WriterPc,
     RunPc
<1>15. ASSUME NEW r \in Run, CommitDelete(r) PROVE ActorPc'
  BY <1>15, WriterRunAssumption DEF CommitDelete, GoTo, IInv, TypeOK, ActorPc, Actor, WriterPc,
     RunPc
<1>16. ASSUME NEW r \in Run, RetryDelete(r) PROVE ActorPc'
  BY <1>16, WriterRunAssumption DEF RetryDelete, GoTo, IInv, TypeOK, ActorPc, Actor, WriterPc,
     RunPc
<1>17. ASSUME NEW r \in Run, Count(r) PROVE ActorPc'
  BY <1>17, WriterRunAssumption DEF Count, GoTo, IInv, TypeOK, ActorPc, Actor, WriterPc, RunPc
<1>18. ASSUME NEW r \in Run, BeginFinalize(r) PROVE ActorPc'
  BY <1>18, WriterRunAssumption DEF BeginFinalize, GoTo, IInv, TypeOK, ActorPc, Actor, WriterPc,
     RunPc
<1>19. ASSUME NEW r \in Run, CommitFinalize(r) PROVE ActorPc'
  BY <1>19, WriterRunAssumption DEF CommitFinalize, GoTo, IInv, TypeOK, ActorPc, Actor,
     WriterPc, RunPc
<1>20. ASSUME NEW r \in Run, RetryFinalize(r) PROVE ActorPc'
  BY <1>20, WriterRunAssumption DEF RetryFinalize, GoTo, IInv, TypeOK, ActorPc, Actor, WriterPc,
     RunPc
<1>21. ASSUME NEW r \in Run, LoseOwnership(r) PROVE ActorPc'
  BY <1>21, WriterRunAssumption DEF LoseOwnership, GoTo, IInv, TypeOK, ActorPc, Actor, WriterPc,
     RunPc
<1>22. ASSUME NEW r \in Run, Fail(r) PROVE ActorPc'
  BY <1>22, WriterRunAssumption DEF Fail, GoTo, IInv, TypeOK, ActorPc, Actor, WriterPc, RunPc
<1>23. CASE UNCHANGED vars
  BY <1>23 DEF IInv, ActorPc, vars
<1>24. QED
  BY <1>1, <1>2, <1>3, <1>4, <1>5, <1>6, <1>7, <1>8, <1>9, <1>10, <1>11, <1>12, <1>13, <1>14,
     <1>15, <1>16, <1>17, <1>18, <1>19, <1>20, <1>21, <1>22, <1>23
     DEF Next, WriterNext, RunNext, RunStep

\* A writer only ever holds an admission token, an owning run the token of its own run id.
LEMMA TokensStep == IInv /\ [Next]_vars => Tokens'
<1> SUFFICES ASSUME IInv, [Next]_vars PROVE Tokens'
  OBVIOUS
<1>1. ASSUME NEW w \in Writer, Capture(w) PROVE Tokens'
  BY <1>1, WriterRunAssumption DEF Capture, GoTo, IInv, TypeOK, ActorPc, Tokens, Actor,
     WriterPc, RunPc, Owned, Admission, AdmissionToken, Gate, Captured, OpenGate
<1>2. ASSUME NEW w \in Writer, BeginWrite(w) PROVE Tokens'
  BY <1>2, WriterRunAssumption DEF BeginWrite, GoTo, IInv, TypeOK, ActorPc, Tokens, Actor,
     WriterPc, RunPc, Owned
<1>3. ASSUME NEW w \in Writer, RejectWrite(w) PROVE Tokens'
  BY <1>3, WriterRunAssumption DEF RejectWrite, GoTo, IInv, TypeOK, ActorPc, Tokens, Actor,
     WriterPc, RunPc, Owned, NoToken, Admission, AdmissionToken
<1>4. ASSUME NEW w \in Writer, CommitWrite(w) PROVE Tokens'
  BY <1>4, WriterRunAssumption DEF CommitWrite, GoTo, IInv, TypeOK, ActorPc, Tokens, Actor,
     WriterPc, RunPc, Owned
<1>5. ASSUME NEW w \in Writer, AbortWrite(w) PROVE Tokens'
  BY <1>5, WriterRunAssumption DEF AbortWrite, GoTo, IInv, TypeOK, ActorPc, Tokens, Actor,
     WriterPc, RunPc, Owned
<1>6. ASSUME NEW w \in Writer, EndWork(w) PROVE Tokens'
  BY <1>6, WriterRunAssumption DEF EndWork, GoTo, IInv, TypeOK, ActorPc, Tokens, Actor,
     WriterPc, RunPc, Owned, NoToken, Admission, AdmissionToken
<1>7. ASSUME NEW r \in Run, BeginErasure(r) PROVE Tokens'
  BY <1>7, WriterRunAssumption DEF BeginErasure, GoTo, IInv, TypeOK, ActorPc, Tokens, Actor,
     WriterPc, RunPc, Owned
<1>8. ASSUME NEW r \in Run, CommitBegin(r) PROVE Tokens'
  BY <1>8, WriterRunAssumption DEF CommitBegin, GoTo, IInv, TypeOK, ActorPc, Tokens, Actor,
     WriterPc, RunPc, Owned, Erasure
<1>9. ASSUME NEW r \in Run, RetryBegin(r) PROVE Tokens'
  BY <1>9, WriterRunAssumption DEF RetryBegin, GoTo, IInv, TypeOK, ActorPc, Tokens, Actor,
     WriterPc, RunPc, Owned
<1>10. ASSUME NEW r \in Run, TakeoverRead(r) PROVE Tokens'
  BY <1>10, WriterRunAssumption DEF TakeoverRead, GoTo, IInv, TypeOK, ActorPc, Tokens, Actor,
     WriterPc, RunPc, Owned
<1>11. ASSUME NEW r \in Run, Takeover(r) PROVE Tokens'
  BY <1>11, WriterRunAssumption DEF Takeover, GoTo, IInv, TypeOK, ActorPc, Tokens, Actor,
     WriterPc, RunPc, Owned, Erasure
<1>12. ASSUME NEW r \in Run, TakeoverLost(r) PROVE Tokens'
  BY <1>12, WriterRunAssumption DEF TakeoverLost, GoTo, IInv, TypeOK, ActorPc, Tokens, Actor,
     WriterPc, RunPc, Owned
<1>13. ASSUME NEW r \in Run, FindBatch(r) PROVE Tokens'
  BY <1>13, WriterRunAssumption DEF FindBatch, GoTo, IInv, TypeOK, ActorPc, Tokens, Actor,
     WriterPc, RunPc, Owned
<1>14. ASSUME NEW r \in Run, BeginDelete(r) PROVE Tokens'
  BY <1>14, WriterRunAssumption DEF BeginDelete, GoTo, IInv, TypeOK, ActorPc, Tokens, Actor,
     WriterPc, RunPc, Owned
<1>15. ASSUME NEW r \in Run, CommitDelete(r) PROVE Tokens'
  BY <1>15, WriterRunAssumption DEF CommitDelete, GoTo, IInv, TypeOK, ActorPc, Tokens, Actor,
     WriterPc, RunPc, Owned
<1>16. ASSUME NEW r \in Run, RetryDelete(r) PROVE Tokens'
  BY <1>16, WriterRunAssumption DEF RetryDelete, GoTo, IInv, TypeOK, ActorPc, Tokens, Actor,
     WriterPc, RunPc, Owned
<1>17. ASSUME NEW r \in Run, Count(r) PROVE Tokens'
  BY <1>17, WriterRunAssumption DEF Count, GoTo, IInv, TypeOK, ActorPc, Tokens, Actor, WriterPc,
     RunPc, Owned
<1>18. ASSUME NEW r \in Run, BeginFinalize(r) PROVE Tokens'
  BY <1>18, WriterRunAssumption DEF BeginFinalize, GoTo, IInv, TypeOK, ActorPc, Tokens, Actor,
     WriterPc, RunPc, Owned
<1>19. ASSUME NEW r \in Run, CommitFinalize(r) PROVE Tokens'
  BY <1>19, WriterRunAssumption DEF CommitFinalize, GoTo, IInv, TypeOK, ActorPc, Tokens, Actor,
     WriterPc, RunPc, Owned
<1>20. ASSUME NEW r \in Run, RetryFinalize(r) PROVE Tokens'
  BY <1>20, WriterRunAssumption DEF RetryFinalize, GoTo, IInv, TypeOK, ActorPc, Tokens, Actor,
     WriterPc, RunPc, Owned
<1>21. ASSUME NEW r \in Run, LoseOwnership(r) PROVE Tokens'
  BY <1>21, WriterRunAssumption DEF LoseOwnership, GoTo, IInv, TypeOK, ActorPc, Tokens, Actor,
     WriterPc, RunPc, Owned
<1>22. ASSUME NEW r \in Run, Fail(r) PROVE Tokens'
  BY <1>22, WriterRunAssumption DEF Fail, GoTo, IInv, TypeOK, ActorPc, Tokens, Actor, WriterPc,
     RunPc, Owned
<1>23. CASE UNCHANGED vars
  BY <1>23 DEF IInv, Tokens, vars
<1>24. QED
  BY <1>1, <1>2, <1>3, <1>4, <1>5, <1>6, <1>7, <1>8, <1>9, <1>10, <1>11, <1>12, <1>13, <1>14,
     <1>15, <1>16, <1>17, <1>18, <1>19, <1>20, <1>21, <1>22, <1>23
     DEF Next, WriterNext, RunNext, RunStep

(***************************************************************************)
(* What a step can do to the gate and the data.                            *)
(***************************************************************************)
Quiet == gate' = gate /\ docs' = docs

CaptureEffect == ~ IsErasing(gate) /\ gate' = Captured(gate) /\ docs' = docs

WriteEffect ==
  \E w \in Writer :
    /\ IsOpen(gate) /\ gate' = Fenced(gate)
    /\ docs' = docs \cup {[by |-> w, epoch |-> gate.epoch]}

BeginEffect ==
  \E r \in Run :
    /\ pc[r] = "beginning" /\ ~ IsErasing(gate)
    /\ gate' = Begun(gate, r) /\ docs' = docs

TakeoverEffect ==
  \E r \in Run :
    /\ pc[r] = "takingOver" /\ IsErasing(gate)
    /\ gate' = TakenOver(gate, r) /\ docs' = docs

DeleteEffect ==
  \E r \in Run :
    /\ pc[r] = "deleting" /\ pc'[r] = "sweeping"
    /\ OwnershipMatches(gate, tok[r])
    /\ gate' = Fenced(gate) /\ docs' \subseteq docs

FinalizeEffect ==
  \E r \in Run :
    /\ pc[r] = "finalizing" /\ pc'[r] = "complete"
    /\ OwnershipMatches(gate, tok[r]) /\ tok[r].runId = r
    /\ gate' = Reopened(gate) /\ docs = {} /\ docs' = {}

\* The only ways a step of any actor changes the gate or the tenant's data.
LEMMA StepEffect ==
  IInv /\ [Next]_vars =>
    \/ Quiet \/ CaptureEffect \/ WriteEffect \/ BeginEffect
    \/ TakeoverEffect \/ DeleteEffect \/ FinalizeEffect
<1> DEFINE Goal == \/ Quiet \/ CaptureEffect \/ WriteEffect \/ BeginEffect
                   \/ TakeoverEffect \/ DeleteEffect \/ FinalizeEffect
<1> SUFFICES ASSUME IInv, [Next]_vars PROVE Goal
  OBVIOUS
<1>1. ASSUME NEW w \in Writer, Capture(w) PROVE CaptureEffect
  BY <1>1 DEF Capture, CaptureEffect
<1>2. ASSUME NEW w \in Writer, CommitWrite(w) PROVE WriteEffect
  <2>1. gate = txn[w].snap /\ txn[w].put # txn[w].snap
    BY <1>2, CommitOnSnapshot DEF CommitWrite, Actor
  <2>2. /\ AdmissionMatches(gate, tok[w]) /\ txn[w].put = Fenced(gate)
        /\ txn[w].add = {[by |-> w, epoch |-> tok[w].epoch]} /\ txn[w].del = {}
    BY <1>2, <2>1 DEF CommitWrite, IInv, InFlight
  <2>3. gate' = Fenced(gate) /\ docs' = docs \cup {[by |-> w, epoch |-> gate.epoch]}
    BY <1>2, <2>1, <2>2 DEF CommitWrite, Store, AdmissionMatches
  <2>4. QED BY <2>2, <2>3 DEF WriteEffect, AdmissionMatches
<1>3. ASSUME NEW r \in Run, CommitBegin(r) PROVE BeginEffect
  <2>1. gate = txn[r].snap /\ txn[r].put # txn[r].snap
    BY <1>3, CommitOnSnapshot DEF CommitBegin, Actor
  <2>2. /\ ~ IsErasing(gate) /\ txn[r].put = Begun(gate, r)
        /\ txn[r].add = {} /\ txn[r].del = {}
    BY <1>3, <2>1 DEF CommitBegin, IInv, InFlight
  <2>3. gate' = Begun(gate, r) /\ docs' = docs /\ pc[r] = "beginning"
    BY <1>3, <2>1, <2>2 DEF CommitBegin, Store
  <2>4. QED BY <2>2, <2>3 DEF BeginEffect
<1>4. ASSUME NEW r \in Run, Takeover(r) PROVE TakeoverEffect
  BY <1>4 DEF Takeover, TakeoverMatches, TakeoverEffect
<1>5. ASSUME NEW r \in Run, CommitDelete(r) PROVE DeleteEffect
  <2>1. gate = txn[r].snap /\ txn[r].put # txn[r].snap
    BY <1>5, CommitOnSnapshot DEF CommitDelete, Actor
  <2>2. OwnershipMatches(gate, tok[r]) /\ txn[r].put = Fenced(gate) /\ txn[r].add = {}
    BY <1>5, <2>1 DEF CommitDelete, IInv, InFlight
  <2>3. gate' = Fenced(gate) /\ docs' \subseteq docs
    BY <1>5, <2>1, <2>2 DEF CommitDelete, Store
  <2>4. pc[r] = "deleting" /\ pc'[r] = "sweeping"
    BY <1>5 DEF CommitDelete, GoTo, IInv, TypeOK, Actor
  <2>5. QED BY <2>2, <2>3, <2>4 DEF DeleteEffect
<1>6. ASSUME NEW r \in Run, CommitFinalize(r) PROVE FinalizeEffect
  <2>1. gate = txn[r].snap /\ txn[r].put # txn[r].snap
    BY <1>6, CommitOnSnapshot DEF CommitFinalize, Actor
  <2>2. /\ OwnershipMatches(gate, tok[r]) /\ txn[r].put = Reopened(gate)
        /\ txn[r].add = {} /\ docs = {}
    BY <1>6, <2>1 DEF CommitFinalize, IInv, InFlight, Counted
  <2>3. gate' = Reopened(gate) /\ docs' = {}
    BY <1>6, <2>1, <2>2 DEF CommitFinalize, Store
  <2>4. pc[r] = "finalizing" /\ pc'[r] = "complete" /\ tok[r].runId = r
    BY <1>6 DEF CommitFinalize, GoTo, IInv, TypeOK, Actor, Tokens, Owned
  <2>5. QED BY <2>2, <2>3, <2>4 DEF FinalizeEffect
<1>7. ASSUME NEW w \in Writer,
             BeginWrite(w) \/ RejectWrite(w) \/ AbortWrite(w) \/ EndWork(w)
      PROVE  Quiet
  BY <1>7 DEF BeginWrite, RejectWrite, AbortWrite, EndWork, Quiet
<1>8. ASSUME NEW r \in Run,
             \/ BeginErasure(r) \/ RetryBegin(r) \/ TakeoverRead(r) \/ TakeoverLost(r)
             \/ FindBatch(r) \/ BeginDelete(r) \/ RetryDelete(r) \/ Count(r)
             \/ BeginFinalize(r) \/ RetryFinalize(r) \/ LoseOwnership(r) \/ Fail(r)
      PROVE  Quiet
  BY <1>8
     DEF BeginErasure, RetryBegin, TakeoverRead, TakeoverLost, FindBatch, BeginDelete,
         RetryDelete, Count, BeginFinalize, RetryFinalize, LoseOwnership, Fail, Quiet
<1>9. CASE UNCHANGED vars
  BY <1>9 DEF vars, Quiet
<1>10. QED
  BY <1>1, <1>2, <1>3, <1>4, <1>5, <1>6, <1>7, <1>8, <1>9
     DEF Next, WriterNext, RunNext, RunStep

\* Whatever a step does, the stored gate stays one the parser accepts, its serial
\* never decreases, and the data is never older than the gate allows.
LEMMA GateStep ==
  ASSUME IInv, [Next]_vars
  PROVE  /\ gate' \in Gate /\ WellFormed(gate') /\ gate'.serial >= gate.serial
         /\ docs' \subseteq Doc /\ NoStaleData'
<1> USE DEF IInv, TypeOK
<1>1. CASE Quiet
  BY <1>1 DEF Quiet, NoStaleData, Gate
<1>2. CASE CaptureEffect
  BY <1>2, CapturedFields DEF CaptureEffect, NoStaleData, Gate
<1>3. CASE WriteEffect
  <2>1. PICK w \in Writer :
          /\ IsOpen(gate) /\ gate' = Fenced(gate)
          /\ docs' = docs \cup {[by |-> w, epoch |-> gate.epoch]}
    BY <1>3 DEF WriteEffect
  <2>2. WellFormed(gate')
    BY <2>1, FencedFields DEF WellFormed, IsErasing, IsOpen, Exists
  <2>3. QED
    BY <2>1, <2>2, FencedFields DEF NoStaleData, Doc, Gate, IsErasing, IsOpen
<1>4. CASE BeginEffect
  <2>1. PICK r \in Run :
          ~ IsErasing(gate) /\ gate' = Begun(gate, r) /\ docs' = docs
    BY <1>4 DEF BeginEffect
  <2>2. WellFormed(gate')
    BY <2>1, BegunFields DEF WellFormed, IsErasing, Exists
  <2>3. QED
    BY <2>1, <2>2, BegunFields DEF NoStaleData, Doc, Gate, IsErasing
<1>5. CASE TakeoverEffect
  <2>1. PICK r \in Run :
          IsErasing(gate) /\ gate' = TakenOver(gate, r) /\ docs' = docs
    BY <1>5 DEF TakeoverEffect
  <2>2. WellFormed(gate')
    BY <2>1, TakenOverFields DEF WellFormed, IsErasing, Exists
  <2>3. QED
    BY <2>1, <2>2, TakenOverFields DEF NoStaleData, Doc, Gate, IsErasing
<1>6. CASE DeleteEffect
  <2>1. PICK r \in Run :
          OwnershipMatches(gate, tok[r]) /\ gate' = Fenced(gate) /\ docs' \subseteq docs
    BY <1>6 DEF DeleteEffect
  <2>2. WellFormed(gate')
    BY <2>1, FencedFields DEF WellFormed, IsErasing, Exists, OwnershipMatches
  <2>3. QED
    BY <2>1, <2>2, FencedFields DEF NoStaleData, Doc, Gate, IsErasing, OwnershipMatches
<1>7. CASE FinalizeEffect
  <2>1. gate' = Reopened(gate) /\ docs' = {}
    BY <1>7 DEF FinalizeEffect
  <2>2. WellFormed(gate')
    BY <2>1, ReopenedFields DEF WellFormed, IsErasing, Exists
  <2>3. QED
    BY <2>1, <2>2, ReopenedFields DEF NoStaleData, Doc, Gate, IsErasing
<1>8. QED
  BY <1>1, <1>2, <1>3, <1>4, <1>5, <1>6, <1>7, StepEffect

\* Types are preserved.
LEMMA TypeStep == IInv /\ [Next]_vars => TypeOK'
<1> SUFFICES ASSUME IInv, [Next]_vars PROVE TypeOK'
  OBVIOUS
<1>1. ASSUME NEW w \in Writer, Capture(w) PROVE TypeOK'
  BY <1>1, GateStep, CapturedFields DEF Capture, GoTo, IInv, TypeOK, Actor, WriterPc, RunPc,
     Admission, AdmissionToken, Gate
<1>2. ASSUME NEW w \in Writer, BeginWrite(w) PROVE TypeOK'
  BY <1>2, GateStep, FencedFields DEF BeginWrite, GoTo, IInv, TypeOK, Actor, WriterPc, RunPc,
     Open, Txn, Doc, Tokens, AdmissionToken
<1>3. ASSUME NEW w \in Writer, RejectWrite(w) PROVE TypeOK'
  BY <1>3, GateStep DEF RejectWrite, GoTo, IInv, TypeOK, Actor, WriterPc, RunPc, NoToken,
     Admission, AdmissionToken
<1>4. ASSUME NEW w \in Writer, CommitWrite(w) PROVE TypeOK'
  BY <1>4, GateStep DEF CommitWrite, GoTo, IInv, TypeOK, Actor, WriterPc, RunPc, Close, Txn,
     IdleTxn, AbsentGate, Gate
<1>5. ASSUME NEW w \in Writer, AbortWrite(w) PROVE TypeOK'
  BY <1>5, GateStep DEF AbortWrite, GoTo, IInv, TypeOK, Actor, WriterPc, RunPc, Close, Txn,
     IdleTxn, AbsentGate, Gate
<1>6. ASSUME NEW w \in Writer, EndWork(w) PROVE TypeOK'
  BY <1>6, GateStep DEF EndWork, GoTo, IInv, TypeOK, Actor, WriterPc, RunPc, NoToken, Admission,
     AdmissionToken
<1>7. ASSUME NEW r \in Run, BeginErasure(r) PROVE TypeOK'
  BY <1>7, GateStep, BegunFields DEF BeginErasure, GoTo, IInv, TypeOK, Actor, WriterPc, RunPc,
     Open, Txn
<1>8. ASSUME NEW r \in Run, CommitBegin(r) PROVE TypeOK'
  BY <1>8, GateStep DEF CommitBegin, GoTo, IInv, TypeOK, Actor, WriterPc, RunPc, Close, Txn,
     IdleTxn, AbsentGate, Gate, Erasure, ErasureToken
<1>9. ASSUME NEW r \in Run, RetryBegin(r) PROVE TypeOK'
  BY <1>9, GateStep DEF RetryBegin, GoTo, IInv, TypeOK, Actor, WriterPc, RunPc, Close, Txn,
     IdleTxn, AbsentGate, Gate
<1>10. ASSUME NEW r \in Run, TakeoverRead(r) PROVE TypeOK'
  BY <1>10, GateStep, TakenOverFields DEF TakeoverRead, GoTo, IInv, TypeOK, Actor, WriterPc,
     RunPc, Open, Txn
<1>11. ASSUME NEW r \in Run, Takeover(r) PROVE TypeOK'
  BY <1>11, GateStep DEF Takeover, GoTo, IInv, TypeOK, Actor, WriterPc, RunPc, Close, Txn,
     IdleTxn, AbsentGate, Gate, Erasure, ErasureToken
<1>12. ASSUME NEW r \in Run, TakeoverLost(r) PROVE TypeOK'
  BY <1>12, GateStep DEF TakeoverLost, GoTo, IInv, TypeOK, Actor, WriterPc, RunPc, Close, Txn,
     IdleTxn, AbsentGate, Gate
<1>13. ASSUME NEW r \in Run, FindBatch(r) PROVE TypeOK'
  BY <1>13, GateStep DEF FindBatch, GoTo, IInv, TypeOK, Actor, WriterPc, RunPc
<1>14. ASSUME NEW r \in Run, BeginDelete(r) PROVE TypeOK'
  BY <1>14, GateStep, FencedFields DEF BeginDelete, GoTo, IInv, TypeOK, Actor, WriterPc, RunPc,
     Open, Txn
<1>15. ASSUME NEW r \in Run, CommitDelete(r) PROVE TypeOK'
  BY <1>15, GateStep DEF CommitDelete, GoTo, IInv, TypeOK, Actor, WriterPc, RunPc, Close, Txn,
     IdleTxn, AbsentGate, Gate
<1>16. ASSUME NEW r \in Run, RetryDelete(r) PROVE TypeOK'
  BY <1>16, GateStep DEF RetryDelete, GoTo, IInv, TypeOK, Actor, WriterPc, RunPc, Close, Txn,
     IdleTxn, AbsentGate, Gate
<1>17. ASSUME NEW r \in Run, Count(r) PROVE TypeOK'
  BY <1>17, GateStep DEF Count, GoTo, IInv, TypeOK, Actor, WriterPc, RunPc
<1>18. ASSUME NEW r \in Run, BeginFinalize(r) PROVE TypeOK'
  BY <1>18, GateStep, ReopenedFields DEF BeginFinalize, GoTo, IInv, TypeOK, Actor, WriterPc,
     RunPc, Open, Txn
<1>19. ASSUME NEW r \in Run, CommitFinalize(r) PROVE TypeOK'
  BY <1>19, GateStep DEF CommitFinalize, GoTo, IInv, TypeOK, Actor, WriterPc, RunPc, Close, Txn,
     IdleTxn, AbsentGate, Gate
<1>20. ASSUME NEW r \in Run, RetryFinalize(r) PROVE TypeOK'
  BY <1>20, GateStep DEF RetryFinalize, GoTo, IInv, TypeOK, Actor, WriterPc, RunPc, Close, Txn,
     IdleTxn, AbsentGate, Gate
<1>21. ASSUME NEW r \in Run, LoseOwnership(r) PROVE TypeOK'
  BY <1>21, GateStep DEF LoseOwnership, GoTo, IInv, TypeOK, Actor, WriterPc, RunPc
<1>22. ASSUME NEW r \in Run, Fail(r) PROVE TypeOK'
  BY <1>22, GateStep DEF Fail, GoTo, IInv, TypeOK, Actor, WriterPc, RunPc, Close, Txn, IdleTxn,
     AbsentGate, Gate
<1>23. CASE UNCHANGED vars
  BY <1>23, GateStep DEF IInv, TypeOK, vars
<1>24. QED
  BY <1>1, <1>2, <1>3, <1>4, <1>5, <1>6, <1>7, <1>8, <1>9, <1>10, <1>11, <1>12, <1>13, <1>14,
     <1>15, <1>16, <1>17, <1>18, <1>19, <1>20, <1>21, <1>22, <1>23
     DEF Next, WriterNext, RunNext, RunStep

\* Every open transaction still stores what its snapshot determines.
LEMMA InFlightStep == IInv /\ [Next]_vars => InFlight'
<1> SUFFICES ASSUME IInv, [Next]_vars PROVE InFlight'
  OBVIOUS
<1>1. ASSUME NEW w \in Writer, Capture(w) PROVE InFlight'
  BY <1>1, WriterRunAssumption DEF Capture, GoTo, IInv, TypeOK, ActorPc, InFlight, Actor,
     WriterPc, RunPc
<1>2. ASSUME NEW w \in Writer, BeginWrite(w) PROVE InFlight'
  BY <1>2, WriterRunAssumption DEF BeginWrite, GoTo, IInv, TypeOK, ActorPc, InFlight, Actor,
     WriterPc, RunPc, Open, FenceAccepts, Tokens, Owned, AdmissionToken
<1>3. ASSUME NEW w \in Writer, RejectWrite(w) PROVE InFlight'
  BY <1>3, WriterRunAssumption DEF RejectWrite, GoTo, IInv, TypeOK, ActorPc, InFlight, Actor,
     WriterPc, RunPc
<1>4. ASSUME NEW w \in Writer, CommitWrite(w) PROVE InFlight'
  BY <1>4, WriterRunAssumption DEF CommitWrite, GoTo, IInv, TypeOK, ActorPc, InFlight, Actor,
     WriterPc, RunPc, Close
<1>5. ASSUME NEW w \in Writer, AbortWrite(w) PROVE InFlight'
  BY <1>5, WriterRunAssumption DEF AbortWrite, GoTo, IInv, TypeOK, ActorPc, InFlight, Actor,
     WriterPc, RunPc, Close
<1>6. ASSUME NEW w \in Writer, EndWork(w) PROVE InFlight'
  BY <1>6, WriterRunAssumption DEF EndWork, GoTo, IInv, TypeOK, ActorPc, InFlight, Actor,
     WriterPc, RunPc
<1>7. ASSUME NEW r \in Run, BeginErasure(r) PROVE InFlight'
  BY <1>7, WriterRunAssumption DEF BeginErasure, GoTo, IInv, TypeOK, ActorPc, InFlight, Actor,
     WriterPc, RunPc, Open
<1>8. ASSUME NEW r \in Run, CommitBegin(r) PROVE InFlight'
  BY <1>8, WriterRunAssumption DEF CommitBegin, GoTo, IInv, TypeOK, ActorPc, InFlight, Actor,
     WriterPc, RunPc, Close
<1>9. ASSUME NEW r \in Run, RetryBegin(r) PROVE InFlight'
  BY <1>9, WriterRunAssumption DEF RetryBegin, GoTo, IInv, TypeOK, ActorPc, InFlight, Actor,
     WriterPc, RunPc, Close
<1>10. ASSUME NEW r \in Run, TakeoverRead(r) PROVE InFlight'
  BY <1>10, WriterRunAssumption DEF TakeoverRead, GoTo, IInv, TypeOK, ActorPc, InFlight, Actor,
     WriterPc, RunPc, Open
<1>11. ASSUME NEW r \in Run, Takeover(r) PROVE InFlight'
  BY <1>11, WriterRunAssumption DEF Takeover, GoTo, IInv, TypeOK, ActorPc, InFlight, Actor,
     WriterPc, RunPc, Close
<1>12. ASSUME NEW r \in Run, TakeoverLost(r) PROVE InFlight'
  BY <1>12, WriterRunAssumption DEF TakeoverLost, GoTo, IInv, TypeOK, ActorPc, InFlight, Actor,
     WriterPc, RunPc, Close
<1>13. ASSUME NEW r \in Run, FindBatch(r) PROVE InFlight'
  BY <1>13, WriterRunAssumption DEF FindBatch, GoTo, IInv, TypeOK, ActorPc, InFlight, Actor,
     WriterPc, RunPc
<1>14. ASSUME NEW r \in Run, BeginDelete(r) PROVE InFlight'
  BY <1>14, WriterRunAssumption DEF BeginDelete, GoTo, IInv, TypeOK, ActorPc, InFlight, Actor,
     WriterPc, RunPc, Open, FenceAccepts, Tokens, Owned, AdmissionToken
<1>15. ASSUME NEW r \in Run, CommitDelete(r) PROVE InFlight'
  BY <1>15, WriterRunAssumption DEF CommitDelete, GoTo, IInv, TypeOK, ActorPc, InFlight, Actor,
     WriterPc, RunPc, Close
<1>16. ASSUME NEW r \in Run, RetryDelete(r) PROVE InFlight'
  BY <1>16, WriterRunAssumption DEF RetryDelete, GoTo, IInv, TypeOK, ActorPc, InFlight, Actor,
     WriterPc, RunPc, Close
<1>17. ASSUME NEW r \in Run, Count(r) PROVE InFlight'
  BY <1>17, WriterRunAssumption DEF Count, GoTo, IInv, TypeOK, ActorPc, InFlight, Actor,
     WriterPc, RunPc
<1>18. ASSUME NEW r \in Run, BeginFinalize(r) PROVE InFlight'
  BY <1>18, WriterRunAssumption DEF BeginFinalize, GoTo, IInv, TypeOK, ActorPc, InFlight, Actor,
     WriterPc, RunPc, Open
<1>19. ASSUME NEW r \in Run, CommitFinalize(r) PROVE InFlight'
  BY <1>19, WriterRunAssumption DEF CommitFinalize, GoTo, IInv, TypeOK, ActorPc, InFlight,
     Actor, WriterPc, RunPc, Close
<1>20. ASSUME NEW r \in Run, RetryFinalize(r) PROVE InFlight'
  BY <1>20, WriterRunAssumption DEF RetryFinalize, GoTo, IInv, TypeOK, ActorPc, InFlight, Actor,
     WriterPc, RunPc, Close
<1>21. ASSUME NEW r \in Run, LoseOwnership(r) PROVE InFlight'
  BY <1>21, WriterRunAssumption DEF LoseOwnership, GoTo, IInv, TypeOK, ActorPc, InFlight, Actor,
     WriterPc, RunPc
<1>22. ASSUME NEW r \in Run, Fail(r) PROVE InFlight'
  BY <1>22, WriterRunAssumption DEF Fail, GoTo, IInv, TypeOK, ActorPc, InFlight, Actor,
     WriterPc, RunPc, Close
<1>23. CASE UNCHANGED vars
  BY <1>23 DEF IInv, InFlight, vars
<1>24. QED
  BY <1>1, <1>2, <1>3, <1>4, <1>5, <1>6, <1>7, <1>8, <1>9, <1>10, <1>11, <1>12, <1>13, <1>14,
     <1>15, <1>16, <1>17, <1>18, <1>19, <1>20, <1>21, <1>22, <1>23
     DEF Next, WriterNext, RunNext, RunStep

\* A finalization's recount stays true for as long as the gate equals its snapshot:
\* whatever changes the data moves the serial or the state past the snapshot.
LEMMA CountedStep == IInv /\ [Next]_vars => Counted'
<1> SUFFICES ASSUME IInv, [Next]_vars, NEW r \in Run, pc'[r] = "finalizing"
             PROVE  /\ txn'[r].snap.serial <= gate'.serial
                    /\ gate' = txn'[r].snap => docs' = {}
  BY DEF Counted
<1>1. CASE BeginFinalize(r)
  <2>1. txn'[r].snap = gate /\ gate' = gate /\ docs' = docs /\ docs = {}
    BY <1>1 DEF BeginFinalize, Open, IInv, TypeOK, Actor
  <2>2. QED BY <2>1 DEF IInv, TypeOK, Gate
<1>2. CASE ~ BeginFinalize(r)
  <2>1. pc[r] = "finalizing" /\ txn'[r] = txn[r]
    <3>1. ASSUME NEW w \in Writer, WriterNext(w)
          PROVE  pc[r] = "finalizing" /\ txn'[r] = txn[r]
      BY <3>1, WriterRunAssumption
         DEF WriterNext, Capture, BeginWrite, RejectWrite, CommitWrite, AbortWrite,
             EndWork, GoTo, Open, Close, IInv, TypeOK, Actor
    <3>2. ASSUME NEW s \in Run, RunNext(s)
          PROVE  pc[r] = "finalizing" /\ txn'[r] = txn[r]
      BY <3>2, <1>2
         DEF RunNext, RunStep, BeginErasure, CommitBegin, RetryBegin, TakeoverRead,
             Takeover, TakeoverLost, FindBatch, BeginDelete, CommitDelete, RetryDelete,
             Count, BeginFinalize, CommitFinalize, RetryFinalize, LoseOwnership, Fail,
             GoTo, Open, Close, IInv, TypeOK, Actor
    <3>3. CASE UNCHANGED vars
      BY <3>3 DEF vars
    <3>4. QED BY <3>1, <3>2, <3>3 DEF Next
  <2> DEFINE snap == txn[r].snap
  <2>2. /\ snap \in Gate /\ snap.serial <= gate.serial /\ (gate = snap => docs = {})
        /\ IsErasing(snap) /\ snap.runId = r
    BY <2>1 DEF IInv, TypeOK, Txn, Actor, Counted, InFlight, OwnershipMatches, Tokens, Owned
  <2>3. gate'.serial >= gate.serial /\ gate' \in Gate /\ gate \in Gate
    BY GateStep DEF IInv, TypeOK
  <2>4. snap.serial <= gate'.serial
    BY <2>2, <2>3 DEF Gate
  <2>5. ASSUME gate' = snap PROVE docs' = {}
    <3>1. CASE Quiet
      BY <3>1, <2>2, <2>5 DEF Quiet
    <3>2. CASE CaptureEffect
      BY <3>2, <2>2, <2>5, CapturedFields DEF CaptureEffect, IInv, TypeOK
    <3>3. CASE WriteEffect
      <4>1. gate'.serial = gate.serial + 1
        BY <3>3, <2>3, FencedFields DEF WriteEffect
      <4>2. QED BY <4>1, <2>2, <2>3, <2>5 DEF Gate
    <3>4. CASE BeginEffect
      <4>1. PICK s \in Run : pc[s] = "beginning" /\ gate' = Begun(gate, s)
        BY <3>4 DEF BeginEffect
      <4>2. gate'.runId = s
        BY <4>1, <2>3, BegunFields
      <4>3. QED BY <4>1, <4>2, <2>1, <2>2, <2>5
    <3>5. CASE TakeoverEffect
      <4>1. PICK s \in Run : pc[s] = "takingOver" /\ gate' = TakenOver(gate, s)
        BY <3>5 DEF TakeoverEffect
      <4>2. gate'.runId = s
        BY <4>1, <2>3, TakenOverFields
      <4>3. QED BY <4>1, <4>2, <2>1, <2>2, <2>5
    <3>6. CASE DeleteEffect
      <4>1. gate'.serial = gate.serial + 1
        BY <3>6, <2>3, FencedFields DEF DeleteEffect
      <4>2. QED BY <4>1, <2>2, <2>3, <2>5 DEF Gate
    <3>7. CASE FinalizeEffect
      BY <3>7 DEF FinalizeEffect
    <3>8. QED BY <3>1, <3>2, <3>3, <3>4, <3>5, <3>6, <3>7, StepEffect
  <2>6. QED BY <2>1, <2>4, <2>5
<1>3. QED BY <1>1, <1>2

\* A completed run's epoch is over, and no second run completes it.
LEMMA CompletedStep ==
  IInv /\ [Next]_vars => Completed' /\ OneCompletionPerEpoch'
<1> SUFFICES ASSUME IInv, [Next]_vars PROVE Completed' /\ OneCompletionPerEpoch'
  OBVIOUS
<1>0. gate \in Gate /\ gate' \in Gate
  BY GateStep DEF IInv, TypeOK
<1>1. ASSUME NEW r \in Run, pc[r] = "complete"
      PROVE  \/ tok[r].epoch < gate'.epoch
             \/ tok[r].epoch = gate'.epoch /\ ~ IsErasing(gate')
  <2>1. tok[r].epoch \in Nat
    BY <1>1 DEF IInv, TypeOK, Tokens, Owned, Actor, AdmissionToken, ErasureToken
  <2>2. \/ tok[r].epoch < gate.epoch
        \/ tok[r].epoch = gate.epoch /\ ~ IsErasing(gate)
    BY <1>1 DEF IInv, Completed
  <2>3. CASE Quiet
    BY <2>2, <2>3 DEF Quiet
  <2>4. CASE CaptureEffect
    BY <2>2, <2>4, CapturedFields DEF CaptureEffect, IInv, TypeOK
  <2>5. CASE WriteEffect
    BY <2>2, <2>5, <1>0, FencedFields DEF WriteEffect, IsErasing
  <2>6. CASE BeginEffect
    BY <2>1, <2>2, <2>6, <1>0, BegunFields DEF BeginEffect, Gate
  <2>7. CASE TakeoverEffect
    BY <2>2, <2>7, <1>0, TakenOverFields DEF TakeoverEffect, IsErasing
  <2>8. CASE DeleteEffect
    BY <2>2, <2>8, <1>0, FencedFields DEF DeleteEffect, IsErasing
  <2>9. CASE FinalizeEffect
    BY <2>2, <2>9, <1>0, ReopenedFields DEF FinalizeEffect, IsErasing
  <2>10. QED BY <2>3, <2>4, <2>5, <2>6, <2>7, <2>8, <2>9, StepEffect
<1>2. ASSUME NEW r \in Run, pc'[r] = "complete", ~ CommitFinalize(r)
      PROVE  pc[r] = "complete" /\ tok'[r] = tok[r]
  <2>1. ASSUME NEW w \in Writer, WriterNext(w)
        PROVE  pc[r] = "complete" /\ tok'[r] = tok[r]
    BY <2>1, <1>2, WriterRunAssumption
       DEF WriterNext, Capture, BeginWrite, RejectWrite, CommitWrite, AbortWrite,
           EndWork, GoTo, IInv, TypeOK, Actor
  <2>2. ASSUME NEW s \in Run, RunNext(s)
        PROVE  pc[r] = "complete" /\ tok'[r] = tok[r]
    BY <2>2, <1>2
       DEF RunNext, RunStep, BeginErasure, CommitBegin, RetryBegin, TakeoverRead,
           Takeover, TakeoverLost, FindBatch, BeginDelete, CommitDelete, RetryDelete,
           Count, BeginFinalize, CommitFinalize, RetryFinalize, LoseOwnership, Fail,
           GoTo, IInv, TypeOK, Actor
  <2>3. CASE UNCHANGED vars
    BY <1>2, <2>3 DEF vars
  <2>4. QED BY <2>1, <2>2, <2>3 DEF Next
<1>3. ASSUME NEW r \in Run, CommitFinalize(r)
      PROVE  /\ IsErasing(gate) /\ tok[r].epoch = gate.epoch /\ tok' = tok
             /\ gate' = Reopened(gate)
             /\ \A s \in Run : s # r => pc'[s] = pc[s]
  <2>1. gate = txn[r].snap /\ txn[r].put # txn[r].snap
    BY <1>3, CommitOnSnapshot DEF CommitFinalize, Actor
  <2>2. OwnershipMatches(gate, tok[r]) /\ txn[r].put = Reopened(gate)
    BY <1>3, <2>1 DEF CommitFinalize, IInv, InFlight
  <2>3. gate' = Reopened(gate) /\ tok' = tok /\ \A s \in Run : s # r => pc'[s] = pc[s]
    BY <1>3, <2>1, <2>2 DEF CommitFinalize, Store, GoTo, IInv, TypeOK, Actor
  <2>4. QED BY <2>2, <2>3 DEF OwnershipMatches
<1>4. Completed'
  <2> SUFFICES ASSUME NEW r \in Run, pc'[r] = "complete"
               PROVE  \/ tok'[r].epoch < gate'.epoch
                      \/ tok'[r].epoch = gate'.epoch /\ ~ IsErasing(gate')
    BY DEF Completed
  <2>1. CASE CommitFinalize(r)
    BY <2>1, <1>0, <1>3, ReopenedFields DEF IsErasing
  <2>2. CASE ~ CommitFinalize(r)
    BY <2>2, <1>1, <1>2
  <2>3. QED BY <2>1, <2>2
<1>5. OneCompletionPerEpoch'
  <2> SUFFICES ASSUME NEW r \in Run, NEW s \in Run, r # s,
                      pc'[r] = "complete", pc'[s] = "complete",
                      tok'[r].epoch = tok'[s].epoch
               PROVE  FALSE
    BY DEF OneCompletionPerEpoch
  <2>1. CASE CommitFinalize(r)
    <3>1. pc[s] = "complete" /\ tok[s].epoch = gate.epoch /\ IsErasing(gate)
      BY <2>1, <1>3
    <3>2. QED BY <3>1, <1>0 DEF IInv, Completed, Gate
  <2>2. CASE CommitFinalize(s)
    <3>1. pc[r] = "complete" /\ tok[r].epoch = gate.epoch /\ IsErasing(gate)
      BY <2>2, <1>3
    <3>2. QED BY <3>1, <1>0 DEF IInv, Completed, Gate
  <2>3. CASE ~ CommitFinalize(r) /\ ~ CommitFinalize(s)
    BY <2>3, <1>2 DEF IInv, OneCompletionPerEpoch
  <2>4. QED BY <2>1, <2>2, <2>3
<1>6. QED BY <1>4, <1>5

-----------------------------------------------------------------------------
\* The inductive invariant holds in every reachable state.
THEOREM Invariance == Spec => []IInv
<1>1. IInv /\ [Next]_vars => IInv'
  BY TypeStep, PcStep, TokensStep, InFlightStep, GateStep, CountedStep, CompletedStep
     DEF IInv
<1>2. QED BY InitIInv, <1>1, PTL DEF Spec

\* Types hold, and no sequence of gate writes ever stores a document that
\* parseErasureGateDoc rejects as malformed.
THEOREM TypeCorrect == Spec => []TypeOK
BY Invariance, PTL DEF IInv

\* The fence works: however many writers, runs, takeovers, crashes and write
\* conflicts there are, no write admitted before an erasure survives it.
THEOREM FenceSafety == Spec => []NoStaleData
BY Invariance, PTL DEF IInv

\* At most one of the runs that share an epoch reports completion.
THEOREM CompletionUnique == Spec => []OneCompletionPerEpoch
BY Invariance, PTL DEF IInv

\* Only the gate's current owner removes documents.
THEOREM OwnerErases == Spec => OnlyOwnerErases
<1>1. IInv /\ [Next]_vars =>
        [docs \ docs' # {} =>
           \E r \in Run : pc[r] = "deleting" /\ OwnershipMatches(gate, tok[r])
                          /\ pc'[r] = "sweeping"]_vars
  <2> SUFFICES ASSUME IInv, [Next]_vars, docs \ docs' # {}
               PROVE  \E r \in Run : pc[r] = "deleting" /\ OwnershipMatches(gate, tok[r])
                                     /\ pc'[r] = "sweeping"
    OBVIOUS
  <2>1. DeleteEffect
    BY StepEffect DEF Quiet, CaptureEffect, WriteEffect, BeginEffect, TakeoverEffect,
                      FinalizeEffect
  <2>2. QED BY <2>1 DEF DeleteEffect
<1>2. QED BY Invariance, <1>1, PTL DEF Spec, OnlyOwnerErases

\* The gate reopens only in the finalization of its owner, over empty data.
THEOREM ReopenSafety == Spec => ReopenOnlyWhenEmpty
<1>1. IInv /\ [Next]_vars =>
        [IsErasing(gate) /\ ~ IsErasing(gate') =>
           /\ docs = {} /\ docs' = {}
           /\ pc[gate.runId] = "finalizing" /\ pc'[gate.runId] = "complete"]_vars
  <2> SUFFICES ASSUME IInv, [Next]_vars, IsErasing(gate), ~ IsErasing(gate')
               PROVE  /\ docs = {} /\ docs' = {}
                      /\ pc[gate.runId] = "finalizing" /\ pc'[gate.runId] = "complete"
    OBVIOUS
  <2>1. gate \in Gate
    BY DEF IInv, TypeOK
  <2>2. FinalizeEffect
    BY <2>1, StepEffect, FencedFields, TakenOverFields
       DEF Quiet, CaptureEffect, WriteEffect, BeginEffect, TakeoverEffect, DeleteEffect,
           IsErasing, IsOpen
  <2>3. QED BY <2>2 DEF FinalizeEffect, OwnershipMatches
<1>2. QED BY Invariance, <1>1, PTL DEF Spec, ReopenOnlyWhenEmpty

\* The gate never returns to an earlier value.
THEOREM NoRewind == Spec => GateNeverRewinds
<1> DEFINE Forward ==
      gate' # gate =>
        \/ ~ Exists(gate)
        \/ gate'.epoch > gate.epoch
        \/ /\ gate'.epoch = gate.epoch
           /\ \/ Phase(gate') > Phase(gate) /\ gate'.serial >= gate.serial
              \/ Phase(gate') = Phase(gate) /\ gate'.serial > gate.serial
<1>1. IInv /\ [Next]_vars => Forward
  <2> SUFFICES ASSUME IInv, [Next]_vars PROVE Forward
    OBVIOUS
  <2>0. gate \in Gate
    BY DEF IInv, TypeOK
  <2>1. CASE Quiet \/ CaptureEffect
    BY <2>1 DEF Quiet, CaptureEffect, Captured
  <2>2. CASE WriteEffect \/ DeleteEffect
    <3>1. gate'.epoch = gate.epoch /\ gate'.state = gate.state
          /\ gate'.serial = gate.serial + 1
      BY <2>0, <2>2, FencedFields DEF WriteEffect, DeleteEffect
    <3>2. QED BY <2>0, <3>1 DEF Phase, IsErasing, Gate
  <2>3. CASE BeginEffect
    BY <2>0, <2>3, BegunFields DEF BeginEffect, Gate
  <2>4. CASE TakeoverEffect
    <3>1. gate'.epoch = gate.epoch /\ gate'.state = gate.state
          /\ gate'.serial = gate.serial + 1
      BY <2>0, <2>4, TakenOverFields DEF TakeoverEffect
    <3>2. QED BY <2>0, <3>1 DEF Phase, IsErasing, Gate
  <2>5. CASE FinalizeEffect
    <3>1. /\ gate'.epoch = gate.epoch /\ gate.state = "erasing" /\ gate'.state = "open"
          /\ gate'.serial = gate.serial
      BY <2>0, <2>5, ReopenedFields DEF FinalizeEffect, OwnershipMatches, IsErasing
    <3>2. QED BY <2>0, <3>1 DEF Phase, IsErasing, Gate
  <2>6. QED BY <2>1, <2>2, <2>3, <2>4, <2>5, StepEffect
<1>2. IInv /\ [Next]_vars => [Forward]_vars
  BY <1>1
<1>3. QED BY Invariance, <1>2, PTL DEF Spec, GateNeverRewinds

\* The fenced, transactional, recoverable gate implements the atomic erasure.
THEOREM Refinement == Spec => ImplementsAtomicErasure
<1>1. Init => Abstract!Init
  <2> SUFFICES ASSUME Init PROVE Abstract!Init
    OBVIOUS
  <2>1. IInv
    BY InitIInv
  <2>2. gate \in Gate /\ ~ IsErasing(gate)
    <3>1. gate \in Gate
      BY <2>1 DEF IInv, TypeOK
    <3>2. gate.state \in {"absent", "open", "legacy"}
      <4>1. CASE gate = AbsentGate
        BY <4>1 DEF AbsentGate
      <4>2. CASE \E e \in 0..MaxEpoch : gate = OpenGate(e)
        BY <4>2 DEF OpenGate
      <4>3. CASE \E e \in 0..MaxEpoch : gate = LegacyGate(e)
        BY <4>3 DEF LegacyGate, OpenGate
      <4>4. QED BY <4>1, <4>2, <4>3 DEF Init
    <3>3. QED BY <3>1, <3>2 DEF IsErasing
  <2>3. docs \subseteq Doc /\ \A d \in docs : d.epoch = gate.epoch
    BY <2>1, <2>2 DEF IInv, TypeOK, NoStaleData
  <2>4. QED BY <2>2, <2>3 DEF Abstract!Init, Abstract!Doc, Doc, Gate, IsErasing
<1>2. IInv /\ [Next]_vars => [Abstract!Next]_(Abstract!vars)
  <2> SUFFICES ASSUME IInv, [Next]_vars PROVE [Abstract!Next]_(Abstract!vars)
    OBVIOUS
  <2>0. gate \in Gate /\ WellFormed(gate)
    BY DEF IInv, TypeOK
  <2>1. CASE Quiet
    BY <2>1 DEF Quiet, Abstract!vars
  <2>2. CASE CaptureEffect
    <3>1. /\ ~ IsErasing(gate) /\ ~ IsErasing(gate') /\ gate'.epoch = gate.epoch
          /\ docs' = docs
      BY <2>0, <2>2, CapturedFields DEF CaptureEffect
    <3>2. IsErasing(gate') = IsErasing(gate)
      BY <3>1 DEF IsErasing
    <3>3. QED BY <3>1, <3>2 DEF Abstract!vars
  <2>3. CASE WriteEffect
    <3>1. PICK w \in Writer :
            /\ IsOpen(gate) /\ gate' = Fenced(gate)
            /\ docs' = docs \cup {[by |-> w, epoch |-> gate.epoch]}
      BY <2>3 DEF WriteEffect
    <3>2. ~ IsErasing(gate) /\ ~ IsErasing(gate') /\ gate'.epoch = gate.epoch
      BY <2>0, <3>1, FencedFields DEF IsOpen, IsErasing
    <3>3. IsErasing(gate') = IsErasing(gate)
      BY <3>2 DEF IsErasing
    <3>4. Abstract!Write(w)
      BY <3>1, <3>2, <3>3 DEF Abstract!Write
    <3>5. QED BY <3>4 DEF Abstract!Next
  <2>4. CASE BeginEffect
    <3>1. /\ ~ IsErasing(gate) /\ IsErasing(gate') /\ gate'.epoch = gate.epoch + 1
          /\ docs' = docs
      BY <2>0, <2>4, BegunFields DEF BeginEffect, IsErasing
    <3>2. QED BY <3>1 DEF Abstract!StartErasure, Abstract!Next
  <2>5. CASE TakeoverEffect
    <3>1. IsErasing(gate) /\ IsErasing(gate') /\ gate'.epoch = gate.epoch /\ docs' = docs
      BY <2>0, <2>5, TakenOverFields DEF TakeoverEffect, IsErasing
    <3>2. QED BY <3>1 DEF Abstract!Erase, Abstract!Next
  <2>6. CASE DeleteEffect
    <3>1. /\ IsErasing(gate) /\ IsErasing(gate') /\ gate'.epoch = gate.epoch
          /\ docs' \subseteq docs
      BY <2>0, <2>6, FencedFields DEF DeleteEffect, OwnershipMatches, IsErasing
    <3>2. QED BY <3>1 DEF Abstract!Erase, Abstract!Next
  <2>7. CASE FinalizeEffect
    <3>1. /\ IsErasing(gate) /\ ~ IsErasing(gate') /\ gate'.epoch = gate.epoch
          /\ docs = {} /\ docs' = docs
      BY <2>0, <2>7, ReopenedFields DEF FinalizeEffect, OwnershipMatches, IsErasing
    <3>2. QED BY <3>1 DEF Abstract!Reopen, Abstract!Next
  <2>8. QED BY <2>1, <2>2, <2>3, <2>4, <2>5, <2>6, <2>7, StepEffect
<1>3. QED
  BY Invariance, <1>1, <1>2, PTL DEF Spec, ImplementsAtomicErasure, Abstract!Spec

=============================================================================
