-------------------------- MODULE EventWriteProofs --------------------------
(***************************************************************************)
(* EventWrite for any calls, keys, payloads and erasures: its two state    *)
(* invariants.                                                             *)
(*                                                                         *)
(* Neither is inductive.  What a call or the repair is about to write was  *)
(* read earlier, so the invariant carries it: a call that names an event   *)
(* was admitted with it (Naming) and the event is still there or expires   *)
(* (Receipts), the events the repair has seen likewise (Repairing), and an *)
(* open transaction keeps the gate where it was (Transaction).  Shape ties *)
(* every stored event and chunk to the request of the call that made it.   *)
(***************************************************************************)
EXTENDS EventWrite, TLAPS

EventState == [stored : BOOLEAN, key : Key \cup {NoKey}, body : Body \cup {NoKey},
               epoch : Nat, projected : BOOLEAN, ttl : BOOLEAN, old : BOOLEAN]

ChunkState == [stored : BOOLEAN, epoch : Nat, ttl : BOOLEAN]

CallState == [pc : {"idle", "admitted", "insert", "duplicate", "project", "done"},
              req : Request, adm : Nat,
              out : {"none", "ok", "conflict", "refused", "error"},
              id : Call \cup {NoCall}]

\* The call has made its event, or is over.
Past(e) == call[e].pc \in {"project", "done"}

Shape ==
  \A e \in Call :
    /\ event[e].stored =>
         /\ Past(e)
         /\ event[e].epoch = call[e].adm /\ event[e].body = call[e].req.body
         /\ event[e].ttl = call[e].req.ttl
         /\ event[e].key = call[e].req.key \/ event[e].old
    /\ chunk[e].ttl => Past(e) /\ call[e].req.ttl
    /\ chunk[e].stored => Past(e) /\ (call[e].req.ttl => chunk[e].ttl)

\* An admission of an epoch that is not ahead of the gate and, once the gate is taken,
\* over.
Behind(adm) == adm <= gate.epoch /\ (IsErasing(gate) => adm < gate.epoch)

Current(adm) == IsOpen(gate) /\ gate.epoch = adm

\* The call names an event that it wrote or found.
Names(c) == call[c].pc = "project" \/ call[c].out = "ok"

Naming ==
  \A c \in Call : Names(c) =>
    /\ Past(c) /\ Behind(call[c].adm)
    /\ call[c].id \in Call
    /\ Past(call[c].id) /\ call[call[c].id].adm = call[c].adm

Receipts ==
  \A c \in Call : Names(c) /\ Current(call[c].adm) =>
    \/ event[call[c].id].stored /\ event[call[c].id].body = call[c].req.body
    \/ call[call[c].id].req.ttl

Repairing ==
  repair.pc = "commit" =>
    /\ Behind(repair.adm)
    /\ \A e \in repair.seen :
         /\ Past(e) /\ call[e].adm = repair.adm
         /\ Current(repair.adm) => event[e].stored \/ call[e].req.ttl

Transaction ==
  \A c \in Call : call[c].pc = "insert" => holder = c /\ Current(call[c].adm)

IInv ==
  /\ TypeOK /\ Shape /\ Naming /\ Receipts /\ Repairing /\ Transaction
  /\ KeyedOnce /\ ProjectedHasChunk /\ OrphanChunksExpire /\ NoResurrection
-----------------------------------------------------------------------------
(***************************************************************************)
(* Records and admissions.                                                 *)
(***************************************************************************)
\* The fields of a call and of its request.
LEMMA Fields ==
  ASSUME TypeOK, NEW c \in Call
  PROVE  /\ call[c] \in CallState /\ event[c] \in EventState /\ chunk[c] \in ChunkState
         /\ call[c].req \in Request /\ call[c].adm \in Nat
         /\ call[c].req.ttl \in BOOLEAN /\ call[c].req.key \in Key \cup {NoKey}
         /\ call[c].req.body \in Body
<1>1. call[c] \in CallState /\ event[c] \in EventState /\ chunk[c] \in ChunkState
  BY DEF TypeOK, CallState, EventState, ChunkState
<1>2. call[c].req \in Request /\ call[c].adm \in Nat
  BY <1>1 DEF CallState
<1>3. QED BY <1>1, <1>2, WriteConstants

\* The fence lets an admission of the current epoch through, and no other.
LEMMA FenceIsCurrent ==
  ASSUME NEW adm
  PROVE  /\ AdmissionMatches(gate, Admission(adm)) <=> Current(adm)
         /\ Admitted(adm) <=> holder = NoCall /\ Current(adm)
  BY DEF AdmissionMatches, Admission, Admitted, Current

\* The current admission is behind no erasure.
LEMMA CurrentIsBehind ==
  ASSUME TypeOK, NEW adm, Current(adm)
  PROVE  Behind(adm) /\ adm \in Nat
  BY DEF TypeOK, Gate, Current, Behind, IsOpen, IsErasing

\* No call is in its transaction while the gate document is free.
LEMMA NoOtherInsert ==
  ASSUME Transaction
  PROVE  /\ holder \notin Call => \A d \in Call : call[d].pc # "insert"
         /\ \A c, d \in Call : call[c].pc = "insert" /\ c # d => call[d].pc # "insert"
  BY DEF Transaction

\* A step of one call that changes neither gate, events, chunks nor the repair: what it
\* names afterwards it may name.
LEMMA CallChange ==
  ASSUME IInv, NEW c \in Call, NEW v \in CallState,
         call' = [call EXCEPT ![c] = v], UNCHANGED <<gate, event, chunk, repair>>,
         holder' \in Call \cup {NoCall},
         Past(c) => v.req = call[c].req /\ v.adm = call[c].adm /\ v.pc \in {"project", "done"},
         v.pc = "insert" => holder' = c /\ Current(v.adm),
         \A d \in Call : d # c /\ call[d].pc = "insert" => holder' = holder,
         v.pc = "project" \/ v.out = "ok" =>
           /\ v.pc \in {"project", "done"} /\ Behind(v.adm) /\ v.id \in Call
           /\ v.id = c \/ Past(v.id)
           /\ (IF v.id = c THEN v ELSE call[v.id]).adm = v.adm
           /\ Current(v.adm) =>
                \/ event[v.id].stored /\ event[v.id].body = v.req.body
                \/ (IF v.id = c THEN v ELSE call[v.id]).req.ttl
  PROVE  IInv'
<1>0. /\ TypeOK /\ Shape /\ Naming /\ Receipts /\ Repairing /\ Transaction
      /\ KeyedOnce /\ ProjectedHasChunk /\ OrphanChunksExpire /\ NoResurrection
  BY DEF IInv
<1>1. call' \in [Call -> CallState] /\ call'[c] = v /\ \A d \in Call : d # c => call'[d] = call[d]
  BY <1>0 DEF TypeOK, CallState
<1>2. \A e \in Call : Past(e) =>
        Past(e)' /\ call'[e].req = call[e].req /\ call'[e].adm = call[e].adm
  BY <1>1 DEF Past
<1>3. TypeOK'
  BY <1>0, <1>1 DEF TypeOK, CallState
<1>4. Shape'
  BY <1>0, <1>2 DEF Shape
<1>5. ASSUME NEW d \in Call, Names(d)'
      PROVE  /\ Past(d)' /\ Behind(call[d].adm)' /\ call'[d].id \in Call
             /\ Past(call[d].id)' /\ call'[call'[d].id].adm = call'[d].adm
             /\ Current(call[d].adm)' =>
                  \/ event'[call'[d].id].stored /\ event'[call'[d].id].body = call'[d].req.body
                  \/ call'[call'[d].id].req.ttl
  <2>1. CASE d = c
    <3>1. v.pc = "project" \/ v.out = "ok"
      BY <1>1, <1>5, <2>1 DEF Names
    <3>2. /\ v.pc \in {"project", "done"} /\ Behind(v.adm) /\ v.id \in Call
          /\ v.id = c \/ Past(v.id)
          /\ (IF v.id = c THEN v ELSE call[v.id]).adm = v.adm
          /\ Current(v.adm) =>
               \/ event[v.id].stored /\ event[v.id].body = v.req.body
               \/ (IF v.id = c THEN v ELSE call[v.id]).req.ttl
      BY <3>1
    <3>3. CASE v.id = c
      BY <1>1, <2>1, <3>2, <3>3 DEF Past, Behind, Current
    <3>4. CASE v.id # c
      BY <1>1, <1>2, <2>1, <3>2, <3>4 DEF Past, Behind, Current
    <3>5. QED BY <3>3, <3>4
  <2>2. CASE d # c
    <3>1. call'[d] = call[d] /\ Names(d)
      BY <1>1, <1>5, <2>2 DEF Names
    <3>2. /\ Past(d) /\ Behind(call[d].adm) /\ call[d].id \in Call
          /\ Past(call[d].id) /\ call[call[d].id].adm = call[d].adm
      BY <1>0, <3>1 DEF Naming
    <3>3. Current(call[d].adm) =>
            \/ event[call[d].id].stored /\ event[call[d].id].body = call[d].req.body
            \/ call[call[d].id].req.ttl
      BY <1>0, <3>1 DEF Receipts
    <3>4. QED BY <1>2, <3>1, <3>2, <3>3 DEF Past, Behind, Current
  <2>3. QED BY <2>1, <2>2
<1>8. Naming'
  BY <1>5 DEF Naming
<1>9. Receipts'
  BY <1>5 DEF Receipts
<1>10. Repairing'
  <2>1. repair.pc = "commit" => repair.seen \subseteq Call
    BY <1>0 DEF TypeOK
  <2>2. QED BY <1>0, <1>2, <2>1 DEF Repairing, Behind, Current
<1>11. Transaction'
  BY <1>0, <1>1 DEF Transaction, Current
<1>12. KeyedOnce'
  BY <1>0, <1>2 DEF KeyedOnce, Shape, Stored
<1>13. ProjectedHasChunk' /\ OrphanChunksExpire' /\ NoResurrection'
  BY <1>0 DEF ProjectedHasChunk, OrphanChunksExpire, NoResurrection, Stored, IsOpen
<1>14. QED BY <1>3, <1>4, <1>8, <1>9, <1>10, <1>11, <1>12, <1>13 DEF IInv
-----------------------------------------------------------------------------
(***************************************************************************)
(* The steps of a call that write nothing.                                 *)
(***************************************************************************)
\* A call that ends without a receipt.
LEMMA Unreceipted ==
  ASSUME IInv, NEW c \in Call, NEW out \in {"conflict", "refused", "error"},
         call' = Answer(c, out, NoCall), UNCHANGED <<gate, event, chunk, repair>>,
         holder' \in Call \cup {NoCall},
         \A d \in Call : d # c /\ call[d].pc = "insert" => holder' = holder
  PROVE  IInv'
<1> DEFINE v == [call[c] EXCEPT !.pc = "done", !.out = out, !.id = NoCall]
<1>1. call[c] \in CallState
  BY Fields DEF IInv
<1>2. call' = [call EXCEPT ![c] = v]
  BY DEF Answer
<1>3. v \in CallState
  BY <1>1 DEF CallState
<1>4. v.pc = "done" /\ v.out = out /\ v.req = call[c].req /\ v.adm = call[c].adm
  BY <1>1 DEF CallState
<1> HIDE DEF v
<1>5. QED BY <1>2, <1>3, <1>4, CallChange

\* A call that moves on towards its insert.
LEMMA Moved ==
  ASSUME IInv, NEW c \in Call, NEW pc \in {"insert", "duplicate"}, ~ Names(c), ~ Past(c),
         call' = Move(c, pc), UNCHANGED <<gate, event, chunk, repair>>,
         holder' \in Call \cup {NoCall},
         pc = "insert" => holder' = c /\ Current(call[c].adm),
         \A d \in Call : d # c /\ call[d].pc = "insert" => holder' = holder
  PROVE  IInv'
<1> DEFINE v == [call[c] EXCEPT !.pc = pc]
<1>1. call[c] \in CallState
  BY Fields DEF IInv
<1>2. call' = [call EXCEPT ![c] = v]
  BY DEF Move
<1>3. v \in CallState
  BY <1>1 DEF CallState
<1>4. v.pc = pc /\ v.out = call[c].out /\ v.req = call[c].req /\ v.adm = call[c].adm
  BY <1>1 DEF CallState
<1> HIDE DEF v
<1>5. QED BY <1>2, <1>3, <1>4, CallChange DEF Names

\* A replay answers with an event of the admission's own epoch and the request's payload.
LEMMA Replayed ==
  ASSUME IInv, NEW c \in Call, call[c].pc \in {"admitted", "duplicate"},
         NEW e \in Known(call[c].req), Admitted(call[c].adm),
         call' = Replay(c, e), UNCHANGED <<gate, event, chunk, repair, holder>>
  PROVE  IInv'
<1>0. TypeOK /\ Shape /\ NoResurrection
  BY DEF IInv
<1>1. e \in Call /\ event[e].stored
  BY DEF Known, Stored
<1>2. Current(call[c].adm) /\ Behind(call[c].adm)
  BY <1>0, FenceIsCurrent, CurrentIsBehind
<1>3. Past(e) /\ call[e].adm = call[c].adm
  BY <1>0, <1>1, <1>2 DEF Shape, NoResurrection, Current
<1>4. call[c] \in CallState /\ holder' \in Call \cup {NoCall}
  BY <1>0, Fields DEF TypeOK
<1>5. e # c
  BY <1>3 DEF Past
<1>6. CASE ~ SamePayload(e, call[c].req)
  <2>1. call' = Answer(c, "conflict", NoCall)
    BY <1>6 DEF Replay
  <2>2. QED BY <1>4, <2>1, Unreceipted
<1>7. CASE SamePayload(e, call[c].req)
  <2> DEFINE p == [call[c] EXCEPT !.pc = "project", !.id = e]
             d == [call[c] EXCEPT !.pc = "done", !.out = "ok", !.id = e]
  <2>1. PICK v \in {p, d} : call' = [call EXCEPT ![c] = v]
    BY <1>7 DEF Replay, Answer
  <2>2. v \in CallState
    <3>1. p \in CallState
      BY <1>1, <1>4 DEF CallState
    <3>2. d \in CallState
      BY <1>1, <1>4 DEF CallState
    <3>3. QED BY <3>1, <3>2
  <2>3. /\ v.req = call[c].req /\ v.adm = call[c].adm /\ v.id = e
        /\ v.pc \in {"project", "done"}
    BY <1>4 DEF CallState
  <2>4. event[e].body = v.req.body
    BY <1>7, <2>3 DEF SamePayload
  <2> HIDE DEF p, d
  <2>5. ~ Past(c)
    BY DEF Past
  <2>6. QED BY <1>1, <1>2, <1>3, <1>4, <1>5, <2>1, <2>2, <2>3, <2>4, <2>5, CallChange
<1>8. QED BY <1>6, <1>7

\* The steps of a call before and beside its insert.
LEMMA CallSteps ==
  ASSUME IInv, NEW c \in Call,
         \/ Begin(c) \/ Lookup(c) \/ Refused(c) \/ InsertFails(c) \/ DuplicateKey(c)
         \/ ReplayDuplicate(c) \/ ProjectFails(c) \/ Crash(c)
  PROVE  IInv'
<1>0. TypeOK /\ Naming /\ Receipts /\ Transaction /\ call[c] \in CallState
  BY Fields DEF IInv
<1>h. holder \in Call \cup {NoCall}
  BY <1>0 DEF TypeOK
<1>1. CASE Begin(c)
  <2>1. PICK r \in Request :
          call' = [call EXCEPT ![c] =
                     IF IsOpen(gate)
                     THEN [NewCall(r) EXCEPT !.pc = "admitted", !.adm = gate.epoch]
                     ELSE [NewCall(r) EXCEPT !.pc = "done", !.out = "refused"]]
    BY <1>1 DEF Begin
  <2> DEFINE a == [NewCall(r) EXCEPT !.pc = "admitted", !.adm = gate.epoch]
             d == [NewCall(r) EXCEPT !.pc = "done", !.out = "refused"]
  <2>2. PICK v \in {a, d} : call' = [call EXCEPT ![c] = v]
    BY <2>1
  <2>3. v \in CallState
    <3>1. gate.epoch \in Nat
      BY <1>0 DEF TypeOK, Gate
    <3>2. a \in CallState
      BY <3>1 DEF NewCall, CallState
    <3>3. d \in CallState
      BY DEF NewCall, CallState
    <3>4. QED BY <3>2, <3>3
  <2>4. v.pc \in {"admitted", "done"} /\ v.out \in {"none", "refused"}
    BY DEF NewCall
  <2> HIDE DEF a, d
  <2>5. ~ Past(c) /\ UNCHANGED <<gate, event, chunk, holder, repair>>
    BY <1>1 DEF Begin, Past
  <2>6. QED BY <1>h, <2>2, <2>3, <2>4, <2>5, CallChange
<1>2. CASE Lookup(c)
  <2>1. call[c].pc = "admitted" /\ Admitted(call[c].adm) /\ UNCHANGED <<gate, event, chunk, repair>>
    BY <1>2 DEF Lookup
  <2>2. CASE Known(call[c].req) = {}
    <3>1. call' = Move(c, "insert") /\ holder' = c
      BY <1>2, <2>2 DEF Lookup
    <3>2. ~ Past(c) /\ ~ Names(c)
      BY <1>0, <2>1 DEF Past, Naming
    <3>3. Current(call[c].adm) /\ \A d \in Call : call[d].pc # "insert"
      BY <1>0, <2>1, FenceIsCurrent, NoOtherInsert, WriteConstants
    <3>4. QED BY <2>1, <3>1, <3>2, <3>3, Moved
  <2>3. CASE Known(call[c].req) # {}
    <3>1. PICK e \in Known(call[c].req) : call' = Replay(c, e) /\ UNCHANGED holder
      BY <1>2, <2>3 DEF Lookup
    <3>2. QED BY <2>1, <3>1, Replayed
  <2>4. QED BY <2>2, <2>3
<1>3. CASE Refused(c)
  BY <1>h, <1>3, Unreceipted DEF Refused
<1>4. CASE InsertFails(c)
  <2>1. \A d \in Call : c # d => call[d].pc # "insert"
    BY <1>0, <1>4, NoOtherInsert DEF InsertFails
  <2>2. QED BY <1>4, <2>1, Unreceipted DEF InsertFails
<1>5. CASE DuplicateKey(c)
  <2>1. \A d \in Call : c # d => call[d].pc # "insert"
    BY <1>0, <1>5, NoOtherInsert DEF DuplicateKey
  <2>2. ~ Past(c) /\ ~ Names(c)
    BY <1>0, <1>5 DEF DuplicateKey, Past, Naming
  <2>3. QED BY <1>5, <2>1, <2>2, Moved DEF DuplicateKey
<1>6. CASE ReplayDuplicate(c)
  <2>1. /\ call[c].pc = "duplicate" /\ Admitted(call[c].adm)
        /\ UNCHANGED <<gate, event, chunk, holder, repair>>
    BY <1>6 DEF ReplayDuplicate
  <2>2. CASE Known(call[c].req) = {}
    <3>1. call' = Answer(c, "error", NoCall)
      BY <1>6, <2>2 DEF ReplayDuplicate
    <3>2. QED BY <1>h, <2>1, <3>1, Unreceipted
  <2>3. CASE Known(call[c].req) # {}
    <3>1. PICK e \in Known(call[c].req) : call' = Replay(c, e)
      BY <1>6, <2>3 DEF ReplayDuplicate
    <3>2. QED BY <2>1, <3>1, Replayed
  <2>4. QED BY <2>2, <2>3
<1>7. CASE ProjectFails(c)
  <2> DEFINE i == call[c].id
             v == [call[c] EXCEPT !.pc = "done", !.out = "ok", !.id = i]
  <2>1. call[c].pc = "project" /\ UNCHANGED <<gate, event, chunk, holder, repair>>
    BY <1>7 DEF ProjectFails
  <2>2. call' = [call EXCEPT ![c] = v]
    BY <1>7 DEF ProjectFails, Answer
  <2>3. v \in CallState
    BY <1>0 DEF CallState
  <2>4. v.pc = "done" /\ v.req = call[c].req /\ v.adm = call[c].adm /\ v.id = i
    BY <1>0 DEF CallState
  <2>5. /\ Behind(call[c].adm) /\ i \in Call /\ Past(i) /\ call[i].adm = call[c].adm
        /\ Current(call[c].adm) =>
             (event[i].stored /\ event[i].body = call[c].req.body) \/ call[i].req.ttl
    BY <1>0, <2>1 DEF Names, Naming, Receipts
  <2> HIDE DEF v, i
  <2>6. i = c => v.req = call[i].req /\ v.adm = call[i].adm
    BY <2>4
  <2>7. QED BY <1>h, <2>1, <2>2, <2>3, <2>4, <2>5, <2>6, CallChange
<1>8. CASE Crash(c)
  <2>1. \A d \in Call : d # c /\ call[d].pc = "insert" => holder = d
    BY <1>0 DEF Transaction
  <2>2. QED BY <1>h, <1>8, <2>1, Unreceipted DEF Crash
<1>9. QED BY <1>1, <1>2, <1>3, <1>4, <1>5, <1>6, <1>7, <1>8
-----------------------------------------------------------------------------
(***************************************************************************)
(* The writes of an event.                                                 *)
(***************************************************************************)
\* A new event of a call that has made none: no stored event has its key.
LEMMA NewEvent ==
  ASSUME IInv, NEW c \in Call, ~ Past(c), NEW r \in Request, Known(r) = {},
         NEW v \in CallState, v.req = r, v.adm = gate.epoch, v.pc \in {"project", "done"},
         v.pc = "project" \/ v.out = "ok" => v.id = c /\ Current(v.adm),
         event' = [event EXCEPT ![c] = Document(r, gate.epoch)],
         call' = [call EXCEPT ![c] = v], UNCHANGED <<gate, chunk, repair>>,
         holder' \in Call \cup {NoCall},
         \A d \in Call : d # c /\ call[d].pc = "insert" => holder' = holder
  PROVE  IInv'
<1>0. /\ TypeOK /\ Shape /\ Naming /\ Receipts /\ Repairing /\ Transaction
      /\ KeyedOnce /\ ProjectedHasChunk /\ OrphanChunksExpire /\ NoResurrection
  BY DEF IInv
<1> DEFINE x == Document(r, gate.epoch)
<1>1. /\ x.stored /\ x.key = r.key /\ x.body = r.body /\ x.epoch = gate.epoch
      /\ x.projected = FALSE /\ x.ttl = r.ttl /\ x.old = FALSE
  BY DEF Document
<1>2. x \in EventState
  <2>1. gate.epoch \in Nat
    BY <1>0 DEF TypeOK, Gate
  <2>2. r.key \in Key \cup {NoKey} /\ r.body \in Body /\ r.ttl \in BOOLEAN
    BY WriteConstants
  <2>3. QED BY <2>1, <2>2 DEF Document, EventState
<1>3. event' = [event EXCEPT ![c] = x]
  OBVIOUS
<1> HIDE DEF x
<1>4. /\ call' \in [Call -> CallState] /\ call'[c] = v
      /\ \A d \in Call : d # c => call'[d] = call[d]
  BY <1>0 DEF TypeOK, CallState
<1>5. /\ event' \in [Call -> EventState] /\ event'[c] = x
      /\ \A d \in Call : d # c => event'[d] = event[d]
  BY <1>0, <1>2, <1>3 DEF TypeOK, EventState
<1>6. TypeOK'
  BY <1>0, <1>4, <1>5 DEF TypeOK, CallState, EventState
<1>7. ~ event[c].stored /\ ~ chunk[c].stored /\ ~ chunk[c].ttl
  BY <1>0 DEF Shape
<1>8. Past(c)' /\ \A d \in Call : Past(d) => Past(d)' /\ d # c
  BY <1>4 DEF Past
<1>9. Shape'
  BY <1>0, <1>1, <1>4, <1>5, <1>7, <1>8 DEF Shape
<1>10. ASSUME NEW d \in Call, Names(d)'
       PROVE  /\ Past(d)' /\ Behind(call[d].adm)' /\ call'[d].id \in Call
              /\ Past(call[d].id)' /\ call'[call'[d].id].adm = call'[d].adm
              /\ Current(call[d].adm)' =>
                   \/ event'[call'[d].id].stored /\ event'[call'[d].id].body = call'[d].req.body
                   \/ call'[call'[d].id].req.ttl
  <2>1. CASE d = c
    <3>1. v.id = c /\ Current(v.adm)
      BY <1>4, <1>10, <2>1 DEF Names
    <3>2. Behind(v.adm)
      BY <1>0, <3>1, CurrentIsBehind
    <3>3. QED BY <1>1, <1>4, <1>5, <1>8, <2>1, <3>1, <3>2 DEF Past, Behind, Current
  <2>2. CASE d # c
    <3>1. call'[d] = call[d] /\ Names(d)
      BY <1>4, <1>10, <2>2 DEF Names
    <3>2. /\ Past(d) /\ Behind(call[d].adm) /\ call[d].id \in Call
          /\ Past(call[d].id) /\ call[call[d].id].adm = call[d].adm
      BY <1>0, <3>1 DEF Naming
    <3>3. Current(call[d].adm) =>
            \/ event[call[d].id].stored /\ event[call[d].id].body = call[d].req.body
            \/ call[call[d].id].req.ttl
      BY <1>0, <3>1 DEF Receipts
    <3>4. call[d].id # c
      BY <1>8, <3>2
    <3>5. QED BY <1>4, <1>5, <1>8, <3>1, <3>2, <3>3, <3>4 DEF Past, Behind, Current
  <2>3. QED BY <2>1, <2>2
<1>11. Naming' /\ Receipts'
  <2>1. Naming'
    BY <1>10 DEF Naming
  <2>2. Receipts'
    BY <1>10 DEF Receipts
  <2>3. QED BY <2>1, <2>2
<1>12. Repairing'
  <2>1. repair.pc = "commit" => repair.seen \subseteq Call
    BY <1>0 DEF TypeOK
  <2>2. QED BY <1>0, <1>4, <1>5, <1>8, <2>1 DEF Repairing, Behind, Current
<1>13. Transaction'
  BY <1>0, <1>4 DEF Transaction, Current
<1>14. KeyedOnce'
  <2>1. ASSUME NEW f \in Call, f # c, event'[f].stored, call'[f].req.key = r.key,
               r.key # NoKey, ~ event'[f].old
        PROVE  FALSE
    <3>1. event[f].stored /\ call[f].req.key = r.key /\ ~ event[f].old
      BY <1>4, <1>5, <2>1
    <3>2. event[f].key = r.key
      BY <1>0, <3>1 DEF Shape
    <3>3. QED BY <2>1, <3>1, <3>2 DEF Known, Stored
  <2>2. QED BY <1>0, <1>4, <1>5, <2>1 DEF KeyedOnce, Stored
<1>15. ProjectedHasChunk' /\ OrphanChunksExpire' /\ NoResurrection'
  BY <1>0, <1>1, <1>5, <1>7 DEF ProjectedHasChunk, OrphanChunksExpire, NoResurrection, Stored, IsOpen
<1>16. QED BY <1>6, <1>9, <1>11, <1>12, <1>13, <1>14, <1>15 DEF IInv

\* The insert of a fenced call, and an event written without the fence.
LEMMA InsertSteps ==
  ASSUME IInv, NEW c \in Call, Insert(c) \/ WriteOutside(c)
  PROVE  IInv'
<1>0. TypeOK /\ Transaction /\ call[c] \in CallState
  BY Fields DEF IInv
<1>h. holder \in Call \cup {NoCall}
  BY <1>0 DEF TypeOK
<1>1. CASE Insert(c)
  <2> DEFINE r == call[c].req
             p == [call[c] EXCEPT !.pc = "project", !.id = c]
             f == [call[c] EXCEPT !.pc = "done", !.out = "error", !.id = NoCall]
  <2>1. /\ call[c].pc = "insert" /\ Known(r) = {} /\ r \in Request
        /\ event' = [event EXCEPT ![c] = Document(r, gate.epoch)]
        /\ holder' = NoCall /\ UNCHANGED <<gate, chunk, repair>>
    BY <1>1, <1>0, Fields DEF Insert
  <2>2. PICK v \in {p, f} : call' = [call EXCEPT ![c] = v]
    BY <1>1 DEF Insert, Answer
  <2>3. v \in CallState
    <3>1. p \in CallState
      BY <1>0 DEF CallState
    <3>2. f \in CallState
      BY <1>0 DEF CallState
    <3>3. QED BY <3>1, <3>2
  <2>4. /\ v.req = r /\ v.adm = call[c].adm /\ v.pc \in {"project", "done"}
        /\ v.pc = "project" \/ v.out = "ok" => v.id = c
    BY <1>0 DEF CallState
  <2> HIDE DEF p, f, r
  <2>5. Current(call[c].adm) /\ gate.epoch = call[c].adm
    BY <1>0, <2>1 DEF Transaction, Current
  <2>6. ~ Past(c) /\ \A d \in Call : c # d => call[d].pc # "insert"
    BY <1>0, <2>1, NoOtherInsert DEF Past
  <2>7. QED BY <2>1, <2>2, <2>3, <2>4, <2>5, <2>6, NewEvent
<1>2. CASE WriteOutside(c)
  <2>1. PICK r \in Request :
          /\ Known(r) = {}
          /\ call' = [call EXCEPT ![c] = [NewCall(r) EXCEPT !.pc = "done", !.adm = gate.epoch]]
          /\ event' = [event EXCEPT ![c] = Document(r, gate.epoch)]
    BY <1>2 DEF WriteOutside
  <2> DEFINE v == [NewCall(r) EXCEPT !.pc = "done", !.adm = gate.epoch]
  <2>2. call[c].pc = "idle" /\ UNCHANGED <<gate, chunk, holder, repair>>
    BY <1>2 DEF WriteOutside
  <2>3. v \in CallState
    <3>1. gate.epoch \in Nat
      BY <1>0 DEF TypeOK, Gate
    <3>2. QED BY <3>1 DEF NewCall, CallState
  <2>4. v.req = r /\ v.adm = gate.epoch /\ v.pc = "done" /\ v.out = "none"
    BY DEF NewCall
  <2>5. call' = [call EXCEPT ![c] = v]
    BY <2>1
  <2> HIDE DEF v
  <2>6. ~ Past(c)
    BY <2>2 DEF Past
  <2>7. QED BY <1>h, <2>1, <2>2, <2>3, <2>4, <2>5, <2>6, NewEvent
<1>3. QED BY <1>1, <1>2
-----------------------------------------------------------------------------
(***************************************************************************)
(* The projection of events into chunks, and the repair.                   *)
(***************************************************************************)
\* Chunk and mark of a set of events whose calls were admitted in the current epoch and
\* that are stored or were to expire.
LEMMA Projection ==
  ASSUME IInv, NEW ids \in SUBSET Call,
         \A e \in ids : Past(e) /\ Current(call[e].adm) /\ (event[e].stored \/ call[e].req.ttl),
         chunk' = Chunks(ids), event' = Marked(ids), UNCHANGED <<gate, holder>>,
         call' \in [Call -> CallState],
         \A c \in Call : /\ call'[c].req = call[c].req /\ call'[c].adm = call[c].adm
                         /\ Past(c) => Past(c)'
                         /\ Names(c)' => Names(c) /\ call'[c].id = call[c].id
                         /\ call'[c].pc = "insert" => call[c].pc = "insert",
         TypeOK', repair' \in {repair, IdleRepair}
  PROVE  IInv'
<1>0. /\ TypeOK /\ Shape /\ Naming /\ Receipts /\ Repairing /\ Transaction
      /\ KeyedOnce /\ ProjectedHasChunk /\ OrphanChunksExpire /\ NoResurrection
  BY DEF IInv
<1>1. ASSUME NEW e \in Call
      PROVE  /\ event'[e].stored = event[e].stored /\ event'[e].body = event[e].body
             /\ event'[e].epoch = event[e].epoch /\ event'[e].ttl = event[e].ttl
             /\ event'[e].key = event[e].key /\ event'[e].old = event[e].old
             /\ event'[e].projected /\ e \notin ids => event[e].projected
  <2>1. event[e] \in EventState
    BY <1>0, Fields
  <2>2. event'[e] = IF e \in ids \cap Stored THEN [event[e] EXCEPT !.projected = TRUE]
                                             ELSE event[e]
    BY DEF Marked
  <2>3. QED BY <2>1, <2>2 DEF EventState
<1>2. ASSUME NEW e \in Call
      PROVE  /\ e \in ids => /\ chunk'[e].stored /\ chunk'[e].epoch = call[e].adm
                             /\ chunk'[e].ttl <=> (chunk[e].ttl \/ call[e].req.ttl)
             /\ e \notin ids => chunk'[e] = chunk[e]
  <2>1. chunk'[e] = IF e \in ids THEN Upserted(e) ELSE chunk[e]
    BY DEF Chunks
  <2>2. CASE e \in ids
    <3>1. /\ chunk'[e].stored /\ chunk'[e].epoch = call[e].adm
          /\ chunk'[e].ttl = (chunk[e].ttl \/ call[e].req.ttl)
      BY <2>1, <2>2 DEF Upserted
    <3>2. QED BY ONLY <2>2, <3>1
  <2>3. QED BY <2>1, <2>2
<1>3. Shape'
  <2> SUFFICES ASSUME NEW e \in Call
               PROVE  /\ event'[e].stored =>
                           /\ Past(e)'
                           /\ event'[e].epoch = call'[e].adm /\ event'[e].body = call'[e].req.body
                           /\ event'[e].ttl = call'[e].req.ttl
                           /\ event'[e].key = call'[e].req.key \/ event'[e].old
                      /\ chunk'[e].ttl => Past(e)' /\ call'[e].req.ttl
                      /\ chunk'[e].stored => Past(e)' /\ (call'[e].req.ttl => chunk'[e].ttl)
    BY DEF Shape
  <2>1. CASE e \in ids
    BY <1>0, <1>1, <1>2, <2>1 DEF Shape
  <2>2. CASE e \notin ids
    BY <1>0, <1>1, <1>2, <2>2 DEF Shape
  <2>3. QED BY <2>1, <2>2
<1>4. Naming'
  BY <1>0 DEF Naming, Past, Behind
<1>5. Receipts'
  BY <1>0, <1>1 DEF Naming, Receipts, Current
<1>6. Repairing'
  <2>1. CASE repair' = IdleRepair
    BY <2>1 DEF Repairing, IdleRepair
  <2>2. CASE repair' = repair
    <3>1. repair.pc = "commit" => repair.seen \subseteq Call
      BY <1>0 DEF TypeOK
    <3>2. QED BY <1>0, <1>1, <2>2, <3>1 DEF Repairing, Behind, Current
  <2>3. QED BY <2>1, <2>2
<1>7. Transaction'
  BY <1>0 DEF Transaction, Current
<1>8. KeyedOnce'
  BY <1>0, <1>1 DEF KeyedOnce, Stored
<1>9. ProjectedHasChunk'
  BY <1>0, <1>1, <1>2 DEF ProjectedHasChunk, Stored, IsOpen
<1>10. OrphanChunksExpire'
  BY <1>0, <1>1, <1>2 DEF OrphanChunksExpire, IsOpen
<1>11. NoResurrection'
  BY <1>0, <1>1, <1>2 DEF NoResurrection, Current, IsOpen
<1>12. QED BY <1>3, <1>4, <1>5, <1>6, <1>7, <1>8, <1>9, <1>10, <1>11 DEF IInv

\* Chunks and marks are chunks and events.
LEMMA ProjectionTypes ==
  ASSUME TypeOK, NEW ids \in SUBSET Call
  PROVE  Chunks(ids) \in [Call -> ChunkState] /\ Marked(ids) \in [Call -> EventState]
<1>1. ASSUME NEW e \in Call
      PROVE  Upserted(e) \in ChunkState /\ [event[e] EXCEPT !.projected = TRUE] \in EventState
  <2>1. call[e].adm \in Nat /\ event[e] \in EventState
    BY Fields
  <2>2. (chunk[e].ttl \/ call[e].req.ttl) \in BOOLEAN
    OBVIOUS
  <2>3. Upserted(e) \in ChunkState
    BY <2>1, <2>2 DEF Upserted, ChunkState
  <2>4. [event[e] EXCEPT !.projected = TRUE] \in EventState
    BY <2>1 DEF EventState
  <2>5. QED BY <2>3, <2>4
<1>2. \A e \in Call : event[e] \in EventState /\ chunk[e] \in ChunkState
  BY Fields
<1>3. QED BY <1>1, <1>2 DEF Chunks, Marked

\* The projection by the call itself.
LEMMA ProjectStep ==
  ASSUME IInv, NEW c \in Call, Project(c)
  PROVE  IInv'
<1>0. TypeOK /\ Naming /\ Receipts /\ call[c] \in CallState
  BY Fields DEF IInv
<1> DEFINE i == call[c].id
           v == [call[c] EXCEPT !.pc = "done", !.out = "ok", !.id = i]
<1>1. /\ call[c].pc = "project" /\ Admitted(call[c].adm)
      /\ chunk' = Chunks({i}) /\ event' = Marked({i})
      /\ UNCHANGED <<gate, holder, repair>>
  BY DEF Project
<1>2. call' = [call EXCEPT ![c] = v]
  BY DEF Project, Answer
<1>3. v \in CallState
  BY <1>0 DEF CallState
<1>4. v.pc = "done" /\ v.req = call[c].req /\ v.adm = call[c].adm /\ v.id = i
  BY <1>0 DEF CallState
<1>5. Current(call[c].adm)
  BY <1>1, FenceIsCurrent
<1>6. /\ i \in Call /\ Past(i) /\ call[i].adm = call[c].adm
      /\ event[i].stored \/ call[i].req.ttl
  BY <1>0, <1>1, <1>5 DEF Names, Naming, Receipts
<1> HIDE DEF v, i
<1>7. /\ call' \in [Call -> CallState] /\ call'[c] = v
      /\ \A d \in Call : d # c => call'[d] = call[d]
  BY <1>0, <1>2, <1>3 DEF TypeOK, CallState
<1>8. \A d \in Call : /\ call'[d].req = call[d].req /\ call'[d].adm = call[d].adm
                      /\ Past(d) => Past(d)'
                      /\ Names(d)' => Names(d) /\ call'[d].id = call[d].id
                      /\ call'[d].pc = "insert" => call[d].pc = "insert"
  BY <1>1, <1>4, <1>7 DEF Past, Names, i
<1>9. TypeOK'
  <2>1. chunk' \in [Call -> ChunkState] /\ event' \in [Call -> EventState]
    BY <1>0, <1>1, <1>6, ProjectionTypes
  <2>2. QED BY <1>0, <1>1, <1>7, <2>1 DEF TypeOK, CallState, ChunkState, EventState
<1>10. \A e \in {i} : Past(e) /\ Current(call[e].adm) /\ (event[e].stored \/ call[e].req.ttl)
  BY <1>5, <1>6
<1>11. QED BY <1>1, <1>6, <1>7, <1>8, <1>9, <1>10, Projection

\* The projection by the repair.
LEMMA RepairCommitStep ==
  ASSUME IInv, RepairCommit
  PROVE  IInv'
<1>0. TypeOK /\ Repairing
  BY DEF IInv
<1>1. /\ repair.pc = "commit" /\ Admitted(repair.adm)
      /\ chunk' = Chunks(repair.seen) /\ event' = Marked(repair.seen)
      /\ repair' = IdleRepair /\ UNCHANGED <<gate, call, holder>>
  BY DEF RepairCommit
<1>2. Current(repair.adm) /\ repair.seen \subseteq Call
  BY <1>0, <1>1, FenceIsCurrent DEF TypeOK
<1>3. \A e \in repair.seen :
        Past(e) /\ Current(call[e].adm) /\ (event[e].stored \/ call[e].req.ttl)
  BY <1>0, <1>1, <1>2 DEF Repairing
<1>4. IdleRepair \in [pc : {"idle", "scan", "commit"}, adm : Nat, seen : SUBSET Call]
  BY DEF IdleRepair
<1>5. TypeOK'
  <2>1. chunk' \in [Call -> ChunkState] /\ event' \in [Call -> EventState]
    BY <1>0, <1>1, <1>2, ProjectionTypes
  <2>2. QED BY <1>0, <1>1, <1>4, <2>1 DEF TypeOK, ChunkState, EventState
<1>6. /\ call' \in [Call -> CallState]
      /\ \A c \in Call : /\ call'[c].req = call[c].req /\ call'[c].adm = call[c].adm
                         /\ Past(c) => Past(c)'
                         /\ Names(c)' => Names(c) /\ call'[c].id = call[c].id
                         /\ call'[c].pc = "insert" => call[c].pc = "insert"
  BY <1>0, <1>1 DEF TypeOK, CallState, Past, Names
<1>7. QED BY <1>1, <1>2, <1>3, <1>5, <1>6, Projection

\* The steps of the repair that write nothing: what it sees is stored and was made under
\* the repair's own admission.
LEMMA RepairSteps ==
  ASSUME IInv, RepairBegin \/ RepairScan \/ RepairFails
  PROVE  IInv'
<1>0. /\ TypeOK /\ Shape /\ Naming /\ Receipts /\ Repairing /\ Transaction
      /\ KeyedOnce /\ ProjectedHasChunk /\ OrphanChunksExpire /\ NoResurrection
  BY DEF IInv
<1> DEFINE T == [pc : {"idle", "scan", "commit"}, adm : Nat, seen : SUBSET Call]
<1>1. UNCHANGED <<gate, event, chunk, call, holder>>
  BY DEF RepairBegin, RepairScan, RepairFails
<1>i. IdleRepair \in T /\ IdleRepair.pc = "idle"
  BY DEF IdleRepair
<1>2. CASE RepairBegin
  <2>1. gate.epoch \in Nat
    BY <1>0 DEF TypeOK, Gate
  <2>2. repair' = [pc |-> "scan", adm |-> gate.epoch, seen |-> {}]
    BY <1>2 DEF RepairBegin
  <2>3. repair' \in T /\ Repairing'
    BY <2>1, <2>2 DEF Repairing
  <2>4. QED BY <1>0, <1>1, <2>3 DEF IInv, TypeOK, Shape, Naming, Receipts, Transaction, Past,
                 Behind, Current, Names, KeyedOnce, ProjectedHasChunk, OrphanChunksExpire,
                 NoResurrection, Stored
<1>3. CASE RepairScan
  <2> DEFINE s == {e \in Stored : ~ event[e].projected}
  <2>1. repair.pc = "scan" /\ Current(repair.adm)
    BY <1>3, FenceIsCurrent DEF RepairScan
  <2>2. repair' = IdleRepair \/ repair' = [repair EXCEPT !.pc = "commit", !.seen = s]
    BY <1>3 DEF RepairScan
  <2>3. s \subseteq Call /\ \A e \in s : event[e].stored
    BY DEF Stored
  <2>4. \A e \in s : Past(e) /\ call[e].adm = repair.adm
    BY <1>0, <2>1, <2>3 DEF Shape, NoResurrection, Current
  <2>5. Behind(repair.adm)
    BY <1>0, <2>1, CurrentIsBehind
  <2> HIDE DEF s
  <2>6. repair' \in T
    BY <1>0, <1>i, <2>2, <2>3 DEF TypeOK
  <2>7. repair'.pc = "commit" => repair'.adm = repair.adm /\ repair'.seen = s
    BY <1>0, <1>i, <2>2 DEF TypeOK
  <2>8. Repairing'
    BY <1>1, <2>3, <2>4, <2>5, <2>7 DEF Repairing, Past, Behind, Current
  <2>9. QED BY <1>0, <1>1, <2>6, <2>8 DEF IInv, TypeOK, Shape, Naming, Receipts, Transaction, Past,
                 Behind, Current, Names, KeyedOnce, ProjectedHasChunk, OrphanChunksExpire,
                 NoResurrection, Stored
<1>4. CASE RepairFails
  <2>1. repair' \in T /\ Repairing'
    BY <1>4, <1>i DEF RepairFails, Repairing
  <2>2. QED BY <1>0, <1>1, <2>1 DEF IInv, TypeOK, Shape, Naming, Receipts, Transaction, Past,
                 Behind, Current, Names, KeyedOnce, ProjectedHasChunk, OrphanChunksExpire,
                 NoResurrection, Stored
<1>5. QED BY <1>2, <1>3, <1>4
-----------------------------------------------------------------------------
(***************************************************************************)
(* What happens to stored events and chunks, and the erasure.              *)
(***************************************************************************)
\* Events that grow old, lose an old key, or go: those that were to expire, or every one
\* while the tenant is erased.
LEMMA EventsDecay ==
  ASSUME IInv, UNCHANGED <<gate, chunk, call, holder, repair>>,
         event' \in [Call -> EventState],
         \A e \in Call :
           /\ event'[e].stored =>
                /\ event[e].stored /\ event'[e].body = event[e].body
                /\ event'[e].epoch = event[e].epoch /\ event'[e].ttl = event[e].ttl
                /\ event'[e].projected = event[e].projected
                /\ event[e].old => event'[e].old
                /\ event'[e].key = event[e].key \/ event'[e].old
           /\ event[e].stored /\ ~ event'[e].stored => event[e].ttl \/ IsErasing(gate)
  PROVE  IInv'
<1>0. /\ TypeOK /\ Shape /\ Naming /\ Receipts /\ Repairing /\ Transaction
      /\ KeyedOnce /\ ProjectedHasChunk /\ OrphanChunksExpire /\ NoResurrection
  BY DEF IInv
<1>1. TypeOK'
  BY <1>0 DEF TypeOK, EventState
<1>2. Shape'
  BY <1>0 DEF Shape, Past
<1>3. Naming' /\ Transaction'
  BY <1>0 DEF Naming, Transaction, Names, Past, Behind, Current
<1>4. ~ (IsOpen(gate) /\ IsErasing(gate))
  BY DEF IsOpen, IsErasing
<1>5. \A e \in Call : event[e].stored /\ ~ event'[e].stored /\ IsOpen(gate) => call[e].req.ttl
  BY <1>0, <1>4 DEF Shape
<1>6. Receipts'
  <2>1. ASSUME NEW c \in Call, Names(c), Current(call[c].adm)
        PROVE  \/ event'[call[c].id].stored /\ event'[call[c].id].body = call[c].req.body
               \/ call[call[c].id].req.ttl
    <3>1. call[c].id \in Call
      BY <1>0, <2>1 DEF Naming
    <3>2. \/ event[call[c].id].stored /\ event[call[c].id].body = call[c].req.body
          \/ call[call[c].id].req.ttl
      BY <1>0, <2>1 DEF Receipts
    <3>3. QED BY <1>5, <2>1, <3>1, <3>2 DEF Current
  <2>2. QED BY <2>1 DEF Receipts, Names, Current
<1>7. Repairing'
  <2>1. repair.pc = "commit" => repair.seen \subseteq Call
    BY <1>0 DEF TypeOK
  <2>2. QED BY <1>0, <1>5, <2>1 DEF Repairing, Past, Behind, Current
<1>8. KeyedOnce'
  BY <1>0 DEF KeyedOnce, Stored, EventState
<1>9. ProjectedHasChunk' /\ NoResurrection'
  BY <1>0 DEF ProjectedHasChunk, NoResurrection, Stored
<1>10. OrphanChunksExpire'
  BY <1>0, <1>5 DEF OrphanChunksExpire, Shape
<1>11. QED BY <1>1, <1>2, <1>3, <1>6, <1>7, <1>8, <1>9, <1>10 DEF IInv

\* Retention, the TTL of events, and the erasure of events.
LEMMA EventSteps ==
  ASSUME IInv,
         \/ \E e \in Call : Age(e) \/ ExpireEvent(e)
         \/ Prune \/ EraseEvents
  PROVE  IInv'
<1>0. TypeOK /\ \A e \in Call : event[e] \in EventState
  BY Fields DEF IInv
<1>n. NoEvent \in EventState /\ ~ NoEvent.stored
  BY DEF NoEvent, EventState
<1>1. ASSUME NEW e \in Call, Age(e)
      PROVE  IInv'
  <2> DEFINE x == [event[e] EXCEPT !.old = TRUE]
  <2>1. event' = [event EXCEPT ![e] = x] /\ UNCHANGED <<gate, chunk, call, holder, repair>>
    BY <1>1 DEF Age
  <2>2. x \in EventState
    BY <1>0 DEF EventState
  <2>3. /\ x.stored = event[e].stored /\ x.body = event[e].body /\ x.epoch = event[e].epoch
        /\ x.ttl = event[e].ttl /\ x.projected = event[e].projected /\ x.old
    BY <1>0 DEF EventState
  <2> HIDE DEF x
  <2>4. /\ event' \in [Call -> EventState] /\ event'[e] = x
        /\ \A f \in Call : f # e => event'[f] = event[f]
    BY <1>0, <2>1, <2>2 DEF TypeOK
  <2>5. QED BY <2>1, <2>3, <2>4, EventsDecay
<1>2. ASSUME NEW e \in Call, ExpireEvent(e)
      PROVE  IInv'
  <2>1. /\ event' = [event EXCEPT ![e] = NoEvent] /\ event[e].ttl
        /\ UNCHANGED <<gate, chunk, call, holder, repair>>
    BY <1>2 DEF ExpireEvent
  <2>2. /\ event' \in [Call -> EventState] /\ event'[e] = NoEvent
        /\ \A f \in Call : f # e => event'[f] = event[f]
    BY <1>0, <1>n, <2>1 DEF TypeOK
  <2>3. QED BY <1>n, <2>1, <2>2, EventsDecay
<1>3. CASE Prune
  <2>1. /\ event' = [e \in Call |-> IF event[e].old THEN [event[e] EXCEPT !.key = NoKey]
                                                    ELSE event[e]]
        /\ UNCHANGED <<gate, chunk, call, holder, repair>>
    BY <1>3 DEF Prune
  <2>2. ASSUME NEW e \in Call
        PROVE  /\ event'[e] \in EventState
               /\ event'[e].stored = event[e].stored /\ event'[e].body = event[e].body
               /\ event'[e].epoch = event[e].epoch /\ event'[e].ttl = event[e].ttl
               /\ event'[e].projected = event[e].projected /\ event'[e].old = event[e].old
               /\ event'[e].key = event[e].key \/ event'[e].old
    <3>1. event[e] \in EventState
      BY <1>0
    <3>2. event'[e] = IF event[e].old THEN [event[e] EXCEPT !.key = NoKey] ELSE event[e]
      BY <2>1
    <3>3. CASE event[e].old
      BY <3>1, <3>2, <3>3 DEF EventState
    <3>4. CASE ~ event[e].old
      BY <3>1, <3>2, <3>4
    <3>5. QED BY <3>3, <3>4
  <2>3. event' \in [Call -> EventState]
    BY <2>1, <2>2
  <2>4. QED BY <2>1, <2>2, <2>3, EventsDecay
<1>4. CASE EraseEvents
  <2>1. /\ event' = [e \in Call |-> NoEvent] /\ IsErasing(gate)
        /\ UNCHANGED <<gate, chunk, call, holder, repair>>
    BY <1>4 DEF EraseEvents
  <2>2. event' \in [Call -> EventState] /\ \A e \in Call : event'[e] = NoEvent
    BY <1>n, <2>1
  <2>3. QED BY <1>n, <2>1, <2>2, EventsDecay
<1>5. QED BY <1>1, <1>2, <1>3, <1>4

\* The TTL of chunks, and their erasure.
LEMMA ChunkSteps ==
  ASSUME IInv, (\E e \in Call : ExpireChunk(e)) \/ EraseChunks
  PROVE  IInv'
<1>0. /\ TypeOK /\ Shape /\ Naming /\ Receipts /\ Repairing /\ Transaction
      /\ KeyedOnce /\ ProjectedHasChunk /\ OrphanChunksExpire /\ NoResurrection
  BY DEF IInv
<1>1. UNCHANGED <<gate, event, call, holder, repair>>
  BY DEF ExpireChunk, EraseChunks
<1>2. NoChunk \in ChunkState /\ ~ NoChunk.stored /\ ~ NoChunk.ttl
  BY DEF NoChunk, ChunkState
<1>3. /\ chunk' \in [Call -> ChunkState]
      /\ \A e \in Call : \/ chunk'[e] = chunk[e]
                         \/ chunk'[e] = NoChunk /\ (chunk[e].ttl \/ IsErasing(gate))
  <2>1. ASSUME NEW e \in Call, ExpireChunk(e)
        PROVE  /\ chunk' \in [Call -> ChunkState]
               /\ \A f \in Call : chunk'[f] = chunk[f] \/ (chunk'[f] = NoChunk /\ chunk[f].ttl)
    BY <1>0, <1>2, <2>1 DEF ExpireChunk, TypeOK, ChunkState
  <2>2. CASE EraseChunks
    BY <1>2, <2>2 DEF EraseChunks
  <2>3. QED BY <2>1, <2>2
<1>4. ~ (IsOpen(gate) /\ IsErasing(gate))
  BY DEF IsOpen, IsErasing
<1>5. TypeOK'
  BY <1>0, <1>1, <1>3 DEF TypeOK, ChunkState
<1>6. Shape'
  BY <1>0, <1>1, <1>2, <1>3 DEF Shape, Past
<1>7. ProjectedHasChunk' /\ OrphanChunksExpire' /\ NoResurrection'
  BY <1>0, <1>1, <1>2, <1>3, <1>4
     DEF ProjectedHasChunk, OrphanChunksExpire, NoResurrection, Stored, Shape
<1>8. QED BY <1>0, <1>1, <1>5, <1>6, <1>7 DEF IInv, Naming, Receipts, Repairing, Transaction,
                Past, Behind, Current, Names, KeyedOnce, Stored

\* An erasure begins when no transaction is open, and ends when nothing is stored.
LEMMA GateSteps ==
  ASSUME IInv, BeginErasure \/ Reopen
  PROVE  IInv'
<1>0. /\ TypeOK /\ Shape /\ Naming /\ Receipts /\ Repairing /\ Transaction
      /\ KeyedOnce /\ ProjectedHasChunk /\ OrphanChunksExpire /\ NoResurrection
  BY DEF IInv
<1>1. UNCHANGED <<event, chunk, call, holder, repair>>
  BY DEF BeginErasure, Reopen
<1>g. gate.epoch \in Nat /\ gate.serial \in Nat /\ gate.runId \in Run \cup {NoRun}
  BY <1>0 DEF TypeOK, Gate
<1>a. ASSUME NEW c \in Call
      PROVE  call[c].adm \in Nat
  BY <1>0, Fields
<1>r. repair.adm \in Nat
  BY <1>0 DEF TypeOK
<1>2. CASE BeginErasure
  <2>1. PICK r \in Run : gate' = Begun(gate, r)
    BY <1>2 DEF BeginErasure
  <2>2. /\ gate' \in Gate /\ gate'.epoch = gate.epoch + 1 /\ IsErasing(gate') /\ ~ IsOpen(gate')
    BY <1>g, <2>1 DEF Begun, Gate, IsErasing, IsOpen
  <2>3. TypeOK'
    BY <1>0, <1>1, <2>2 DEF TypeOK
  <2>4. Transaction'
    <3>1. \A c \in Call : call[c].pc # "insert"
      BY <1>0, <1>2, WriteConstants DEF BeginErasure, Transaction
    <3>2. QED BY <1>1, <3>1 DEF Transaction
  <2>5. Naming'
    BY <1>0, <1>1, <1>a, <1>g, <2>2 DEF Naming, Names, Past, Behind
  <2>6. Repairing'
    BY <1>0, <1>1, <1>r, <1>g, <2>2 DEF Repairing, Past, Behind, Current
  <2>7. Receipts' /\ ProjectedHasChunk' /\ OrphanChunksExpire' /\ NoResurrection'
    BY <2>2 DEF Receipts, Current, ProjectedHasChunk, OrphanChunksExpire, NoResurrection
  <2>8. Shape' /\ KeyedOnce'
    BY <1>0, <1>1 DEF Shape, Past, KeyedOnce, Stored
  <2>9. QED BY <2>3, <2>4, <2>5, <2>6, <2>7, <2>8 DEF IInv
<1>3. CASE Reopen
  <2>1. /\ IsErasing(gate) /\ gate' = Reopened(gate)
        /\ \A e \in Call : ~ event[e].stored /\ ~ chunk[e].stored
    BY <1>3 DEF Reopen, Stored
  <2>2. gate' \in Gate /\ gate'.epoch = gate.epoch /\ ~ IsErasing(gate')
    BY <1>0, <2>1 DEF TypeOK, Reopened, Gate, IsErasing
  <2>3. ~ IsOpen(gate)
    BY <2>1 DEF IsErasing, IsOpen
  <2>4. TypeOK'
    BY <1>0, <1>1, <2>2 DEF TypeOK
  <2>5. Transaction'
    BY <1>0, <1>1, <2>3 DEF Transaction, Current
  <2>6. Naming'
    BY <1>0, <1>1, <2>2 DEF Naming, Names, Past, Behind
  <2>7. \A c \in Call : Names(c) => call[c].adm < gate.epoch
    BY <1>0, <2>1 DEF Naming, Behind
  <2>8. Receipts'
    BY <1>1, <1>a, <1>g, <2>2, <2>7 DEF Receipts, Current, Names
  <2>9. Repairing'
    BY <1>0, <1>1, <1>r, <1>g, <2>1, <2>2 DEF Repairing, Past, Behind, Current
  <2>10. ProjectedHasChunk' /\ OrphanChunksExpire' /\ NoResurrection'
    BY <1>1, <2>1 DEF ProjectedHasChunk, OrphanChunksExpire, NoResurrection, Stored
  <2>11. Shape' /\ KeyedOnce'
    BY <1>0, <1>1 DEF Shape, Past, KeyedOnce, Stored
  <2>12. QED BY <2>4, <2>5, <2>6, <2>8, <2>9, <2>10, <2>11 DEF IInv
<1>4. QED BY <1>2, <1>3
-----------------------------------------------------------------------------
(***************************************************************************)
(* The theorems.                                                           *)
(***************************************************************************)
\* The inductive invariant holds initially.
LEMMA InitInv ==
  ASSUME Init
  PROVE  IInv
<1>1. PICK r \in Request : \A c \in Call : call[c] = NewCall(r)
  <2>1. (CHOOSE r \in Request : TRUE) \in Request
    BY WriteConstants
  <2>2. QED BY <2>1 DEF Init
<1>2. \A c \in Call : call[c].pc = "idle" /\ call[c].out = "none"
  BY <1>1 DEF NewCall
<1>3. TypeOK
  <2>1. gate \in Gate
    BY DEF Init, OpenGate, Gate
  <2>2. NewCall(r) \in CallState
    BY DEF NewCall, CallState
  <2>3. call \in [Call -> CallState]
    <3>1. call = [c \in Call |-> NewCall(r)]
      BY <1>1 DEF Init
    <3>2. QED BY <2>2, <3>1
  <2>4. NoEvent \in EventState /\ NoChunk \in ChunkState
    BY DEF NoEvent, EventState, NoChunk, ChunkState
  <2>5. IdleRepair \in [pc : {"idle", "scan", "commit"}, adm : Nat, seen : SUBSET Call]
    BY DEF IdleRepair
  <2>6. QED BY <2>1, <2>3, <2>4, <2>5 DEF Init, TypeOK, CallState, EventState, ChunkState
<1>4. \A e \in Call : ~ event[e].stored /\ ~ chunk[e].stored /\ ~ chunk[e].ttl
  BY DEF Init, NoEvent, NoChunk
<1>5. Shape
  BY <1>4 DEF Shape
<1>6. Naming /\ Receipts /\ Transaction
  BY <1>2 DEF Naming, Receipts, Transaction, Names
<1>7. Repairing
  BY DEF Init, IdleRepair, Repairing
<1>8. KeyedOnce /\ ProjectedHasChunk /\ OrphanChunksExpire /\ NoResurrection
  BY <1>4 DEF KeyedOnce, ProjectedHasChunk, OrphanChunksExpire, NoResurrection, Stored
<1>9. QED BY <1>3, <1>5, <1>6, <1>7, <1>8 DEF IInv

\* The inductive invariant behind the theorems below.
THEOREM Invariance == Spec => []IInv
<1>1. Init => IInv
  BY InitInv
<1>2. IInv /\ [Next]_vars => IInv'
  <2> SUFFICES ASSUME IInv, [Next]_vars PROVE IInv'
    OBVIOUS
  <2>1. ASSUME NEW c \in Call, CallStep(c)
        PROVE  IInv'
    BY <2>1, CallSteps, InsertSteps, ProjectStep DEF CallStep
  <2>2. ASSUME NEW c \in Call, Age(c) \/ ExpireEvent(c) \/ ExpireChunk(c)
        PROVE  IInv'
    BY <2>2, EventSteps, ChunkSteps
  <2>3. CASE Sweep
    BY <2>3, RepairSteps, RepairCommitStep, EventSteps DEF Sweep
  <2>4. CASE Erase
    BY <2>4, GateSteps, EventSteps, ChunkSteps DEF Erase
  <2>5. CASE UNCHANGED vars
    BY <2>5 DEF vars, IInv, TypeOK, Shape, Naming, Receipts, Repairing, Transaction, Past,
                Behind, Current, Names, KeyedOnce, ProjectedHasChunk, OrphanChunksExpire,
                NoResurrection, Stored
  <2>6. QED BY <2>1, <2>2, <2>3, <2>4, <2>5 DEF Next
<1>3. QED BY <1>1, <1>2, PTL DEF Spec

\* A keyed write is stored once while its key is retained, and every receipt names an
\* event with the payload of its request (replayIdempotentEventWrite).
THEOREM IdempotencySafety == Spec => []KeyedWritesHold
<1>1. IInv => KeyedWritesHold
  BY DEF IInv, KeyedWritesHold, ReceiptsHold, Receipts, Names, Current
<1>2. QED BY <1>1, Invariance, PTL

\* Chunks follow their events: a projected event has its chunk, an orphaned chunk
\* expires, and nothing of an earlier epoch is there once the gate is open again
\* (projectEventChunk, projectEventChunksBatch, deleteAllForAgent).
THEOREM ProjectionSafety == Spec => []TextFollowsEvent
<1>1. IInv => TextFollowsEvent
  BY DEF IInv, TextFollowsEvent
<1>2. QED BY <1>1, Invariance, PTL
=============================================================================
