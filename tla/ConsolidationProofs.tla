------------------------- MODULE ConsolidationProofs -------------------------
(***************************************************************************)
(* Consolidation for any callers, events and bounds: its two state         *)
(* invariants and its action property.                                     *)
(*                                                                         *)
(* NoStaleFacts is inductive.  RunsHonest is not: an acknowledgement looks *)
(* at no event again, it writes what the batch, minus the failures, has    *)
(* come to be.  PhasesDone says what that is in every phase of a run, a    *)
(* run that was crashed or robbed of its lease included, and Ledger what   *)
(* the two flags of a run say about its writes before it reports them.     *)
(***************************************************************************)
EXTENDS Consolidation, TLAPS

Statuses == Writing \cup {"idle", "claim", "read", "score", "finish", "fail"}

Pin == [key : FactKey, revision : Nat, kept : FactKey, keptRevision : Nat]

CallState ==
  [pc : Statuses, adm : Nat, batch : SUBSET Event, todo : SUBSET Event,
   failed : SUBSET Event, error : BOOLEAN, heartbeat : {"ok", "lost", "error"},
   pin : Pin, committed : BOOLEAN, uncertain : BOOLEAN, wrote : BOOLEAN,
   report : {"none", "committed", "unknown"}]

RowState == [status : {"none", "running", "completed", "failed"},
             owner : Caller \cup {NoCaller}, live : BOOLEAN, paced : BOOLEAN]

EventState == [stored : BOOLEAN, processed : BOOLEAN, graph : BOOLEAN, settled : BOOLEAN]

FactState == [state : {"none", "active", "invalidated"}, revision : Nat, epoch : Nat]

Types ==
  /\ gate \in Gate
  /\ row \in RowState
  /\ event \in [Event -> EventState]
  /\ fact \in [FactKey -> FactState]
  /\ call \in [Caller -> CallState]
  /\ faults \in 0..MaxFault

\* What a run of this state has done about an event of its batch that has not failed:
\* x is the event.
DoneIn(k, e, x) ==
  /\ k.pc = "candidates" /\ e \notin k.todo => x.settled
  /\ k.pc \in Writing \ {"candidates"} => x.settled
  /\ k.pc = "graph" /\ e \notin k.todo => x.graph
  /\ k.pc \in Writing \ {"candidates", "graph"} => x.graph

DoneWith(k, e) == DoneIn(k, e, event[e])

DoneBy(c) ==
  \A e \in call[c].batch \ call[c].failed : event[e].stored => DoneWith(call[c], e)

PhasesDone == \A c \in Caller : DoneBy(c)

\* The flags the report is made from, and the report.
Accounts(k) == (k.committed => k.wrote) /\ (k.wrote => k.committed \/ k.uncertain)

Reports(k) == (k.report = "none" => ~ k.wrote) /\ (k.report = "committed" => k.wrote)

Truthful(k) == IF k.pc = "idle" THEN Reports(k) ELSE Accounts(k)

Ledger == \A c \in Caller : Truthful(call[c])

IInv == Types /\ NoStaleFacts /\ PhasesDone /\ Ledger /\ AckedMeansDone
-----------------------------------------------------------------------------
(***************************************************************************)
(* Types.                                                                  *)
(***************************************************************************)
\* The constants that initialise records have their types.
LEMMA Constants ==
  /\ NoRow \in RowState /\ NoFact \in FactState /\ NoEvent \in EventState
  /\ NoPin \in Pin /\ IdleCall \in CallState /\ Inference \in FactKey
  /\ Event \subseteq FactKey
<1>1. Inference \in FactKey /\ Event \subseteq FactKey
  BY DEF FactKey
<1>2. NoRow \in RowState /\ NoFact \in FactState /\ NoEvent \in EventState
  BY DEF NoRow, RowState, NoFact, FactState, NoEvent, EventState
<1>3. NoPin \in Pin
  BY <1>1 DEF NoPin, Pin
<1>4. IdleCall \in CallState
  BY <1>3 DEF IdleCall, CallState, Statuses
<1>5. QED BY <1>1, <1>2, <1>3, <1>4

\* The gate stays a gate when an erasure begins and when it ends.
LEMMA GateTypes ==
  ASSUME gate \in Gate
  PROVE  /\ \A r \in Run : Begun(gate, r) \in Gate
         /\ Reopened(gate) \in Gate /\ Reopened(gate).epoch = gate.epoch
<1>1. gate.epoch \in Nat /\ gate.serial \in Nat /\ gate.runId \in Run \cup {NoRun}
  BY DEF Gate
<1>2. \A r \in Run : Begun(gate, r) \in Gate
  BY <1>1 DEF Begun, Gate
<1>3. Reopened(gate) \in Gate /\ Reopened(gate).epoch = gate.epoch
  BY DEF Reopened, Gate
<1>4. QED BY <1>2, <1>3

\* The fields of a run.
LEMMA CallFields ==
  ASSUME Types, NEW c \in Caller
  PROVE  /\ call[c] \in CallState
         /\ call[c].pc \in Statuses /\ call[c].adm \in Nat
         /\ call[c].batch \subseteq Event /\ call[c].todo \subseteq Event
         /\ call[c].failed \subseteq Event /\ call[c].error \in BOOLEAN
         /\ call[c].pin \in Pin /\ call[c].committed \in BOOLEAN
         /\ call[c].uncertain \in BOOLEAN /\ call[c].wrote \in BOOLEAN
         /\ call[c].heartbeat \in {"ok", "lost", "error"}
         /\ call[c].report \in {"none", "committed", "unknown"}
<1>1. call[c] \in CallState
  BY DEF Types
<1>2. QED BY <1>1 DEF CallState

\* A run that moves on stays a run, and its record of writes and failures is kept.
LEMMA AdvancedRun ==
  ASSUME Types, NEW c \in Caller, NEW e \in Event, HasWrite(c, e)
  PROVE  /\ Advanced(c, e) \in CallState
         /\ Advanced(c, e).batch = call[c].batch /\ Advanced(c, e).failed = call[c].failed
         /\ Advanced(c, e).committed = call[c].committed
         /\ Advanced(c, e).uncertain = call[c].uncertain
         /\ Advanced(c, e).wrote = call[c].wrote
         /\ Advanced(c, e).pc # "idle"
         /\ \A f \in call[c].batch : f # e /\ DoneWith(call[c], f) => DoneWith(Advanced(c, e), f)
<1>1. call[c] \in CallState /\ call[c].todo \subseteq Event
  BY CallFields
<1>2. CASE call[c].pc \in {"candidates", "graph"}
  <2>1. Advanced(c, e) = [call[c] EXCEPT !.todo = @ \ {e}]
    BY <1>2 DEF Advanced
  <2>2. QED BY <1>1, <1>2, <2>1 DEF CallState, Statuses, DoneIn, DoneWith, Writing
<1>3. CASE call[c].pc = "reason"
  <2>1. Advanced(c, e) = [call[c] EXCEPT !.pc = "dedup"]
    BY <1>3 DEF Advanced
  <2>2. QED BY <1>1, <1>3, <2>1 DEF CallState, Statuses, DoneIn, DoneWith, Writing
<1>4. CASE call[c].pc = "dedup"
  <2>1. Advanced(c, e) = [call[c] EXCEPT !.pc = "prune", !.pin = NoPin]
    BY <1>4 DEF Advanced
  <2>2. QED BY <1>1, <1>4, <2>1, Constants DEF CallState, Statuses, DoneIn, DoneWith, Writing
<1>5. CASE call[c].pc = "prune"
  <2>1. Advanced(c, e) = [call[c] EXCEPT !.pc = "spend", !.pin = NoPin]
    BY <1>5 DEF Advanced
  <2>2. QED BY <1>1, <1>5, <2>1, Constants DEF CallState, Statuses, DoneIn, DoneWith, Writing
<1>6. CASE call[c].pc = "spend"
  <2>1. Advanced(c, e) = [call[c] EXCEPT !.pc = "ack"]
    BY <1>6 DEF Advanced
  <2>2. QED BY <1>1, <1>6, <2>1 DEF CallState, Statuses, DoneIn, DoneWith, Writing
<1>7. CASE call[c].pc = "ack"
  <2>1. Advanced(c, e) = [call[c] EXCEPT !.pc = "finish"]
    BY <1>7 DEF Advanced
  <2>2. QED BY <1>1, <1>7, <2>1 DEF CallState, Statuses, DoneIn, DoneWith, Writing
<1>8. QED BY <1>2, <1>3, <1>4, <1>5, <1>6, <1>7 DEF HasWrite

\* A run whose write fails stays a run; the event of the write, or every event, counts
\* as failed from then on.
LEMMA FailedRun ==
  ASSUME Types, NEW c \in Caller, NEW e \in Event, HasWrite(c, e)
  PROVE  /\ Failed(c, e) \in CallState
         /\ Failed(c, e).batch = call[c].batch
         /\ Failed(c, e).committed = call[c].committed
         /\ Failed(c, e).uncertain = call[c].uncertain
         /\ Failed(c, e).wrote = call[c].wrote
         /\ Failed(c, e).pc # "idle"
         /\ \A f \in call[c].batch \ Failed(c, e).failed :
              /\ f \notin call[c].failed
              /\ DoneWith(call[c], f) => DoneWith(Failed(c, e), f)
<1>1. call[c] \in CallState /\ call[c].batch \subseteq Event /\ call[c].failed \subseteq Event
  BY CallFields
<1> DEFINE a == Advanced(c, e)
<1>2. /\ a \in CallState /\ a.batch = call[c].batch /\ a.failed = call[c].failed
      /\ a.committed = call[c].committed /\ a.uncertain = call[c].uncertain
      /\ a.wrote = call[c].wrote /\ a.pc # "idle"
      /\ \A f \in call[c].batch : f # e /\ DoneWith(call[c], f) => DoneWith(a, f)
  BY AdvancedRun
<1>3. CASE call[c].pc \in {"candidates", "graph"}
  <2> DEFINE s == call[c].failed \cup {e}
  <2>1. Failed(c, e) = [a EXCEPT !.error = TRUE, !.failed = @ \cup {e}]
    BY <1>3 DEF Failed, EventFailed
  <2> HIDE DEF a
  <2>2. Failed(c, e) = [a EXCEPT !.error = TRUE, !.failed = s]
    BY <2>1, <1>2 DEF CallState
  <2>3. s \in SUBSET Event
    BY <1>1
  <2> HIDE DEF s
  <2>4. Failed(c, e) \in CallState
    BY <1>2, <2>2, <2>3 DEF CallState
  <2>5. /\ Failed(c, e).failed = s
        /\ Failed(c, e).batch = a.batch
        /\ Failed(c, e).committed = a.committed /\ Failed(c, e).uncertain = a.uncertain
        /\ Failed(c, e).wrote = a.wrote /\ Failed(c, e).pc = a.pc
        /\ Failed(c, e).todo = a.todo
    BY <1>2, <2>2 DEF CallState
  <2>6. QED BY <1>1, <1>2, <2>4, <2>5 DEF DoneIn, DoneWith, s
<1>4. CASE call[c].pc \in {"reason", "dedup", "prune"}
  <2>1. Failed(c, e) = [a EXCEPT !.error = TRUE, !.failed = call[c].batch]
    BY <1>4 DEF Failed, PhaseFailed
  <2> HIDE DEF a
  <2>2. Failed(c, e) \in CallState
    BY <1>1, <1>2, <2>1 DEF CallState
  <2>3. /\ Failed(c, e).failed = call[c].batch
        /\ Failed(c, e).batch = a.batch
        /\ Failed(c, e).committed = a.committed /\ Failed(c, e).uncertain = a.uncertain
        /\ Failed(c, e).wrote = a.wrote /\ Failed(c, e).pc = a.pc
    BY <1>2, <2>1 DEF CallState
  <2>4. QED BY <1>2, <2>2, <2>3
<1>5. CASE call[c].pc \in {"spend", "ack"}
  <2>1. Failed(c, e) = [call[c] EXCEPT !.pc = "fail"]
    BY <1>5 DEF Failed
  <2>2. QED BY <1>1, <1>5, <2>1 DEF CallState, Statuses, DoneIn, DoneWith, Writing
<1>6. QED BY <1>3, <1>4, <1>5 DEF HasWrite

\* A run that is given up reports what its flags say, truthfully.
LEMMA AbandonedRun ==
  ASSUME NEW k \in CallState
  PROVE  /\ Abandoned(k) \in CallState
         /\ Abandoned(k).pc = "idle" /\ Abandoned(k).batch = {}
         /\ Accounts(k) => Truthful(Abandoned(k))
<1>1. /\ Abandoned(k).pc = "idle" /\ Abandoned(k).batch = {}
      /\ Abandoned(k).report = Report(k) /\ Abandoned(k).wrote = k.wrote
  BY DEF Abandoned, IdleCall
<1>2. Report(k) \in {"none", "committed", "unknown"} /\ k.wrote \in BOOLEAN
  BY DEF Report, CallState
<1>3. Abandoned(k) \in CallState
  BY <1>2, Constants DEF Abandoned, CallState
<1>4. QED BY <1>1, <1>2, <1>3 DEF Report, Accounts, Truthful, Reports, CallState
-----------------------------------------------------------------------------
(***************************************************************************)
(* What a write does to facts and events.                                  *)
(***************************************************************************)
\* An upsert of one fact.
LEMMA UpsertedFacts ==
  ASSUME NEW f \in [FactKey -> FactState], NEW k \in FactKey, NEW n \in Nat
  PROVE  /\ Upserted(f, k, n) \in [FactKey -> FactState]
         /\ Upserted(f, k, n)[k].state = "active" /\ Upserted(f, k, n)[k].epoch = n
         /\ \A j \in FactKey : j # k => Upserted(f, k, n)[j] = f[j]
<1> DEFINE v == [state |-> "active", revision |-> f[k].revision + 1, epoch |-> n]
<1>1. v \in FactState /\ v.state = "active" /\ v.epoch = n
  BY DEF FactState
<1>2. Upserted(f, k, n) = [f EXCEPT ![k] = v]
  BY DEF Upserted
<1> HIDE DEF v
<1>3. QED BY <1>1, <1>2

\* The retirement of one fact.
LEMMA InvalidatedFacts ==
  ASSUME NEW f \in [FactKey -> FactState], NEW k \in FactKey
  PROVE  /\ Invalidated(f, k) \in [FactKey -> FactState]
         /\ Invalidated(f, k)[k].epoch = f[k].epoch
         /\ \A j \in FactKey : j # k => Invalidated(f, k)[j] = f[j]
<1> DEFINE v == [f[k] EXCEPT !.state = "invalidated", !.revision = @ + 1]
<1>0. f[k] \in FactState
  OBVIOUS
<1>1. v \in FactState /\ v.epoch = f[k].epoch
  <2>1. f[k].revision + 1 \in Nat
    BY <1>0 DEF FactState
  <2>2. v = [f[k] EXCEPT !.state = "invalidated", !.revision = f[k].revision + 1]
    BY <1>0 DEF FactState
  <2>3. v \in FactState
    BY <1>0, <2>1, <2>2 DEF FactState
  <2>4. v.epoch = f[k].epoch
    BY <1>0, <2>2 DEF FactState
  <2>5. QED BY <2>3, <2>4
<1>2. Invalidated(f, k) = [f EXCEPT ![k] = v]
  BY <1>0 DEF Invalidated, FactState
<1> HIDE DEF v
<1>3. QED BY <1>1, <1>2

\* The facts after a write of run c: every fact is as it was or has the admission of
\* c, and the only fact that can be retired is the one c has judged, unmoved.
FactsWrittenBy(c) ==
  /\ fact' \in [FactKey -> FactState]
  /\ \A k \in FactKey : fact'[k].state # "none" =>
       \/ fact'[k].epoch = call[c].adm
       \/ fact[k].state # "none" /\ fact'[k].epoch = fact[k].epoch
  /\ \A k \in FactKey : fact[k].state = "active" /\ fact'[k].state = "invalidated" =>
       call[c].pin.key = k /\ call[c].pin.revision = fact[k].revision

\* The writes of facts in every phase.
LEMMA FactsOfWrite ==
  ASSUME Types, NEW c \in Caller, NEW e \in Event, Effect(c, e)
  PROVE  FactsWrittenBy(c)
<1>0. /\ fact \in [FactKey -> FactState] /\ call[c].adm \in Nat /\ call[c].pin \in Pin
      /\ Inference \in FactKey /\ e \in FactKey
  BY CallFields, Constants DEF Types
<1> DEFINE a == call[c].adm
           p == call[c].pin
<1>p. p.key \in FactKey /\ p.kept \in FactKey
  BY <1>0 DEF Pin
<1>s. CASE fact' = fact
  BY <1>0, <1>s DEF FactsWrittenBy
<1>u. ASSUME NEW k \in FactKey, fact' = Upserted(fact, k, a)
      PROVE  FactsWrittenBy(c)
  <2>1. /\ fact' \in [FactKey -> FactState]
        /\ fact'[k].state = "active" /\ fact'[k].epoch = a
        /\ \A j \in FactKey : j # k => fact'[j] = fact[j]
    BY <1>0, <1>u, UpsertedFacts
  <2>2. QED BY <2>1 DEF FactsWrittenBy
<1>1. CASE call[c].pc = "candidates"
  <2>1. fact' = Promoted(c, e)
    BY <1>1 DEF Effect
  <2>2. fact' = fact \/ fact' = Upserted(fact, e, a)
    BY <2>1 DEF Promoted
  <2>3. QED BY <2>2, <1>s, <1>u, <1>0
<1>2. CASE call[c].pc = "reason"
  <2>1. fact' = Upserted(fact, Inference, a)
    BY <1>2 DEF Effect, Inferred
  <2>2. QED BY <2>1, <1>u, <1>0
<1>3. CASE call[c].pc = "dedup"
  <2>1. fact' = Merged(c)
    BY <1>3 DEF Effect
  <2>2. CASE ~ (Unmoved(p.key, p.revision) /\ Unmoved(p.kept, p.keptRevision))
    BY <2>1, <2>2, <1>s DEF Merged
  <2>3. CASE Unmoved(p.key, p.revision) /\ Unmoved(p.kept, p.keptRevision)
    <3> DEFINE g == Upserted(fact, p.kept, a)
    <3>1. fact' = Invalidated(g, p.key)
      BY <2>1, <2>3 DEF Merged
    <3>2. /\ g \in [FactKey -> FactState]
          /\ g[p.kept].state = "active" /\ g[p.kept].epoch = a
          /\ \A j \in FactKey : j # p.kept => g[j] = fact[j]
      BY <1>0, <1>p, UpsertedFacts
    <3>3. fact[p.key].state = "active" /\ fact[p.key].revision = p.revision
      BY <2>3 DEF Unmoved
    <3> HIDE DEF g
    <3>4. /\ fact' \in [FactKey -> FactState] /\ fact'[p.key].epoch = g[p.key].epoch
          /\ \A j \in FactKey : j # p.key => fact'[j] = g[j]
      BY <3>1, <3>2, <1>p, InvalidatedFacts
    <3>5. QED BY <1>p, <3>2, <3>3, <3>4 DEF FactsWrittenBy
  <2>4. QED BY <2>2, <2>3
<1>4. CASE call[c].pc = "prune"
  <2>1. fact' = Pruned(c)
    BY <1>4 DEF Effect
  <2>2. CASE ~ Unmoved(p.key, p.revision)
    BY <2>1, <2>2, <1>s DEF Pruned
  <2>3. CASE Unmoved(p.key, p.revision)
    <3>1. fact' = Invalidated(fact, p.key)
      BY <2>1, <2>3 DEF Pruned
    <3>2. fact[p.key].state = "active" /\ fact[p.key].revision = p.revision
      BY <2>3 DEF Unmoved
    <3>3. /\ fact' \in [FactKey -> FactState] /\ fact'[p.key].epoch = fact[p.key].epoch
          /\ \A j \in FactKey : j # p.key => fact'[j] = fact[j]
      BY <3>1, <1>0, <1>p, InvalidatedFacts
    <3>4. QED BY <1>p, <3>2, <3>3 DEF FactsWrittenBy
  <2>4. QED BY <2>2, <2>3
<1>5. CASE call[c].pc \notin {"candidates", "reason", "dedup", "prune"}
  <2>1. fact' = fact
    BY <1>5 DEF Effect
  <2>2. QED BY <2>1, <1>s
<1>6. QED BY <1>1, <1>2, <1>3, <1>4, <1>5

\* Events are only ever decided, projected and acknowledged.
EventsGrow ==
  /\ event' \in [Event -> EventState]
  /\ \A e \in Event :
       /\ event'[e].stored = event[e].stored
       /\ event[e].settled => event'[e].settled
       /\ event[e].graph => event'[e].graph
       /\ event[e].processed => event'[e].processed

\* One event gets a new value.
LEMMA EventChange ==
  ASSUME Types, NEW e \in Event, NEW v \in EventState, event' = [event EXCEPT ![e] = v],
         v.stored = event[e].stored, event[e].settled => v.settled,
         event[e].graph => v.graph, event[e].processed => v.processed
  PROVE  EventsGrow /\ event'[e] = v /\ \A f \in Event : f # e => event'[f] = event[f]
<1>1. event \in [Event -> EventState]
  BY DEF Types
<1>2. event'[e] = v /\ \A f \in Event : f # e => event'[f] = event[f]
  BY <1>1
<1>3. event' \in [Event -> EventState]
  BY <1>1
<1>4. QED BY <1>2, <1>3 DEF EventsGrow

\* The writes of events: a write in a phase leaves the event it is about done with,
\* and only the acknowledgement acknowledges.
LEMMA EventsOfWrite ==
  ASSUME Types, NEW c \in Caller, NEW e \in Event, Effect(c, e)
  PROVE  /\ EventsGrow
         /\ call[c].pc = "candidates" /\ event[e].stored => event'[e].settled
         /\ call[c].pc = "graph" => event'[e].graph
         /\ call[c].pc # "ack" => \A f \in Event : event'[f].processed = event[f].processed
         /\ call[c].pc = "ack" => \A f \in Event :
              event'[f].processed /\ ~ event[f].processed =>
                f \in call[c].batch \ call[c].failed /\ event[f].stored
<1>0. event \in [Event -> EventState] /\ event[e] \in EventState
  BY DEF Types
<1>1. CASE call[c].pc = "candidates"
  <2> DEFINE v == [event[e] EXCEPT !.settled = event[e].settled \/ event[e].stored]
  <2>1. event' = [event EXCEPT ![e] = v]
    BY <1>1, <1>0 DEF Effect, Decided
  <2>2. v \in EventState
    BY <1>0 DEF EventState
  <2>3. /\ v.stored = event[e].stored /\ v.graph = event[e].graph
        /\ v.processed = event[e].processed
        /\ (event[e].settled => v.settled) /\ (event[e].stored => v.settled)
    BY <1>0 DEF EventState
  <2> HIDE DEF v
  <2>4. EventsGrow /\ event'[e] = v /\ \A f \in Event : f # e => event'[f] = event[f]
    BY <2>1, <2>2, <2>3, EventChange
  <2>5. QED BY <1>1, <2>3, <2>4
<1>2. CASE call[c].pc = "graph"
  <2> DEFINE v == [event[e] EXCEPT !.graph = TRUE]
  <2>1. event' = [event EXCEPT ![e] = v]
    BY <1>2, <1>0 DEF Effect, Projected
  <2>2. v \in EventState
    BY <1>0 DEF EventState
  <2>3. /\ v.stored = event[e].stored /\ v.graph
        /\ v.processed = event[e].processed /\ v.settled = event[e].settled
    BY <1>0 DEF EventState
  <2> HIDE DEF v
  <2>4. EventsGrow /\ event'[e] = v /\ \A f \in Event : f # e => event'[f] = event[f]
    BY <2>1, <2>2, <2>3, EventChange
  <2>5. QED BY <1>2, <2>3, <2>4
<1>3. CASE call[c].pc = "ack"
  <2>1. event' = [f \in Event |-> IF f \in call[c].batch \ call[c].failed /\ event[f].stored
                                  THEN [event[f] EXCEPT !.processed = TRUE] ELSE event[f]]
    BY <1>3 DEF Effect, Acknowledged
  <2>2. ASSUME NEW f \in Event
        PROVE  /\ event'[f] \in EventState /\ event'[f].stored = event[f].stored
               /\ event'[f].settled = event[f].settled /\ event'[f].graph = event[f].graph
               /\ event[f].processed => event'[f].processed
               /\ event'[f].processed /\ ~ event[f].processed =>
                    f \in call[c].batch \ call[c].failed /\ event[f].stored
    <3>1. event[f] \in EventState
      BY <1>0
    <3>2. CASE f \in call[c].batch \ call[c].failed /\ event[f].stored
      <4>1. event'[f] = [event[f] EXCEPT !.processed = TRUE]
        BY <2>1, <3>2
      <4>2. QED BY <3>1, <3>2, <4>1 DEF EventState
    <3>3. CASE ~ (f \in call[c].batch \ call[c].failed /\ event[f].stored)
      <4>1. event'[f] = event[f]
        BY <2>1, <3>3
      <4>2. QED BY <3>1, <4>1
    <3>4. QED BY <3>2, <3>3
  <2>3. event' \in [Event -> EventState]
    BY <2>1, <2>2
  <2>4. QED BY <1>3, <2>2, <2>3 DEF EventsGrow
<1>4. CASE call[c].pc \notin {"candidates", "graph", "ack"}
  <2>1. event' = event
    BY <1>4 DEF Effect
  <2>2. QED BY <1>0, <1>4, <2>1 DEF EventsGrow
<1>5. QED BY <1>1, <1>2, <1>3, <1>4
-----------------------------------------------------------------------------
(***************************************************************************)
(* The steps of a run.  StepOf says what every one of them keeps to.       *)
(***************************************************************************)
StepOf(c) ==
  /\ gate' = gate
  /\ row' \in RowState
  /\ row' = row \/ Claimable \/ (HoldsLease(c) /\ call'[c].pc = "idle")
  /\ EventsGrow
  /\ \A e \in Event : event'[e].processed /\ ~ event[e].processed =>
       event'[e].settled /\ event'[e].graph
  /\ fact' = fact \/ (Admitted(c) /\ FactsWrittenBy(c))
  /\ faults' \in 0..MaxFault
  /\ call' \in [Caller -> CallState]
  /\ \A d \in Caller : d # c => call'[d] = call[d]
  /\ DoneBy(c)'
  /\ Truthful(call'[c])

\* A run of the table changes.
LEMMA RunChange ==
  ASSUME Types, NEW c \in Caller, NEW v \in CallState, call' = [call EXCEPT ![c] = v]
  PROVE  /\ call' \in [Caller -> CallState] /\ call'[c] = v
         /\ \A d \in Caller : d # c => call'[d] = call[d]
  BY DEF Types

\* A step that changes no event, no fact and no row.
LEMMA QuietStep ==
  ASSUME Types, NEW c \in Caller, NEW v \in CallState, call' = [call EXCEPT ![c] = v],
         UNCHANGED <<gate, row, event, fact>>, faults' \in 0..MaxFault,
         \A e \in v.batch \ v.failed : event[e].stored => DoneWith(v, e),
         Truthful(v)
  PROVE  StepOf(c)
<1>1. /\ call' \in [Caller -> CallState] /\ call'[c] = v
      /\ \A d \in Caller : d # c => call'[d] = call[d]
  BY RunChange
<1>2. DoneBy(c)'
  BY <1>1 DEF DoneBy, DoneIn, DoneWith
<1>3. EventsGrow
  BY DEF EventsGrow, Types
<1>4. row' \in RowState
  BY DEF Types
<1>5. QED BY <1>1, <1>2, <1>3, <1>4 DEF StepOf, EventsGrow

\* A run outside the phases has nothing to show.
LEMMA NothingDone ==
  ASSUME NEW k, k.pc \notin Writing
  PROVE  \A e : DoneWith(k, e)
  BY DEF DoneIn, DoneWith, Writing

\* Faults that happen stay within their bound.
LEMMA FaultCount ==
  ASSUME Types
  PROVE  /\ faults \in 0..MaxFault
         /\ faults < MaxFault => faults + 1 \in 0..MaxFault
  BY ConsolidationConstants DEF Types

\* A run starts with nothing done and nothing written.
LEMMA StartStep ==
  ASSUME Types, NEW c \in Caller, Start(c)
  PROVE  StepOf(c)
<1> DEFINE v == [IdleCall EXCEPT !.pc = "claim", !.adm = gate.epoch]
<1>1. gate.epoch \in Nat
  BY DEF Types, Gate
<1>2. v \in CallState
  BY <1>1, Constants DEF CallState, Statuses
<1>3. v.pc = "claim" /\ v.wrote = FALSE /\ v.committed = FALSE
  BY DEF IdleCall
<1>4. call' = [call EXCEPT ![c] = v] /\ UNCHANGED <<gate, row, event, fact, faults>>
  BY DEF Start
<1> HIDE DEF v
<1>5. Truthful(v)
  BY <1>3 DEF Truthful, Accounts
<1>6. \A e \in v.batch \ v.failed : event[e].stored => DoneWith(v, e)
  BY <1>3, NothingDone DEF Writing
<1>7. QED BY <1>2, <1>4, <1>5, <1>6, QuietStep, FaultCount

\* What a run is after it gives up, or starts over: idle and truthful.
LEMMA IdleStep ==
  ASSUME Types, NEW c \in Caller, NEW v \in {IdleCall, Abandoned(call[c])},
         v = IdleCall \/ Accounts(call[c])
  PROVE  /\ v \in CallState /\ v.pc = "idle" /\ Truthful(v)
         /\ \A e \in v.batch \ v.failed : event[e].stored => DoneWith(v, e)
<1>1. v \in CallState /\ v.pc = "idle" /\ Truthful(v)
  <2>1. CASE v = IdleCall
    BY <2>1, Constants DEF IdleCall, Truthful, Reports
  <2>2. CASE v = Abandoned(call[c]) /\ Accounts(call[c])
    BY <2>2, AbandonedRun, CallFields
  <2>3. QED BY <2>1, <2>2
<1>2. QED BY <1>1, NothingDone DEF Writing

\* A run that only changes its status to one outside the phases.
LEMMA StatusStep ==
  ASSUME Types, NEW c \in Caller, NEW pc \in {"read", "finish", "fail"}, NEW v,
         v = [call[c] EXCEPT !.pc = pc], Accounts(call[c])
  PROVE  /\ v \in CallState /\ v.pc = pc /\ Truthful(v)
         /\ \A e \in v.batch \ v.failed : event[e].stored => DoneWith(v, e)
<1>1. call[c] \in CallState
  BY CallFields
<1>2. v \in CallState /\ v.pc = pc
  BY <1>1 DEF CallState, Statuses
<1>3. v.committed = call[c].committed /\ v.wrote = call[c].wrote /\ v.uncertain = call[c].uncertain
  BY <1>1 DEF CallState
<1>4. Truthful(v)
  BY <1>2, <1>3 DEF Truthful, Accounts
<1>5. QED BY <1>2, <1>4, NothingDone DEF Writing

\* A working run accounts for its writes.
LEMMA Accounting ==
  ASSUME Ledger, NEW c \in Caller, call[c].pc # "idle"
  PROVE  Accounts(call[c])
  BY DEF Ledger, Truthful

\* The claim of the row.
LEMMA ClaimStep ==
  ASSUME Types, Ledger, NEW c \in Caller, Claim(c)
  PROVE  StepOf(c)
<1>1. /\ call[c].pc = "claim" /\ Claimable /\ UNCHANGED <<gate, event, fact>>
      /\ row' = [status |-> "running", owner |-> c, live |-> TRUE, paced |-> FALSE]
      /\ \/ call' = [call EXCEPT ![c].pc = "read"] /\ UNCHANGED faults
         \/ /\ faults < MaxFault /\ faults' = faults + 1
            /\ call' = [call EXCEPT ![c] = IdleCall]
  BY DEF Claim
<1>2. row' \in RowState
  BY <1>1 DEF RowState
<1>3. faults' \in 0..MaxFault
  BY <1>1, FaultCount
<1> DEFINE r == [call[c] EXCEPT !.pc = "read"]
<1>4. PICK v \in {r, IdleCall} : call' = [call EXCEPT ![c] = v]
  BY <1>1
<1>5. /\ v \in CallState /\ Truthful(v)
      /\ \A e \in v.batch \ v.failed : event[e].stored => DoneWith(v, e)
  <2>1. CASE v = r
    BY <2>1, <1>1, StatusStep, Accounting
  <2>2. CASE v = IdleCall
    BY <2>2, IdleStep
  <2>3. QED BY <2>1, <2>2
<1> HIDE DEF r
<1>6. /\ call' \in [Caller -> CallState] /\ call'[c] = v
      /\ \A d \in Caller : d # c => call'[d] = call[d]
  BY <1>4, <1>5, RunChange
<1>7. DoneBy(c)'
  BY <1>1, <1>5, <1>6 DEF DoneBy, DoneIn, DoneWith
<1>8. EventsGrow
  BY <1>1 DEF EventsGrow, Types
<1>9. QED BY <1>1, <1>2, <1>3, <1>5, <1>6, <1>7, <1>8 DEF StepOf

\* The steps that leave the run idle, or out of the phases, without a write.
LEMMA PlainSteps ==
  ASSUME Types, Ledger, NEW c \in Caller,
         ClaimRefused(c) \/ ReadFails(c) \/ Crash(c)
  PROVE  StepOf(c)
<1>1. CASE ClaimRefused(c)
  <2>1. call' = [call EXCEPT ![c] = IdleCall] /\ UNCHANGED <<gate, row, event, fact, faults>>
    BY <1>1 DEF ClaimRefused
  <2>2. QED BY <2>1, IdleStep, QuietStep, FaultCount
<1>2. CASE ReadFails(c)
  <2> DEFINE v == [call[c] EXCEPT !.pc = "fail"]
  <2>1. /\ call' = [call EXCEPT ![c] = v] /\ call[c].pc \in {"read", "score"}
        /\ UNCHANGED <<gate, row, event, fact>> /\ faults' \in 0..MaxFault
    BY <1>2, FaultCount DEF ReadFails
  <2>2. /\ v \in CallState /\ Truthful(v)
        /\ \A e \in v.batch \ v.failed : event[e].stored => DoneWith(v, e)
    BY <2>1, StatusStep, Accounting
  <2> HIDE DEF v
  <2>3. QED BY <2>1, <2>2, QuietStep
<1>3. CASE Crash(c)
  <2>1. /\ call' = [call EXCEPT ![c] = IdleCall]
        /\ UNCHANGED <<gate, row, event, fact>> /\ faults' \in 0..MaxFault
    BY <1>3, FaultCount DEF Crash
  <2>2. QED BY <2>1, IdleStep, QuietStep
<1>4. QED BY <1>1, <1>2, <1>3
\* A run that keeps its batch, its failures and its flags, and has done in its new
\* status what it had done in the old one.
LEMMA PhaseStep ==
  ASSUME Types, Ledger, PhasesDone, NEW c \in Caller, NEW v \in CallState,
         call[c].pc # "idle", v.pc # "idle",
         v.batch = call[c].batch, v.failed = call[c].failed,
         v.committed = call[c].committed, v.uncertain = call[c].uncertain,
         v.wrote = call[c].wrote,
         \A e \in Event : DoneWith(call[c], e) => DoneWith(v, e)
  PROVE  /\ Truthful(v)
         /\ \A e \in v.batch \ v.failed : event[e].stored => DoneWith(v, e)
<1>1. Truthful(v)
  BY Accounting DEF Truthful, Accounts
<1>2. DoneBy(c) /\ call[c].batch \subseteq Event
  BY CallFields DEF PhasesDone
<1>3. QED BY <1>1, <1>2 DEF DoneBy

\* A failing renewal, an empty or a finished phase, and a judged pair.
LEMMA PhaseSteps ==
  ASSUME Types, Ledger, PhasesDone, NEW c \in Caller, NEW k \in FactKey, NEW j \in FactKey,
         HeartbeatFails(c) \/ NextPhase(c) \/ PhaseEmpty(c) \/ Judge(c, k, j)
  PROVE  StepOf(c)
<1>0. /\ call[c] \in CallState /\ call[c].batch \subseteq Event /\ call[c].pc \in Statuses
  BY CallFields
<1>1. CASE HeartbeatFails(c)
  <2>1. PICK h \in {"lost", "error"} : call' = [call EXCEPT ![c].heartbeat = h]
    BY <1>1 DEF HeartbeatFails
  <2> DEFINE v == [call[c] EXCEPT !.heartbeat = h]
  <2>2. call' = [call EXCEPT ![c] = v]
    BY <2>1
  <2>3. call[c].pc # "idle" /\ UNCHANGED <<gate, row, event, fact>> /\ faults' \in 0..MaxFault
    BY <1>1, FaultCount DEF HeartbeatFails, Working, Writing
  <2>4. v \in CallState
    BY <1>0 DEF CallState
  <2>5. /\ v.pc = call[c].pc /\ v.batch = call[c].batch /\ v.failed = call[c].failed
        /\ v.committed = call[c].committed /\ v.uncertain = call[c].uncertain
        /\ v.wrote = call[c].wrote /\ v.todo = call[c].todo
    BY <1>0 DEF CallState
  <2> HIDE DEF v
  <2>6. \A e \in Event : DoneWith(call[c], e) => DoneWith(v, e)
    BY <2>5 DEF DoneIn, DoneWith
  <2>7. /\ Truthful(v)
        /\ \A e \in v.batch \ v.failed : event[e].stored => DoneWith(v, e)
    BY <2>3, <2>4, <2>5, <2>6, PhaseStep
  <2>8. QED BY <2>2, <2>3, <2>4, <2>7, QuietStep
<1>2. CASE NextPhase(c)
  <2> DEFINE g == [call[c] EXCEPT !.pc = "graph", !.todo = call[c].batch]
             r == [call[c] EXCEPT !.pc = "reason"]
  <2>1. call[c].todo = {} /\ UNCHANGED <<gate, row, event, fact, faults>>
    BY <1>2 DEF NextPhase
  <2>2. \/ call[c].pc = "candidates" /\ call' = [call EXCEPT ![c] = g]
        \/ call[c].pc = "graph" /\ call' = [call EXCEPT ![c] = r]
    BY <1>2, <1>0 DEF NextPhase
  <2>3. PICK v \in {g, r} : /\ call' = [call EXCEPT ![c] = v]
                            /\ call[c].pc = IF v = g THEN "candidates" ELSE "graph"
    <3>1. g.pc = "graph" /\ r.pc = "reason"
      BY <1>0 DEF CallState
    <3> HIDE DEF g, r
    <3>2. QED BY <2>2, <3>1
  <2>4. v \in CallState
    <3>1. g \in CallState
      BY <1>0 DEF CallState, Statuses, Writing
    <3>2. r \in CallState
      BY <1>0 DEF CallState, Statuses, Writing
    <3>3. QED BY <3>1, <3>2
  <2>5. /\ v.batch = call[c].batch /\ v.failed = call[c].failed
        /\ v.committed = call[c].committed /\ v.uncertain = call[c].uncertain
        /\ v.wrote = call[c].wrote
        /\ v.pc = IF v = g THEN "graph" ELSE "reason"
        /\ v = g => v.todo = call[c].batch
    BY <1>0 DEF CallState
  <2> HIDE DEF g, r
  <2>6. \A e \in call[c].batch : DoneWith(call[c], e) => DoneWith(v, e)
    BY <2>1, <2>3, <2>5 DEF DoneIn, DoneWith, Writing
  <2>7. DoneBy(c)
    BY DEF PhasesDone
  <2>8. \A e \in v.batch \ v.failed : event[e].stored => DoneWith(v, e)
    BY <2>5, <2>6, <2>7 DEF DoneBy
  <2>9. Truthful(v)
    BY <2>3, <2>5, Accounting DEF Truthful, Accounts
  <2>10. QED BY <2>1, <2>3, <2>4, <2>8, <2>9, QuietStep, FaultCount
<1>3. CASE PhaseEmpty(c)
  <2>1. PICK pc \in Statuses :
          /\ call' = [call EXCEPT ![c].pc = pc]
          /\ pc \in {"dedup", "prune", "spend", "ack", "finish"}
          /\ call[c].pc \in {"reason", "dedup", "prune", "spend", "ack"}
    BY <1>3 DEF PhaseEmpty, Statuses, Writing
  <2> DEFINE v == [call[c] EXCEPT !.pc = pc]
  <2>2. call' = [call EXCEPT ![c] = v] /\ UNCHANGED <<gate, row, event, fact, faults>>
    BY <1>3, <2>1 DEF PhaseEmpty
  <2>3. v \in CallState
    BY <1>0 DEF CallState
  <2>4. /\ v.pc = pc /\ v.batch = call[c].batch /\ v.failed = call[c].failed
        /\ v.committed = call[c].committed /\ v.uncertain = call[c].uncertain
        /\ v.wrote = call[c].wrote
    BY <1>0 DEF CallState
  <2> HIDE DEF v
  <2>5. \A e \in Event : DoneWith(call[c], e) => DoneWith(v, e)
    BY <2>1, <2>4 DEF DoneIn, DoneWith, Writing
  <2>6. /\ Truthful(v)
        /\ \A e \in v.batch \ v.failed : event[e].stored => DoneWith(v, e)
    BY <2>1, <2>3, <2>4, <2>5, PhaseStep
  <2>7. QED BY <2>2, <2>3, <2>6, QuietStep, FaultCount
<1>4. CASE Judge(c, k, j)
  <2> DEFINE p == [key |-> k, revision |-> fact[k].revision, kept |-> j,
                   keptRevision |-> fact[j].revision]
             v == [call[c] EXCEPT !.pin = p]
  <2>1. p \in Pin
    BY DEF Types, Pin, FactState
  <2>2. /\ call' = [call EXCEPT ![c].pin = p] /\ UNCHANGED <<gate, row, event, fact, faults>>
        /\ call[c].pc \in {"dedup", "prune"}
    BY <1>4 DEF Judge
  <2> HIDE DEF p
  <2>3. call' = [call EXCEPT ![c] = v]
    BY <2>2
  <2>4. v \in CallState
    BY <1>0, <2>1 DEF CallState
  <2>5. /\ v.pc = call[c].pc /\ v.batch = call[c].batch /\ v.failed = call[c].failed
        /\ v.committed = call[c].committed /\ v.uncertain = call[c].uncertain
        /\ v.wrote = call[c].wrote
    BY <1>0 DEF CallState
  <2> HIDE DEF v
  <2>6. \A e \in Event : DoneWith(call[c], e) => DoneWith(v, e)
    BY <2>2, <2>5 DEF DoneIn, DoneWith, Writing
  <2>7. /\ Truthful(v)
        /\ \A e \in v.batch \ v.failed : event[e].stored => DoneWith(v, e)
    BY <2>2, <2>4, <2>5, <2>6, PhaseStep
  <2>8. QED BY <2>2, <2>3, <2>4, <2>7, QuietStep, FaultCount
<1>5. QED BY <1>1, <1>2, <1>3, <1>4

\* The query of the batch: nothing of it has been done, and the run is in no phase.
LEMMA ReadStep ==
  ASSUME Types, Ledger, NEW c \in Caller, Read(c)
  PROVE  StepOf(c)
<1> DEFINE f == [call[c] EXCEPT !.pc = "finish"]
           r == [call[c] EXCEPT !.pc = "score", !.batch = Unprocessed]
<1>0. call[c] \in CallState /\ Unprocessed \subseteq Event
  BY CallFields DEF Unprocessed
<1>1. call[c].pc = "read" /\ UNCHANGED <<gate, row, event, fact, faults>>
  BY DEF Read
<1>2. PICK v \in {f, r} : call' = [call EXCEPT ![c] = v]
  BY DEF Read
<1>3. v \in CallState /\ v.pc \in {"finish", "score"}
  <2>1. f \in CallState /\ f.pc = "finish"
    BY <1>0 DEF CallState, Statuses
  <2>2. r \in CallState
    BY <1>0 DEF CallState, Statuses
  <2>3. r.pc = "score"
    BY <1>0 DEF CallState
  <2>4. QED BY <2>1, <2>2, <2>3
<1>4. v.committed = call[c].committed /\ v.uncertain = call[c].uncertain /\ v.wrote = call[c].wrote
  BY <1>0 DEF CallState
<1> HIDE DEF f, r
<1>5. Truthful(v)
  BY <1>1, <1>3, <1>4, Accounting DEF Truthful, Accounts
<1>6. \A e \in v.batch \ v.failed : event[e].stored => DoneWith(v, e)
  BY <1>3, NothingDone DEF Writing
<1>7. QED BY <1>1, <1>2, <1>3, <1>5, <1>6, QuietStep, FaultCount
\* A step that may change events and facts.
LEMMA RunStep ==
  ASSUME Types, NEW c \in Caller, NEW v \in CallState, call' = [call EXCEPT ![c] = v],
         gate' = gate, row' = row, faults' \in 0..MaxFault, EventsGrow,
         \A e \in Event : event'[e].processed /\ ~ event[e].processed =>
           event'[e].settled /\ event'[e].graph,
         fact' = fact \/ (Admitted(c) /\ FactsWrittenBy(c)),
         \A e \in v.batch \ v.failed : event[e].stored => DoneIn(v, e, event'[e]),
         Truthful(v)
  PROVE  StepOf(c)
<1>1. /\ call' \in [Caller -> CallState] /\ call'[c] = v
      /\ \A d \in Caller : d # c => call'[d] = call[d]
  BY RunChange
<1>2. v.batch \subseteq Event
  BY DEF CallState
<1>3. DoneBy(c)'
  BY <1>1, <1>2 DEF DoneBy, DoneWith, EventsGrow
<1>4. row' \in RowState
  BY DEF Types
<1>5. QED BY <1>1, <1>3, <1>4 DEF StepOf

\* What was done stays done while events grow.
LEMMA DoneStays ==
  ASSUME EventsGrow, NEW k, NEW e \in Event, DoneWith(k, e)
  PROVE  DoneIn(k, e, event'[e])
  BY DEF DoneWith, DoneIn, EventsGrow

\* The scores settle what is no candidate.
LEMMA ScoreStep ==
  ASSUME Types, Ledger, PhasesDone, NEW c \in Caller, Score(c)
  PROVE  StepOf(c)
<1>0. call[c] \in CallState /\ call[c].batch \subseteq Event /\ event \in [Event -> EventState]
  BY CallFields DEF Types
<1>1. PICK s \in SUBSET call[c].batch :
        /\ call' = [call EXCEPT ![c].pc = "candidates", ![c].todo = s]
        /\ event' = [e \in Event |-> IF e \in call[c].batch \ s
                                     THEN [event[e] EXCEPT !.settled = TRUE] ELSE event[e]]
  BY DEF Score
<1> DEFINE v == [call[c] EXCEPT !.pc = "candidates", !.todo = s]
<1>2. call[c].pc = "score" /\ UNCHANGED <<gate, row, fact, faults>>
  BY DEF Score
<1>3. call' = [call EXCEPT ![c] = v]
  BY <1>0, <1>1
<1>4. v \in CallState
  BY <1>0 DEF CallState, Statuses, Writing
<1>5. /\ v.pc = "candidates" /\ v.todo = s /\ v.batch = call[c].batch
      /\ v.committed = call[c].committed /\ v.uncertain = call[c].uncertain
      /\ v.wrote = call[c].wrote
  BY <1>0 DEF CallState
<1> HIDE DEF v
<1>6. ASSUME NEW e \in Event
      PROVE  /\ event'[e] \in EventState /\ event'[e].stored = event[e].stored
             /\ event'[e].graph = event[e].graph /\ event'[e].processed = event[e].processed
             /\ event[e].settled => event'[e].settled
             /\ e \in call[c].batch \ s => event'[e].settled
  <2>1. event[e] \in EventState
    BY <1>0
  <2>2. event'[e] = IF e \in call[c].batch \ s
                    THEN [event[e] EXCEPT !.settled = TRUE] ELSE event[e]
    BY <1>1
  <2>3. QED BY <2>1, <2>2 DEF EventState
<1>7. event' \in [Event -> EventState]
  BY <1>1, <1>6
<1>8. EventsGrow
  BY <1>6, <1>7 DEF EventsGrow
<1>9. \A e \in v.batch \ v.failed : event[e].stored => DoneIn(v, e, event'[e])
  BY <1>0, <1>5, <1>6 DEF DoneIn, Writing
<1>10. Truthful(v)
  BY <1>2, <1>5, Accounting DEF Truthful, Accounts
<1>11. \A e \in Event : event'[e].processed = event[e].processed
  BY <1>6
<1>12. QED BY <1>2, <1>3, <1>4, <1>8, <1>9, <1>10, <1>11, RunStep, FaultCount

\* A candidate that is skipped is settled.
LEMMA SkipStep ==
  ASSUME Types, Ledger, PhasesDone, NEW c \in Caller, NEW e \in Event, Skip(c, e)
  PROVE  StepOf(c)
<1>0. /\ call[c] \in CallState /\ call[c].batch \subseteq Event /\ call[c].todo \subseteq Event
      /\ event[e] \in EventState
  BY CallFields DEF Types
<1> DEFINE v == [call[c] EXCEPT !.todo = call[c].todo \ {e}]
           x == [event[e] EXCEPT !.settled = TRUE]
<1>1. call[c].pc = "candidates" /\ UNCHANGED <<gate, row, fact, faults>>
  BY DEF Skip
<1>2. call' = [call EXCEPT ![c] = v] /\ event' = [event EXCEPT ![e] = x]
  BY DEF Skip
<1>3. v \in CallState
  BY <1>0 DEF CallState
<1>4. /\ v.pc = "candidates" /\ v.todo = call[c].todo \ {e} /\ v.batch = call[c].batch
      /\ v.failed = call[c].failed
      /\ v.committed = call[c].committed /\ v.uncertain = call[c].uncertain
      /\ v.wrote = call[c].wrote
  BY <1>0, <1>1 DEF CallState
<1>5. /\ x \in EventState /\ x.stored = event[e].stored /\ x.graph = event[e].graph
      /\ x.processed = event[e].processed /\ x.settled
  BY <1>0 DEF EventState
<1> HIDE DEF v, x
<1>6. EventsGrow /\ event'[e] = x /\ \A f \in Event : f # e => event'[f] = event[f]
  BY <1>2, <1>5, EventChange
<1>7. DoneBy(c)
  BY DEF PhasesDone
<1>8. \A f \in v.batch \ v.failed : event[f].stored => DoneIn(v, f, event'[f])
  BY <1>0, <1>1, <1>4, <1>5, <1>6, <1>7 DEF DoneBy, DoneWith, DoneIn, Writing
<1>9. Truthful(v)
  BY <1>1, <1>4, Accounting DEF Truthful, Accounts
<1>10. \A f \in Event : event'[f].processed = event[f].processed
  BY <1>5, <1>6
<1>11. QED BY <1>1, <1>2, <1>3, <1>6, <1>8, <1>9, <1>10, RunStep, FaultCount

\* An event is acknowledged only when it is done with.
LEMMA AcknowledgedDone ==
  ASSUME Types, PhasesDone, NEW c \in Caller, NEW e \in Event, Effect(c, e)
  PROVE  \A f \in Event : event'[f].processed /\ ~ event[f].processed =>
           event'[f].settled /\ event'[f].graph
<1>1. EventsGrow
  BY EventsOfWrite
<1>2. ASSUME NEW f \in Event, event'[f].processed, ~ event[f].processed
      PROVE  event'[f].settled /\ event'[f].graph
  <2>1. /\ call[c].pc = "ack" /\ f \in call[c].batch \ call[c].failed /\ event[f].stored
    <3>1. event[f] \in EventState /\ event'[f] \in EventState
      BY <1>1 DEF EventsGrow, Types
    <3>2. call[c].pc # "ack" => event'[f].processed = event[f].processed
      BY EventsOfWrite
    <3>3. call[c].pc = "ack"
      BY <1>2, <3>2
    <3>4. QED BY <1>2, <3>3, EventsOfWrite
  <2>2. DoneIn(call[c], f, event'[f])
    BY <1>1, <2>1, DoneStays DEF PhasesDone, DoneBy
  <2>3. QED BY <2>1, <2>2 DEF DoneIn, Writing
<1>3. QED BY <1>2

\* What a write has done besides: the event it was about.
LEMMA DoneByWrite ==
  ASSUME Types, PhasesDone, NEW c \in Caller, NEW e \in Event, HasWrite(c, e), Effect(c, e),
         NEW f \in call[c].batch \ call[c].failed, event[f].stored
  PROVE  DoneIn(Advanced(c, e), f, event'[f])
<1>1. EventsGrow
  BY EventsOfWrite
<1>2. f \in Event /\ call[c] \in CallState /\ DoneWith(call[c], f)
  BY CallFields DEF PhasesDone, DoneBy
<1>3. CASE f # e
  <2>1. DoneWith(Advanced(c, e), f)
    BY <1>2, <1>3, AdvancedRun
  <2>2. QED BY <1>1, <1>2, <2>1, DoneStays
<1>4. CASE f = e /\ call[c].pc \in {"candidates", "graph"}
  <2>1. Advanced(c, e) = [call[c] EXCEPT !.todo = @ \ {e}]
    BY <1>4 DEF Advanced
  <2>2. Advanced(c, e).pc = call[c].pc
    BY <1>2, <2>1 DEF CallState
  <2>3. DoneIn(call[c], f, event'[f])
    BY <1>1, <1>2, DoneStays
  <2>4. /\ call[c].pc = "candidates" => event'[f].settled
        /\ call[c].pc = "graph" => event'[f].graph
    BY <1>4, EventsOfWrite
  <2>5. QED BY <1>4, <2>2, <2>3, <2>4 DEF DoneIn, Writing
<1>5. CASE f = e /\ call[c].pc \notin {"candidates", "graph"}
  <2>1. Advanced(c, e).pc # "candidates" /\ Advanced(c, e).pc # "graph"
    BY <1>2, <1>5 DEF Advanced, HasWrite, CallState
  <2>2. call[c].pc \in {"reason", "dedup", "prune", "spend", "ack"}
    BY <1>5 DEF HasWrite
  <2>3. event[f].settled /\ event[f].graph
    BY <1>2, <2>2 DEF DoneWith, DoneIn, Writing
  <2>4. QED BY <1>1, <1>2, <2>1, <2>3 DEF DoneIn, EventsGrow
<1>6. QED BY <1>3, <1>4, <1>5
\* The writes that land, with and without an answer.
LEMMA LandingSteps ==
  ASSUME Types, Ledger, PhasesDone, NEW c \in Caller, NEW e \in Event,
         WriteLands(c, e) \/ LandsUnreported(c, e)
  PROVE  StepOf(c)
<1>0. /\ HasWrite(c, e) /\ MayWrite(c) /\ Effect(c, e) /\ UNCHANGED <<gate, row>>
      /\ faults' \in 0..MaxFault
  BY FaultCount DEF WriteLands, LandsUnreported
<1>1. Admitted(c)
  BY <1>0 DEF MayWrite
<1>2. /\ FactsWrittenBy(c) /\ EventsGrow
      /\ \A f \in Event : event'[f].processed /\ ~ event[f].processed =>
           event'[f].settled /\ event'[f].graph
  BY <1>0, FactsOfWrite, EventsOfWrite, AcknowledgedDone
<1>3. call[c].pc # "idle" /\ DoneBy(c)
  BY <1>0 DEF HasWrite, PhasesDone
<1>4. CASE WriteLands(c, e)
  <2> DEFINE a == Advanced(c, e)
             v == [a EXCEPT !.committed = TRUE, !.wrote = TRUE]
  <2>1. call' = [call EXCEPT ![c] = v]
    BY <1>4 DEF WriteLands
  <2>2. /\ a \in CallState /\ a.batch = call[c].batch /\ a.failed = call[c].failed
        /\ a.pc # "idle"
        /\ \A f \in call[c].batch \ call[c].failed :
             event[f].stored => DoneIn(a, f, event'[f])
    BY <1>0, AdvancedRun, DoneByWrite
  <2> HIDE DEF a
  <2>3. v \in CallState
    BY <2>2 DEF CallState
  <2>4. /\ v.pc = a.pc /\ v.todo = a.todo /\ v.batch = a.batch /\ v.failed = a.failed
        /\ v.committed /\ v.wrote
    BY <2>2 DEF CallState
  <2> HIDE DEF v
  <2>5. Truthful(v)
    BY <2>2, <2>4 DEF Truthful, Accounts
  <2>6. \A f \in v.batch \ v.failed : event[f].stored => DoneIn(v, f, event'[f])
    BY <2>2, <2>4 DEF DoneIn
  <2>7. QED BY <1>0, <1>1, <1>2, <2>1, <2>3, <2>5, <2>6, RunStep
<1>5. CASE LandsUnreported(c, e)
  <2> DEFINE a == Failed(c, e)
             v == [a EXCEPT !.uncertain = TRUE, !.wrote = TRUE]
  <2>1. call' = [call EXCEPT ![c] = v]
    BY <1>5 DEF LandsUnreported
  <2>2. /\ a \in CallState /\ a.batch = call[c].batch /\ a.pc # "idle"
        /\ \A f \in call[c].batch \ a.failed :
             f \notin call[c].failed /\ (DoneWith(call[c], f) => DoneWith(a, f))
    BY <1>0, FailedRun
  <2> HIDE DEF a
  <2>3. \A f \in a.batch \ a.failed : event[f].stored => DoneIn(a, f, event'[f])
    <3>1. a.batch \subseteq Event
      BY <2>2 DEF CallState
    <3>2. QED BY <1>2, <1>3, <2>2, <3>1, DoneStays DEF DoneBy
  <2>4. v \in CallState
    BY <2>2 DEF CallState
  <2>5. /\ v.pc = a.pc /\ v.todo = a.todo /\ v.batch = a.batch /\ v.failed = a.failed
        /\ v.uncertain /\ v.wrote
    BY <2>2 DEF CallState
  <2> HIDE DEF v
  <2>6. Truthful(v)
    BY <2>2, <2>5 DEF Truthful, Accounts
  <2>7. \A f \in v.batch \ v.failed : event[f].stored => DoneIn(v, f, event'[f])
    BY <2>3, <2>5 DEF DoneIn
  <2>8. QED BY <1>0, <1>1, <1>2, <2>1, <2>4, <2>6, <2>7, RunStep
<1>6. QED BY <1>4, <1>5

\* The writes that fail, and those after a renewal that failed.
LEMMA FailingSteps ==
  ASSUME Types, Ledger, PhasesDone, NEW c \in Caller, NEW e \in Event,
         WriteFails(c, e) \/ WriteAfterFailedRenewal(c, e)
  PROVE  StepOf(c)
<1>0. /\ HasWrite(c, e) /\ UNCHANGED <<gate, row, event, fact>>
      /\ faults' \in 0..MaxFault
  BY FaultCount DEF WriteFails, WriteAfterFailedRenewal
<1>1. call[c].pc # "idle" /\ DoneBy(c)
  BY <1>0 DEF HasWrite, PhasesDone
<1> DEFINE a == Failed(c, e)
<1>2. PICK u \in BOOLEAN : call' = [call EXCEPT ![c] = [a EXCEPT !.uncertain = @ \/ u]]
  BY DEF WriteFails, WriteAfterFailedRenewal
<1>3. /\ a \in CallState /\ a.batch = call[c].batch /\ a.pc # "idle"
      /\ a.committed = call[c].committed /\ a.uncertain = call[c].uncertain
      /\ a.wrote = call[c].wrote
      /\ \A f \in call[c].batch \ a.failed :
           f \notin call[c].failed /\ (DoneWith(call[c], f) => DoneWith(a, f))
  BY <1>0, FailedRun
<1> HIDE DEF a
<1> DEFINE b == a.uncertain \/ u
           v == [a EXCEPT !.uncertain = b]
<1>4. call' = [call EXCEPT ![c] = v] /\ b \in BOOLEAN
  BY <1>2
<1>b. a.uncertain => b
  OBVIOUS
<1> HIDE DEF b
<1>5. v \in CallState
  BY <1>3, <1>4 DEF CallState
<1>6. /\ v.pc = a.pc /\ v.todo = a.todo /\ v.batch = a.batch /\ v.failed = a.failed
      /\ v.committed = a.committed /\ v.wrote = a.wrote /\ v.uncertain = b
  BY <1>3 DEF CallState
<1> HIDE DEF v
<1>7. Accounts(call[c])
  BY <1>1, Accounting
<1>8. Truthful(v)
  BY <1>3, <1>6, <1>7, <1>b DEF Truthful, Accounts
<1>9. \A f \in v.batch \ v.failed : event[f].stored => DoneWith(v, f)
  BY <1>1, <1>3, <1>6 DEF DoneBy, DoneWith, DoneIn
<1>10. QED BY <1>0, <1>4, <1>5, <1>8, <1>9, QuietStep

\* A write that is refused ends the run.
LEMMA RefusedStep ==
  ASSUME Types, Ledger, NEW c \in Caller, NEW e \in Event, WriteRefused(c, e)
  PROVE  StepOf(c)
<1> DEFINE v == Abandoned(call[c])
<1>1. call' = [call EXCEPT ![c] = v] /\ UNCHANGED <<gate, row, event, fact, faults>>
  BY DEF WriteRefused
<1>2. Accounts(call[c])
  BY Accounting DEF WriteRefused, HasWrite
<1>3. /\ v \in CallState /\ Truthful(v)
      /\ \A f \in v.batch \ v.failed : event[f].stored => DoneWith(v, f)
  BY <1>2, IdleStep
<1> HIDE DEF v
<1>4. QED BY <1>1, <1>3, QuietStep, FaultCount

\* The terminal update of the row is one of a run that holds it.
LEMMA TerminalRow ==
  ASSUME Types, NEW c \in Caller, NEW status \in {"completed", "failed"}
  PROVE  /\ Terminal(c, status) \in RowState
         /\ Terminal(c, status) = row \/ HoldsLease(c)
  BY DEF Terminal, RowState, Types

\* A run that ends: its row may change when it holds it, and the run is idle.
LEMMA EndStep ==
  ASSUME Types, NEW c \in Caller, NEW v \in {IdleCall, Abandoned(call[c])},
         v = IdleCall \/ Accounts(call[c]),
         call' = [call EXCEPT ![c] = v], UNCHANGED <<gate, event, fact>>,
         faults' \in 0..MaxFault, row' \in RowState, row' = row \/ HoldsLease(c)
  PROVE  StepOf(c)
<1>1. /\ v \in CallState /\ v.pc = "idle" /\ Truthful(v)
      /\ \A e \in v.batch \ v.failed : event[e].stored => DoneWith(v, e)
  BY IdleStep
<1>2. /\ call' \in [Caller -> CallState] /\ call'[c] = v
      /\ \A d \in Caller : d # c => call'[d] = call[d]
  BY <1>1, RunChange
<1>3. DoneBy(c)'
  BY <1>1, <1>2 DEF DoneBy, DoneWith, DoneIn
<1>4. EventsGrow
  BY DEF EventsGrow, Types
<1>5. QED BY <1>1, <1>2, <1>3, <1>4 DEF StepOf

\* The end of a run, in success and in failure.
LEMMA EndSteps ==
  ASSUME Types, Ledger, NEW c \in Caller, Finish(c) \/ FinishFails(c) \/ FailRun(c)
  PROVE  StepOf(c)
<1>0. call[c].pc # "idle" /\ Accounts(call[c])
  BY Accounting DEF Finish, FinishFails, FailRun
<1>1. CASE Finish(c)
  <2>1. PICK v \in {IdleCall, Abandoned(call[c])} : call' = [call EXCEPT ![c] = v]
    BY <1>1 DEF Finish
  <2>2. PICK status \in {"completed", "failed"} : row' = Terminal(c, status)
    BY <1>1 DEF Finish
  <2>3. UNCHANGED <<gate, event, fact, faults>>
    BY <1>1 DEF Finish
  <2>4. row' \in RowState /\ (row' = row \/ HoldsLease(c))
    BY <2>2, TerminalRow
  <2>5. QED BY <1>0, <2>1, <2>3, <2>4, EndStep, FaultCount
<1>2. CASE FinishFails(c)
  <2>1. UNCHANGED <<gate, row, event, fact>> /\ faults' \in 0..MaxFault
    BY <1>2, FaultCount DEF FinishFails
  <2>2. CASE call[c].heartbeat = "lost"
    <3>1. call' = [call EXCEPT ![c] = Abandoned(call[c])]
      BY <1>2, <2>2 DEF FinishFails
    <3>2. row' \in RowState
      BY <2>1 DEF Types
    <3>3. QED BY <1>0, <2>1, <3>1, <3>2, EndStep
  <2>3. CASE call[c].heartbeat # "lost"
    <3> DEFINE v == [call[c] EXCEPT !.pc = "fail"]
    <3>1. call' = [call EXCEPT ![c] = v]
      BY <1>2, <2>3 DEF FinishFails
    <3>2. /\ v \in CallState /\ Truthful(v)
          /\ \A e \in v.batch \ v.failed : event[e].stored => DoneWith(v, e)
      BY <1>0, StatusStep
    <3> HIDE DEF v
    <3>3. QED BY <2>1, <3>1, <3>2, QuietStep
  <2>4. QED BY <2>2, <2>3
<1>3. CASE FailRun(c)
  <2>1. /\ row' \in {Terminal(c, "failed")} \cup (IF faults < MaxFault THEN {row} ELSE {})
        /\ faults' = IF row' = row /\ HoldsLease(c) THEN faults + 1 ELSE faults
        /\ call' = [call EXCEPT ![c] = Abandoned(call[c])]
        /\ UNCHANGED <<gate, event, fact>>
    BY <1>3 DEF FailRun
  <2>2. row' = Terminal(c, "failed") \/ (row' = row /\ faults < MaxFault)
    BY <2>1
  <2>3. row' \in RowState /\ (row' = row \/ HoldsLease(c))
    BY <2>2, TerminalRow DEF Types
  <2>4. row' = row /\ HoldsLease(c) => faults < MaxFault
    <3>1. HoldsLease(c) => Terminal(c, "failed") # row
      BY DEF HoldsLease, Terminal
    <3>2. QED BY <2>2, <3>1
  <2>5. faults' \in 0..MaxFault
    BY <2>1, <2>4, FaultCount
  <2>6. QED BY <1>0, <2>1, <2>3, <2>5, EndStep
<1>4. QED BY <1>1, <1>2, <1>3
-----------------------------------------------------------------------------
(***************************************************************************)
(* The inductive invariant.                                                *)
(***************************************************************************)
\* Every step of the system is a step of a run or one of the environment.
LEMMA Steps ==
  ASSUME IInv, Next
  PROVE  \/ \E c \in Caller : StepOf(c)
         \/ LeaseLapses \/ IntervalPasses \/ (\E k \in FactKey : Update(k))
         \/ BeginErasure \/ Erase
<1>0. Types /\ Ledger /\ PhasesDone
  BY DEF IInv
<1>1. ASSUME NEW c \in Caller, Start(c) \/ Step(c) \/ HeartbeatFails(c) \/ Crash(c)
      PROVE  StepOf(c)
  <2>1. CASE Start(c)
    BY <1>0, <2>1, StartStep
  <2>2. CASE HeartbeatFails(c) \/ NextPhase(c) \/ PhaseEmpty(c)
    BY <1>0, <2>2, PhaseSteps, Constants
  <2>3. CASE Crash(c) \/ ClaimRefused(c) \/ ReadFails(c)
    BY <1>0, <2>3, PlainSteps
  <2>4. CASE Claim(c) \/ Read(c) \/ Score(c)
    BY <1>0, <2>4, ClaimStep, ReadStep, ScoreStep
  <2>5. ASSUME NEW e \in Event, Skip(c, e) \/ Write(c, e)
        PROVE  StepOf(c)
    BY <1>0, <2>5, SkipStep, LandingSteps, FailingSteps, RefusedStep DEF Write
  <2>6. ASSUME NEW k \in FactKey, NEW j \in FactKey, Judge(c, k, j)
        PROVE  StepOf(c)
    BY <1>0, <2>6, PhaseSteps
  <2>7. CASE Finish(c) \/ FinishFails(c) \/ FailRun(c)
    BY <1>0, <2>7, EndSteps
  <2>8. CASE \E e \in Event : Skip(c, e) \/ Write(c, e)
    BY <2>5, <2>8
  <2>9. CASE \E k, j \in FactKey : Judge(c, k, j)
    BY <2>6, <2>9
  <2>10. QED BY <1>1, <2>1, <2>2, <2>3, <2>4, <2>7, <2>8, <2>9 DEF Step
<1>2. CASE \E c \in Caller : Start(c) \/ Step(c) \/ HeartbeatFails(c) \/ Crash(c)
  BY <1>1, <1>2
<1>3. QED BY <1>2 DEF Next

\* The environment: leases and intervals lapse, users write, the tenant is erased.
LEMMA TypesOfEnvironment ==
  ASSUME Types,
         \/ LeaseLapses \/ IntervalPasses \/ (\E k \in FactKey : Update(k))
         \/ BeginErasure \/ Erase
  PROVE  Types' /\ call' = call
<1>0. /\ gate \in Gate /\ row \in RowState /\ event \in [Event -> EventState]
      /\ fact \in [FactKey -> FactState] /\ call \in [Caller -> CallState]
      /\ faults \in 0..MaxFault
  BY DEF Types
<1>1. CASE LeaseLapses
  <2>1. row' = [row EXCEPT !.live = FALSE] /\ UNCHANGED <<gate, event, fact, call>>
    BY <1>1 DEF LeaseLapses
  <2>2. row' \in RowState
    BY <1>0, <2>1 DEF RowState
  <2>3. faults' \in 0..MaxFault
    BY <1>1, FaultCount DEF LeaseLapses
  <2>4. QED BY <1>0, <2>1, <2>2, <2>3 DEF Types
<1>2. CASE IntervalPasses
  <2>1. row' = [row EXCEPT !.paced = FALSE] /\ UNCHANGED <<gate, event, fact, call, faults>>
    BY <1>2 DEF IntervalPasses
  <2>2. row' \in RowState
    BY <1>0, <2>1 DEF RowState
  <2>3. QED BY <1>0, <2>1, <2>2 DEF Types
<1>3. CASE \E k \in FactKey : Update(k)
  <2>1. PICK k \in FactKey : Update(k)
    BY <1>3
  <2>2. fact' = Upserted(fact, k, gate.epoch) /\ UNCHANGED <<gate, row, event, call, faults>>
    BY <2>1 DEF Update
  <2>3. gate.epoch \in Nat
    BY <1>0 DEF Gate
  <2>4. fact' \in [FactKey -> FactState]
    BY <1>0, <2>2, <2>3, UpsertedFacts
  <2>5. QED BY <1>0, <2>2, <2>4 DEF Types
<1>4. CASE BeginErasure
  <2>1. PICK r \in Run : gate' = Begun(gate, r)
    BY <1>4 DEF BeginErasure
  <2>2. gate' \in Gate /\ UNCHANGED <<row, event, fact, call, faults>>
    BY <1>0, <1>4, <2>1, GateTypes DEF BeginErasure
  <2>3. QED BY <1>0, <2>2 DEF Types
<1>5. CASE Erase
  <2>1. /\ gate' = Reopened(gate) /\ row' = NoRow /\ UNCHANGED <<call, faults>>
        /\ event' = [e \in Event |-> NoEvent] /\ fact' = [k \in FactKey |-> NoFact]
    BY <1>5 DEF Erase
  <2>2. QED BY <1>0, <2>1, GateTypes, Constants DEF Types
<1>6. QED BY <1>1, <1>2, <1>3, <1>4, <1>5

\* No fact of an earlier epoch: what a run writes has its admission, which the fence
\* compares with the gate in the same transaction.
LEMMA StaleFacts ==
  ASSUME IInv, Next
  PROVE  NoStaleFacts'
<1>0. gate \in Gate /\ fact \in [FactKey -> FactState] /\ NoStaleFacts
  BY DEF IInv, Types
<1>1. ASSUME NEW c \in Caller, StepOf(c)
      PROVE  NoStaleFacts'
  <2>1. gate' = gate
    BY <1>1 DEF StepOf
  <2>2. CASE fact' = fact
    BY <1>0, <2>1, <2>2 DEF NoStaleFacts, IsOpen
  <2>3. CASE Admitted(c) /\ FactsWrittenBy(c)
    <3>1. IsOpen(gate) /\ gate.epoch = call[c].adm
      BY <2>3 DEF Admitted, AdmissionMatches, Admission
    <3>2. QED BY <1>0, <2>1, <2>3, <3>1 DEF NoStaleFacts, FactsWrittenBy
  <2>4. QED BY <1>1, <2>2, <2>3 DEF StepOf
<1>2. CASE LeaseLapses \/ IntervalPasses
  BY <1>0, <1>2 DEF LeaseLapses, IntervalPasses, NoStaleFacts, IsOpen
<1>3. ASSUME NEW k \in FactKey, Update(k)
      PROVE  NoStaleFacts'
  <2>1. fact' = Upserted(fact, k, gate.epoch) /\ gate' = gate /\ IsOpen(gate)
    BY <1>3 DEF Update
  <2>2. gate.epoch \in Nat
    BY <1>0 DEF Gate
  <2>3. fact'[k].epoch = gate.epoch /\ \A j \in FactKey : j # k => fact'[j] = fact[j]
    BY <1>0, <2>1, <2>2, UpsertedFacts
  <2>4. QED BY <1>0, <2>1, <2>3 DEF NoStaleFacts
<1>4. CASE BeginErasure
  BY <1>4 DEF BeginErasure, Begun, NoStaleFacts, IsOpen
<1>5. CASE Erase
  BY <1>5 DEF Erase, NoStaleFacts, NoFact
<1>6. QED BY <1>1, <1>2, <1>3, <1>4, <1>5, Steps

\* What was done about a batch stays done, for every run, while others work and when
\* the tenant is erased.
LEMMA DonePreserved ==
  ASSUME IInv, Next
  PROVE  PhasesDone' /\ AckedMeansDone'
<1>0. Types /\ PhasesDone /\ AckedMeansDone
  BY DEF IInv
<1>1. ASSUME NEW c \in Caller, StepOf(c)
      PROVE  PhasesDone' /\ AckedMeansDone'
  <2>1. /\ EventsGrow /\ DoneBy(c)'
        /\ \A d \in Caller : d # c => call'[d] = call[d]
        /\ \A e \in Event : event'[e].processed /\ ~ event[e].processed =>
             event'[e].settled /\ event'[e].graph
    BY <1>1 DEF StepOf
  <2>2. ASSUME NEW d \in Caller
        PROVE  DoneBy(d)'
    <3>1. CASE d = c
      BY <2>1, <3>1
    <3>2. CASE d # c
      <4>1. call[d].batch \subseteq Event
        BY <1>0, CallFields
      <4>2. \A e \in call[d].batch \ call[d].failed :
              event'[e].stored => DoneIn(call[d], e, event'[e])
        BY <1>0, <2>1, <4>1, DoneStays DEF PhasesDone, DoneBy, EventsGrow
      <4>3. call'[d] = call[d]
        BY <2>1, <3>2
      <4>4. QED BY <4>2, <4>3 DEF DoneBy, DoneWith
    <3>3. QED BY <3>1, <3>2
  <2>3. AckedMeansDone'
    BY <1>0, <2>1 DEF AckedMeansDone, EventsGrow
  <2>4. QED BY <2>2, <2>3 DEF PhasesDone
<1>2. CASE event' = event /\ call' = call
  BY <1>0, <1>2 DEF PhasesDone, DoneBy, DoneWith, AckedMeansDone
<1>3. CASE Erase
  <2>1. \A e \in Event : ~ event'[e].stored /\ ~ event'[e].processed
    BY <1>3 DEF Erase, NoEvent
  <2>2. call' = call
    BY <1>3 DEF Erase
  <2>3. \A c \in Caller : call[c].batch \subseteq Event
    BY <1>0, CallFields
  <2>4. QED BY <2>1, <2>2, <2>3 DEF PhasesDone, DoneBy, AckedMeansDone
<1>4. CASE LeaseLapses \/ IntervalPasses \/ (\E k \in FactKey : Update(k)) \/ BeginErasure
  BY <1>2, <1>4 DEF LeaseLapses, IntervalPasses, Update, BeginErasure
<1>5. QED BY <1>1, <1>3, <1>4, Steps

\* The types are kept by the runs too, and so are their books.
LEMMA TypesPreserved ==
  ASSUME IInv, Next
  PROVE  Types' /\ Ledger'
<1>0. Types /\ Ledger
  BY DEF IInv
<1>1. ASSUME NEW c \in Caller, StepOf(c)
      PROVE  Types' /\ Ledger'
  <2>1. Types'
    BY <1>0, <1>1 DEF StepOf, Types, EventsGrow, FactsWrittenBy
  <2>2. Ledger'
    BY <1>0, <1>1 DEF StepOf, Ledger
  <2>3. QED BY <2>1, <2>2
<1>2. CASE \/ LeaseLapses \/ IntervalPasses \/ (\E k \in FactKey : Update(k))
           \/ BeginErasure \/ Erase
  <2>1. Types' /\ call' = call
    BY <1>0, <1>2, TypesOfEnvironment
  <2>2. QED BY <1>0, <2>1 DEF Ledger
<1>3. QED BY <1>1, <1>2, Steps

\* The inductive invariant holds initially.
LEMMA InitInv ==
  ASSUME Init
  PROVE  IInv
<1>1. Types
  <2>1. gate \in Gate
    BY DEF Init, OpenGate, Gate
  <2>2. event \in [Event -> EventState]
    BY DEF Init, NoEvent, EventState
  <2>3. faults \in 0..MaxFault
    BY ConsolidationConstants DEF Init
  <2>4. QED BY <2>1, <2>2, <2>3, Constants DEF Init, Types
<1>2. NoStaleFacts
  BY DEF Init, NoStaleFacts, NoFact
<1>3. \A c \in Caller : call[c] = IdleCall
  BY DEF Init
<1>4. PhasesDone /\ Ledger
  BY <1>3 DEF PhasesDone, DoneBy, Ledger, Truthful, Reports, IdleCall
<1>5. AckedMeansDone
  BY DEF Init, AckedMeansDone, NoEvent
<1>6. QED BY <1>1, <1>2, <1>4, <1>5 DEF IInv

\* The inductive invariant behind the theorems below.
THEOREM Invariance == Spec => []IInv
<1>1. Init => IInv
  BY InitInv
<1>2. IInv /\ [Next]_vars => IInv'
  <2> SUFFICES ASSUME IInv, [Next]_vars PROVE IInv'
    OBVIOUS
  <2>1. CASE Next
    BY <2>1, TypesPreserved, StaleFacts, DonePreserved DEF IInv
  <2>2. CASE UNCHANGED vars
    <3>1. Types'
      BY <2>2 DEF vars, IInv, Types
    <3>2. NoStaleFacts' /\ AckedMeansDone' /\ Ledger' /\ PhasesDone'
      BY <2>2 DEF vars, IInv, NoStaleFacts, IsOpen, AckedMeansDone, Ledger, PhasesDone,
                  DoneBy, DoneWith
    <3>3. QED BY <3>1, <3>2 DEF IInv
  <2>3. QED BY <2>1, <2>2
<1>3. QED BY <1>1, <1>2, PTL DEF Spec

\* A consolidation that was admitted before an erasure leaves no fact behind it
\* (runFencedWrite).
THEOREM StaleFactsExcluded == Spec => []NoStaleFacts
<1>1. IInv => NoStaleFacts
  BY DEF IInv
<1>2. QED BY <1>1, Invariance, PTL

\* What a run acknowledges has been decided and projected, and what it reports about
\* its commits is true, whatever write failed, got lost or landed unreported
\* (markEventsDreamerProcessed, attachCommitReport).
THEOREM RunsAreHonest == Spec => []RunsHonest
<1>1. IInv => RunsHonest
  BY DEF IInv, RunsHonest, ReportTrue, Ledger, Truthful, Reports
<1>2. QED BY <1>1, Invariance, PTL

\* A step disturbs no run that holds its row, and retires no fact but the one its run
\* compared, in the revision it compared.
LEMMA StepNotStale ==
  ASSUME IInv, Next
  PROVE  SuccessorUndisturbed /\ RetiresWhatItJudged
<1>0. Types
  BY DEF IInv
<1>1. ASSUME NEW c \in Caller, StepOf(c)
      PROVE  SuccessorUndisturbed /\ RetiresWhatItJudged
  <2>1. RetiresWhatItJudged
    BY <1>1 DEF StepOf, RetiresWhatItJudged, FactsWrittenBy
  <2>2. ASSUME NEW d \in Caller, HoldsLease(d), Working(d)'
        PROVE  row' = row
    <3>1. ~ Claimable
      BY <2>2 DEF HoldsLease, Claimable
    <3>2. ~ (HoldsLease(c) /\ call'[c].pc = "idle")
      BY <2>2 DEF HoldsLease, Working, Writing
    <3>3. QED BY <1>1, <3>1, <3>2 DEF StepOf
  <2>3. SuccessorUndisturbed
    BY <2>2 DEF SuccessorUndisturbed, HoldsLease
  <2>4. QED BY <2>1, <2>3
<1>2. CASE LeaseLapses \/ IntervalPasses
  <2>1. fact' = fact
    BY <1>2 DEF LeaseLapses, IntervalPasses
  <2>2. RetiresWhatItJudged
    BY <2>1 DEF RetiresWhatItJudged
  <2>3. row'.owner = row.owner /\ row'.status = row.status
    BY <1>0, <1>2 DEF LeaseLapses, IntervalPasses, Types, RowState
  <2>4. QED BY <2>2, <2>3 DEF SuccessorUndisturbed, HoldsLease
<1>3. ASSUME NEW k \in FactKey, Update(k)
      PROVE  SuccessorUndisturbed /\ RetiresWhatItJudged
  <2>1. gate.epoch \in Nat /\ fact \in [FactKey -> FactState]
    BY <1>0 DEF Types, Gate
  <2>2. fact' = Upserted(fact, k, gate.epoch) /\ row' = row
    BY <1>3 DEF Update
  <2>3. fact'[k].state = "active" /\ \A j \in FactKey : j # k => fact'[j] = fact[j]
    BY <2>1, <2>2, UpsertedFacts
  <2>4. RetiresWhatItJudged
    BY <2>3 DEF RetiresWhatItJudged
  <2>5. QED BY <2>2, <2>4 DEF SuccessorUndisturbed, HoldsLease
<1>4. CASE BeginErasure
  BY <1>4 DEF BeginErasure, SuccessorUndisturbed, RetiresWhatItJudged, HoldsLease
<1>5. CASE Erase
  BY <1>5 DEF Erase, SuccessorUndisturbed, RetiresWhatItJudged, NoFact
<1>6. QED BY <1>1, <1>2, <1>3, <1>4, <1>5, Steps

\* No step of a run acts on what has changed since the run read it: neither on the row
\* of a successor nor on a fact that was written meanwhile (finishConsolidationRun,
\* phase 5 of runConsolidation).
THEOREM ActsOnCurrent == Spec => NoStaleStep
<1>1. IInv /\ [Next]_vars => [SuccessorUndisturbed /\ RetiresWhatItJudged]_vars
  BY StepNotStale
<1>2. QED BY <1>1, Invariance, PTL DEF Spec, NoStaleStep
=============================================================================
