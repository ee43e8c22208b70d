--------------------------- MODULE AccessTracker ---------------------------
(***************************************************************************)
(* The accesses that searches record: buffered in the process, flushed in  *)
(* batches when there are enough of them, when an interval has passed, or  *)
(* when close() or an erasure asks (mongodb-access-tracker.ts).            *)
(*                                                                         *)
(* A flush is one fenced transaction per erasure epoch that adds to the    *)
(* raw history (access_events) and to the counter of the memory.  When it  *)
(* fails, or lands and is reported as failed, its entries go back to the   *)
(* buffer under the batch id they were stamped with, and the memory's      *)
(* appliedBatches tells the next flush what has been counted.              *)
(*                                                                         *)
(* All accesses are of one memory; those of different memories meet in no  *)
(* entry, no counter and no batch list.                                    *)
(***************************************************************************)
EXTENDS Integers, Sequences, FiniteSets, SequencesExt

CONSTANTS
  Access,                  \* accesses that searches make
  Untokened,               \* those recorded without the token of the search
  flushThreshold,          \* buffered accesses that start a flush
  APPLIED_BATCHES_WINDOW,  \* batch ids a memory remembers
  MaxFault,                \* bound on flushes that fail
  MaxErase                 \* bound on erasures

ASSUME TrackerConstants ==
  /\ flushThreshold \in Nat \ {0} /\ MaxErase \in Nat /\ MaxFault \in Nat
  /\ APPLIED_BATCHES_WINDOW \in Nat /\ MaxFault < APPLIED_BATCHES_WINDOW

VARIABLES
  access,    \* Access -> how far its search is and the epoch it was admitted in
  buffer,    \* epoch -> buffered entries in order; batch 0 until a flush stamps them
  flight,    \* pendingFlush: the flush that runs and the entries it has left
  batches,   \* batch ids given out
  memory,    \* what is stored: the counter, appliedBatches and the raw history
  flusher,   \* the callers of flush()
  interval,  \* the interval timer is set
  epoch,
  faults,
  twins      \* history: accesses of an entry stamped along with an earlier one

trackerVars == <<access, buffer, flight, batches, memory, flusher, interval, epoch, faults,
                 twins>>

Flusher == {"close", "erasure"}

Epoch == 0 .. MaxErase

NoEntries == [e \in Epoch |-> <<>>]

NoFlight == [on |-> FALSE, id |-> 0, inspect |-> FALSE, bad |-> FALSE,
             todo |-> NoEntries]

NoMemory == [counted |-> [a \in Access |-> 0], applied |-> <<>>,
             raw |-> [a \in Access |-> 0], batches |-> {}]

NoFlusher == [pc |-> "no", waits |-> {}, id |-> 0, due |-> {},
              failed |-> FALSE, overtaken |-> FALSE]

TrackerInit ==
  /\ access = [a \in Access |-> [pc |-> "new", tok |-> 0]]
  /\ buffer = NoEntries /\ flight = NoFlight /\ batches = 0 /\ memory = NoMemory
  /\ flusher = [f \in Flusher |-> NoFlusher]
  /\ interval = TRUE /\ epoch = 0 /\ faults = 0 /\ twins = {}

\* The accesses of a buffer.
Of(entries) == UNION {UNION {x.of : x \in ToSet(entries[e])} : e \in Epoch}

-----------------------------------------------------------------------------
(***************************************************************************)
(* The buffer.                                                             *)
(***************************************************************************)
\* bufferAccess: the last entry of the key takes the access unless it belongs to a
\* batch.
Buffered(a, tok) ==
  LET mine == buffer[tok]
      n == Len(mine)
  IN [buffer EXCEPT ![tok] =
        IF n > 0 /\ mine[n].batch = 0 THEN [mine EXCEPT ![n].of = @ \cup {a}]
        ELSE Append(mine, [of |-> {a}, batch |-> 0])]

\* A second entry of a key that was not stamped yet: the key's last entry was one that
\* a failed flush had put behind the first.
Twins(b) ==
  UNION {UNION {b[e][i].of : i \in {j \in DOMAIN b[e] :
                  b[e][j].batch = 0 /\ \E k \in 1 .. j - 1 : b[e][k].batch = 0}} : e \in Epoch}

\* doFlush up to its first await: the entries get the batch id and leave the buffer.
Launch(b) ==
  /\ buffer' = NoEntries
  /\ batches' = batches + 1
  /\ flight' = [on |-> TRUE, id |-> batches + 1, inspect |-> TRUE, bad |-> FALSE,
                todo |-> [e \in Epoch |-> [i \in DOMAIN b[e] |->
                            IF b[e][i].batch = 0 THEN [b[e][i] EXCEPT !.batch = batches + 1]
                            ELSE b[e][i]]]]
  /\ twins' = twins \cup Twins(b)

\* The end of bufferAccess: enough accesses start a flush unless one runs.
BufferAccess(a, tok) ==
  LET b == Buffered(a, tok) IN
  IF Cardinality(Of(b)) >= flushThreshold /\ ~ flight.on
  THEN Launch(b) ELSE buffer' = b /\ UNCHANGED <<flight, batches, twins>>

\* A search is admitted before it reads.
SearchAdmitted(a) ==
  /\ access[a].pc = "new" /\ a \notin Untokened
  /\ access' = [access EXCEPT ![a] = [pc |-> "search", tok |-> epoch]]
  /\ UNCHANGED <<buffer, flight, batches, memory, flusher, interval, epoch, faults, twins>>

\* recordAccess with the token of the search; nothing once the tracker is gone.
RecordAccess(a) ==
  /\ access[a].pc = "search"
  /\ IF flusher["close"].pc = "done"
     THEN access' = [access EXCEPT ![a].pc = "lost"] /\ UNCHANGED <<buffer, flight, batches, twins>>
     ELSE access' = [access EXCEPT ![a].pc = "recorded"] /\ BufferAccess(a, access[a].tok)
  /\ UNCHANGED <<memory, flusher, interval, epoch, faults>>

\* recordAccess without a token asks for one first.
RecordPending(a) ==
  /\ access[a].pc = "new" /\ a \in Untokened /\ flusher["close"].pc # "done"
  /\ access' = [access EXCEPT ![a].pc = "pending"]
  /\ UNCHANGED <<buffer, flight, batches, memory, flusher, interval, epoch, faults, twins>>

AdmissionArrives(a) ==
  /\ access[a].pc = "pending"
  /\ access' = [access EXCEPT ![a] = [pc |-> "recorded", tok |-> epoch]]
  /\ BufferAccess(a, epoch)
  /\ UNCHANGED <<memory, flusher, interval, epoch, faults>>

\* The record is discarded.
AdmissionFails(a) ==
  /\ access[a].pc = "pending" /\ faults < MaxFault
  /\ access' = [access EXCEPT ![a].pc = "lost"]
  /\ faults' = faults + 1
  /\ UNCHANGED <<buffer, flight, batches, memory, flusher, interval, epoch, twins>>

-----------------------------------------------------------------------------
(***************************************************************************)
(* The flush.                                                              *)
(***************************************************************************)
Interval ==
  /\ interval /\ buffer # NoEntries /\ ~ flight.on
  /\ Launch(buffer)
  /\ UNCHANGED <<access, memory, flusher, interval, epoch, faults>>

\* The callers of flush() that wait for the flight learn that it failed.
Failed == [f \in Flusher |->
            IF flusher[f].pc = "run" /\ flusher[f].id = flight.id
            THEN [flusher[f] EXCEPT !.failed = TRUE] ELSE flusher[f]]

\* listCollections tells what kind of collection access_events is.
Inspect ==
  /\ flight.on /\ flight.inspect
  /\ flight' = [flight EXCEPT !.inspect = FALSE]
  /\ UNCHANGED <<access, buffer, batches, memory, flusher, interval, epoch, faults, twins>>

InspectFails ==
  /\ flight.on /\ flight.inspect /\ faults < MaxFault
  /\ buffer' = [e \in Epoch |-> buffer[e] \o flight.todo[e]]
  /\ flight' = NoFlight
  /\ flusher' = Failed
  /\ faults' = faults + 1
  /\ UNCHANGED <<access, batches, memory, interval, epoch, twins>>

\* The flight ends with its last group.
GroupDone(e, bad) ==
  LET left == [flight.todo EXCEPT ![e] = <<>>]
  IN flight' = IF left = NoEntries THEN NoFlight
               ELSE [flight EXCEPT !.todo = left, !.bad = @ \/ bad]

\* Defective variant: the update finds the memory whatever it has applied.
CountUnguarded(m, e) ==
  [m EXCEPT !.counted = [a \in Access |-> IF a \in e.of THEN @[a] + 1 ELSE @[a]],
            !.applied = Append(@, e.batch)]

\* The $push of a batch id, which keeps the newest APPLIED_BATCHES_WINDOW ids.
Pushed(ids, id) ==
  LET all == Append(ids, id)
      over == Len(all) - APPLIED_BATCHES_WINDOW
  IN IF over > 0 THEN SubSeq(all, over + 1, Len(all)) ELSE all

\* One updateOne of flushSnapshot: the memory is matched unless it has applied the batch.
Count(m, e) ==
  IF e.batch \in ToSet(m.applied) THEN m
  ELSE [m EXCEPT !.counted = [a \in Access |-> m.counted[a] + IF a \in e.of THEN 1 ELSE 0],
                 !.applied = Pushed(@, e.batch)]

\* The raw inserts: a retry leaves out the batches that are there.
Inserted(m, group) ==
  LET present == IF {x.batch : x \in ToSet(group)} = {flight.id} THEN {} ELSE m.batches
      new == {i \in DOMAIN group : group[i].batch \notin present}
  IN [m EXCEPT !.raw = [a \in Access |->
                          m.raw[a] + Cardinality({i \in new : a \in group[i].of})],
               !.batches = @ \cup {group[i].batch : i \in new}]

\* flushSnapshot, in one transaction: the inserts, and the updates one by one.
FlushSnapshot(group) ==
  LET stored[n \in 0 .. Len(group)] ==
        IF n = 0 THEN Inserted(memory, group) ELSE Count(stored[n - 1], group[n])
  IN stored[Len(group)]

\* Defective variant: the token of the entries is not asked for.
AdmittedAlways(e) == flight.todo[e] # <<>>

Admitted(e) == e = epoch

\* The groups have their turns in the order in which their epochs came into the buffer,
\* which may be any.
Turn(e) == flight.on /\ ~ flight.inspect /\ flight.todo[e] # <<>>

FlushGroup(e) ==
  /\ Turn(e) /\ Admitted(e)
  /\ memory' = FlushSnapshot(flight.todo[e])
  /\ GroupDone(e, FALSE)
  /\ UNCHANGED <<access, buffer, batches, flusher, interval, epoch, faults, twins>>

\* The fence refuses: the entries are discarded.
FlushRefused(e) ==
  /\ Turn(e) /\ ~ Admitted(e)
  /\ GroupDone(e, FALSE)
  /\ UNCHANGED <<access, buffer, batches, memory, flusher, interval, epoch, faults, twins>>

\* Defective variant: an entry that goes back to the buffer may be stamped again.
RebufferedFresh(e) ==
  buffer[e] \o [i \in DOMAIN flight.todo[e] |-> [flight.todo[e][i] EXCEPT !.batch = 0]]

\* rebufferSnapshot: behind what was recorded meanwhile, with their batch ids.
Rebuffered(e) == buffer[e] \o flight.todo[e]

\* The transaction aborts, or commits and the answer is lost.
FlushFails(e) ==
  /\ Turn(e) /\ Admitted(e) /\ faults < MaxFault
  /\ memory' \in {memory, FlushSnapshot(flight.todo[e])}
  /\ buffer' = [buffer EXCEPT ![e] = Rebuffered(e)]
  /\ GroupDone(e, TRUE)
  /\ flusher' = Failed
  /\ faults' = faults + 1
  /\ UNCHANGED <<access, batches, interval, epoch, twins>>

-----------------------------------------------------------------------------
(***************************************************************************)
(* flush(), by close() and before an erasure of this process.              *)
(***************************************************************************)
\* It waits for the admissions that are pending.
CallFlush(f) ==
  /\ flusher[f].pc = "no"
  /\ flusher' = [flusher EXCEPT ![f].pc = "admissions",
       ![f].waits = {a \in Access : access[a].pc = "pending"},
       ![f].due = {a \in Access : access[a].pc = "recorded"}]

\* The rest of flush() after its last await but one: nothing left, a flush that was
\* started meanwhile, or its own.
Finish(f) ==
  \/ /\ buffer = NoEntries
     /\ flusher' = [flusher EXCEPT ![f].pc = "done", ![f].waits = {}, ![f].id = 0,
                                     ![f].overtaken = flight.on]
     /\ UNCHANGED <<buffer, flight, batches, twins>>
  \/ /\ buffer # NoEntries /\ flight.on
     /\ flusher' = [flusher EXCEPT ![f].pc = "run", ![f].waits = {},
                                     ![f].id = flight.id, ![f].failed = flight.bad]
     /\ UNCHANGED <<buffer, flight, batches, twins>>
  \/ /\ buffer # NoEntries /\ ~ flight.on
     /\ flusher' = [flusher EXCEPT ![f].pc = "run", ![f].waits = {},
                                     ![f].id = batches + 1]
     /\ Launch(buffer)

\* The admissions have settled; a flush that runs is awaited first.
FlushAdmitted(f) ==
  /\ flusher[f].pc = "admissions"
  /\ \A a \in flusher[f].waits : access[a].pc # "pending"
  /\ IF flight.on
     THEN /\ flusher' = [flusher EXCEPT ![f].pc = "flight", ![f].waits = {},
                                             ![f].id = flight.id]
          /\ UNCHANGED <<buffer, flight, batches, twins>>
     ELSE Finish(f)
  /\ UNCHANGED <<access, memory, interval, epoch, faults>>

Landed(f) == ~ (flight.on /\ flight.id = flusher[f].id)

FlushResumes(f) ==
  /\ flusher[f].pc = "flight" /\ Landed(f)
  /\ Finish(f)
  /\ UNCHANGED <<access, memory, interval, epoch, faults>>

FlushReturns(f) ==
  /\ flusher[f].pc = "run" /\ Landed(f)
  /\ flusher' = [flusher EXCEPT ![f].pc = "done", ![f].id = 0]
  /\ UNCHANGED <<access, buffer, flight, batches, memory, interval, epoch, faults, twins>>

\* The tenant is erased, by this process after its flush or by another one; the
\* memory that is counted from then on is a new one.
Erase ==
  /\ epoch < MaxErase /\ flusher["erasure"].pc \in {"no", "done"}
  /\ epoch' = epoch + 1
  /\ memory' = NoMemory
  /\ UNCHANGED <<access, buffer, flight, batches, flusher, interval, faults, twins>>

-----------------------------------------------------------------------------
Record(a) ==
  SearchAdmitted(a) \/ RecordAccess(a) \/ RecordPending(a) \/ AdmissionArrives(a) \/ AdmissionFails(a)

Flushing ==
  \/ Inspect \/ InspectFails
  \/ \E e \in Epoch : FlushGroup(e) \/ FlushRefused(e) \/ FlushFails(e)

Flush(f) == FlushAdmitted(f) \/ FlushResumes(f) \/ FlushReturns(f)

-----------------------------------------------------------------------------
\* No access is counted twice, in the counter or in the raw history, whichever flush
\* landed without being acknowledged; none is counted in a tenancy that its search was
\* not admitted to; and the two agree, but for entries that share their batch id with
\* another entry of the memory, which appliedBatches keeps from the counter.
CountedOnce ==
  \A a \in Access :
    /\ memory.counted[a] <= memory.raw[a] /\ memory.raw[a] <= 1
    /\ a \notin twins => memory.counted[a] = memory.raw[a]
    /\ memory.raw[a] = 1 => access[a].tok = epoch

\* What flush() was called for is in the history when it returns, unless the entries
\* went back to the buffer or another flush took them in the meantime.
FlushedWhenDone ==
  \A f \in Flusher : flusher[f].pc = "done" =>
    \A a \in flusher[f].due :
      \/ access[a].tok # epoch \/ memory.raw[a] = 1
      \/ flusher[f].failed \/ flusher[f].overtaken
=============================================================================
