-------------------------- MODULE MemoryLifecycle --------------------------
(***************************************************************************)
(* One revisioned memory document and everything that changes it: direct   *)
(* writes, writes derived from an event, patches, invalidations and        *)
(* feedback by handle, self-edits, contradiction verdicts, and the review  *)
(* of quarantined writes (mongodb-structured-memory.ts, -procedures.ts,    *)
(* -self-edit.ts, -contradiction.ts, -quarantine-review.ts).               *)
(*                                                                         *)
(* A run is about one family of documents, structured facts or procedures, *)
(* reached in one of two ways: "managed" calls come through a manager,     *)
(* capture an admission and run each write as one fenced transaction,      *)
(* which an erasure refuses (ErasureGate); "bare" calls use the exported   *)
(* functions without client or admission, where reading the document,      *)
(* saving its snapshot and replacing it are three separate operations      *)
(* guarded by a compare-and-swap on the revision.                          *)
(***************************************************************************)
EXTENDS Integers, FiniteSets

CONSTANTS
  Call,       \* callers of the operations
  None,       \* absent
  Piece,      \* pieces of content; a value is a set of them
  Bad,        \* the pieces the injection classifier flags
  Seed,       \* a quarantine row found at the start
  MaxFault,   \* bound on crashes and failed writes
  MaxEpoch    \* bound on erasures

ASSUME LifecycleAssumption ==
  /\ IsFiniteSet(Call) /\ None \notin Call /\ Seed \notin Call
  /\ None \notin Nat      \* an absent expected revision is not a revision
  /\ Bad \subseteq Piece
  /\ MaxFault \in Nat /\ MaxEpoch \in Nat

MAX_REVISION_CAS_ATTEMPTS == 3

VARIABLES
  family,     \* "structured" or "procedure"
  managed,    \* through a manager, or bare
  doc,        \* the current document
  history,    \* the revisions collection: one row per superseded revision
  rows,       \* memory_quarantine
  call,       \* the calls
  epoch,      \* the erasure epoch of the agent
  faults,     \* faults so far
  was,        \* history: what every committed revision said
  reviewed    \* history: the contents a reviewer's promotion claimed

vars == << family, managed, doc, history, rows, call, epoch, faults, was, reviewed >>

NoDoc == [rev |-> 0, gen |-> 0, val |-> {}, note |-> None, state |-> "none",
          ids |-> {}, count |-> 0, by |-> 0]
NoRow == [status |-> "none", cand |-> {}, lease |-> FALSE, may |-> FALSE,
          wrote |-> FALSE, again |-> FALSE, by |-> 0]
NoCall == [pc |-> "idle", kind |-> "none", val |-> {}, tok |-> 0, h |-> 0,
           copy |-> NoDoc, row |-> None, try |-> 1]

Doc == [rev : Nat, gen : Nat, val : SUBSET Piece, note : Call \cup {None},
        state : {"none", "active", "invalidated"}, ids : SUBSET Call,
        count : Nat, by : 0..MaxEpoch]
Snapshot == [gen : Nat, rev : Nat, val : SUBSET Piece, state : {"active", "invalidated"},
             by : 0..MaxEpoch]

TypeOK ==
  /\ family \in {"structured", "procedure"} /\ managed \in BOOLEAN
  /\ doc \in Doc
  /\ history \subseteq Snapshot /\ was \subseteq Snapshot
  /\ DOMAIN rows = Call \cup {Seed}
  /\ \A r \in DOMAIN rows :
       rows[r].status \in {"none", "pending-review", "promoting", "promoted", "rejected"}
  /\ DOMAIN call = Call
  /\ \A c \in Call : /\ call[c].copy \in Doc
                     /\ call[c].try \in 1..MAX_REVISION_CAS_ATTEMPTS
  /\ epoch \in 0..MaxEpoch /\ faults \in 0..MaxFault
  /\ reviewed \subseteq SUBSET Piece

Init ==
  /\ family \in {"structured", "procedure"} /\ managed \in BOOLEAN
  /\ doc = NoDoc /\ history = {} /\ was = {} /\ reviewed = {}
  /\ rows = [r \in Call \cup {Seed} |->
              IF r = Seed /\ managed /\ family = "structured"
              THEN [NoRow EXCEPT !.status = "pending-review", !.cand = Bad] ELSE NoRow]
  /\ call = [c \in Call |-> NoCall]
  /\ epoch = 0 /\ faults = 0

Kinds ==
  CASE managed /\ family = "structured" ->
         {"write", "event", "patch", "invalidate", "confirm", "append",
          "contradict", "promote", "reject"}
    [] managed /\ family = "procedure" ->
         {"write", "event", "patch", "invalidate", "outcome"}
    [] ~managed /\ family = "structured" -> {"write", "invalidate", "confirm"}
    [] OTHER -> {"write", "invalidate", "evolve", "outcome"}

-----------------------------------------------------------------------------
(* What one write does to the document it finds. *)

\* What the caller wants stored: a value, its source events and a note (the
\* fields a patch changes); None and {} leave a field alone.
Entry(val, ids, note) == [val |-> val, ids |-> ids, note |-> note]

\* hasStructuredValueChanged / hasProcedureChanged.  A procedure entry is
\* completed from the document first, so absent fields do not count there.
HasChanged(d, e) ==
  \/ d.val # e.val \/ d.state # "active"
  \/ IF family = "structured" THEN d.ids # e.ids \/ d.note # e.note
     ELSE ~(e.ids \subseteq d.ids) \/ e.note \notin {None, d.note}

Taken(d) == [gen |-> d.gen, rev |-> d.rev, val |-> d.val, state |-> d.state, by |-> d.by]

Fresh(e, by) ==
  [rev |-> 1, gen |-> 1 + Cardinality({w.gen : w \in was}), val |-> e.val,
   note |-> e.note, state |-> "active", ids |-> e.ids, count |-> 1, by |-> by]

\* The next revision of d: sourceEventIds are merged, absent fields kept, an
\* invalidated document becomes active again.
Superseding(d, e, by) ==
  [d EXCEPT !.rev = @ + 1, !.val = e.val, !.state = "active",
            !.ids = @ \cup e.ids, !.by = by,
            !.note = IF e.note = None THEN @ ELSE e.note]

\* Mutant: the patch's expected revision is not compared.
DecisionUnpinned(d, e, receipt, expected) ==
  IF d = NoDoc THEN IF expected = None THEN "create" ELSE "conflict"
  ELSE IF receipt # {} /\ receipt \subseteq d.ids THEN "unchanged"
  ELSE IF HasChanged(d, e) THEN "supersede"
  ELSE IF family = "structured" THEN "reinforce" ELSE "unchanged"

\* persistOnce's decision on the document it read.  An event whose receipt is
\* on the document changes nothing; an unchanged fact is reinforced in place.
Decision(d, e, receipt, expected) ==
  IF d = NoDoc THEN IF expected = None THEN "create" ELSE "conflict"
  ELSE IF receipt # {} /\ receipt \subseteq d.ids THEN "unchanged"
  ELSE IF expected # None /\ expected # d.rev THEN "conflict"
  ELSE IF HasChanged(d, e) THEN "supersede"
  ELSE IF family = "structured" THEN "reinforce" ELSE "unchanged"

\* The effect of a decision on a document that is still the one it was taken on.
Apply(decision, e, by) ==
  /\ doc' = CASE decision = "create" -> Fresh(e, by)
              [] decision = "supersede" -> Superseding(doc, e, by)
              [] decision = "reinforce" -> [doc EXCEPT !.count = @ + 1, !.by = by]
              [] OTHER -> doc
  /\ history' = IF decision = "supersede" THEN history \cup {Taken(doc)} ELSE history
  /\ was' = IF decision \in {"create", "supersede"} THEN was \cup {Taken(doc')} ELSE was

Invalidation(d, by) == [d EXCEPT !.rev = @ + 1, !.state = "invalidated", !.by = by]

Invalidate(by) ==
  /\ doc' = Invalidation(doc, by)
  /\ history' = history \cup {Taken(doc)}
  /\ was' = was \cup {Taken(doc')}

Untouched == UNCHANGED << doc, history, was >>

-----------------------------------------------------------------------------
(* Calls. *)

End(c) == call' = [call EXCEPT ![c] = [NoCall EXCEPT !.pc = "done", !.kind = call[c].kind]]

NeedsHandle == {"patch", "invalidate", "confirm"}

\* A caller arrives; a managed call captures the current admission, and a
\* by-handle call brings the revision it has last seen.
Start(c, k, p) ==
  /\ call[c].pc = "idle" /\ k \in Kinds
  /\ k \in NeedsHandle => doc # NoDoc
  /\ call' = [call EXCEPT ![c] = [NoCall EXCEPT !.pc = "begin", !.kind = k,
                !.val = {p}, !.tok = epoch,
                !.h = IF k \in NeedsHandle THEN doc.rev ELSE 0]]
  /\ UNCHANGED << family, managed, doc, history, rows, epoch, faults, was, reviewed >>

\* Mutant: the write does not ask the gate.
FencedNot(c) == call[c].tok >= 0

\* withFencedWrite: the transaction runs only under the epoch of its token.
Fenced(c) == call[c].tok = epoch

Refused(c) ==
  /\ managed /\ call[c].pc \notin {"idle", "done"} /\ ~Fenced(c)
  /\ End(c)
  /\ UNCHANGED << family, managed, doc, history, rows, epoch, faults, was, reviewed >>

\* classifyInjection on a structured write's text.
Flagged(val) == family = "structured" /\ val \cap Bad # {}

\* The flagged entry goes to memory_quarantine: a pending row with the same
\* content is reused, otherwise a new one is inserted.
Quarantine(c, val) ==
  LET same == {r \in DOMAIN rows : rows[r].status = "pending-review" /\ rows[r].cand = val} IN
  rows' = IF same # {} THEN rows
          ELSE [rows EXCEPT ![c] = [NoRow EXCEPT !.status = "pending-review",
                                      !.cand = val, !.by = call[c].tok]]

EntryOf(c) ==
  LET x == call[c] IN
  CASE x.kind = "event"  -> Entry(x.val, {c}, None)
    [] x.kind = "patch"  -> Entry(x.copy.val, x.copy.ids, c)
    [] x.kind = "append" -> Entry(x.val \cup (IF doc.state = "none" THEN {} ELSE doc.val), {}, None)
    [] OTHER -> Entry(x.val, {}, None)

\* writeStructuredMemory / writeProcedure in one fenced transaction.  A
\* self-edit reads what it appends to in the same transaction.
ManagedWrite(c) ==
  LET x == call[c]
      e == EntryOf(c)
      d == Decision(doc, e, IF x.kind = "event" THEN {c} ELSE {},
                    IF x.kind = "patch" THEN x.copy.rev ELSE None)
  IN /\ managed /\ Fenced(c)
     /\ \/ x.kind \in {"write", "event", "append"} /\ x.pc = "begin"
        \/ x.kind = "patch" /\ x.pc = "ready"
     /\ IF Flagged(e.val) THEN Quarantine(c, e.val) /\ Untouched
        ELSE Apply(d, e, x.tok) /\ UNCHANGED rows
     /\ End(c)
     /\ UNCHANGED << family, managed, epoch, faults, reviewed >>

\* Mutant: only the revision of the handle is compared.
IsFreshByRevision(c, rejectInvalidated) == call[c].h = doc.rev

\* enforceStructuredHandleFreshness / enforceProcedureHandleFreshness.
IsFresh(c, rejectInvalidated) ==
  /\ rejectInvalidated => doc.state # "invalidated"
  /\ call[c].h = doc.rev

\* update...ByHandle reads outside the transaction and builds the whole entry
\* from what it read; the revision it read becomes the write's precondition.
PatchReads(c) ==
  /\ managed /\ call[c].kind = "patch" /\ call[c].pc = "begin" /\ Fenced(c)
  /\ IF doc # NoDoc /\ IsFresh(c, TRUE)
       THEN call' = [call EXCEPT ![c].pc = "ready", ![c].copy = doc]
       ELSE End(c)
  /\ UNCHANGED << family, managed, doc, history, rows, epoch, faults, was, reviewed >>

\* invalidate...ByHandle: idempotent on an invalidated document.
ManagedInvalidate(c) ==
  /\ managed /\ call[c].kind = "invalidate" /\ call[c].pc = "begin" /\ Fenced(c)
  /\ IF doc # NoDoc /\ IsFresh(c, FALSE) /\ doc.state = "active"
       THEN Invalidate(call[c].tok) ELSE Untouched
  /\ End(c)
  /\ UNCHANGED << family, managed, rows, epoch, faults, reviewed >>

\* applyStructuredMemoryFeedbackByHandle, the confirming signal.
ManagedConfirm(c) ==
  /\ managed /\ call[c].kind = "confirm" /\ call[c].pc = "begin" /\ Fenced(c)
  /\ doc' = IF doc # NoDoc /\ IsFresh(c, TRUE)
            THEN [doc EXCEPT !.count = @ + 1, !.by = call[c].tok] ELSE doc
  /\ End(c)
  /\ UNCHANGED << family, managed, history, rows, epoch, faults, was, reviewed >>

\* reportProcedureOutcomeByHandle and recordProcedureOutcome: an increment
\* that asks neither the revision nor the state.
Outcome(c) ==
  /\ call[c].kind = "outcome" /\ call[c].pc = "begin" /\ (managed => Fenced(c))
  /\ doc' = IF doc = NoDoc THEN doc ELSE [doc EXCEPT !.count = @ + 1]
  /\ End(c)
  /\ UNCHANGED << family, managed, history, rows, epoch, faults, was, reviewed >>

\* prepareContradictionInvalidations pins the revision it shows the model ...
Prepare(c) ==
  /\ managed /\ call[c].kind = "contradict" /\ call[c].pc = "begin" /\ Fenced(c)
  /\ IF doc.state = "active" THEN call' = [call EXCEPT ![c].pc = "ready", ![c].copy = doc]
     ELSE End(c)
  /\ UNCHANGED << family, managed, doc, history, rows, epoch, faults, was, reviewed >>

\* ... and persistPreparedContradictionInvalidations acts on the verdict only
\* if the document still says what was judged.
Contradicted(c) ==
  LET judged == call[c].copy IN
  /\ managed /\ call[c].kind = "contradict" /\ call[c].pc = "ready" /\ Fenced(c)
  /\ IF doc.state = "active" /\ doc.rev = judged.rev /\ doc.val = judged.val
       THEN Invalidate(call[c].tok) ELSE Untouched
  /\ End(c)
  /\ UNCHANGED << family, managed, rows, epoch, faults, reviewed >>

-----------------------------------------------------------------------------
(* Bare calls: read, save the snapshot, compare and swap, retry. *)

\* The attempt reads the document (persistOnce, evolveProcedure, confirm).
\* An evolution replaces the steps and keeps the state.
BareRead(c) ==
  /\ ~managed /\ call[c].pc = "begin" /\ call[c].kind # "outcome"
  /\ LET absent == doc = NoDoc /\ call[c].kind # "write"
         stale  == call[c].kind \in NeedsHandle /\ ~IsFresh(c, call[c].kind = "confirm")
         settled == call[c].kind = "invalidate" /\ doc.state = "invalidated"
     IN IF absent \/ stale \/ settled THEN End(c)
        ELSE call' = [call EXCEPT ![c].pc = "read", ![c].copy = doc]
  /\ UNCHANGED << family, managed, doc, history, rows, epoch, faults, was, reviewed >>

BareDecision(c) ==
  LET x == call[c] IN
  CASE x.kind = "write" -> Decision(x.copy, EntryOf(c), {}, None)
    [] x.kind = "evolve" -> "evolve"
    [] x.kind = "invalidate" -> "invalidate"
    [] OTHER -> "reinforce"

\* insertRevisionSnapshot / ensureProcedureRevisionSnapshot: the row's id is
\* the document and revision it supersedes, so a repetition changes nothing.
BareSnapshot(c) ==
  /\ ~managed /\ call[c].pc = "read"
  /\ history' = IF /\ BareDecision(c) \in {"supersede", "evolve", "invalidate"}
                   /\ \A s \in history : s.gen # call[c].copy.gen \/ s.rev # call[c].copy.rev
                THEN history \cup {Taken(call[c].copy)} ELSE history
  /\ call' = [call EXCEPT ![c].pc = "swap"]
  /\ UNCHANGED << family, managed, doc, rows, epoch, faults, was, reviewed >>

\* Mutant: the replacing update finds the document by its identity only.
MatchesIdentity(c) == call[c].copy = NoDoc <=> doc = NoDoc

\* The filter of the replacing update: the revision that was read; a create
\* inserts only if there is nothing.
Matches(c) == call[c].copy.rev = doc.rev

BareSwap(c) ==
  LET d == BareDecision(c) IN
  /\ ~managed /\ call[c].pc = "swap"
  /\ Matches(c) \/ d = "unchanged"
  /\ doc' = CASE d = "create" -> Fresh(EntryOf(c), 0)
              [] d = "supersede" -> Superseding(doc, EntryOf(c), 0)
              [] d = "evolve" -> [doc EXCEPT !.rev = @ + 1, !.val = call[c].val]
              [] d = "invalidate" -> Invalidation(doc, 0)
              [] d = "reinforce" -> [doc EXCEPT !.count = @ + 1]
              [] OTHER -> doc
  /\ was' = IF d \in {"create", "supersede", "evolve", "invalidate"}
            THEN was \cup {Taken(doc')} ELSE was
  /\ End(c)
  /\ UNCHANGED << family, managed, history, rows, epoch, faults, reviewed >>

\* withRevisionCasRetry: a lost race starts again from a new read, at most
\* three times.
LoseRace(c) ==
  LET x == call[c] IN
  /\ ~managed /\ x.pc = "swap"
  /\ ~Matches(c) /\ BareDecision(c) # "unchanged"
  /\ call' = [call EXCEPT ![c] =
       IF x.try < MAX_REVISION_CAS_ATTEMPTS
         THEN [x EXCEPT !.pc = "begin", !.try = x.try + 1, !.copy = NoDoc]
         ELSE [NoCall EXCEPT !.pc = "raced", !.kind = x.kind]]
  /\ UNCHANGED << family, managed, doc, history, rows, epoch, faults, was, reviewed >>

-----------------------------------------------------------------------------
(* Quarantine review: promote claims the row under a lease, writes the       *)
(* memory, and finalises; reject decides at once.                            *)

Claimable(r) ==
  \/ rows[r].status = "pending-review"
  \/ rows[r].status = "promoting" /\ ~rows[r].lease

ClaimPromotion(c, r) ==
  /\ call[c].kind = "promote" /\ call[c].pc = "begin" /\ Fenced(c)
  /\ Claimable(r)
  /\ rows' = [rows EXCEPT ![r].status = "promoting", ![r].lease = TRUE,
                          ![r].by = call[c].tok]
  /\ call' = [call EXCEPT ![c].pc = "claimed", ![c].row = r, ![c].val = rows[r].cand]
  /\ reviewed' = reviewed \cup {rows[r].cand}
  /\ UNCHANGED << family, managed, doc, history, epoch, faults, was >>

\* Nothing to review, already reviewed, a live claim, or a row without a
\* memory shape or a scope: the call throws.
ReviewRefused(c) ==
  /\ call[c].kind \in {"promote", "reject"} /\ call[c].pc = "begin" /\ Fenced(c)
  /\ End(c)
  /\ UNCHANGED << family, managed, doc, history, rows, epoch, faults, was, reviewed >>

\* The overruled write: the classifier is skipped.
PromotedWrite(c) ==
  LET e == Entry(call[c].val, {}, None) IN
  /\ call[c].pc = "claimed" /\ Fenced(c)
  /\ Apply(Decision(doc, e, {}, None), e, call[c].tok)
  /\ rows' = [rows EXCEPT ![call[c].row].wrote = TRUE]
  /\ call' = [call EXCEPT ![c].pc = "finalize"]
  /\ UNCHANGED << family, managed, epoch, faults, reviewed >>

\* The write fails: the claim is reverted and the row is pending again.  The
\* revert asks for status "promoting" only, whoever claimed it.
PromotionReverts(c) ==
  LET r == call[c].row IN
  /\ call[c].pc = "claimed" /\ Fenced(c) /\ faults < MaxFault
  /\ rows' = IF rows[r].status = "promoting"
             THEN [rows EXCEPT ![r].status = "pending-review", ![r].lease = FALSE,
                               ![r].again = TRUE]
             ELSE rows
  /\ End(c)
  /\ faults' = faults + 1
  /\ UNCHANGED << family, managed, doc, history, epoch, was, reviewed >>

\* Mutant: the promotion is final whatever became of the row.
FinalizePromotionBlindly(c) ==
  /\ call[c].pc = "finalize" /\ Fenced(c)
  /\ rows' = [rows EXCEPT ![call[c].row].status = "promoted"]
  /\ End(c)
  /\ UNCHANGED << family, managed, doc, history, epoch, faults, was, reviewed >>

\* promoting -> promoted; a row that has moved on is reported, not changed.
FinalizePromotion(c) ==
  LET r == call[c].row IN
  /\ call[c].pc = "finalize" /\ Fenced(c)
  /\ rows' = IF rows[r].status = "promoting"
             THEN [rows EXCEPT ![r].status = "promoted"] ELSE rows
  /\ End(c)
  /\ UNCHANGED << family, managed, doc, history, epoch, faults, was, reviewed >>

\* rejectQuarantined; a rejection that takes over a lapsed claim says that
\* memory may remain.
Reject(c, r) ==
  /\ call[c].kind = "reject" /\ call[c].pc = "begin" /\ Fenced(c)
  /\ Claimable(r)
  /\ rows' = [rows EXCEPT ![r].status = "rejected", ![r].lease = FALSE,
                          ![r].may = rows[r].status = "promoting", ![r].by = call[c].tok]
  /\ End(c)
  /\ UNCHANGED << family, managed, doc, history, epoch, faults, was, reviewed >>

\* A promoter's process stops between two of its transactions.
Crash(c) ==
  /\ call[c].pc \in {"claimed", "finalize"} /\ faults < MaxFault
  /\ End(c)
  /\ faults' = faults + 1
  /\ UNCHANGED << family, managed, doc, history, rows, epoch, was, reviewed >>

\* PROMOTE_LEASE_MS pass.
LeaseLapses(r) ==
  /\ rows[r].status = "promoting" /\ rows[r].lease
  /\ rows' = [rows EXCEPT ![r].lease = FALSE]
  /\ UNCHANGED << family, managed, doc, history, call, epoch, faults, was, reviewed >>

\* The agent is erased: as one step, which is what ErasureGate implements.
Erase ==
  /\ managed /\ epoch < MaxEpoch
  /\ epoch' = epoch + 1
  /\ doc' = NoDoc /\ history' = {} /\ reviewed' = {}
  /\ rows' = [r \in DOMAIN rows |-> NoRow]
  /\ UNCHANGED << family, managed, call, faults, was >>

-----------------------------------------------------------------------------

Next ==
  \/ \E c \in Call :
       \/ \E k \in Kinds, p \in Piece : Start(c, k, p)
       \/ Refused(c)
       \/ ManagedWrite(c) \/ PatchReads(c) \/ ManagedInvalidate(c) \/ ManagedConfirm(c)
       \/ Outcome(c) \/ Prepare(c) \/ Contradicted(c)
       \/ BareRead(c) \/ BareSnapshot(c) \/ BareSwap(c) \/ LoseRace(c)
       \/ PromotedWrite(c) \/ PromotionReverts(c) \/ FinalizePromotion(c)
       \/ ReviewRefused(c) \/ Crash(c)
       \/ \E r \in DOMAIN rows : ClaimPromotion(c, r) \/ Reject(c, r)
  \/ \E r \in DOMAIN rows : LeaseLapses(r)
  \/ Erase

Spec == Init /\ [][Next]_vars

-----------------------------------------------------------------------------
(* Properties. *)

\* The history of the document is complete and true: every revision before
\* the current one has exactly one snapshot, and it says what that revision
\* said.  (Two writers that supersede the same revision must not both land,
\* and a retried snapshot must not double a row.)  A caller gives up on the
\* compare-and-swap only after three others have landed theirs.
RevisionsRecorded ==
  /\ \A k \in 1 .. doc.rev - 1 :
       LET rowsOf == {s \in history : s.gen = doc.gen /\ s.rev = k} IN
       /\ Cardinality(rowsOf) = 1
       /\ rowsOf \subseteq was
  /\ \A c \in Call : call[c].pc = "raced" =>
       Cardinality({o \in Call : call[o].pc = "done"}) >= MAX_REVISION_CAS_ATTEMPTS

\* Nothing of an erased epoch is written back: document, history and
\* quarantine rows are of the current epoch.
NoOldMemory ==
  managed => /\ doc # NoDoc => doc.by = epoch
             /\ \A s \in history : s.by = epoch
             /\ \A r \in DOMAIN rows : rows[r].status # "none" => rows[r].by = epoch

\* The document and its history tell one true story of the current epoch.
HistoryComplete == RevisionsRecorded /\ NoOldMemory

\* A patch is written over exactly the revision it was built from, so it never
\* takes back a value written meanwhile; a verdict of contradiction retires
\* only the value that was judged.
PatchesWhatItRead ==
  \A c \in Call :
    /\ call[c].kind = "patch" /\ call[c].pc = "ready" /\ call'[c].pc = "done"
         /\ doc' # doc /\ epoch' = epoch
       => doc'.val = doc.val /\ doc'.ids = doc.ids
    /\ call[c].kind = "contradict" /\ call[c].pc = "ready" /\ doc'.state # doc.state
         /\ call'[c].pc = "done"
       => doc.val = call[c].copy.val

\* An invalidated memory comes back only through a new write of its content,
\* never through a stale handle, and is not reinforced while it is down.
InvalidatedStaysDown ==
  doc.state = "invalidated" /\ doc'.gen = doc.gen /\ family = "structured" =>
    \A c \in Call : call[c].kind \in {"patch", "confirm", "contradict"}
                    /\ call'[c] # call[c] /\ call'[c].pc = "done"
                  => doc' = doc

\* No step undoes a write it did not see.
NoLostUpdate == [][PatchesWhatItRead /\ InvalidatedStaysDown]_vars

\* Flagged content is in the memory only after a reviewer claimed its
\* promotion; what is promoted was written; and a rejection that does not say
\* otherwise, of a row that was never put back in the queue, left no memory.
ReviewSound ==
  /\ family = "structured" /\ managed /\ doc.val \cap Bad # {} => doc.val \in reviewed
  /\ \A r \in DOMAIN rows :
       /\ rows[r].status = "promoted" => rows[r].wrote
       /\ rows[r].status = "rejected" /\ rows[r].wrote => rows[r].may \/ rows[r].again

\* The review of a quarantined write, with two reviewers, a promoter that
\* stops or fails half way and a lapsed claim: every step leaves it sound,
\* and a row that was decided stays as it was decided.
ReviewHolds ==
  [][/\ ReviewSound'
     /\ \A r \in DOMAIN rows :
          rows[r].status \in {"promoted", "rejected"} /\ epoch' = epoch
            => rows'[r].status = rows[r].status]_vars
=============================================================================
