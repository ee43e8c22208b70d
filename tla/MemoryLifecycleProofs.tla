----------------------- MODULE MemoryLifecycleProofs -----------------------
(***************************************************************************)
(* MemoryLifecycle for any callers, contents and bounds: the history of a  *)
(* revisioned memory, the writes that read before they write, and the      *)
(* review of quarantined writes.                                           *)
(*                                                                         *)
(* None of the three is inductive.  What a caller read is at most as new   *)
(* as the document, and equal to it when the revisions are (Current); this *)
(* holds of a managed call only while the fence would let it through.  The *)
(* history has one row per revision below the current one, and of the      *)
(* current one at most a bare caller's snapshot, which says what the       *)
(* document says (Story).  A caller that tries again has seen the revision *)
(* move, and every revision was landed by a call that is done (Races).     *)
(* A claimed row can be taken over, but then it says so (Claimed).         *)
(***************************************************************************)
EXTENDS MemoryLifecycle, FiniteSetTheorems, TLAPS

CallPc == {"idle", "begin", "ready", "read", "swap", "claimed", "finalize", "done", "raced"}
AnyKind == {"none", "write", "event", "patch", "invalidate", "confirm", "append",
            "contradict", "promote", "reject", "outcome", "evolve"}
Status == {"none", "pending-review", "promoting", "promoted", "rejected"}
Row == Call \cup {Seed}

Caller == [pc : CallPc, kind : AnyKind, val : SUBSET Piece, tok : 0..MaxEpoch, h : Nat,
           copy : Doc, row : Row \cup {None}, try : 1..MAX_REVISION_CAS_ATTEMPTS]
RowState == [status : Status, cand : SUBSET Piece, lease : BOOLEAN, may : BOOLEAN,
             wrote : BOOLEAN, again : BOOLEAN, by : 0..MaxEpoch]

Typed == /\ TypeOK
         /\ rows \in [Row -> RowState] /\ call \in [Call -> Caller]
         /\ ~ managed => epoch = 0

-----------------------------------------------------------------------------
(* The document and its history. *)

Present(d) == d.rev >= 1 /\ d.state # "none"

\* d was read from the document: it is no newer, and as new only if it says the same.
Current(d) ==
  /\ d.rev <= doc.rev
  /\ d.rev >= 1 => d.gen = doc.gen
  /\ d.rev = doc.rev => Taken(d) = Taken(doc) /\ d.ids = doc.ids

Story ==
  /\ doc = NoDoc \/ (Present(doc) /\ Taken(doc) \in was)
  /\ \A s \in history :
       /\ s \in was /\ s.gen = doc.gen /\ s.rev \in 1..doc.rev
       /\ s.rev = doc.rev => ~ managed /\ s = Taken(doc)
  /\ \A s, t \in history : s.rev = t.rev => s = t
  /\ \A k \in 1 .. doc.rev - 1 : \E s \in history : s.rev = k
  /\ IsFiniteSet({w.gen : w \in was})

-----------------------------------------------------------------------------
(* The calls. *)

Phase(c) ==
  LET x == call[c] IN
  /\ x.pc # "idle" => x.kind \in Kinds /\ x.tok <= epoch
  /\ x.pc = "ready" => managed /\ x.kind \in {"patch", "contradict"}
  /\ x.pc \in {"read", "swap"} => ~ managed /\ x.kind # "outcome"
  /\ x.pc = "raced" => ~ managed
  /\ x.pc \in {"claimed", "finalize"} => x.kind = "promote" /\ x.row \in Row

\* The bare write replaces the document and so needs a snapshot of what it replaces.
Supersedes(c) == BareDecision(c) \in {"supersede", "evolve", "invalidate"}

Copies(c) ==
  LET x == call[c] IN
  /\ x.pc = "ready" /\ Fenced(c) => Current(x.copy) /\ x.copy.state = "active"
  /\ x.pc \in {"read", "swap"} =>
       /\ Current(x.copy)
       /\ x.copy = NoDoc \/ Present(x.copy)
       /\ x.kind # "write" => x.copy # NoDoc
       /\ x.kind = "confirm" => x.copy.state = "active"
  /\ x.pc = "swap" /\ Supersedes(c) => \E s \in history : s.rev = x.copy.rev

Landed == {o \in Call : call[o].pc = "done"}

Tries(c) ==
  LET x == call[c] IN
  ~ managed =>
    /\ x.pc = "begin" => x.try - 1 <= doc.rev
    /\ x.pc \in {"read", "swap"} => x.try - 1 <= x.copy.rev
    /\ x.pc = "raced" => MAX_REVISION_CAS_ATTEMPTS <= doc.rev

Races == ~ managed => doc.rev <= Cardinality(Landed)

-----------------------------------------------------------------------------
(* The review. *)

RowSound(w) ==
  /\ w.status = "promoted" => w.wrote
  /\ w.status = "rejected" /\ w.wrote => w.may \/ w.again
  /\ w.status = "pending-review" /\ w.wrote => w.again

\* What a row that somebody claimed may have become since.
Claimed(w) ==
  \/ w.status \in {"promoting", "promoted"}
  \/ w.status = "pending-review" /\ w.again
  \/ w.status = "rejected" /\ (w.may \/ w.again)

Claim(c) ==
  LET x == call[c] IN
  x.pc \in {"claimed", "finalize"} /\ Fenced(c) =>
    /\ Claimed(rows[x.row])
    /\ x.pc = "claimed" => x.val \in reviewed
    /\ x.pc = "finalize" => rows[x.row].wrote

FlaggedReviewed ==
  family = "structured" /\ managed /\ doc.val \cap Bad # {} => doc.val \in reviewed

Review ==
  /\ \A r \in Row : RowSound(rows[r])
  /\ \A c \in Call : rows[c].status # "none" => call[c].pc = "done"
  /\ FlaggedReviewed

CallsInv == \A c \in Call : Phase(c) /\ Copies(c) /\ Tries(c) /\ Claim(c)

IInv == Typed /\ Story /\ NoOldMemory /\ CallsInv /\ Races /\ Review
-----------------------------------------------------------------------------
(***************************************************************************)
(* Records.                                                                *)
(***************************************************************************)
\* The bounds and the empty records.
LEMMA Bounds ==
  /\ MaxEpoch \in Nat /\ MaxFault \in Nat /\ 0 \in 0..MaxEpoch
  /\ NoDoc \in Doc /\ NoRow \in RowState /\ NoCall \in Caller
  /\ NoDoc.rev = 0 /\ NoDoc.state = "none" /\ NoRow.status = "none" /\ ~ NoRow.wrote
  /\ None \notin Nat /\ None \notin Call
<1>1. MaxEpoch \in Nat /\ MaxFault \in Nat /\ 0 \in 0..MaxEpoch
  BY LifecycleAssumption
<1>2. NoDoc \in Doc
  BY <1>1 DEF NoDoc, Doc
<1>3. NoRow \in RowState
  BY <1>1 DEF NoRow, RowState, Status
<1>4. NoCall \in Caller
  <2> DEFINE z == NoDoc
  <2>1. z \in Doc
    BY <1>2
  <2>2. NoCall = [pc |-> "idle", kind |-> "none", val |-> {}, tok |-> 0, h |-> 0,
                  copy |-> z, row |-> None, try |-> 1]
    BY DEF NoCall
  <2> HIDE DEF z
  <2>3. QED BY <1>1, <2>1, <2>2 DEF Caller, CallPc, AnyKind, MAX_REVISION_CAS_ATTEMPTS
<1>5. QED BY <1>1, <1>2, <1>3, <1>4, LifecycleAssumption DEF NoDoc, NoRow

\* The kinds of a run are kinds.
LEMMA KindsKnown ==
  ASSUME Typed
  PROVE  /\ Kinds \subseteq AnyKind \ {"none"}
         /\ ~ managed => Kinds \subseteq {"write", "invalidate", "confirm", "evolve", "outcome"}
         /\ "promote" \in Kinds => managed /\ family = "structured"
         /\ managed => "evolve" \notin Kinds
<1>0. managed \in BOOLEAN /\ family \in {"structured", "procedure"}
  BY DEF Typed, TypeOK
<1>1. CASE managed /\ family = "structured"
  <2>1. Kinds = {"write", "event", "patch", "invalidate", "confirm", "append",
                 "contradict", "promote", "reject"}
    BY <1>1 DEF Kinds
  <2>2. QED BY <1>1, <2>1 DEF AnyKind
<1>2. CASE managed /\ family = "procedure"
  <2>1. Kinds = {"write", "event", "patch", "invalidate", "outcome"}
    BY <1>2 DEF Kinds
  <2>2. QED BY <1>2, <2>1 DEF AnyKind
<1>3. CASE ~ managed /\ family = "structured"
  <2>1. Kinds = {"write", "invalidate", "confirm"}
    BY <1>3 DEF Kinds
  <2>2. QED BY <1>3, <2>1 DEF AnyKind
<1>4. CASE ~ managed /\ family = "procedure"
  <2>1. Kinds = {"write", "invalidate", "evolve", "outcome"}
    BY <1>4 DEF Kinds
  <2>2. QED BY <1>4, <2>1 DEF AnyKind
<1>5. QED BY <1>0, <1>1, <1>2, <1>3, <1>4

\* The fields of the document, of a call and of a row.
LEMMA Fields ==
  ASSUME Typed
  PROVE  /\ doc \in Doc /\ doc.rev \in Nat /\ doc.gen \in Nat /\ doc.val \in SUBSET Piece
         /\ doc.ids \in SUBSET Call /\ doc.by \in 0..MaxEpoch /\ doc.count \in Nat
         /\ doc.note \in Call \cup {None} /\ doc.state \in {"none", "active", "invalidated"}
         /\ \A c \in Call : call[c] \in Caller
         /\ \A r \in Row : rows[r] \in RowState
         /\ epoch \in 0..MaxEpoch
<1>1. doc \in Doc /\ epoch \in 0..MaxEpoch
  BY DEF Typed, TypeOK
<1>2. \A c \in Call : call[c] \in Caller
  BY DEF Typed
<1>3. \A r \in Row : rows[r] \in RowState
  BY DEF Typed
<1>4. QED BY <1>1, <1>2, <1>3 DEF Doc

\* The fields of a caller.
LEMMA CallerFields ==
  ASSUME NEW x \in Caller
  PROVE  /\ x.pc \in CallPc /\ x.kind \in AnyKind /\ x.val \in SUBSET Piece
         /\ x.tok \in 0..MaxEpoch /\ x.tok \in Nat /\ x.h \in Nat /\ x.copy \in Doc
         /\ x.row \in Row \cup {None} /\ x.try \in 1..3
         /\ x.copy.rev \in Nat /\ x.copy.gen \in Nat /\ x.copy.val \in SUBSET Piece
         /\ x.copy.ids \in SUBSET Call
         /\ x.copy.state \in {"none", "active", "invalidated"}
<1>1. /\ x.pc \in CallPc /\ x.kind \in AnyKind /\ x.val \in SUBSET Piece
      /\ x.tok \in 0..MaxEpoch /\ x.h \in Nat /\ x.copy \in Doc
      /\ x.row \in Row \cup {None} /\ x.try \in 1..3
  BY DEF Caller, MAX_REVISION_CAS_ATTEMPTS
<1>2. QED BY <1>1, Bounds DEF Doc

\* What is taken of a document is a snapshot if there is a document.
LEMMA TakenType ==
  ASSUME NEW d \in Doc, d.state # "none"
  PROVE  /\ Taken(d) \in Snapshot
         /\ Taken(d).rev = d.rev /\ Taken(d).gen = d.gen /\ Taken(d).by = d.by
<1>1. d.gen \in Nat /\ d.rev \in Nat /\ d.val \in SUBSET Piece /\ d.by \in 0..MaxEpoch
      /\ d.state \in {"active", "invalidated"}
  BY DEF Doc
<1>2. QED BY <1>1 DEF Taken, Snapshot

\* Two documents of which the same is taken agree.
LEMMA TakenEqual ==
  ASSUME NEW d, NEW e, Taken(d) = Taken(e)
  PROVE  d.gen = e.gen /\ d.rev = e.rev /\ d.val = e.val /\ d.state = e.state /\ d.by = e.by
<1> DEFINE s == Taken(d)
<1>1. s.gen = d.gen /\ s.rev = d.rev /\ s.val = d.val /\ s.state = d.state /\ s.by = d.by
  BY DEF Taken
<1>2. s.gen = e.gen /\ s.rev = e.rev /\ s.val = e.val /\ s.state = e.state /\ s.by = e.by
  BY DEF Taken
<1>3. QED BY <1>1, <1>2

\* A caller whose call has ended.
LEMMA EndedCaller ==
  ASSUME Typed, NEW c \in Call, End(c)
  PROVE  \E v \in Caller : /\ call' = [call EXCEPT ![c] = v]
                           /\ v.pc = "done" /\ v.kind = call[c].kind /\ v.tok = 0
<1> DEFINE v == [NoCall EXCEPT !.pc = "done", !.kind = call[c].kind]
<1>1. call[c].kind \in AnyKind
  BY Fields, CallerFields
<1>2. v \in Caller
  BY <1>1, Bounds DEF Caller, CallPc, AnyKind
<1>3. v.pc = "done" /\ v.kind = call[c].kind /\ v.tok = 0
  BY DEF NoCall
<1>4. call' = [call EXCEPT ![c] = v]
  BY DEF End
<1> HIDE DEF v
<1>5. QED BY <1>2, <1>3, <1>4
-----------------------------------------------------------------------------
(***************************************************************************)
(* What a step may do to the document and its history.                     *)
(***************************************************************************)
\* The revision stays: only the count and what is left out of snapshots may change.
Stays ==
  /\ doc' \in Doc /\ Taken(doc)' = Taken(doc) /\ doc'.ids = doc.ids
  /\ doc = NoDoc => doc' = NoDoc
  /\ UNCHANGED <<history, was>>

\* The first revision of a document.
Creates ==
  /\ doc = NoDoc /\ doc' \in Doc /\ doc'.rev = 1 /\ doc'.state = "active"
  /\ history' = history /\ was' = was \cup {Taken(doc)'}

\* The next revision, with a snapshot of the current one.
Moves ==
  /\ Present(doc) /\ doc' \in Doc /\ doc'.state # "none"
  /\ doc'.rev = doc.rev + 1 /\ doc'.gen = doc.gen
  /\ history' = history \cup {Taken(doc)} /\ was' = was \cup {Taken(doc)'}

\* A bare caller's snapshot of the current revision.
Snaps ==
  /\ ~ managed /\ Present(doc) /\ history' = history \cup {Taken(doc)}
  /\ UNCHANGED <<doc, was>>

DocStep == Stays \/ Creates \/ Moves \/ Snaps

\* Adding a snapshot to what was said leaves finitely many generations.
LEMMA FinitelyManyGenerations ==
  ASSUME IsFiniteSet({w.gen : w \in was}), NEW t
  PROVE  IsFiniteSet({w.gen : w \in was \cup {t}})
<1>1. {w.gen : w \in was \cup {t}} = {w.gen : w \in was} \cup {t.gen}
  OBVIOUS
<1>2. QED BY <1>1, FS_AddElement

\* Every such step keeps the story complete and true.
LEMMA StoryKept ==
  ASSUME Typed, Story, DocStep, UNCHANGED managed
  PROVE  /\ Story' /\ doc' \in Doc /\ history' \subseteq Snapshot /\ was' \subseteq Snapshot
         /\ doc'.rev \in {doc.rev, doc.rev + 1}
         /\ history \subseteq history'
<1>0. /\ doc \in Doc /\ doc.rev \in Nat /\ history \subseteq Snapshot /\ was \subseteq Snapshot
      /\ \A s \in history : s.rev \in Nat
  BY Fields DEF Typed, TypeOK, Snapshot
<1>1. ASSUME Stays
      PROVE  /\ Story' /\ doc' \in Doc /\ history' \subseteq Snapshot /\ was' \subseteq Snapshot
             /\ doc'.rev = doc.rev
  <2>1. doc'.rev = doc.rev /\ doc'.gen = doc.gen /\ doc'.state = doc.state
    <3> DEFINE e == doc'
    <3>1. Taken(doc) = Taken(e)
      BY <1>1 DEF Stays, Taken
    <3>2. QED BY <3>1, TakenEqual
  <2>2. doc' = NoDoc \/ (Present(doc)' /\ Taken(doc)' \in was')
    BY <1>1, <2>1 DEF Stays, Story, Present
  <2>3. \A s \in history' :
          /\ s \in was' /\ s.gen = doc'.gen /\ s.rev \in 1..doc'.rev
          /\ s.rev = doc'.rev => ~ managed' /\ s = Taken(doc)'
    BY <1>1, <2>1 DEF Stays, Story
  <2>4. /\ \A s, t \in history' : s.rev = t.rev => s = t
        /\ \A k \in 1 .. doc'.rev - 1 : \E s \in history' : s.rev = k
        /\ IsFiniteSet({w.gen : w \in was'})
    BY <1>1, <2>1 DEF Stays, Story
  <2>5. QED BY <1>0, <1>1, <2>1, <2>2, <2>3, <2>4 DEF Stays, Story
<1>2. ASSUME Creates
      PROVE  /\ Story' /\ doc' \in Doc /\ history' \subseteq Snapshot /\ was' \subseteq Snapshot
             /\ doc'.rev = doc.rev + 1
  <2>1. doc.rev = 0 /\ history = {} /\ history' = {}
    <3>1. doc.rev = 0
      BY <1>2, Bounds DEF Creates
    <3>2. \A s \in history : s.rev \in 1..0
      BY <3>1 DEF Story
    <3>3. QED BY <1>2, <3>1, <3>2 DEF Creates
  <2>2. Taken(doc)' \in Snapshot /\ Present(doc)' /\ Taken(doc)' \in was'
    BY <1>2, TakenType DEF Creates, Present, Taken, Snapshot, Doc
  <2>3. IsFiniteSet({w.gen : w \in was'})
    BY <1>2, FinitelyManyGenerations DEF Creates, Story
  <2>4. \A k \in 1 .. doc'.rev - 1 : FALSE
    BY <1>2 DEF Creates
  <2>5. QED BY <1>0, <1>2, <2>1, <2>2, <2>3, <2>4 DEF Creates, Story
<1>3. ASSUME Moves
      PROVE  /\ Story' /\ doc' \in Doc /\ history' \subseteq Snapshot /\ was' \subseteq Snapshot
             /\ doc'.rev = doc.rev + 1 /\ history \subseteq history'
  <2>1. /\ Taken(doc) \in Snapshot /\ Taken(doc).rev = doc.rev /\ Taken(doc).gen = doc.gen
        /\ doc.rev >= 1 /\ Taken(doc) \in was
    <3>1. doc.state # "none" /\ doc.rev >= 1 /\ doc # NoDoc
      BY <1>3, Bounds DEF Moves, Present
    <3>2. QED BY <1>0, <3>1, TakenType DEF Story
  <2>2. Taken(doc)' \in Snapshot /\ Present(doc)' /\ Taken(doc)' \in was'
    BY <1>0, <1>3, <2>1 DEF Moves, Present, Taken, Snapshot, Doc
  <2>3. IsFiniteSet({w.gen : w \in was'})
    BY <1>3, FinitelyManyGenerations DEF Moves, Story
  <2>4. \A s \in history' : s \in was' /\ s.gen = doc'.gen /\ s.rev \in 1..doc.rev
    BY <1>0, <1>3, <2>1 DEF Moves, Story
  <2>5. \A s \in history' : s.rev \in 1..doc'.rev /\ s.rev # doc'.rev
    BY <1>0, <1>3, <2>4 DEF Moves
  <2>6. \A s, t \in history' : s.rev = t.rev => s = t
    BY <1>3, <2>1 DEF Moves, Story
  <2>7. \A k \in 1 .. doc'.rev - 1 : \E s \in history' : s.rev = k
    <3>1. TAKE k \in 1 .. doc'.rev - 1
    <3>2. k \in 1..doc.rev - 1 \/ k = doc.rev
      BY <1>0, <1>3 DEF Moves
    <3>3. QED BY <1>3, <2>1, <3>2 DEF Moves, Story
  <2>8. history' \subseteq Snapshot /\ was' \subseteq Snapshot
    BY <1>0, <1>3, <2>1, <2>2 DEF Moves
  <2>9. QED BY <1>3, <2>2, <2>3, <2>4, <2>5, <2>6, <2>7, <2>8 DEF Moves, Story
<1>4. ASSUME Snaps
      PROVE  /\ Story' /\ doc' \in Doc /\ history' \subseteq Snapshot /\ was' \subseteq Snapshot
             /\ doc'.rev = doc.rev /\ history \subseteq history'
  <2>1. /\ Taken(doc) \in Snapshot /\ Taken(doc).rev = doc.rev /\ Taken(doc).gen = doc.gen
        /\ doc.rev >= 1 /\ Taken(doc) \in was
    <3>1. doc.state # "none" /\ doc.rev >= 1 /\ doc # NoDoc
      BY <1>4, Bounds DEF Snaps, Present
    <3>2. QED BY <1>0, <3>1, TakenType DEF Story
  <2>2. doc' = doc /\ was' = was /\ Taken(doc)' = Taken(doc) /\ Present(doc)'
    BY <1>4 DEF Snaps, Taken, Present
  <2>3. \A s \in history' :
          /\ s \in was' /\ s.gen = doc'.gen /\ s.rev \in 1..doc'.rev
          /\ s.rev = doc'.rev => ~ managed' /\ s = Taken(doc)'
    BY <1>0, <1>4, <2>1, <2>2 DEF Snaps, Story
  <2>4. \A s, t \in history' : s.rev = t.rev => s = t
    BY <1>4, <2>1 DEF Snaps, Story
  <2>5. \A k \in 1 .. doc'.rev - 1 : \E s \in history' : s.rev = k
    BY <1>4, <2>2 DEF Snaps, Story
  <2>6. QED BY <1>0, <1>4, <2>1, <2>2, <2>3, <2>4, <2>5 DEF Snaps, Story
<1>5. QED BY <1>1, <1>2, <1>3, <1>4 DEF DocStep, Stays, Creates

\* What was read stays no newer than the document, and equal when as new.
LEMMA CurrentKept ==
  ASSUME Typed, Story, DocStep, NEW d \in Doc, Current(d)
  PROVE  /\ d.rev <= doc'.rev
         /\ d.rev >= 1 => d.gen = doc'.gen
         /\ d.rev = doc'.rev => Taken(d) = Taken(doc)' /\ d.ids = doc'.ids
<1>0. doc \in Doc /\ doc.rev \in Nat /\ d.rev \in Nat
  BY Fields DEF Doc
<1>1. CASE Stays
  <2> DEFINE e == doc'
  <2>1. Taken(doc) = Taken(e)
    BY <1>1 DEF Stays, Taken
  <2>2. doc.rev = e.rev /\ doc.gen = e.gen
    BY <2>1, TakenEqual
  <2>3. QED BY <1>1, <2>1, <2>2 DEF Current, Stays
<1>2. CASE Creates
  BY <1>0, <1>2, Bounds DEF Creates, Current
<1>3. CASE Moves
  BY <1>0, <1>3 DEF Moves, Current
<1>4. CASE Snaps
  BY <1>4 DEF Snaps, Current, Taken
<1>5. QED BY <1>1, <1>2, <1>3, <1>4 DEF DocStep
-----------------------------------------------------------------------------
(***************************************************************************)
(* What a step may do to the calls and the rows.                           *)
(***************************************************************************)
\* A bare decision is about the caller's own copy and content.
LEMMA SameDecision ==
  ASSUME NEW c \in Call, family' = family, call'[c].kind = call[c].kind,
         call'[c].val = call[c].val, call'[c].copy = call[c].copy,
         call[c].kind \in {"write", "invalidate", "confirm", "evolve", "outcome"}
  PROVE  BareDecision(c)' = BareDecision(c)
<1> DEFINE e == Entry(call[c].val, {}, None)
           D == Decision(call[c].copy, e, {}, None)
<1>1. CASE call[c].kind = "write"
  <2>1. EntryOf(c) = e
    BY <1>1 DEF EntryOf
  <2>2. EntryOf(c)' = e
    BY <1>1 DEF EntryOf, Entry
  <2>3. BareDecision(c) = D
    BY <1>1, <2>1 DEF BareDecision
  <2>4. D' = D
    BY DEF Decision, HasChanged, Entry
  <2>5. BareDecision(c)' = D'
    BY <1>1, <2>2 DEF BareDecision, Entry
  <2>6. QED BY <2>3, <2>4, <2>5
<1>2. CASE call[c].kind # "write"
  BY <1>2 DEF BareDecision
<1>3. QED BY <1>1, <1>2

\* What a step of caller c, or of time, may do to the quarantine rows: claimed rows stay
\* accounted for, nothing of another epoch is written, and only c may get a row.
RowsStep(c) ==
  /\ rows' \in [Row -> RowState]
  /\ \A r \in Row :
       /\ RowSound(rows[r])'
       /\ Claimed(rows[r]) => Claimed(rows[r])'
       /\ Claimed(rows[r]) /\ rows[r].wrote => rows'[r].wrote
       /\ managed /\ rows'[r].status # "none" => rows'[r].by = epoch
       /\ rows'[r].status # "none" => rows[r].status # "none" \/ r = c

\* Leaving the rows alone is such a step.
LEMMA RowsStay ==
  ASSUME IInv, NEW c, UNCHANGED rows
  PROVE  RowsStep(c)
  BY DEF RowsStep, IInv, Typed, TypeOK, Review, RowSound, Claimed, NoOldMemory

\* The other callers are where they were.
LEMMA OtherCalls ==
  ASSUME IInv, NEW c, DocStep, RowsStep(c),
         UNCHANGED <<family, managed, epoch>>, reviewed \subseteq reviewed',
         NEW d \in Call, call'[d] = call[d]
  PROVE  (Phase(d) /\ Copies(d) /\ Tries(d) /\ Claim(d))'
<1> USE DEF IInv
<1>0. /\ Typed /\ Story /\ call[d] \in Caller /\ epoch \in Nat /\ doc.rev \in Nat
      /\ Phase(d) /\ Copies(d) /\ Tries(d) /\ Claim(d)
  BY Fields, LifecycleAssumption DEF CallsInv
<1>1. /\ call[d].copy \in Doc /\ call[d].try \in 1..3 /\ call[d].copy.rev \in Nat
  BY <1>0, CallerFields
<1>2. doc'.rev \in Nat /\ doc'.rev >= doc.rev /\ history \subseteq history'
  BY <1>0, StoryKept
<1>3. Phase(d)'
  BY <1>0 DEF Phase, Kinds
<1>4. Current(call[d].copy) => Current(call[d].copy)'
  <2>1. SUFFICES ASSUME Current(call[d].copy) PROVE Current(call[d].copy)'
    OBVIOUS
  <2> DEFINE q == call[d].copy
  <2>2. q \in Doc /\ Current(q) /\ call'[d].copy = q /\ Taken(call[d].copy)' = Taken(q)
    BY <1>1, <2>1 DEF Taken
  <2>3. /\ q.rev <= doc'.rev
        /\ q.rev >= 1 => q.gen = doc'.gen
        /\ q.rev = doc'.rev => Taken(q) = Taken(doc)' /\ q.ids = doc'.ids
    BY <1>0, <2>2, CurrentKept
  <2>4. QED BY <2>2, <2>3 DEF Current
<1>5. call[d].pc = "swap" => (Supersedes(d)' <=> Supersedes(d))
  <2>1. SUFFICES ASSUME call[d].pc = "swap" PROVE BareDecision(d)' = BareDecision(d)
    BY DEF Supersedes
  <2>2. call[d].kind \in {"write", "invalidate", "confirm", "evolve", "outcome"}
    BY <1>0, <2>1, KindsKnown DEF Phase
  <2>3. QED BY <2>2, SameDecision
<1>6. Copies(d)'
  <2>1. Fenced(d)' <=> Fenced(d)
    BY DEF Fenced
  <2>2. Present(call[d].copy)' <=> Present(call[d].copy)
    BY DEF Present
  <2>3. QED BY <1>0, <1>2, <1>4, <1>5, <2>1, <2>2 DEF Copies
<1>7. Tries(d)'
  BY <1>0, <1>1, <1>2 DEF Tries, MAX_REVISION_CAS_ATTEMPTS
<1>8. Claim(d)'
  <2>1. SUFFICES ASSUME call[d].pc \in {"claimed", "finalize"}, Fenced(d)
                 PROVE  /\ Claimed(rows[call[d].row])'
                        /\ call[d].pc = "claimed" => call[d].val \in reviewed'
                        /\ call[d].pc = "finalize" => rows'[call[d].row].wrote
    BY DEF Claim, Fenced
  <2>2. call[d].row \in Row /\ Claimed(rows[call[d].row])
        /\ (call[d].pc = "claimed" => call[d].val \in reviewed)
        /\ (call[d].pc = "finalize" => rows[call[d].row].wrote)
    BY <1>0, <2>1 DEF Claim, Phase
  <2> DEFINE r == call[d].row
  <2>3. Claimed(rows[r])' /\ (rows[r].wrote => rows'[r].wrote)
    <3>1. r \in Row /\ Claimed(rows[r])
      BY <2>2
    <3>2. r' = r
      OBVIOUS
    <3> HIDE DEF r
    <3>3. \A q \in Row : Claimed(rows[q]) => Claimed(rows'[q])
      BY DEF RowsStep, Claimed
    <3>4. rows[r].wrote => rows'[r].wrote
      BY <3>1 DEF RowsStep
    <3>5. QED BY <3>1, <3>2, <3>3, <3>4 DEF Claimed
  <2>4. QED BY <2>2, <2>3
<1>9. QED BY <1>3, <1>6, <1>7, <1>8

\* The calls that are done, after a step of one call.
LEMMA LandedChange ==
  ASSUME Typed, NEW c \in Call, NEW v \in Caller, call' = [call EXCEPT ![c] = v],
         call[c].pc # "done"
  PROVE  /\ Cardinality(Landed) \in Nat
         /\ v.pc # "done" => Cardinality(Landed)' = Cardinality(Landed)
         /\ v.pc = "done" => Cardinality(Landed)' = Cardinality(Landed) + 1
<1>1. call'[c] = v /\ \A d \in Call : d # c => call'[d] = call[d]
  BY DEF Typed
<1>2. IsFiniteSet(Landed) /\ Cardinality(Landed) \in Nat
  BY LifecycleAssumption, FS_Subset, FS_CardinalityType DEF Landed
<1>3. v.pc # "done" => Landed' = Landed
  BY <1>1 DEF Landed
<1>4. v.pc = "done" => Landed' = Landed \cup {c}
  BY <1>1 DEF Landed
<1>5. c \notin Landed
  BY DEF Landed
<1>6. QED BY <1>2, <1>3, <1>4, <1>5, FS_AddElement

\* A step of caller c: what has to be shown of it.
LEMMA CallStep ==
  ASSUME IInv, NEW c \in Call, NEW v \in Caller, call' = [call EXCEPT ![c] = v],
         call[c].pc # "done", DocStep, RowsStep(c), UNCHANGED <<family, managed, epoch>>,
         reviewed \subseteq reviewed', reviewed' \subseteq SUBSET Piece, faults' \in 0..MaxFault,
         (Phase(c) /\ Copies(c) /\ Tries(c) /\ Claim(c))',
         v.pc = "done" \/ managed \/ doc'.rev = doc.rev,
         v.pc = "done" \/ rows'[c].status = rows[c].status,
         managed /\ doc' # NoDoc => doc'.by = epoch, FlaggedReviewed',
         managed => \A s \in history' : s.by = epoch
  PROVE  IInv'
<1> USE DEF IInv
<1>0. Typed /\ Story /\ doc.rev \in Nat
  BY Fields
<1>1. /\ Story' /\ doc' \in Doc /\ history' \subseteq Snapshot /\ was' \subseteq Snapshot
      /\ doc'.rev \in {doc.rev, doc.rev + 1}
  BY <1>0, StoryKept
<1>2. call'[c] = v /\ (\A d \in Call : d # c => call'[d] = call[d]) /\ call' \in [Call -> Caller]
  BY <1>0 DEF Typed
<1>3. CallsInv'
  <2>1. ASSUME NEW d \in Call PROVE (Phase(d) /\ Copies(d) /\ Tries(d) /\ Claim(d))'
    <3>1. CASE d = c
      BY <3>1
    <3>2. CASE d # c
      BY <1>2, <3>2, OtherCalls
    <3>3. QED BY <3>1, <3>2
  <2>2. QED BY <2>1 DEF CallsInv
<1>4. Typed'
  <2>1. \A r \in Row : rows'[r].status \in Status
    BY DEF RowsStep, RowState
  <2>2. \A d \in Call : call'[d].copy \in Doc /\ call'[d].try \in 1..MAX_REVISION_CAS_ATTEMPTS
    BY <1>2, CallerFields DEF MAX_REVISION_CAS_ATTEMPTS
  <2>3. QED BY <1>0, <1>1, <1>2, <2>1, <2>2 DEF Typed, TypeOK, RowsStep, Row, Status
<1>5. Races'
  <2>1. /\ Cardinality(Landed) \in Nat
        /\ v.pc # "done" => Cardinality(Landed)' = Cardinality(Landed)
        /\ v.pc = "done" => Cardinality(Landed)' = Cardinality(Landed) + 1
    BY <1>0, LandedChange
  <2>2. SUFFICES ASSUME ~ managed PROVE doc'.rev <= Cardinality(Landed)'
    BY DEF Races
  <2>3. doc.rev <= Cardinality(Landed)
    BY <2>2 DEF Races
  <2>4. CASE v.pc = "done"
    BY <1>0, <1>1, <2>1, <2>3, <2>4
  <2>5. CASE v.pc # "done"
    BY <1>0, <1>1, <2>1, <2>2, <2>3, <2>5
  <2>6. QED BY <2>4, <2>5
<1>6. NoOldMemory'
  BY <1>0 DEF NoOldMemory, RowsStep, Typed, TypeOK, Row
<1>7. Review'
  <2>1. \A d \in Call : rows'[d].status # "none" => call'[d].pc = "done"
    <3>1. TAKE d \in Call
    <3>2. rows[d].status # "none" => call[d].pc = "done"
      BY DEF Review
    <3>3. CASE d # c
      BY <1>2, <3>2, <3>3 DEF RowsStep, Row
    <3>4. CASE d = c
      BY <1>2, <3>2, <3>4 DEF Row
    <3>5. QED BY <3>3, <3>4
  <2>2. QED BY <2>1 DEF Review, RowsStep
<1>8. QED BY <1>1, <1>3, <1>4, <1>5, <1>6, <1>7

\* A caller that returns.
LEMMA Ended ==
  ASSUME IInv, NEW c \in Call, call[c].pc \notin {"idle", "done"}, End(c),
         DocStep, RowsStep(c), UNCHANGED <<family, managed, epoch, reviewed>>,
         faults' \in 0..MaxFault, managed /\ doc' # NoDoc => doc'.by = epoch, FlaggedReviewed'
  PROVE  IInv'
<1> USE DEF IInv
<1>0. Typed /\ Story /\ Phase(c) /\ epoch \in Nat
  BY Fields, LifecycleAssumption DEF CallsInv
<1>1. PICK v \in Caller : /\ call' = [call EXCEPT ![c] = v]
                          /\ v.pc = "done" /\ v.kind = call[c].kind /\ v.tok = 0
  BY <1>0, EndedCaller
<1>2. call'[c] = v
  BY <1>0, <1>1 DEF Typed
<1>3. (Phase(c) /\ Copies(c) /\ Tries(c) /\ Claim(c))'
  BY <1>0, <1>1, <1>2 DEF Phase, Copies, Tries, Claim, Kinds
<1>4. reviewed' \subseteq SUBSET Piece
  BY <1>0 DEF Typed, TypeOK
<1>5. managed => \A s \in history' : s.by = epoch
  <2>1. SUFFICES ASSUME managed, NEW s \in history' PROVE s.by = epoch
    OBVIOUS
  <2>2. s \in history \/ (Present(doc) /\ s = Taken(doc))
    BY <2>1 DEF DocStep, Stays, Creates, Moves, Snaps
  <2>3. Present(doc) => Taken(doc).by = epoch
    <3>1. Present(doc) => doc # NoDoc
      BY Bounds DEF Present
    <3>2. QED BY <2>1, <3>1 DEF NoOldMemory, Taken
  <2>4. QED BY <2>1, <2>2, <2>3 DEF NoOldMemory
<1>6. QED BY <1>1, <1>3, <1>4, <1>5, CallStep

\* A caller that goes on, with document and history as they are.
LEMMA GoesOn ==
  ASSUME IInv, NEW c \in Call, NEW v \in Caller, call' = [call EXCEPT ![c] = v],
         call[c].pc # "done", v.pc # "done", UNCHANGED <<doc, history, was>>,
         RowsStep(c), rows'[c].status = rows[c].status, UNCHANGED <<family, managed, epoch>>,
         reviewed \subseteq reviewed', reviewed' \subseteq SUBSET Piece, faults' \in 0..MaxFault,
         (Phase(c) /\ Copies(c) /\ Tries(c) /\ Claim(c))'
  PROVE  IInv'
<1> USE DEF IInv
<1>1. Typed /\ NoOldMemory /\ FlaggedReviewed
  BY DEF Review
<1>2. DocStep
  BY <1>1, Fields DEF DocStep, Stays, Taken
<1>3. managed /\ doc' # NoDoc => doc'.by = epoch
  BY <1>1 DEF NoOldMemory
<1>4. managed => \A s \in history' : s.by = epoch
  BY <1>1 DEF NoOldMemory
<1>5. FlaggedReviewed'
  BY <1>1 DEF FlaggedReviewed
<1>6. doc'.rev = doc.rev
  OBVIOUS
<1>7. QED BY <1>2, <1>3, <1>4, <1>5, <1>6, CallStep
-----------------------------------------------------------------------------
(***************************************************************************)
(* The next document.                                                      *)
(***************************************************************************)
EntryType == [val : SUBSET Piece, ids : SUBSET Call, note : Call \cup {None}]

\* A document made from an entry.
LEMMA FreshDoc ==
  ASSUME Story, NEW e \in EntryType, NEW by \in 0..MaxEpoch
  PROVE  LET d == Fresh(e, by) IN
         d \in Doc /\ d.rev = 1 /\ d.val = e.val /\ d.state = "active" /\ d.by = by
<1>1. Cardinality({w.gen : w \in was}) \in Nat
  BY FS_CardinalityType DEF Story
<1>2. e.val \in SUBSET Piece /\ e.ids \in SUBSET Call /\ e.note \in Call \cup {None}
  BY DEF EntryType
<1>3. QED BY <1>1, <1>2 DEF Fresh, Doc

\* The next revision written from an entry, or by an invalidation.
LEMMA NextRevision ==
  ASSUME NEW d \in Doc, NEW e \in EntryType, NEW by \in 0..MaxEpoch
  PROVE  /\ Superseding(d, e, by) \in Doc /\ Superseding(d, e, by).rev = d.rev + 1
         /\ Superseding(d, e, by).gen = d.gen /\ Superseding(d, e, by).val = e.val
         /\ Superseding(d, e, by).state = "active" /\ Superseding(d, e, by).by = by
         /\ Superseding(d, e, by).ids = d.ids \cup e.ids
<1>1. e.val \in SUBSET Piece /\ e.ids \in SUBSET Call /\ e.note \in Call \cup {None}
  BY DEF EntryType
<1>2. d.rev \in Nat /\ d.gen \in Nat /\ d.ids \in SUBSET Call /\ d.note \in Call \cup {None}
  BY DEF Doc
<1> DEFINE r == d.rev + 1
           i == d.ids \cup e.ids
           n == IF e.note = None THEN d.note ELSE e.note
<1>3. Superseding(d, e, by) =
        [d EXCEPT !.rev = r, !.val = e.val, !.state = "active", !.ids = i, !.by = by, !.note = n]
  BY DEF Superseding
<1>4. r \in Nat /\ i \in SUBSET Call /\ n \in Call \cup {None}
  BY <1>1, <1>2
<1> HIDE DEF r, i, n
<1>5. Superseding(d, e, by) \in Doc
  BY <1>1, <1>3, <1>4 DEF Doc
<1>6. /\ Superseding(d, e, by).rev = r /\ Superseding(d, e, by).gen = d.gen
      /\ Superseding(d, e, by).val = e.val /\ Superseding(d, e, by).state = "active"
      /\ Superseding(d, e, by).by = by /\ Superseding(d, e, by).ids = i
  BY <1>3 DEF Doc
<1>7. QED BY <1>5, <1>6 DEF r, i

\* The document that an invalidation leaves.
LEMMA InvalidatedDoc ==
  ASSUME NEW d \in Doc, NEW by \in 0..MaxEpoch
  PROVE  /\ Invalidation(d, by) \in Doc /\ Invalidation(d, by).rev = d.rev + 1
         /\ Invalidation(d, by).gen = d.gen /\ Invalidation(d, by).val = d.val
         /\ Invalidation(d, by).state = "invalidated" /\ Invalidation(d, by).by = by
<1>1. d.rev \in Nat /\ d.gen \in Nat
  BY DEF Doc
<1> DEFINE r == d.rev + 1
<1>2. Invalidation(d, by) = [d EXCEPT !.rev = r, !.state = "invalidated", !.by = by]
  BY DEF Invalidation
<1>3. r \in Nat
  BY <1>1
<1> HIDE DEF r
<1>4. Invalidation(d, by) \in Doc
  BY <1>2, <1>3 DEF Doc
<1>5. /\ Invalidation(d, by).rev = r /\ Invalidation(d, by).gen = d.gen
      /\ Invalidation(d, by).val = d.val /\ Invalidation(d, by).state = "invalidated"
      /\ Invalidation(d, by).by = by
  BY <1>2 DEF Doc
<1>6. QED BY <1>4, <1>5 DEF r

\* A count or a confirmation leaves the revision as it was.
LEMMA CountedDoc ==
  ASSUME Typed, doc # NoDoc, NEW by \in 0..MaxEpoch, by = doc.by,
         \/ doc' = [doc EXCEPT !.count = @ + 1, !.by = by]
         \/ doc' = [doc EXCEPT !.count = @ + 1],
         UNCHANGED <<history, was>>
  PROVE  Stays /\ doc'.by = doc.by /\ doc'.val = doc.val /\ doc'.state = doc.state
<1>1. doc \in Doc /\ doc.count \in Nat
  BY Fields
<1>2. doc' = [doc EXCEPT !.count = @ + 1]
  BY <1>1 DEF Doc
<1>3. doc' \in Doc
  BY <1>1, <1>2 DEF Doc
<1>4. /\ doc'.rev = doc.rev /\ doc'.gen = doc.gen /\ doc'.val = doc.val
      /\ doc'.state = doc.state /\ doc'.ids = doc.ids /\ doc'.by = doc.by
  BY <1>1, <1>2 DEF Doc
<1>5. Taken(doc)' = Taken(doc)
  BY <1>4 DEF Taken
<1>6. QED BY <1>3, <1>4, <1>5 DEF Stays

\* A document there is, is present.
LEMMA DocPresent ==
  ASSUME Story
  PROVE  /\ doc = NoDoc \/ Present(doc)
         /\ doc # NoDoc <=> doc.rev # 0
         /\ doc # NoDoc <=> doc.state # "none"
  BY Bounds DEF Story, Present

\* A decision taken on the document and applied to it in one transaction.
LEMMA Applied ==
  ASSUME IInv, NEW e \in EntryType, NEW receipt, NEW expected,
         Apply(Decision(doc, e, receipt, expected), e, epoch), managed
  PROVE  /\ DocStep
         /\ doc' # NoDoc => doc'.by = epoch
         /\ doc'.val = doc.val \/ doc'.val = e.val
<1> USE DEF IInv
<1> DEFINE d == Decision(doc, e, receipt, expected)
<1>0. /\ Typed /\ Story /\ doc \in Doc /\ epoch \in 0..MaxEpoch
      /\ doc # NoDoc => doc.by = epoch
  BY Fields DEF NoOldMemory
<1>1. CASE d = "create"
  <2>1. doc = NoDoc
    BY <1>1 DEF Decision
  <2>2. doc' = Fresh(e, epoch) /\ history' = history /\ was' = was \cup {Taken(doc')}
    BY <1>1 DEF Apply
  <2>3. Creates /\ doc'.by = epoch /\ doc'.val = e.val
    BY <1>0, <2>1, <2>2, FreshDoc DEF Creates, Taken
  <2>4. QED BY <2>3 DEF DocStep
<1>2. CASE d = "supersede"
  <2>1. doc # NoDoc
    BY <1>2 DEF Decision
  <2>2. /\ doc' = Superseding(doc, e, epoch)
        /\ history' = history \cup {Taken(doc)} /\ was' = was \cup {Taken(doc')}
    BY <1>2 DEF Apply
  <2>3. Moves /\ doc'.by = epoch /\ doc'.val = e.val
    BY <1>0, <2>1, <2>2, NextRevision, DocPresent DEF Moves, Taken
  <2>4. QED BY <2>3 DEF DocStep
<1>3. CASE d = "reinforce"
  <2>1. doc # NoDoc
    BY <1>3 DEF Decision
  <2>2. doc' = [doc EXCEPT !.count = @ + 1, !.by = epoch] /\ UNCHANGED <<history, was>>
    BY <1>3 DEF Apply
  <2>3. QED BY <1>0, <2>1, <2>2, CountedDoc DEF DocStep
<1>4. CASE d \notin {"create", "supersede", "reinforce"}
  <2>1. UNCHANGED <<doc, history, was>>
    BY <1>4 DEF Apply
  <2>2. QED BY <1>0, <2>1 DEF DocStep, Stays, Taken
<1>5. QED BY <1>1, <1>2, <1>3, <1>4

\* An invalidation in one transaction.
LEMMA InvalidateMoves ==
  ASSUME IInv, Invalidate(epoch), doc.state # "none"
  PROVE  Moves /\ doc'.by = epoch /\ doc'.val = doc.val
<1>1. doc \in Doc /\ epoch \in 0..MaxEpoch /\ Present(doc)
  BY Fields, DocPresent DEF IInv
<1>2. doc' = Invalidation(doc, epoch)
  BY DEF Invalidate
<1>3. /\ doc' \in Doc /\ doc'.rev = doc.rev + 1 /\ doc'.gen = doc.gen /\ doc'.val = doc.val
      /\ doc'.state = "invalidated" /\ doc'.by = epoch
  BY <1>1, <1>2, InvalidatedDoc
<1>4. QED BY <1>1, <1>3 DEF Invalidate, Moves, Taken
-----------------------------------------------------------------------------
(***************************************************************************)
(* The quarantine.                                                         *)
(***************************************************************************)
\* A row set aside by caller c, or a row already there.
LEMMA Quarantined ==
  ASSUME IInv, NEW c \in Call, NEW val \in SUBSET Piece, Quarantine(c, val),
         call[c].pc # "done", Fenced(c)
  PROVE  RowsStep(c)
<1> USE DEF IInv
<1> DEFINE w == [NoRow EXCEPT !.status = "pending-review", !.cand = val, !.by = call[c].tok]
<1>0. /\ rows \in [Row -> RowState] /\ call[c] \in Caller /\ call[c].tok = epoch
      /\ epoch \in 0..MaxEpoch
  BY Fields DEF Typed, Fenced
<1>1. CASE UNCHANGED rows
  BY <1>1, RowsStay
<1>2. CASE rows' = [rows EXCEPT ![c] = w]
  <2>1. w \in RowState
    BY <1>0, Bounds DEF RowState, Status
  <2>2. w.status = "pending-review" /\ ~ w.wrote /\ w.by = epoch
    BY <1>0, <2>1, Bounds DEF NoRow, RowState
  <2>3. rows[c].status = "none"
    BY DEF Review
  <2> HIDE DEF w
  <2>4. rows' \in [Row -> RowState]
    BY <1>0, <1>2, <2>1
  <2>5. rows'[c] = w /\ \A r \in Row : r # c => rows'[r] = rows[r]
    BY <1>0, <1>2 DEF Row
  <2>6. ~ Claimed(rows[c]) /\ RowSound(w)
    BY <2>2, <2>3 DEF Claimed, RowSound
  <2>7. \A r \in Row : /\ RowSound(rows[r])
                       /\ managed /\ rows[r].status # "none" => rows[r].by = epoch
    BY DEF Review, NoOldMemory, Typed, TypeOK, Row
  <2>8. ASSUME NEW r \in Row
        PROVE  /\ RowSound(rows'[r])
               /\ Claimed(rows[r]) => Claimed(rows'[r])
               /\ Claimed(rows[r]) /\ rows[r].wrote => rows'[r].wrote
               /\ managed /\ rows'[r].status # "none" => rows'[r].by = epoch
               /\ rows'[r].status # "none" => rows[r].status # "none" \/ r = c
    <3>1. CASE r = c
      BY <2>2, <2>5, <2>6, <3>1
    <3>2. CASE r # c
      BY <2>5, <2>7, <3>2
    <3>3. QED BY <3>1, <3>2
  <2>9. QED BY <2>4, <2>8 DEF RowsStep, RowSound, Claimed
<1>3. QED BY <1>1, <1>2 DEF Quarantine
-----------------------------------------------------------------------------
(***************************************************************************)
(* The steps that leave the document as it is.                             *)
(***************************************************************************)
\* A caller returns and nothing else changes.
LEMMA Returns ==
  ASSUME IInv, NEW c \in Call, call[c].pc \notin {"idle", "done"}, End(c),
         UNCHANGED <<family, managed, doc, history, rows, epoch, was, reviewed>>,
         faults' \in 0..MaxFault
  PROVE  IInv'
<1> USE DEF IInv
<1>1. DocStep
  BY Fields DEF DocStep, Stays, Taken
<1>2. RowsStep(c)
  BY RowsStay
<1>3. managed /\ doc' # NoDoc => doc'.by = epoch
  BY DEF NoOldMemory
<1>4. FlaggedReviewed'
  BY DEF Review, FlaggedReviewed
<1>5. QED BY <1>1, <1>2, <1>3, <1>4, Ended

\* A caller that goes on and changes nothing but itself.
LEMMA GoesOnAlone ==
  ASSUME IInv, NEW c \in Call, NEW v \in Caller, call' = [call EXCEPT ![c] = v],
         call[c].pc # "done", v.pc # "done",
         UNCHANGED <<family, managed, doc, history, rows, epoch, faults, was, reviewed>>,
         (Phase(c) /\ Copies(c) /\ Tries(c) /\ Claim(c))'
  PROVE  IInv'
<1>1. RowsStep(c) /\ rows'[c].status = rows[c].status
  BY RowsStay
<1>2. reviewed \subseteq reviewed' /\ reviewed' \subseteq SUBSET Piece /\ faults' \in 0..MaxFault
  BY DEF IInv, Typed, TypeOK
<1>3. QED BY <1>1, <1>2, GoesOn

\* A caller arrives.
LEMMA StartStep ==
  ASSUME IInv, NEW c \in Call, NEW k \in Kinds, NEW p \in Piece, Start(c, k, p)
  PROVE  IInv'
<1> USE DEF IInv
<1> DEFINE h == IF k \in NeedsHandle THEN doc.rev ELSE 0
           v == [NoCall EXCEPT !.pc = "begin", !.kind = k, !.val = {p}, !.tok = epoch, !.h = h]
<1>0. Typed /\ doc.rev \in Nat /\ epoch \in 0..MaxEpoch /\ epoch \in Nat
  BY Fields, LifecycleAssumption
<1>1. h \in Nat /\ k \in AnyKind
  BY <1>0, KindsKnown
<1>2. call' = [call EXCEPT ![c] = v] /\ call[c].pc = "idle"
  BY DEF Start
<1> HIDE DEF h
<1>3. v \in Caller
  BY <1>0, <1>1, Bounds DEF Caller, CallPc
<1>4. v.pc = "begin" /\ v.kind = k /\ v.tok = epoch /\ v.try = 1
  BY DEF NoCall
<1> HIDE DEF v
<1>5. call'[c] = v
  BY <1>0, <1>2, <1>3 DEF Typed
<1>6. UNCHANGED <<family, managed, doc, history, rows, epoch, faults, was, reviewed>>
  BY DEF Start
<1>7. Phase(c)'
  BY <1>0, <1>4, <1>5, <1>6 DEF Phase, Kinds
<1>8. (Copies(c) /\ Tries(c) /\ Claim(c))'
  BY <1>0, <1>4, <1>5, <1>6 DEF Copies, Tries, Claim
<1>9. QED BY <1>2, <1>3, <1>4, <1>6, <1>7, <1>8, GoesOnAlone

\* What the document says is current and known to be present.
LEMMA DocCurrent ==
  ASSUME Typed, Story
  PROVE  Current(doc) /\ (doc = NoDoc \/ Present(doc))
<1>1. doc.rev \in Nat
  BY Fields
<1>2. QED BY <1>1, DocPresent DEF Current

\* A caller keeps what it read of the document, before its write.
LEMMA TakesCopy ==
  ASSUME IInv, NEW c \in Call, call[c].pc = "begin", NEW pc \in {"ready", "read"},
         call' = [call EXCEPT ![c].pc = pc, ![c].copy = doc],
         UNCHANGED <<family, managed, doc, history, rows, epoch, faults, was, reviewed>>,
         pc = "ready" => managed /\ call[c].kind \in {"patch", "contradict"} /\ doc.state = "active",
         pc = "read" => /\ ~ managed /\ call[c].kind # "outcome"
                        /\ call[c].kind # "write" => doc # NoDoc
                        /\ call[c].kind = "confirm" => doc.state = "active"
  PROVE  IInv'
<1> USE DEF IInv
<1> DEFINE x == call[c]
           v == [x EXCEPT !.pc = pc, !.copy = doc]
<1>0. /\ Typed /\ Story /\ doc \in Doc /\ x \in Caller /\ doc.rev \in Nat
      /\ Phase(c) /\ Tries(c)
  BY Fields DEF CallsInv
<1>1. call' = [call EXCEPT ![c] = v]
  BY <1>0 DEF Typed
<1>2. v \in Caller
  BY <1>0 DEF Caller, CallPc
<1>3. /\ v.pc = pc /\ v.copy = doc /\ v.kind = x.kind /\ v.tok = x.tok /\ v.try = x.try
  BY <1>0 DEF Caller
<1> HIDE DEF v
<1>4. call'[c] = v
  BY <1>0, <1>1, <1>2 DEF Typed
<1>5. Phase(c)'
  BY <1>0, <1>3, <1>4 DEF Phase, Kinds
<1>6. Current(call[c].copy)' /\ (call'[c].copy = NoDoc \/ Present(call[c].copy)')
  BY <1>0, <1>3, <1>4, DocCurrent DEF Current, Present, Taken
<1>7. Copies(c)'
  BY <1>0, <1>3, <1>4, <1>6 DEF Copies, Fenced
<1>8. Tries(c)' /\ Claim(c)'
  BY <1>0, <1>3, <1>4 DEF Tries, Claim
<1>9. QED BY <1>1, <1>2, <1>3, <1>5, <1>7, <1>8, GoesOnAlone

\* The callers that read, are refused, or stop.
LEMMA QuietSteps ==
  ASSUME IInv, NEW c \in Call,
         \/ Refused(c) \/ PatchReads(c) \/ Prepare(c) \/ BareRead(c)
         \/ ReviewRefused(c) \/ Crash(c)
  PROVE  IInv'
<1> USE DEF IInv
<1>0. /\ Typed /\ Story /\ doc.state \in {"none", "active", "invalidated"}
      /\ faults \in 0..MaxFault
  BY Fields DEF Typed, TypeOK
<1>1. CASE Refused(c)
  BY <1>0, <1>1, Returns DEF Refused
<1>2. CASE PatchReads(c)
  <2>1. CASE doc # NoDoc /\ IsFresh(c, TRUE)
    <3>1. doc.state = "active"
      BY <1>0, <2>1, DocPresent DEF IsFresh
    <3>2. QED BY <1>2, <2>1, <3>1, TakesCopy DEF PatchReads
  <2>2. CASE ~ (doc # NoDoc /\ IsFresh(c, TRUE))
    BY <1>0, <1>2, <2>2, Returns DEF PatchReads
  <2>3. QED BY <2>1, <2>2
<1>3. CASE Prepare(c)
  <2>1. CASE doc.state = "active"
    BY <1>3, <2>1, TakesCopy DEF Prepare
  <2>2. CASE doc.state # "active"
    BY <1>0, <1>3, <2>2, Returns DEF Prepare
  <2>3. QED BY <2>1, <2>2
<1>4. CASE BareRead(c)
  <2>1. UNCHANGED <<family, managed, doc, history, rows, epoch, faults, was, reviewed>>
        /\ ~ managed /\ call[c].pc = "begin" /\ call[c].kind # "outcome"
    BY <1>4 DEF BareRead
  <2>2. CASE End(c)
    BY <1>0, <2>1, <2>2, Returns
  <2>3. CASE ~ End(c)
    <3>1. /\ call' = [call EXCEPT ![c].pc = "read", ![c].copy = doc]
          /\ call[c].kind # "write" => doc # NoDoc
          /\ call[c].kind \in NeedsHandle => IsFresh(c, call[c].kind = "confirm")
      BY <1>4, <2>3 DEF BareRead
    <3>2. call[c].kind = "confirm" => doc.state = "active"
      <4>1. SUFFICES ASSUME call[c].kind = "confirm" PROVE doc.state = "active"
        OBVIOUS
      <4>2. doc.state # "invalidated" /\ doc # NoDoc
        BY <3>1, <4>1 DEF NeedsHandle, IsFresh
      <4>3. QED BY <1>0, <4>2, DocPresent
    <3>3. QED BY <2>1, <3>1, <3>2, TakesCopy
  <2>4. QED BY <2>2, <2>3
<1>5. CASE ReviewRefused(c)
  BY <1>0, <1>5, Returns DEF ReviewRefused
<1>6. CASE Crash(c)
  <2>1. faults' \in 0..MaxFault
    BY <1>0, <1>6, LifecycleAssumption DEF Crash
  <2>2. QED BY <1>6, <2>1, Returns DEF Crash
<1>7. QED BY <1>1, <1>2, <1>3, <1>4, <1>5, <1>6
-----------------------------------------------------------------------------
(***************************************************************************)
(* The fenced writes.                                                      *)
(***************************************************************************)
\* What a fenced write stores is an entry.
LEMMA EntryTyped ==
  ASSUME Typed, NEW c \in Call
  PROVE  EntryOf(c) \in EntryType
<1>1. /\ call[c] \in Caller /\ doc.val \in SUBSET Piece
      /\ call[c].val \in SUBSET Piece /\ call[c].copy.val \in SUBSET Piece
      /\ call[c].copy.ids \in SUBSET Call
  BY Fields, CallerFields
<1>2. CASE call[c].kind = "event"
  BY <1>1, <1>2 DEF EntryOf, Entry, EntryType
<1>3. CASE call[c].kind = "patch"
  BY <1>1, <1>3 DEF EntryOf, Entry, EntryType
<1>4. CASE call[c].kind = "append"
  BY <1>1, <1>4 DEF EntryOf, Entry, EntryType
<1>5. CASE call[c].kind \notin {"event", "patch", "append"}
  BY <1>1, <1>5 DEF EntryOf, Entry, EntryType
<1>6. QED BY <1>2, <1>3, <1>4, <1>5

\* A write that found nothing to do leaves document and review as they were.
LEMMA UntouchedStep ==
  ASSUME IInv, Untouched
  PROVE  DocStep /\ (managed /\ doc' # NoDoc => doc'.by = epoch) /\ doc'.val = doc.val
<1> USE DEF IInv
<1>1. doc \in Doc /\ (managed /\ doc # NoDoc => doc.by = epoch)
  BY Fields DEF NoOldMemory
<1>2. QED BY <1>1 DEF Untouched, DocStep, Stays, Taken

\* Content that does not change, or is not flagged, keeps the review sound.
LEMMA FlaggedKept ==
  ASSUME Review, UNCHANGED <<family, managed>>, reviewed \subseteq reviewed',
         \/ doc'.val = doc.val
         \/ doc'.val \cap Bad = {}
         \/ family # "structured"
         \/ doc'.val \in reviewed
  PROVE  FlaggedReviewed'
  BY DEF Review, FlaggedReviewed

\* Writes, events, appended self-edits and patches.
LEMMA ManagedWriteStep ==
  ASSUME IInv, NEW c \in Call, ManagedWrite(c)
  PROVE  IInv'
<1> USE DEF IInv
<1> DEFINE e == EntryOf(c)
<1>0. /\ Typed /\ call[c].tok = epoch /\ managed /\ call[c].pc \in {"begin", "ready"} /\ End(c)
      /\ UNCHANGED <<family, managed, epoch, faults, reviewed>> /\ faults' \in 0..MaxFault
  BY DEF ManagedWrite, Fenced, Typed, TypeOK
<1>1. e \in EntryType
  BY <1>0, EntryTyped
<1>2. CASE Flagged(e.val)
  <2>1. Quarantine(c, e.val) /\ Untouched
    BY <1>2 DEF ManagedWrite
  <2>2. e.val \in SUBSET Piece
    BY <1>1 DEF EntryType
  <2>3. RowsStep(c)
    BY <1>0, <2>1, <2>2, Quarantined DEF Fenced
  <2>4. DocStep /\ (managed /\ doc' # NoDoc => doc'.by = epoch) /\ FlaggedReviewed'
    BY <1>0, <2>1, UntouchedStep, FlaggedKept
  <2>5. QED BY <1>0, <2>3, <2>4, Ended
<1>3. CASE ~ Flagged(e.val)
  <2>1. PICK receipt, expected : Apply(Decision(doc, e, receipt, expected), e, epoch)
    BY <1>0, <1>3 DEF ManagedWrite
  <2>2. /\ DocStep /\ (doc' # NoDoc => doc'.by = epoch)
        /\ doc'.val = doc.val \/ doc'.val = e.val
    BY <1>0, <1>1, <2>1, Applied
  <2>3. FlaggedReviewed'
    BY <1>0, <1>3, <2>2, FlaggedKept DEF Flagged
  <2>4. RowsStep(c)
    BY <1>3, RowsStay DEF ManagedWrite
  <2>5. QED BY <1>0, <2>2, <2>3, <2>4, Ended
<1>4. QED BY <1>2, <1>3

\* Invalidations by handle and by verdict, confirmations, outcomes.
LEMMA FencedSteps ==
  ASSUME IInv, NEW c \in Call,
         \/ ManagedInvalidate(c) \/ Contradicted(c) \/ ManagedConfirm(c) \/ Outcome(c)
  PROVE  IInv'
<1> USE DEF IInv
<1>0. /\ Typed /\ Story /\ call[c].pc \in {"begin", "ready"} /\ End(c)
      /\ UNCHANGED <<family, managed, rows, epoch, faults, reviewed>> /\ faults' \in 0..MaxFault
      /\ epoch \in 0..MaxEpoch /\ doc \in Doc
      /\ managed /\ doc # NoDoc => doc.by = epoch
  BY Fields DEF ManagedInvalidate, Contradicted, ManagedConfirm, Outcome, Typed, TypeOK, NoOldMemory
<1>1. RowsStep(c)
  BY <1>0, RowsStay
<1>2. DocStep /\ (managed /\ doc' # NoDoc => doc'.by = epoch) /\ doc'.val = doc.val
  <2>1. ASSUME ManagedInvalidate(c) \/ Contradicted(c)
        PROVE  DocStep /\ (managed /\ doc' # NoDoc => doc'.by = epoch) /\ doc'.val = doc.val
    <3>1. Untouched \/ (Invalidate(epoch) /\ doc.state # "none")
      BY <2>1 DEF ManagedInvalidate, Contradicted, Fenced
    <3>2. CASE Untouched
      BY <3>2, UntouchedStep
    <3>3. CASE Invalidate(epoch) /\ doc.state # "none"
      BY <3>3, InvalidateMoves DEF DocStep
    <3>4. QED BY <3>1, <3>2, <3>3
  <2>2. ASSUME ManagedConfirm(c)
        PROVE  DocStep /\ (managed /\ doc' # NoDoc => doc'.by = epoch) /\ doc'.val = doc.val
    <3>1. managed /\ call[c].tok = epoch /\ UNCHANGED <<history, was>>
      BY <2>2 DEF ManagedConfirm, Fenced
    <3>2. CASE doc' = doc
      BY <3>1, <3>2, UntouchedStep DEF Untouched
    <3>3. CASE doc' # doc
      <4>1. doc # NoDoc /\ doc' = [doc EXCEPT !.count = @ + 1, !.by = epoch]
        BY <2>2, <3>1, <3>3 DEF ManagedConfirm
      <4>2. QED BY <1>0, <3>1, <4>1, CountedDoc DEF DocStep
    <3>4. QED BY <3>2, <3>3
  <2>3. ASSUME Outcome(c)
        PROVE  DocStep /\ (managed /\ doc' # NoDoc => doc'.by = epoch) /\ doc'.val = doc.val
    <3>1. UNCHANGED <<history, was>>
      BY <2>3 DEF Outcome
    <3>2. CASE doc' = doc
      BY <3>1, <3>2, UntouchedStep DEF Untouched
    <3>3. CASE doc' # doc
      <4>1. doc # NoDoc /\ doc' = [doc EXCEPT !.count = @ + 1]
        BY <2>3, <3>3 DEF Outcome
      <4>2. doc.by \in 0..MaxEpoch
        BY <1>0, Fields
      <4>3. Stays /\ doc'.by = doc.by /\ doc'.val = doc.val
        BY <1>0, <3>1, <4>1, <4>2, CountedDoc
      <4>4. QED BY <1>0, <4>1, <4>3 DEF DocStep
    <3>4. QED BY <3>2, <3>3
  <2>4. QED BY <2>1, <2>2, <2>3
<1>3. FlaggedReviewed'
  BY <1>0, <1>2, FlaggedKept
<1>4. QED BY <1>0, <1>1, <1>2, <1>3, Ended
-----------------------------------------------------------------------------
(***************************************************************************)
(* The bare calls.                                                         *)
(***************************************************************************)
\* A bare caller between its read and its write.
LEMMA BareCopy ==
  ASSUME IInv, NEW c \in Call, call[c].pc \in {"read", "swap"}
  PROVE  /\ ~ managed /\ call[c].copy \in Doc /\ Current(call[c].copy)
         /\ call[c].kind \in {"write", "invalidate", "confirm", "evolve"}
         /\ call[c].copy = NoDoc \/ Present(call[c].copy)
         /\ BareDecision(c) = "create" <=> call[c].copy = NoDoc
         /\ BareDecision(c) = "create" => call[c].kind = "write"
<1> USE DEF IInv
<1>1. Typed /\ Phase(c) /\ Copies(c) /\ call[c] \in Caller
  BY Fields DEF CallsInv
<1>2. /\ ~ managed /\ call[c].copy \in Doc /\ Current(call[c].copy)
      /\ call[c].kind \in {"write", "invalidate", "confirm", "evolve"}
      /\ call[c].copy = NoDoc \/ Present(call[c].copy)
      /\ call[c].kind # "write" => call[c].copy # NoDoc
  BY <1>1, CallerFields, KindsKnown DEF Phase, Copies
<1>3. CASE call[c].kind = "write"
  <2>1. BareDecision(c) = Decision(call[c].copy, EntryOf(c), {}, None)
    BY <1>3 DEF BareDecision
  <2>2. QED BY <1>2, <1>3, <2>1 DEF Decision
<1>4. CASE call[c].kind # "write"
  <2>1. BareDecision(c) \in {"evolve", "invalidate", "reinforce"}
    BY <1>4 DEF BareDecision
  <2>2. QED BY <1>2, <1>4, <2>1
<1>5. QED BY <1>3, <1>4

\* The snapshot of a document that has moved on is there already.
LEMMA BareSnapshotStep ==
  ASSUME IInv, NEW c \in Call, BareSnapshot(c)
  PROVE  IInv'
<1> USE DEF IInv
<1> DEFINE x == call[c]
           v == [x EXCEPT !.pc = "swap"]
<1>0. /\ Typed /\ Story /\ x \in Caller /\ doc.rev \in Nat /\ x.pc = "read" /\ ~ managed
      /\ Phase(c) /\ Copies(c) /\ Tries(c) /\ doc \in Doc
      /\ UNCHANGED <<family, managed, doc, rows, epoch, faults, was, reviewed>>
  BY Fields DEF CallsInv, BareSnapshot
<1>1. call' = [call EXCEPT ![c] = v]
  BY DEF BareSnapshot
<1>2. v \in Caller
  BY <1>0 DEF Caller, CallPc
<1>3. /\ v.pc = "swap" /\ v.copy = x.copy /\ v.kind = x.kind /\ v.tok = x.tok
      /\ v.try = x.try /\ v.val = x.val
  BY <1>0 DEF Caller
<1> HIDE DEF v
<1>4. call'[c] = v
  BY <1>0, <1>1, <1>2 DEF Typed
<1>5. /\ x.copy \in Doc /\ Current(x.copy) /\ x.copy.rev \in Nat
      /\ Supersedes(c) => Present(x.copy)
  BY <1>0, BareCopy, CallerFields DEF Supersedes
<1>6. DocStep /\ (Supersedes(c) => \E s \in history' : s.rev = x.copy.rev)
  <2>1. CASE history' = history
    <3>1. DocStep
      BY <1>0, <2>1 DEF DocStep, Stays, Taken
    <3>2. Supersedes(c) => \E s \in history : s.gen = x.copy.gen /\ s.rev = x.copy.rev
      <4>1. SUFFICES ASSUME Supersedes(c), \A s \in history : s.gen # x.copy.gen \/ s.rev # x.copy.rev
                     PROVE  FALSE
        OBVIOUS
      <4>2. history' = history \cup {Taken(x.copy)}
        BY <4>1 DEF BareSnapshot, Supersedes
      <4>3. Taken(x.copy) \in history
        BY <2>1, <4>2
      <4>4. QED BY <4>1, <4>3 DEF Taken
    <3>3. QED BY <2>1, <3>1, <3>2
  <2>2. CASE history' # history
    <3>1. /\ Supersedes(c) /\ history' = history \cup {Taken(x.copy)}
          /\ \A s \in history : s.gen # x.copy.gen \/ s.rev # x.copy.rev
      BY <2>2 DEF BareSnapshot, Supersedes
    <3>2. x.copy.rev >= 1 /\ x.copy.gen = doc.gen /\ x.copy.rev <= doc.rev
      BY <1>5, <3>1 DEF Present, Current
    <3>3. x.copy.rev = doc.rev
      <4>1. SUFFICES ASSUME x.copy.rev # doc.rev PROVE FALSE
        OBVIOUS
      <4>2. x.copy.rev \in 1 .. doc.rev - 1
        BY <1>0, <1>5, <3>2, <4>1
      <4>3. PICK s \in history : s.rev = x.copy.rev
        BY <1>0, <4>2 DEF Story
      <4>4. QED BY <1>0, <3>1, <3>2, <4>3 DEF Story
    <3>4. Taken(x.copy) = Taken(doc)
      BY <1>5, <3>3 DEF Current
    <3>5. Present(doc)
      BY <1>5, <3>1, <3>4, TakenEqual DEF Present
    <3>6. Snaps
      BY <1>0, <3>1, <3>4, <3>5 DEF Snaps
    <3>7. Taken(x.copy).rev = x.copy.rev
      BY DEF Taken
    <3>8. QED BY <3>1, <3>6, <3>7 DEF DocStep
  <2>3. QED BY <2>1, <2>2
<1>7. RowsStep(c) /\ rows'[c].status = rows[c].status
  BY <1>0, RowsStay
<1>8. Phase(c)' /\ Tries(c)' /\ Claim(c)'
  BY <1>0, <1>3, <1>4 DEF Phase, Kinds, Tries, Claim
<1>9. Copies(c)'
  <2>1. Supersedes(c)' <=> Supersedes(c)
    <3>1. x.kind \in {"write", "invalidate", "confirm", "evolve", "outcome"}
      BY <1>0, BareCopy
    <3>2. BareDecision(c)' = BareDecision(c)
      BY <1>0, <1>3, <1>4, <3>1, SameDecision
    <3>3. QED BY <3>2 DEF Supersedes
  <2>2. Current(call[c].copy)' <=> Current(x.copy)
    BY <1>0, <1>3, <1>4 DEF Current, Taken
  <2>3. Present(call[c].copy)' <=> Present(x.copy)
    BY <1>3, <1>4 DEF Present
  <2>4. QED BY <1>0, <1>3, <1>4, <1>6, <2>1, <2>2, <2>3 DEF Copies
<1>10. FlaggedReviewed'
  BY <1>0 DEF FlaggedReviewed
<1>11. reviewed' \subseteq SUBSET Piece /\ faults' \in 0..MaxFault
  BY <1>0 DEF Typed, TypeOK
<1>12. QED BY <1>0, <1>1, <1>2, <1>3, <1>6, <1>7, <1>8, <1>9, <1>10, <1>11, CallStep

\* The compare-and-swap lands on the document that was read, and its snapshot is there.
LEMMA Swapped ==
  ASSUME IInv, NEW c \in Call, BareSwap(c)
  PROVE  DocStep /\ (doc' = doc \/ call[c].copy.rev = doc.rev)
<1> USE DEF IInv
<1> DEFINE x == call[c]
           d == BareDecision(c)
           e == EntryOf(c)
<1>0. /\ Typed /\ Story /\ x \in Caller /\ doc.rev \in Nat /\ doc.gen \in Nat
      /\ x.pc = "swap" /\ ~ managed
      /\ Copies(c) /\ doc \in Doc /\ 0 \in 0..MaxEpoch /\ e \in EntryType
      /\ x.val \in SUBSET Piece /\ history' = history
  BY Fields, CallerFields, EntryTyped, Bounds DEF CallsInv, BareSwap
<1>1. /\ x.copy \in Doc /\ Current(x.copy) /\ (x.copy = NoDoc \/ Present(x.copy))
      /\ d = "create" <=> x.copy = NoDoc
  BY <1>0, BareCopy
<1>2. CASE d = "create"
  <2>1. x.copy.rev = 0 /\ doc.rev = 0
    BY <1>0, <1>1, <1>2, Bounds DEF BareSwap, Matches
  <2>2. doc = NoDoc
    BY <1>0, <2>1, DocPresent
  <2>3. doc' = Fresh(e, 0) /\ was' = was \cup {Taken(doc')}
    BY <1>2 DEF BareSwap
  <2>4. Creates
    BY <1>0, <2>2, <2>3, FreshDoc DEF Creates, Taken
  <2>5. QED BY <2>1, <2>4 DEF DocStep
<1>3. ASSUME d \in {"supersede", "evolve", "invalidate", "reinforce"}
      PROVE  x.copy.rev = doc.rev /\ Present(doc) /\ doc # NoDoc
  <2>1. Matches(c) /\ x.copy # NoDoc
    BY <1>1, <1>3 DEF BareSwap
  <2>2. x.copy.rev = doc.rev /\ Present(x.copy)
    BY <1>1, <2>1 DEF Matches
  <2>3. Taken(x.copy) = Taken(doc)
    BY <1>1, <2>2 DEF Current
  <2>4. QED BY <2>2, <2>3, TakenEqual, Bounds DEF Present
<1>4. CASE d \in {"supersede", "evolve", "invalidate"}
  <2>1. x.copy.rev = doc.rev /\ Present(doc) /\ doc # NoDoc
    BY <1>3, <1>4
  <2>2. Taken(doc) \in history
    <3>1. PICK s \in history : s.rev = x.copy.rev
      BY <1>0, <1>4 DEF Copies, Supersedes
    <3>2. QED BY <1>0, <2>1, <3>1 DEF Story
  <2>3. history' = history \cup {Taken(doc)} /\ was' = was \cup {Taken(doc')}
    BY <1>0, <1>4, <2>2 DEF BareSwap
  <2>4. /\ doc' \in Doc /\ doc'.state # "none" /\ doc'.rev = doc.rev + 1 /\ doc'.gen = doc.gen
    <3>1. CASE d = "supersede"
      <4>1. doc' = Superseding(doc, e, 0)
        BY <3>1 DEF BareSwap
      <4>2. QED BY <1>0, <4>1, NextRevision
    <3>2. CASE d = "evolve"
      <4> DEFINE r == doc.rev + 1
                 w == x.val
      <4>1. doc' = [doc EXCEPT !.rev = r, !.val = w]
        BY <3>2 DEF BareSwap
      <4>2. r \in Nat /\ w \in SUBSET Piece /\ doc.state # "none"
        BY <1>0, <2>1 DEF Present
      <4> HIDE DEF r, w
      <4>3. doc' \in Doc
        BY <1>0, <4>1, <4>2 DEF Doc
      <4>4. doc'.rev = r /\ doc'.gen = doc.gen /\ doc'.state = doc.state
        BY <1>0, <4>1 DEF Doc
      <4>5. QED BY <4>2, <4>3, <4>4 DEF r
    <3>3. CASE d = "invalidate"
      <4>1. doc' = Invalidation(doc, 0)
        BY <3>3 DEF BareSwap
      <4>2. QED BY <1>0, <4>1, InvalidatedDoc
    <3>4. QED BY <1>4, <3>1, <3>2, <3>3
  <2>5. Moves
    BY <2>1, <2>3, <2>4 DEF Moves, Taken
  <2>6. QED BY <2>1, <2>5 DEF DocStep
<1>5. CASE d = "reinforce"
  <2>1. x.copy.rev = doc.rev /\ doc # NoDoc
    BY <1>3, <1>5
  <2>2. doc' = [doc EXCEPT !.count = @ + 1] /\ was' = was
    BY <1>5 DEF BareSwap
  <2>3. doc.by \in 0..MaxEpoch
    BY <1>0, Fields
  <2>4. QED BY <1>0, <2>1, <2>2, <2>3, CountedDoc DEF DocStep
<1>6. CASE d \notin {"create", "supersede", "evolve", "invalidate", "reinforce"}
  <2>1. doc' = doc /\ was' = was
    BY <1>6 DEF BareSwap
  <2>2. QED BY <1>0, <2>1 DEF DocStep, Stays, Taken
<1>7. QED BY <1>2, <1>4, <1>5, <1>6

\* The compare-and-swap, won or lost.
LEMMA SwapSteps ==
  ASSUME IInv, NEW c \in Call, BareSwap(c) \/ LoseRace(c)
  PROVE  IInv'
<1> USE DEF IInv
<1>1. CASE BareSwap(c)
  <2>1. /\ DocStep /\ ~ managed /\ call[c].pc = "swap" /\ End(c) /\ faults' \in 0..MaxFault
        /\ UNCHANGED <<family, managed, rows, epoch, reviewed>>
    BY <1>1, Swapped DEF BareSwap, Typed, TypeOK
  <2>2. RowsStep(c)
    BY <2>1, RowsStay
  <2>3. FlaggedReviewed'
    BY <2>1 DEF FlaggedReviewed
  <2>4. QED BY <2>1, <2>2, <2>3, Ended
<1>2. CASE LoseRace(c)
  <2> DEFINE x == call[c]
             t == x.try + 1
             a == [x EXCEPT !.pc = "begin", !.try = t, !.copy = NoDoc]
             b == [NoCall EXCEPT !.pc = "raced", !.kind = x.kind]
  <2>0. /\ Typed /\ x \in Caller /\ x.pc = "swap" /\ ~ managed /\ Phase(c) /\ Tries(c)
        /\ doc.rev \in Nat /\ epoch \in Nat /\ x.kind \in AnyKind /\ x.try \in 1..3
        /\ UNCHANGED <<family, managed, doc, history, rows, epoch, faults, was, reviewed>>
    BY <1>2, Fields, CallerFields, LifecycleAssumption DEF CallsInv, LoseRace
  <2>1. x.try <= doc.rev
    <3>1. x.copy.rev # doc.rev /\ x.copy.rev <= doc.rev /\ x.copy.rev \in Nat
      BY <1>2, <2>0, BareCopy, CallerFields DEF LoseRace, Matches, Current
    <3>2. x.try - 1 <= x.copy.rev
      BY <2>0 DEF Tries
    <3>3. QED BY <2>0, <3>1, <3>2
  <2>2. CASE x.try < 3
    <3>1. call' = [call EXCEPT ![c] = a]
      BY <1>2, <2>2 DEF LoseRace, MAX_REVISION_CAS_ATTEMPTS
    <3>2. t \in 1..3 /\ t - 1 <= doc.rev
      BY <2>0, <2>1, <2>2
    <3> HIDE DEF t
    <3>3. a \in Caller
      BY <2>0, <3>2, Bounds DEF Caller, CallPc, MAX_REVISION_CAS_ATTEMPTS
    <3>4. a.pc = "begin" /\ a.try = t /\ a.kind = x.kind /\ a.tok = x.tok
      BY <2>0 DEF Caller
    <3> HIDE DEF a
    <3>5. call'[c] = a
      BY <2>0, <3>1, <3>3 DEF Typed
    <3>6. (Phase(c) /\ Copies(c) /\ Tries(c) /\ Claim(c))'
      BY <2>0, <3>2, <3>4, <3>5 DEF Phase, Kinds, Copies, Tries, Claim
    <3>7. QED BY <2>0, <3>1, <3>3, <3>4, <3>6, GoesOnAlone
  <2>3. CASE ~ x.try < 3
    <3>1. call' = [call EXCEPT ![c] = b]
      BY <1>2, <2>3 DEF LoseRace, MAX_REVISION_CAS_ATTEMPTS
    <3>2. b \in Caller
      BY <2>0, Bounds DEF Caller, CallPc
    <3>3. b.pc = "raced" /\ b.kind = x.kind /\ b.tok = 0
      BY DEF NoCall
    <3> HIDE DEF b
    <3>4. call'[c] = b
      BY <2>0, <3>1, <3>2 DEF Typed
    <3>5. (Phase(c) /\ Copies(c) /\ Tries(c) /\ Claim(c))'
      BY <2>0, <2>1, <2>3, <3>3, <3>4 DEF Phase, Kinds, Copies, Tries, Claim, MAX_REVISION_CAS_ATTEMPTS
    <3>6. QED BY <2>0, <3>1, <3>2, <3>3, <3>5, GoesOnAlone
  <2>4. QED BY <2>2, <2>3
<1>3. QED BY <1>1, <1>2
-----------------------------------------------------------------------------
(***************************************************************************)
(* The review.                                                             *)
(***************************************************************************)
\* A step of caller c that changes one row, and that row soundly.
LEMMA RowChange ==
  ASSUME IInv, NEW c, NEW r \in Row, NEW w \in RowState, rows' = [rows EXCEPT ![r] = w],
         RowSound(w), Claimed(rows[r]) => Claimed(w),
         Claimed(rows[r]) /\ rows[r].wrote => w.wrote,
         managed /\ w.status # "none" => w.by = epoch,
         w.status # "none" => rows[r].status # "none"
  PROVE  RowsStep(c) /\ rows'[r] = w /\ \A q \in Row : q # r => rows'[q] = rows[q]
<1> USE DEF IInv
<1>1. rows \in [Row -> RowState]
  BY DEF Typed
<1>2. rows' \in [Row -> RowState] /\ rows'[r] = w /\ \A q \in Row : q # r => rows'[q] = rows[q]
  BY <1>1
<1>3. \A q \in Row : /\ RowSound(rows[q])
                     /\ managed /\ rows[q].status # "none" => rows[q].by = epoch
  BY DEF Review, NoOldMemory, Typed, TypeOK, Row
<1>4. ASSUME NEW q \in Row
      PROVE  /\ RowSound(rows'[q])
             /\ Claimed(rows[q]) => Claimed(rows'[q])
             /\ Claimed(rows[q]) /\ rows[q].wrote => rows'[q].wrote
             /\ managed /\ rows'[q].status # "none" => rows'[q].by = epoch
             /\ rows'[q].status # "none" => rows[q].status # "none" \/ q = c
  <2>1. CASE q = r
    BY <1>2, <2>1
  <2>2. CASE q # r
    BY <1>2, <1>3, <2>2
  <2>3. QED BY <2>1, <2>2
<1>5. QED BY <1>2, <1>4 DEF RowsStep, RowSound, Claimed

\* The fields of a row.
LEMMA RowFields ==
  ASSUME Typed, NEW r \in Row
  PROVE  /\ rows[r] \in RowState /\ rows[r].status \in Status /\ rows[r].cand \in SUBSET Piece
         /\ rows[r].by \in 0..MaxEpoch
         /\ DOMAIN rows = Row
<1>1. rows[r] \in RowState
  BY Fields
<1>2. QED BY <1>1 DEF RowState, Typed

\* A caller of the review is a managed one about facts.
LEMMA Reviewer ==
  ASSUME IInv, NEW c \in Call, call[c].pc \in {"claimed", "finalize"}
                               \/ (call[c].pc = "begin" /\ call[c].kind = "promote")
  PROVE  managed /\ family = "structured" /\ call[c].kind = "promote"
<1>1. Phase(c) /\ Typed
  BY DEF IInv, CallsInv
<1>2. QED BY <1>1, KindsKnown DEF Phase

\* A promotion claims its row.
LEMMA ClaimStep ==
  ASSUME IInv, NEW c \in Call, NEW r \in Row, ClaimPromotion(c, r)
  PROVE  IInv'
<1> USE DEF IInv
<1> DEFINE x == call[c]
           p == rows[r].cand
           v == [x EXCEPT !.pc = "claimed", !.row = r, !.val = p]
           w == [rows[r] EXCEPT !.status = "promoting", !.lease = TRUE, !.by = x.tok]
<1>0. /\ Typed /\ x \in Caller /\ x.pc = "begin" /\ x.kind = "promote" /\ x.tok = epoch
      /\ managed /\ Phase(c) /\ Tries(c) /\ epoch \in 0..MaxEpoch
      /\ rows[r] \in RowState /\ p \in SUBSET Piece /\ Claimable(r)
      /\ UNCHANGED <<family, managed, doc, history, epoch, faults, was>>
      /\ reviewed' = reviewed \cup {p}
  BY Fields, RowFields, Reviewer DEF CallsInv, ClaimPromotion, Fenced
<1>1. call' = [call EXCEPT ![c] = v] /\ rows' = [rows EXCEPT ![r] = w]
  BY <1>0 DEF ClaimPromotion, Typed
<1> HIDE DEF p
<1>2. v \in Caller
  BY <1>0 DEF Caller, CallPc
<1>3. v.pc = "claimed" /\ v.row = r /\ v.val = p /\ v.kind = "promote" /\ v.tok = epoch
  BY <1>0 DEF Caller
<1>4. w \in RowState
  BY <1>0 DEF RowState, Status
<1>5. w.status = "promoting" /\ w.by = epoch /\ (w.wrote <=> rows[r].wrote)
  BY <1>0 DEF RowState
<1> HIDE DEF v, w
<1>6. rows[r].status # "none" /\ RowSound(w) /\ Claimed(w)
  BY <1>0, <1>5 DEF Claimable, RowSound, Claimed
<1>7. RowsStep(c) /\ rows'[r] = w /\ \A q \in Row : q # r => rows'[q] = rows[q]
  BY <1>1, <1>4, <1>5, <1>6, RowChange
<1>8. rows'[c] = rows[c]
  BY <1>0, <1>6, <1>7 DEF Review, Row
<1>9. call'[c] = v
  BY <1>0, <1>1, <1>2 DEF Typed
<1>10. Phase(c)' /\ Copies(c)' /\ Tries(c)'
  BY <1>0, <1>3, <1>9 DEF Phase, Kinds, Copies, Tries
<1>11. Claim(c)'
  <2>1. Claimed(rows'[r]) /\ p \in reviewed'
    BY <1>0, <1>6, <1>7
  <2>2. QED BY <1>3, <1>9, <2>1 DEF Claim, Claimed
<1>12. reviewed' \subseteq SUBSET Piece /\ faults' \in 0..MaxFault
  BY <1>0 DEF Typed, TypeOK
<1>13. QED BY <1>0, <1>1, <1>2, <1>3, <1>7, <1>8, <1>10, <1>11, <1>12, GoesOn

\* The write of a promotion: the content was claimed by a reviewer, so it may be flagged.
LEMMA PromotedWriteStep ==
  ASSUME IInv, NEW c \in Call, PromotedWrite(c)
  PROVE  IInv'
<1> USE DEF IInv
<1> DEFINE x == call[c]
           e == Entry(x.val, {}, None)
           r == x.row
           v == [x EXCEPT !.pc = "finalize"]
           w == [rows[r] EXCEPT !.wrote = TRUE]
<1>0. /\ Typed /\ Story /\ x \in Caller /\ x.pc = "claimed" /\ x.kind = "promote" /\ x.tok = epoch
      /\ managed /\ Phase(c) /\ Claim(c) /\ x.val \in SUBSET Piece
      /\ r \in Row /\ rows[r] \in RowState
      /\ UNCHANGED <<family, managed, epoch, faults, reviewed>>
  BY Fields, CallerFields, RowFields, Reviewer DEF CallsInv, PromotedWrite, Fenced, Phase
<1>1. Claimed(rows[r]) /\ x.val \in reviewed
  BY <1>0 DEF Claim, Fenced
<1>2. e \in EntryType /\ e.val = x.val
  BY <1>0 DEF Entry, EntryType
<1>3. /\ DocStep /\ (doc' # NoDoc => doc'.by = epoch)
      /\ doc'.val = doc.val \/ doc'.val = x.val
  BY <1>0, <1>2, Applied DEF PromotedWrite
<1>4. FlaggedReviewed'
  BY <1>0, <1>1, <1>3, FlaggedKept
<1>5. call' = [call EXCEPT ![c] = v] /\ rows' = [rows EXCEPT ![r] = w]
  BY <1>0 DEF PromotedWrite, Typed
<1>6. v \in Caller
  BY <1>0 DEF Caller, CallPc
<1>7. v.pc = "finalize" /\ v.row = r /\ v.kind = "promote" /\ v.tok = epoch
  BY <1>0 DEF Caller
<1>8. w \in RowState
  BY <1>0 DEF RowState
<1>9. /\ w.status = rows[r].status /\ w.wrote /\ (w.may <=> rows[r].may)
      /\ (w.again <=> rows[r].again) /\ w.by = rows[r].by
  BY <1>0 DEF RowState
<1> HIDE DEF v, w
<1>10. /\ rows[r].status # "none" /\ RowSound(w) /\ Claimed(w)
       /\ managed /\ w.status # "none" => w.by = epoch
  <2>1. managed /\ rows[r].status # "none" => rows[r].by = epoch
    BY <1>0 DEF NoOldMemory, Typed, TypeOK, Row
  <2>2. QED BY <1>1, <1>9, <2>1 DEF RowSound, Claimed
<1>11. RowsStep(c) /\ rows'[r] = w /\ \A q \in Row : q # r => rows'[q] = rows[q]
  BY <1>0, <1>5, <1>8, <1>9, <1>10, RowChange
<1>12. rows'[c] = rows[c]
  BY <1>0, <1>10, <1>11 DEF Review, Row
<1>13. call'[c] = v
  BY <1>0, <1>5, <1>6 DEF Typed
<1>14. Phase(c)' /\ Copies(c)' /\ Tries(c)'
  BY <1>0, <1>7, <1>13 DEF Phase, Kinds, Copies, Tries
<1>15. Claim(c)'
  <2>1. Claimed(rows'[r]) /\ rows'[r].wrote
    BY <1>9, <1>10, <1>11
  <2>2. QED BY <1>7, <1>13, <2>1 DEF Claim, Claimed
<1>16. managed => \A s \in history' : s.by = epoch
  <2>1. SUFFICES ASSUME NEW s \in history' PROVE s.by = epoch
    OBVIOUS
  <2>2. s \in history \/ (Present(doc) /\ s = Taken(doc))
    BY <1>3, <2>1 DEF DocStep, Stays, Creates, Moves, Snaps
  <2>3. Present(doc) => Taken(doc).by = epoch
    <3>1. Present(doc) => doc # NoDoc
      BY Bounds DEF Present
    <3>2. QED BY <1>0, <3>1 DEF NoOldMemory, Taken
  <2>4. QED BY <1>0, <2>2, <2>3 DEF NoOldMemory
<1>17. reviewed' \subseteq SUBSET Piece /\ faults' \in 0..MaxFault
  BY <1>0 DEF Typed, TypeOK
<1>18. QED BY <1>0, <1>3, <1>4, <1>5, <1>6, <1>11, <1>12, <1>14, <1>15, <1>16, <1>17, CallStep

\* A caller of the review that returns and decides or reopens one row.
LEMMA DecidesStep ==
  ASSUME IInv, NEW c \in Call, PromotionReverts(c) \/ FinalizePromotion(c)
                               \/ \E r \in Row : Reject(c, r)
  PROVE  IInv'
<1> USE DEF IInv
<1>0. /\ Typed /\ Story /\ epoch \in 0..MaxEpoch /\ faults \in 0..MaxFault /\ MaxFault \in Nat
      /\ call[c] \in Caller /\ call[c].tok = epoch
      /\ call[c].pc \notin {"idle", "done"} /\ End(c)
      /\ UNCHANGED <<family, managed, doc, history, epoch, was, reviewed>>
      /\ \A r \in Row : managed /\ rows[r].status # "none" => rows[r].by = epoch
      /\ \A r \in Row : RowSound(rows[r])
  BY Fields, LifecycleAssumption
     DEF PromotionReverts, FinalizePromotion, Reject, Typed, TypeOK, NoOldMemory, Review,
         Fenced, Row
<1>1. DocStep /\ (managed /\ doc' # NoDoc => doc'.by = epoch) /\ FlaggedReviewed'
  BY <1>0, UntouchedStep, FlaggedKept DEF Untouched
<1>2. RowsStep(c) /\ faults' \in 0..MaxFault
  <2>1. CASE UNCHANGED rows /\ faults' \in 0..MaxFault
    BY <2>1, RowsStay
  <2>2. CASE PromotionReverts(c)
    <3> DEFINE r == call[c].row
               w == [rows[r] EXCEPT !.status = "pending-review", !.lease = FALSE, !.again = TRUE]
    <3>1. faults' \in 0..MaxFault
      BY <1>0, <2>2 DEF PromotionReverts
    <3>2. r \in Row /\ rows[r] \in RowState
      BY <1>0, <2>2, Fields DEF PromotionReverts, CallsInv, Phase
    <3>3. CASE rows[r].status = "promoting"
      <4>1. rows' = [rows EXCEPT ![r] = w]
        BY <1>0, <2>2, <3>2, <3>3 DEF PromotionReverts, Typed
      <4>2. w \in RowState
        BY <3>2 DEF RowState, Status
      <4>3. /\ w.status = "pending-review" /\ w.again /\ w.by = rows[r].by
            /\ w.wrote <=> rows[r].wrote
        BY <3>2 DEF RowState
      <4> HIDE DEF w
      <4>4. RowSound(w) /\ Claimed(w) /\ (managed => w.by = epoch)
        BY <1>0, <3>2, <3>3, <4>3 DEF RowSound, Claimed
      <4>5. RowsStep(c)
        BY <3>2, <3>3, <4>1, <4>2, <4>3, <4>4, RowChange
      <4>6. QED BY <3>1, <4>5
    <3>4. CASE rows[r].status # "promoting"
      BY <2>1, <2>2, <3>1, <3>4 DEF PromotionReverts
    <3>5. QED BY <3>3, <3>4
  <2>3. CASE FinalizePromotion(c)
    <3> DEFINE r == call[c].row
               w == [rows[r] EXCEPT !.status = "promoted"]
    <3>1. faults' \in 0..MaxFault
      BY <1>0, <2>3 DEF FinalizePromotion
    <3>2. r \in Row /\ rows[r] \in RowState /\ rows[r].wrote
      BY <1>0, <2>3, Fields DEF FinalizePromotion, CallsInv, Phase, Claim
    <3>3. CASE rows[r].status = "promoting"
      <4>1. rows' = [rows EXCEPT ![r] = w]
        BY <1>0, <2>3, <3>2, <3>3 DEF FinalizePromotion, Typed
      <4>2. w \in RowState
        BY <3>2 DEF RowState, Status
      <4>3. w.status = "promoted" /\ w.by = rows[r].by /\ (w.wrote <=> rows[r].wrote)
        BY <3>2 DEF RowState
      <4> HIDE DEF w
      <4>4. RowSound(w) /\ Claimed(w) /\ (managed => w.by = epoch)
        BY <1>0, <3>2, <3>3, <4>3 DEF RowSound, Claimed
      <4>5. RowsStep(c)
        BY <3>2, <3>3, <4>1, <4>2, <4>3, <4>4, RowChange
      <4>6. QED BY <3>1, <4>5
    <3>4. CASE rows[r].status # "promoting"
      BY <2>1, <2>3, <3>1, <3>4 DEF FinalizePromotion
    <3>5. QED BY <3>3, <3>4
  <2>4. ASSUME NEW r \in Row, Reject(c, r)
        PROVE  RowsStep(c) /\ faults' \in 0..MaxFault
    <3> DEFINE may == rows[r].status = "promoting"
               w == [rows[r] EXCEPT !.status = "rejected", !.lease = FALSE,
                                    !.may = may, !.by = call[c].tok]
    <3>1. faults' \in 0..MaxFault /\ Claimable(r) /\ rows[r] \in RowState
      BY <1>0, <2>4, Fields DEF Reject
    <3>2. rows' = [rows EXCEPT ![r] = w]
      BY <1>0, <2>4 DEF Reject, Typed
    <3>3. may \in BOOLEAN /\ call[c].tok \in 0..MaxEpoch
      BY <1>0
    <3>4. w \in RowState /\ w.status = "rejected" /\ w.by = epoch
      <4> HIDE DEF may
      <4>1. QED BY <1>0, <3>1, <3>3 DEF RowState, Status
    <3>5. (w.wrote <=> rows[r].wrote) /\ (w.again <=> rows[r].again)
      <4> HIDE DEF may
      <4>1. QED BY <3>1 DEF RowState
    <3>6. w.may <=> rows[r].status = "promoting"
      <4>1. w.may <=> may
        <5> HIDE DEF may
        <5>1. QED BY <3>1, <3>3 DEF RowState
      <4>2. QED BY <4>1
    <3> HIDE DEF w
    <3>7. RowSound(w) /\ (Claimed(rows[r]) => Claimed(w)) /\ rows[r].status # "none"
      BY <1>0, <3>1, <3>4, <3>5, <3>6 DEF RowSound, Claimed, Claimable
    <3>8. RowsStep(c)
      BY <3>2, <3>4, <3>5, <3>7, RowChange
    <3>9. QED BY <3>1, <3>8
  <2>5. QED BY <2>2, <2>3, <2>4
<1>3. QED BY <1>0, <1>1, <1>2, Ended

-----------------------------------------------------------------------------
(***************************************************************************)
(* Time and erasure.                                                       *)
(***************************************************************************)
\* A lease that lapses changes no decision.
LEMMA LapseStep ==
  ASSUME IInv, NEW r \in Row, LeaseLapses(r)
  PROVE  IInv'
<1> USE DEF IInv
<1> DEFINE w == [rows[r] EXCEPT !.lease = FALSE]
<1>0. /\ Typed /\ rows[r] \in RowState /\ rows[r].status = "promoting"
      /\ UNCHANGED <<family, managed, doc, history, call, epoch, faults, was, reviewed>>
      /\ managed => rows[r].by = epoch
  BY Fields DEF LeaseLapses, NoOldMemory, Typed, TypeOK, Row
<1>1. rows' = [rows EXCEPT ![r] = w]
  BY <1>0 DEF LeaseLapses, Typed
<1>2. w \in RowState
  BY <1>0 DEF RowState
<1>3. w.status = "promoting" /\ w.by = rows[r].by /\ (w.wrote <=> rows[r].wrote)
  BY <1>0 DEF RowState
<1> HIDE DEF w
<1>4. RowSound(w) /\ Claimed(w)
  BY <1>3 DEF RowSound, Claimed
<1>5. RowsStep(r) /\ rows'[r] = w /\ \A q \in Row : q # r => rows'[q] = rows[q]
  BY <1>0, <1>1, <1>2, <1>3, <1>4, RowChange
<1>6. DocStep
  BY <1>0, UntouchedStep DEF Untouched
<1>7. CallsInv'
  BY <1>0, <1>5, <1>6, OtherCalls DEF CallsInv
<1>8. Typed'
  <2>1. rows' \in [Row -> RowState]
    BY <1>5 DEF RowsStep
  <2>2. \A q \in Row : rows'[q].status \in Status
    BY <2>1 DEF RowState
  <2>3. QED BY <1>0, <2>1, <2>2 DEF Typed, TypeOK, Row, Status
<1>9. Story' /\ Races'
  BY <1>0 DEF Story, Present, Taken, Races, Landed
<1>10. NoOldMemory'
  BY <1>0, <1>5, <1>8 DEF NoOldMemory, RowsStep, Typed, TypeOK, Row
<1>11. Review'
  <2>1. \A d \in Call : rows'[d].status # "none" => call'[d].pc = "done"
    BY <1>0, <1>3, <1>5 DEF Review, Row
  <2>2. FlaggedReviewed'
    BY <1>0, FlaggedKept
  <2>3. QED BY <2>1, <2>2, <1>5 DEF Review, RowsStep
<1>12. QED BY <1>7, <1>8, <1>9, <1>10, <1>11

\* An erasure leaves no document, and no call that could still write.
LEMMA EraseStep ==
  ASSUME IInv, Erase
  PROVE  IInv'
<1> USE DEF IInv
<1>0. /\ Typed /\ Story /\ epoch \in 0..MaxEpoch /\ MaxEpoch \in Nat
      /\ managed /\ epoch' = epoch + 1 /\ epoch' \in 0..MaxEpoch
      /\ doc' = NoDoc /\ history' = {} /\ reviewed' = {} /\ NoDoc \in Doc
      /\ UNCHANGED <<family, managed, call, faults, was>>
      /\ DOMAIN rows = Row /\ rows' = [r \in Row |-> NoRow] /\ NoRow \in RowState
      /\ NoRow.status = "none" /\ NoDoc.rev = 0
  BY Fields, Bounds, LifecycleAssumption DEF Erase, Typed
<1>1. Typed'
  BY <1>0, Bounds DEF Typed, TypeOK, Row, NoRow
<1>2. Story'
  BY <1>0 DEF Story
<1>3. NoOldMemory'
  BY <1>0 DEF NoOldMemory
<1>4. CallsInv'
  <2>1. ASSUME NEW c \in Call PROVE (Phase(c) /\ Copies(c) /\ Tries(c) /\ Claim(c))'
    <3>1. Phase(c) /\ Copies(c) /\ call[c] \in Caller /\ call[c].tok \in Nat
      BY <1>0, Fields, CallerFields DEF CallsInv
    <3>2. Phase(c)'
      BY <1>0, <3>1 DEF Phase, Kinds
    <3>3. call[c].pc # "idle" => ~ Fenced(c)'
      BY <1>0, <3>1 DEF Phase, Fenced
    <3>4. call[c].pc \notin {"read", "swap"}
      BY <1>0, <3>1 DEF Phase
    <3>5. QED BY <1>0, <3>2, <3>3, <3>4 DEF Copies, Tries, Claim
  <2>2. QED BY <2>1 DEF CallsInv
<1>5. Races'
  BY <1>0 DEF Races
<1>6. Review'
  <2>1. NoDoc.val \cap Bad = {}
    BY DEF NoDoc
  <2>2. QED BY <1>0, <2>1 DEF Review, FlaggedReviewed, RowSound, Row
<1>7. QED BY <1>1, <1>2, <1>3, <1>4, <1>5, <1>6
-----------------------------------------------------------------------------
(***************************************************************************)
(* The invariant.                                                          *)
(***************************************************************************)
\* It holds at the start.
LEMMA InitInv == Init => IInv
<1> SUFFICES ASSUME Init PROVE IInv
  OBVIOUS
<1> DEFINE seed == [NoRow EXCEPT !.status = "pending-review", !.cand = Bad]
<1>0. /\ NoDoc \in Doc /\ NoRow \in RowState /\ NoCall \in Caller /\ 0 \in 0..MaxEpoch
      /\ 0 \in 0..MaxFault /\ NoDoc.rev = 0 /\ NoRow.status = "none" /\ Bad \subseteq Piece
  BY Bounds, LifecycleAssumption
<1>1. call = [c \in Call |-> NoCall] /\ doc = NoDoc /\ history = {} /\ was = {} /\ reviewed = {}
      /\ epoch = 0 /\ faults = 0
  BY DEF Init
<1>2. seed \in RowState
  BY <1>0 DEF RowState, Status
<1>3. seed.status = "pending-review" /\ ~ seed.wrote /\ seed.by = 0
  BY DEF NoRow
<1>4. \A r \in Row : rows[r] = NoRow \/ (r = Seed /\ rows[r] = seed)
  BY DEF Init, Row
<1>5. rows \in [Row -> RowState]
  <2>1. rows = [r \in Row |-> IF r = Seed /\ managed /\ family = "structured"
                              THEN seed ELSE NoRow]
    BY DEF Init, Row
  <2> HIDE DEF seed
  <2>2. QED BY <1>0, <1>2, <2>1
<1> HIDE DEF seed
<1>6. Typed
  <2>1. \A r \in Row : rows[r].status \in Status
    BY <1>5 DEF RowState
  <2>2. \A c \in Call : call[c].copy \in Doc /\ call[c].try \in 1..MAX_REVISION_CAS_ATTEMPTS
    BY <1>0, <1>1, CallerFields DEF MAX_REVISION_CAS_ATTEMPTS
  <2>3. QED BY <1>0, <1>1, <1>5, <2>1, <2>2 DEF Typed, TypeOK, Init, Row, Status
<1>7. Story
  <2>1. {w.gen : w \in was} = {}
    BY <1>1
  <2>2. QED BY <1>0, <1>1, <2>1, FS_EmptySet DEF Story
<1>8. NoOldMemory
  BY <1>1, <1>3, <1>4 DEF NoOldMemory, Init, NoRow, Row
<1>9. CallsInv
  BY <1>1 DEF CallsInv, Phase, Copies, Tries, Claim, NoCall
<1>10. Races
  <2>1. Cardinality(Landed) \in Nat
    BY LifecycleAssumption, FS_Subset, FS_CardinalityType DEF Landed
  <2>2. QED BY <1>0, <1>1, <2>1 DEF Races
<1>11. Review
  <2>1. \A r \in Row : RowSound(rows[r])
    BY <1>0, <1>3, <1>4 DEF RowSound
  <2>2. \A c \in Call : rows[c].status = "none"
    BY <1>0, <1>4, LifecycleAssumption DEF Row
  <2>3. doc.val \cap Bad = {}
    BY <1>1 DEF NoDoc
  <2>4. QED BY <2>1, <2>2, <2>3 DEF Review, FlaggedReviewed
<1>12. QED BY <1>6, <1>7, <1>8, <1>9, <1>10, <1>11 DEF IInv

\* The steps of a caller, by what they need.
CallerStep(c) ==
  \/ Refused(c) \/ PatchReads(c) \/ Prepare(c) \/ BareRead(c) \/ ReviewRefused(c) \/ Crash(c)
  \/ ManagedWrite(c)
  \/ ManagedInvalidate(c) \/ Contradicted(c) \/ ManagedConfirm(c) \/ Outcome(c)
  \/ BareSnapshot(c) \/ BareSwap(c) \/ LoseRace(c)
  \/ PromotedWrite(c) \/ PromotionReverts(c) \/ FinalizePromotion(c)

\* A step is a caller's, a lapse of time or an erasure.
LEMMA StepCases ==
  ASSUME IInv, Next
  PROVE  \/ \E c \in Call, k \in Kinds, p \in Piece : Start(c, k, p)
         \/ \E c \in Call : CallerStep(c)
         \/ \E c \in Call, r \in Row : ClaimPromotion(c, r) \/ Reject(c, r)
         \/ \E r \in Row : LeaseLapses(r)
         \/ Erase
<1>1. DOMAIN rows = Row
  BY DEF IInv, Typed
<1>2. QED BY <1>1 DEF Next, CallerStep

\* Every step keeps it.
LEMMA NextInv == IInv /\ [Next]_vars => IInv'
<1> SUFFICES ASSUME IInv, [Next]_vars PROVE IInv'
  OBVIOUS
<1>1. CASE UNCHANGED vars
  <2>1. Typed' /\ Story' /\ NoOldMemory'
    BY <1>1 DEF vars, IInv, Typed, TypeOK, Story, Present, Taken, NoOldMemory
  <2>2. \A c \in Call : BareDecision(c)' = BareDecision(c)
    BY <1>1 DEF vars, BareDecision, EntryOf, Entry, Decision, HasChanged
  <2>3. CallsInv'
    BY <1>1, <2>2 DEF vars, IInv, CallsInv, Phase, Kinds, Copies, Supersedes, Current, Present,
                      Taken, Fenced, Tries, Claim, Claimed
  <2>4. Races' /\ Review'
    BY <1>1 DEF vars, IInv, Races, Landed, Review, RowSound, FlaggedReviewed
  <2>5. QED BY <2>1, <2>3, <2>4 DEF IInv
<1>2. CASE Next
  <2>1. CASE \E c \in Call, k \in Kinds, p \in Piece : Start(c, k, p)
    BY <2>1, StartStep
  <2>2. ASSUME NEW c \in Call, CallerStep(c) PROVE IInv'
    BY <2>2, QuietSteps, ManagedWriteStep, FencedSteps, BareSnapshotStep, SwapSteps,
       PromotedWriteStep, DecidesStep DEF CallerStep
  <2>3. ASSUME NEW c \in Call, NEW r \in Row, ClaimPromotion(c, r) \/ Reject(c, r) PROVE IInv'
    BY <2>3, ClaimStep, DecidesStep
  <2>4. ASSUME NEW r \in Row, LeaseLapses(r) PROVE IInv'
    BY <2>4, LapseStep
  <2>5. CASE Erase
    BY <2>5, EraseStep
  <2>6. QED BY <1>2, <2>1, <2>2, <2>3, <2>4, <2>5, StepCases
<1>3. QED BY <1>1, <1>2

\* The document, its history, the callers and the review are consistent in every state.
THEOREM Invariance == Spec => []IInv
<1>1. QED BY InitInv, NextInv, PTL DEF Spec

-----------------------------------------------------------------------------
(***************************************************************************)
(* What the runs check, for every value of the constants.                  *)
(***************************************************************************)
\* Every revision before the current one has exactly one row, which says what that revision
\* said, a caller gives up only after three others landed, and nothing of an erased epoch is
\* there.
THEOREM HistoryIsComplete == Spec => []HistoryComplete
<1>1. ASSUME IInv PROVE HistoryComplete
  <2>0. Typed /\ Story /\ NoOldMemory /\ doc.rev \in Nat
    BY <1>1, Fields DEF IInv
  <2>1. ASSUME NEW k \in 1 .. doc.rev - 1
        PROVE  /\ Cardinality({s \in history : s.gen = doc.gen /\ s.rev = k}) = 1
               /\ {s \in history : s.gen = doc.gen /\ s.rev = k} \subseteq was
    <3>1. PICK s \in history : s.rev = k
      BY <2>0 DEF Story
    <3>2. {t \in history : t.gen = doc.gen /\ t.rev = k} = {s}
      BY <2>0, <3>1 DEF Story
    <3>3. s \in was
      BY <2>0 DEF Story
    <3>4. QED BY <3>2, <3>3, FS_Singleton
  <2>2. ASSUME NEW c \in Call, call[c].pc = "raced"
        PROVE  Cardinality({o \in Call : call[o].pc = "done"}) >= MAX_REVISION_CAS_ATTEMPTS
    <3>1. ~ managed /\ MAX_REVISION_CAS_ATTEMPTS <= doc.rev
      BY <1>1, <2>2 DEF IInv, CallsInv, Phase, Tries
    <3>2. doc.rev <= Cardinality(Landed) /\ Cardinality(Landed) \in Nat
      BY <1>1, <3>1, LifecycleAssumption, FS_Subset, FS_CardinalityType DEF IInv, Races, Landed
    <3>3. QED BY <2>0, <3>1, <3>2 DEF Landed, MAX_REVISION_CAS_ATTEMPTS
  <2>3. QED BY <2>0, <2>1, <2>2 DEF HistoryComplete, RevisionsRecorded
<1>2. QED BY <1>1, Invariance, PTL
\* A step of a caller leaves the other callers alone.
LEMMA OneCaller ==
  ASSUME Typed, NEW c \in Call, NEW d \in Call, d # c,
         \/ CallerStep(c)
         \/ \E k \in Kinds, p \in Piece : Start(c, k, p)
         \/ \E r \in Row : ClaimPromotion(c, r) \/ Reject(c, r)
  PROVE  call'[d] = call[d]
<1>0. call \in [Call -> Caller]
  BY DEF Typed
<1>1. CASE End(c)
  BY <1>0, <1>1 DEF End
<1>2. CASE \E k \in Kinds, p \in Piece : Start(c, k, p)
  BY <1>0, <1>2 DEF Start
<1>3. CASE \E r \in Row : ClaimPromotion(c, r) \/ Reject(c, r)
  BY <1>0, <1>1, <1>3 DEF ClaimPromotion, Reject
<1>4. CASE CallerStep(c) /\ ~ End(c)
  <2>1. PatchReads(c) \/ Prepare(c) \/ BareRead(c) \/ BareSnapshot(c) \/ LoseRace(c) \/ PromotedWrite(c)
    BY <1>4 DEF CallerStep, Refused, ReviewRefused, Crash, ManagedWrite, ManagedInvalidate,
                Contradicted, ManagedConfirm, Outcome, BareSwap, PromotionReverts, FinalizePromotion
  <2>2. CASE PatchReads(c) \/ Prepare(c) \/ BareRead(c)
    BY <1>0, <1>4, <2>2 DEF PatchReads, Prepare, BareRead
  <2>3. CASE BareSnapshot(c) \/ PromotedWrite(c)
    BY <1>0, <2>3 DEF BareSnapshot, PromotedWrite
  <2>4. CASE LoseRace(c)
    BY <1>0, <2>4 DEF LoseRace
  <2>5. QED BY <2>1, <2>2, <2>3, <2>4
<1>5. QED BY <1>1, <1>2, <1>3, <1>4

\* A copy as new as the document says what the document says.
LEMMA CopySays ==
  ASSUME NEW d, Current(d), d.rev = doc.rev
  PROVE  d.val = doc.val /\ d.state = doc.state /\ d.ids = doc.ids
<1>1. Taken(d) = Taken(doc) /\ d.ids = doc.ids
  BY DEF Current
<1>2. QED BY <1>1, TakenEqual

\* A patch either changes nothing or lands on the revision it was built from, and then it
\* takes nothing back and the document was active.
LEMMA PatchLands ==
  ASSUME IInv, NEW c \in Call, ManagedWrite(c), call[c].kind = "patch"
  PROVE  \/ doc' = doc
         \/ doc'.val = doc.val /\ doc'.ids = doc.ids /\ doc.state = "active"
<1> USE DEF IInv
<1> DEFINE x == call[c]
           e == EntryOf(c)
           d == Decision(doc, e, {}, x.copy.rev)
<1>0. /\ Typed /\ Story /\ x \in Caller /\ x.pc = "ready" /\ Fenced(c) /\ Copies(c)
      /\ doc \in Doc /\ x.tok \in 0..MaxEpoch /\ x.copy.rev \in Nat /\ x.copy.ids \in SUBSET Call
  BY Fields, CallerFields DEF ManagedWrite, CallsInv
<1>1. e = Entry(x.copy.val, x.copy.ids, c) /\ e \in EntryType
  BY <1>0, EntryTyped DEF EntryOf
<1>2. CASE Flagged(e.val)
  BY <1>2 DEF ManagedWrite, Untouched
<1>3. CASE ~ Flagged(e.val)
  <2>1. Apply(d, e, x.tok)
    BY <1>3 DEF ManagedWrite
  <2>2. CASE x.copy.rev # doc.rev \/ doc = NoDoc
    <3>1. d = "conflict"
      BY <1>0, <2>2, Bounds DEF Decision
    <3>2. QED BY <2>1, <3>1 DEF Apply
  <2>3. CASE x.copy.rev = doc.rev /\ doc # NoDoc
    <3>1. Current(x.copy) /\ x.copy.state = "active"
      BY <1>0 DEF Copies
    <3>2. x.copy.val = doc.val /\ doc.state = "active" /\ x.copy.ids = doc.ids
      BY <2>3, <3>1, CopySays
    <3>3. d \in {"supersede", "reinforce", "unchanged", "conflict"}
      BY <2>3 DEF Decision
    <3>4. CASE d = "supersede"
      <4>1. doc' = Superseding(doc, e, x.tok)
        BY <2>1, <3>4 DEF Apply
      <4>2. doc'.val = e.val /\ doc'.ids = doc.ids \cup e.ids
        BY <1>0, <1>1, <4>1, NextRevision
      <4>3. QED BY <1>1, <3>2, <4>2 DEF Entry
    <3>5. CASE d = "reinforce"
      <4>1. doc' = [doc EXCEPT !.count = @ + 1, !.by = x.tok]
        BY <2>1, <3>5 DEF Apply
      <4>2. doc'.val = doc.val /\ doc'.ids = doc.ids
        BY <1>0, <4>1 DEF Doc
      <4>3. QED BY <3>2, <4>2
    <3>6. CASE d \in {"unchanged", "conflict"}
      BY <2>1, <3>6 DEF Apply
    <3>7. QED BY <3>3, <3>4, <3>5, <3>6
  <2>4. QED BY <2>2, <2>3
<1>4. QED BY <1>2, <1>3

\* A caller that patches, confirms or judges leaves an invalidated document alone.
LEMMA StaysDown ==
  ASSUME IInv, NEW c \in Call, CallerStep(c), doc.state = "invalidated",
         call[c].kind \in {"patch", "confirm", "contradict"}
  PROVE  doc' = doc
<1> USE DEF IInv
<1>1. CASE UNCHANGED doc
  BY <1>1
<1>2. CASE ManagedWrite(c)
  <2>1. call[c].kind = "patch"
    BY <1>2 DEF ManagedWrite
  <2>2. QED BY <1>2, <2>1, PatchLands
<1>3. CASE ManagedConfirm(c)
  BY <1>3 DEF ManagedConfirm, IsFresh
<1>4. CASE Contradicted(c)
  BY <1>4 DEF Contradicted, Untouched
<1>5. CASE BareSwap(c)
  <2>1. call[c].pc = "swap" /\ Copies(c) /\ Phase(c) /\ call[c].kind = "confirm"
    BY <1>5, BareCopy DEF BareSwap, CallsInv
  <2>2. call[c].copy.state = "active" /\ Current(call[c].copy)
    BY <2>1 DEF Copies
  <2>3. doc' = doc \/ call[c].copy.rev = doc.rev
    BY <1>5, Swapped
  <2>4. QED BY <2>2, <2>3, CopySays
<1>6. CASE ManagedInvalidate(c) \/ Outcome(c) \/ PromotedWrite(c)
  <2>1. call[c].kind \in {"invalidate", "outcome"} \/ call[c].pc = "claimed"
    BY <1>6 DEF ManagedInvalidate, Outcome, PromotedWrite
  <2>2. QED BY <2>1, Reviewer
<1>7. CASE \/ Refused(c) \/ PatchReads(c) \/ Prepare(c) \/ BareRead(c) \/ ReviewRefused(c)
           \/ Crash(c) \/ BareSnapshot(c) \/ LoseRace(c)
           \/ PromotionReverts(c) \/ FinalizePromotion(c)
  BY <1>7 DEF Refused, PatchReads, Prepare, BareRead, ReviewRefused, Crash, BareSnapshot,
              LoseRace, PromotionReverts, FinalizePromotion
<1>8. QED BY <1>2, <1>3, <1>4, <1>5, <1>6, <1>7 DEF CallerStep

\* A caller that waits with a copy writes nothing but its patch or its verdict.
LEMMA ReadyWrites ==
  ASSUME NEW c \in Call, CallerStep(c), call[c].pc = "ready"
  PROVE  \/ doc' = doc
         \/ ManagedWrite(c) /\ call[c].kind = "patch"
         \/ Contradicted(c)
  BY DEF CallerStep, Refused, PatchReads, Prepare, BareRead, ReviewRefused, Crash, ManagedWrite,
         ManagedInvalidate, ManagedConfirm, Outcome, BareSnapshot, BareSwap, LoseRace,
         PromotedWrite, PromotionReverts, FinalizePromotion

\* The caller that ended in a step is the one that took it.
LEMMA EndedIsActor ==
  ASSUME IInv, Next, NEW c \in Call, call'[c] # call[c], call'[c].pc = "done"
  PROVE  CallerStep(c) \/ (doc' = doc /\ call[c].pc = "begin")
<1>0. Typed
  BY DEF IInv
<1>1. CASE \E d \in Call, k \in Kinds, p \in Piece : Start(d, k, p)
  <2>1. PICK d \in Call, k \in Kinds, p \in Piece : Start(d, k, p)
    BY <1>1
  <2>2. d = c
    BY <1>0, <2>1, OneCaller
  <2>3. call'[c].pc = "begin"
    BY <1>0, <2>1, <2>2 DEF Start, NoCall, Typed
  <2>4. QED BY <2>3
<1>2. CASE \E d \in Call : CallerStep(d)
  BY <1>0, <1>2, OneCaller
<1>3. CASE \E d \in Call, r \in Row : ClaimPromotion(d, r) \/ Reject(d, r)
  <2>1. PICK d \in Call, r \in Row : ClaimPromotion(d, r) \/ Reject(d, r)
    BY <1>3
  <2>2. d = c
    BY <1>0, <2>1, OneCaller
  <2>3. QED BY <2>1, <2>2 DEF ClaimPromotion, Reject
<1>4. CASE (\E r \in Row : LeaseLapses(r)) \/ Erase
  BY <1>4 DEF LeaseLapses, Erase
<1>5. QED BY <1>1, <1>2, <1>3, <1>4, StepCases

\* A patch never takes back a value written meanwhile, a verdict retires only what was
\* judged, and an invalidated fact comes back only by a new write of its content.
THEOREM NothingIsLost == Spec => NoLostUpdate
<1>1. ASSUME IInv, Next PROVE PatchesWhatItRead
  <2>1. ASSUME NEW c \in Call, call[c].kind = "patch", call[c].pc = "ready",
               call'[c].pc = "done", doc' # doc
        PROVE  doc'.val = doc.val /\ doc'.ids = doc.ids
    <3>1. CallerStep(c)
      BY <1>1, <2>1, EndedIsActor
    <3>2. ManagedWrite(c) \/ Contradicted(c)
      BY <2>1, <3>1, ReadyWrites
    <3>3. ManagedWrite(c)
      BY <2>1, <3>2 DEF Contradicted
    <3>4. QED BY <1>1, <2>1, <3>3, PatchLands
  <2>2. ASSUME NEW c \in Call, call[c].kind = "contradict", call[c].pc = "ready",
               doc'.state # doc.state, call'[c].pc = "done"
        PROVE  doc.val = call[c].copy.val
    <3>1. CallerStep(c)
      BY <1>1, <2>2, EndedIsActor
    <3>2. Contradicted(c)
      BY <2>2, <3>1, ReadyWrites
    <3>3. QED BY <2>2, <3>2 DEF Contradicted, Untouched
  <2>3. QED BY <2>1, <2>2 DEF PatchesWhatItRead
<1>2. ASSUME IInv, Next PROVE InvalidatedStaysDown
  <2>1. ASSUME NEW c \in Call, doc.state = "invalidated",
               call[c].kind \in {"patch", "confirm", "contradict"},
               call'[c] # call[c], call'[c].pc = "done"
        PROVE  doc' = doc
    BY <1>2, <2>1, EndedIsActor, StaysDown
  <2>2. QED BY <2>1 DEF InvalidatedStaysDown
<1>3. ASSUME UNCHANGED vars PROVE PatchesWhatItRead /\ InvalidatedStaysDown
  BY <1>3 DEF vars, PatchesWhatItRead, InvalidatedStaysDown
<1>4. QED BY <1>1, <1>2, <1>3, Invariance, PTL DEF Spec, NoLostUpdate

\* A row that was decided is not decided again before an erasure.
LEMMA DecidedStays ==
  ASSUME IInv, Next, NEW r \in Row, rows[r].status \in {"promoted", "rejected"}, epoch' = epoch
  PROVE  rows'[r].status = rows[r].status
<1> USE DEF IInv
<1>0. Typed /\ rows \in [Row -> RowState] /\ epoch \in Nat
  BY Fields, LifecycleAssumption DEF Typed
<1>1. CASE \E c \in Call, k \in Kinds, p \in Piece : Start(c, k, p)
  BY <1>1 DEF Start
<1>2. ASSUME NEW c \in Call, CallerStep(c) PROVE rows'[r].status = rows[r].status
  <2>1. CASE UNCHANGED rows
    BY <2>1
  <2>2. CASE ManagedWrite(c)
    <3>1. rows[c].status = "none"
      BY <2>2 DEF ManagedWrite, Review
    <3>2. r # c
      BY <1>2, <3>1
    <3>3. UNCHANGED rows \/ Quarantine(c, EntryOf(c).val)
      BY <2>2 DEF ManagedWrite
    <3>4. QED BY <1>0, <3>2, <3>3 DEF Quarantine
  <2>3. CASE PromotedWrite(c)
    <3>1. /\ rows' = [rows EXCEPT ![call[c].row].wrote = TRUE] /\ call[c].row \in Row
          /\ rows[r] \in RowState
      BY <1>0, <2>3 DEF PromotedWrite, CallsInv, Phase
    <3>2. CASE r # call[c].row
      BY <1>0, <3>1, <3>2
    <3>3. CASE r = call[c].row
      <4>1. rows'[r] = [rows[r] EXCEPT !.wrote = TRUE]
        BY <1>0, <3>1, <3>3
      <4>2. QED BY <3>1, <4>1 DEF RowState
    <3>4. QED BY <3>2, <3>3
  <2>4. CASE PromotionReverts(c) \/ FinalizePromotion(c)
    BY <1>0, <1>2, <2>4 DEF PromotionReverts, FinalizePromotion
  <2>5. CASE \/ Refused(c) \/ PatchReads(c) \/ Prepare(c) \/ BareRead(c) \/ ReviewRefused(c)
             \/ Crash(c) \/ BareSnapshot(c) \/ BareSwap(c) \/ LoseRace(c)
             \/ ManagedInvalidate(c) \/ Contradicted(c) \/ ManagedConfirm(c) \/ Outcome(c)
    BY <2>5 DEF Refused, PatchReads, Prepare, BareRead, ReviewRefused, Crash, BareSnapshot,
                BareSwap, LoseRace, ManagedInvalidate, Contradicted, ManagedConfirm, Outcome
  <2>6. QED BY <1>2, <2>2, <2>3, <2>4, <2>5 DEF CallerStep
<1>3. ASSUME NEW c \in Call, NEW q \in Row, ClaimPromotion(c, q) \/ Reject(c, q)
      PROVE  rows'[r].status = rows[r].status
  <2>1. q # r
    BY <1>3 DEF ClaimPromotion, Reject, Claimable
  <2>2. QED BY <1>0, <1>3, <2>1 DEF ClaimPromotion, Reject
<1>4. ASSUME NEW q \in Row, LeaseLapses(q) PROVE rows'[r].status = rows[r].status
  <2>1. q # r
    BY <1>4 DEF LeaseLapses
  <2>2. QED BY <1>0, <1>4, <2>1 DEF LeaseLapses
<1>5. CASE Erase
  BY <1>0, <1>5 DEF Erase
<1>6. QED BY <1>1, <1>2, <1>3, <1>4, <1>5, StepCases

\* Flagged content is stored only once a reviewer claimed it, what is promoted was written, a
\* rejection that says nothing else left no memory, and a decision is final.
THEOREM ReviewIsSound == Spec => ReviewHolds
<1>1. IInv => ReviewSound /\ DOMAIN rows = Row
  BY DEF IInv, Review, FlaggedReviewed, RowSound, ReviewSound, Typed
<1>2. IInv /\ [Next]_vars => IInv'
  BY NextInv
<1>3. ASSUME IInv, IInv', [Next]_vars
      PROVE  [/\ ReviewSound'
              /\ \A r \in DOMAIN rows :
                   rows[r].status \in {"promoted", "rejected"} /\ epoch' = epoch
                     => rows'[r].status = rows[r].status]_vars
  <2>1. ReviewSound'
    BY <1>3 DEF IInv, Review, FlaggedReviewed, RowSound, ReviewSound, Typed
  <2>2. CASE UNCHANGED vars
    BY <2>2
  <2>3. CASE Next
    BY <1>1, <1>3, <2>1, <2>3, DecidedStays
  <2>4. QED BY <1>3, <2>2, <2>3
<1>4. QED BY <1>2, <1>3, Invariance, PTL DEF Spec, ReviewHolds
=============================================================================
