-------------------------- MODULE BatchWriteProofs --------------------------
(***************************************************************************)
(* BatchWrite for any batches, rivals and erasures: the answers to a batch *)
(* and what an erasure leaves of it.                                       *)
(*                                                                         *)
(* The receipts are given long after their items were read, so the         *)
(* invariant says what may be stored of the items that have none: nothing  *)
(* while rounds go on, and of a group whose commit is unknown its leader   *)
(* (Unstored).  That an item gets one answer needs that it is in one group *)
(* (Grouped); that the answer is true, that the transaction of an open     *)
(* round keeps the gate and what it read (Reading).                        *)
(***************************************************************************)
EXTENDS BatchWrite, WellFoundedInduction, TLAPS

\* Nothing of the batch exists, and no item is answered.
Nothing == /\ Ids \cap Item = {} /\ staged = {} /\ marked = {} /\ projected = {}
           /\ resolve = {} /\ \A i \in Item : receipts[i].out = "none"

Typed == TypeOK /\ BatchConstants

\* The admission is not ahead of the gate and, once the gate is taken, over.
Admitted == adm <= gate.epoch /\ (IsErasing(gate) => adm < gate.epoch)

\* No item is in two groups, and a group has one key.
Grouped ==
  /\ insert \cap resolve = {}
  /\ \A g, h \in insert \cup resolve : g # h => g \cap h = {}
  /\ \A g \in insert \cup resolve : \A i, j \in g : batch[i].key = batch[j].key

\* What a group without a receipt has stored: nothing, or its leader when the
\* commit is unknown.
Unstored ==
  /\ pc = "new" => Nothing
  /\ pc \in {"round", "insert"} => Members(insert \cup resolve) \cap Ids = {}
  /\ pc = "reconcile" => \A g \in insert : g \cap Ids \subseteq {Min(g)}

\* The transaction of an open round keeps the gate, and what it read, but for the
\* rival's event.
Reading ==
  pc = "insert" => Current /\ \A e \in view : e \in stored \/ e.id = Rival

\* A receipt of success names an event with the item's key and payload.
Named(i, id, events) ==
  \/ \E e \in events : e.id = id /\ e.body = batch[i].body /\ e.key = batch[i].key
  \/ id = Rival

Truthful ==
  pc # "new" /\ Current =>
    \A i \in Item : receipts[i].out \in {"ok", "replayed"} => Named(i, receipts[i].id, stored)

Released == pc = "clear" => staged \cap written = {}

IInv == /\ Typed /\ Admitted /\ Grouped /\ Unstored /\ Reading /\ Truthful /\ Released
        /\ NoItemForgotten /\ FailuresLeaveNothing /\ StagedMarked /\ ErasedBatchGone
-----------------------------------------------------------------------------
(***************************************************************************)
(* Groups and receipts.                                                    *)
(***************************************************************************)
\* The variables' types, one by one.
LEMMA Types ==
  ASSUME Typed
  PROVE  /\ gate \in Gate /\ batch \in Batch /\ stored \subseteq Event /\ view \subseteq Event
         /\ staged \subseteq Item /\ marked \subseteq Item /\ projected \subseteq Item
         /\ written \subseteq Item /\ adm \in Nat /\ needsFence \in BOOLEAN
         /\ insert \subseteq (SUBSET Item) \ {{}} /\ resolve \subseteq (SUBSET Item) \ {{}}
         /\ receipts \in [Item -> Receipt]
         /\ gate.epoch \in Nat
         /\ Item \subseteq Nat \ {0} /\ Rival \notin Item /\ MaxEpoch \in Nat
         /\ \A i \in Item : batch[i].key \in Key \cup {NoKey} /\ batch[i].body \in Body
<1> DEFINE Sent == [key : Key \cup {NoKey}, body : Body,
                    kind : {"good", "unbuildable", "invalid"}]
<1>0. batch \in [Item -> Sent]
  BY DEF Typed, TypeOK, BatchConstants
<1>1. \A i \in Item : batch[i].key \in Key \cup {NoKey} /\ batch[i].body \in Body
  BY <1>0
<1>2. gate.epoch \in Nat
  BY DEF Typed, TypeOK, Gate
<1>3. QED BY <1>1, <1>2, EpochBoundAssumption DEF Typed, TypeOK, BatchConstants

\* A non-empty group has a leader.
LEMMA Leader ==
  ASSUME Item \subseteq Nat, NEW g \in (SUBSET Item) \ {{}}
  PROVE  Min(g) \in g
<1> DEFINE R == {p \in Nat \X Nat : p[1] < p[2]}
<1>1. IsWellFoundedOn(R, Nat)
  BY NatLessThanWellFounded DEF OpToRel
<1>2. PICK x \in g : \A y \in g : ~ (<<y, x>> \in R)
  <2>1. g \subseteq Nat /\ g # {}
    OBVIOUS
  <2> HIDE DEF R
  <2>2. QED BY <1>1, <2>1, WFMin
<1>3. ASSUME NEW y \in g
      PROVE  x <= y
  <2>1. x \in Nat /\ y \in Nat /\ <<y, x>> \notin R
    BY <1>2
  <2>2. QED BY <2>1
<1>4. QED BY <1>3 DEF Min

\* The document an item becomes.
LEMMA DocFields ==
  ASSUME NEW i
  PROVE  Doc(i).id = i /\ Doc(i).key = batch[i].key /\ Doc(i).body = batch[i].body
BY DEF Doc

\* The items of a round are the items of its groups, and have their documents.
LEMMA MembersAreItems ==
  ASSUME Typed
  PROVE  /\ Members(insert \cup resolve) \subseteq Item /\ Members(insert) \subseteq Item
         /\ \A g \in insert \cup resolve : Min(g) \in g /\ g \subseteq Item
         /\ \A i \in Item : Doc(i) \in Event
<1>1. \A g \in insert \cup resolve : g \in (SUBSET Item) \ {{}}
  BY Types
<1>2. \A g \in insert \cup resolve : Min(g) \in g
  BY <1>1, Leader, Types
<1>3. \A i \in Item : Doc(i) \in Event
  BY Types DEF Doc, Event
<1>4. QED BY <1>1, <1>2, <1>3 DEF Members

\* An item is in one group.
LEMMA OneGroup ==
  ASSUME Grouped, NEW groups \in SUBSET (insert \cup resolve), NEW g \in groups, NEW i \in g
  PROVE  (CHOOSE h \in groups : i \in h) = g
<1>1. \A h \in groups : i \in h => h = g
  BY DEF Grouped
<1>2. QED BY <1>1

\* The answer against an event says that it conflicts, or names it.
LEMMA AgainstReceipt ==
  ASSUME NEW e \in Event, NEW i \in Item
  PROVE  /\ Against(i, e) \in Receipt /\ Against(i, e).out \in {"replayed", "conflict"}
         /\ Against(i, e).out = "replayed" => Against(i, e).id = e.id /\ e.body = batch[i].body
BY DEF Against, Says, Receipt, Event

\* The answer from an inserted group conflicts for no leader, and names the leader.
LEMMA InsertedReceipt ==
  ASSUME Typed, Grouped, NEW g \in insert, NEW i \in g
  PROVE  /\ Inserted(g, i) \in Receipt
         /\ Inserted(g, i).out \in {"ok", "replayed", "conflict"}
         /\ i = Min(g) => Inserted(g, i).out = "ok"
         /\ Inserted(g, i).out \in {"ok", "replayed"} =>
              Named(i, Inserted(g, i).id, {Doc(Min(g))})
<1>1. Min(g) \in g /\ Min(g) \in Item /\ i \in Item /\ Doc(Min(g)) \in Event
  BY MembersAreItems
<1>2. batch[Min(g)].key = batch[i].key
  BY <1>1 DEF Grouped
<1>3. CASE i = Min(g)
  <2>1. Inserted(g, i) = Says("ok", i)
    BY <1>3 DEF Inserted
  <2>2. Says("ok", i) \in Receipt /\ Says("ok", i).out = "ok" /\ Says("ok", i).id = i
    BY <1>1 DEF Says, Receipt
  <2>3. Named(i, i, {Doc(Min(g))})
    BY <1>3, DocFields DEF Named
  <2>4. QED BY <2>1, <2>2, <2>3
<1>4. CASE i # Min(g)
  <2>1. Inserted(g, i) = Against(i, Doc(Min(g)))
    BY <1>4 DEF Inserted
  <2>2. Against(i, Doc(Min(g))).out = "replayed" =>
          Named(i, Against(i, Doc(Min(g))).id, {Doc(Min(g))})
    BY <1>1, <1>2, AgainstReceipt, DocFields DEF Named
  <2>3. QED BY <1>1, <1>4, <2>1, <2>2, AgainstReceipt
<1>5. QED BY <1>3, <1>4

\* What a committing round tells an item: the truth about what is stored with it, and
\* no leader that is stored failed.
LEMMA DraftedReceipt ==
  ASSUME Typed, Grouped, NEW i \in Members(insert \cup resolve)
  PROVE  /\ Drafted(i) \in Receipt
         /\ Drafted(i).out \in {"ok", "replayed", "conflict", "unconfirmed"}
         /\ Drafted(i).out = "conflict" => i \notin Leaders(Fresh)
         /\ Drafted(i).out \in {"ok", "replayed"} =>
              Named(i, Drafted(i).id, view \cup {Doc(l) : l \in Leaders(Fresh)})
<1> DEFINE G == CHOOSE h \in insert \cup resolve : i \in h
           W == WithKey(view, KeyOf(G))
<1>1. PICK g \in insert \cup resolve : i \in g
  BY DEF Members
<1>2. G = g
  BY <1>1, OneGroup
<1>3. i \in Item /\ Min(g) \in g /\ Min(g) \in Item
  BY <1>1, MembersAreItems
<1>4. i \in Leaders(Fresh) => g \in Fresh /\ i = Min(g)
  <2> SUFFICES ASSUME i \in Leaders(Fresh)
               PROVE  g \in Fresh /\ i = Min(g)
    OBVIOUS
  <2>1. PICK h \in Fresh : i = Min(h)
    BY DEF Leaders
  <2>2. h \in insert /\ i \in h
    BY <2>1, MembersAreItems DEF Fresh
  <2>3. h = g
    BY <1>1, <2>2 DEF Grouped
  <2>4. QED BY <2>1, <2>3
<1>5. Drafted(i) = IF W # {} THEN Against(i, CHOOSE e \in W : TRUE)
                   ELSE IF G \in Fresh THEN Inserted(G, i) ELSE Says("unconfirmed", 0)
  BY DEF Drafted
<1>6. CASE W # {}
  <2> DEFINE e == CHOOSE x \in W : TRUE
  <2>1. e \in W
    BY <1>6
  <2>2. e \in view /\ e.key = batch[Min(g)].key
    BY <1>2, <2>1 DEF WithKey, KeyOf
  <2>3. e \in Event /\ e.key = batch[i].key
    BY <1>1, <1>3, <2>2, Types DEF Grouped
  <2>4. Drafted(i) = Against(i, e)
    BY <1>5, <1>6
  <2>5. g \notin Fresh
    BY <1>2, <1>6 DEF Fresh
  <2> HIDE DEF e
  <2>6. Against(i, e).out = "replayed" => Named(i, Against(i, e).id, view)
    BY <1>3, <2>2, <2>3, AgainstReceipt DEF Named
  <2>7. Against(i, e) \in Receipt /\ Against(i, e).out \in {"replayed", "conflict"}
    BY <1>3, <2>3, AgainstReceipt
  <2>8. QED BY <1>4, <2>4, <2>5, <2>6, <2>7 DEF Named
<1>7. CASE W = {} /\ g \in Fresh
  <2>1. Drafted(i) = Inserted(g, i)
    BY <1>2, <1>5, <1>7
  <2>2. g \in insert /\ Min(g) \in Leaders(Fresh)
    BY <1>7 DEF Fresh, Leaders
  <2>3. QED BY <1>1, <1>4, <2>1, <2>2, InsertedReceipt DEF Named
<1>8. CASE W = {} /\ g \notin Fresh
  <2>1. Drafted(i) = Says("unconfirmed", 0)
    BY <1>2, <1>5, <1>8
  <2>2. Says("unconfirmed", 0) \in Receipt /\ Says("unconfirmed", 0).out = "unconfirmed"
    BY DEF Says, Receipt
  <2>3. QED BY <1>4, <1>8, <2>1, <2>2
<1>9. QED BY <1>6, <1>7, <1>8
-----------------------------------------------------------------------------
(***************************************************************************)
(* The steps of the call.                                                  *)
(***************************************************************************)
\* Begin: everything has its receipt or its group.
LEMMA BeginStep ==
  ASSUME IInv, Begin
  PROVE  IInv'
<1> DEFINE bad == {i \in Item : batch[i].kind = "unbuildable"}
           rest == Item \ bad
           same(i) == IF batch[i].key = NoKey THEN {i}
                      ELSE {j \in rest : batch[j].key = batch[i].key}
<1>0. /\ pc = "new" /\ UNCHANGED <<batch, database, resolve, needsFence, view, written>>
      /\ Typed /\ Admitted /\ Nothing /\ Grouped /\ resolve = {}
      /\ \A i \in Item : receipts[i].out = "none"
  BY DEF Begin, IInv, Unstored, Nothing
<1>1. CASE ~ IsOpen(gate)
  <2>1. pc' = "refused" /\ UNCHANGED <<adm, receipts, insert>>
    BY <1>1 DEF Begin
  <2>2. Typed' /\ Admitted' /\ Grouped'
    BY <1>0, <2>1 DEF Typed, TypeOK, Admitted, Grouped, database
  <2>3. Unstored' /\ Reading' /\ Released' /\ NoItemForgotten'
    BY <2>1 DEF Unstored, Reading, Released, NoItemForgotten
  <2>4. Truthful' /\ FailuresLeaveNothing' /\ StagedMarked' /\ ErasedBatchGone'
    BY <1>0, <1>1, <2>1 DEF Truthful, Current, FailuresLeaveNothing, StagedMarked,
       ErasedBatchGone, Nothing, Ids, database
  <2>5. QED BY <2>2, <2>3, <2>4 DEF IInv
<1>2. CASE IsOpen(gate)
  <2>1. /\ pc' = "round" /\ adm' = gate.epoch /\ insert' = {same(i) : i \in rest}
        /\ receipts' = Answered(bad, LAMBDA i : Says("failed", 0))
    BY <1>2 DEF Begin, Groups
  <2>2. /\ receipts' \in [Item -> Receipt]
        /\ \A i \in Item : receipts'[i] = IF i \in bad THEN Says("failed", 0) ELSE receipts[i]
    BY <1>0, <2>1, Types DEF Answered, Says, Receipt
  <2> HIDE DEF bad
  <2>3. \A i \in rest : i \in same(i) /\ same(i) \subseteq rest
    OBVIOUS
  <2>4. insert' \subseteq (SUBSET Item) \ {{}} /\ Members(insert') = rest
    <3>1. rest \subseteq Item
      OBVIOUS
    <3> HIDE DEF rest, same
    <3>2. QED BY <2>1, <2>3, <3>1 DEF Members
  <2>5. insert' \cup resolve' = {same(i) : i \in rest}
    BY <1>0, <2>1
  <2>6. Typed'
    BY <1>0, <2>1, <2>2, <2>4, Types DEF Typed, TypeOK, database
  <2>7. Admitted' /\ Reading' /\ Released' /\ StagedMarked' /\ ErasedBatchGone'
    BY <1>0, <1>2, <2>1, Types DEF Admitted, Reading, Released, StagedMarked,
       ErasedBatchGone, Nothing, IsOpen, IsErasing, database
  <2>8. Grouped'
    <3>1. ASSUME NEW i \in rest, NEW j \in rest, same(i) # same(j)
          PROVE  same(i) \cap same(j) = {}
      <4>1. \A x \in rest : batch[x].key = NoKey => same(x) = {x}
        OBVIOUS
      <4>2. \A x \in rest : batch[x].key # NoKey =>
              same(x) = {z \in rest : batch[z].key = batch[x].key}
        OBVIOUS
      <4> HIDE DEF rest, same
      <4>3. ASSUME NEW z \in rest, NEW x \in rest, z \in same(x)
            PROVE  same(z) = same(x)
        <5>1. CASE batch[x].key = NoKey
          BY <4>1, <4>3, <5>1
        <5>2. CASE batch[x].key # NoKey
          <6>1. batch[z].key = batch[x].key
            BY <4>2, <4>3, <5>2
          <6>2. QED BY <4>2, <5>2, <6>1
        <5>3. QED BY <5>1, <5>2
      <4>4. same(i) \subseteq rest
        BY <2>3
      <4>5. QED BY <3>1, <4>3, <4>4
    <3>2. ASSUME NEW i \in rest
          PROVE  \A a, b \in same(i) : batch[a].key = batch[b].key
      OBVIOUS
    <3>3. batch' = batch
      BY <1>0
    <3>4. resolve' = {}
      BY <1>0
    <3> HIDE DEF same
    <3>5. QED BY <2>5, <3>1, <3>2, <3>3, <3>4 DEF Grouped
  <2>9. Unstored' /\ NoItemForgotten'
    <3>1. Members(insert' \cup resolve') = rest
      BY <1>0, <2>4
    <3>2. Ids' \cap Item = {}
      BY <1>0 DEF Nothing, Ids, database
    <3>3. \A i \in bad : receipts'[i].out # "none"
      BY <2>2 DEF bad, Says
    <3>4. QED BY <2>1, <3>1, <3>2, <3>3 DEF Unstored, NoItemForgotten, Members
  <2>10. Truthful' /\ FailuresLeaveNothing'
    <3>1. Ids' \cap Item = {}
      BY <1>0 DEF Nothing, Ids, database
    <3>2. \A i \in Item : receipts'[i].out \notin {"ok", "replayed"}
      BY <1>0, <2>2 DEF Says, Unstored
    <3>3. QED BY <3>1, <3>2 DEF Truthful, FailuresLeaveNothing
  <2>11. QED BY <2>6, <2>7, <2>8, <2>9, <2>10 DEF IInv
<1>3. QED BY <1>1, <1>2

\* RoundReads: the gate admits the call, and what is read is stored.
LEMMA ReadsStep ==
  ASSUME IInv, RoundReads
  PROVE  IInv'
<1>1. /\ pc = "round" /\ pc' = "insert" /\ Current
      /\ view' = UNION {WithKey(stored, KeyOf(g)) : g \in insert \cup resolve}
      /\ UNCHANGED <<batch, database, adm, insert, resolve, needsFence, receipts, written>>
  BY DEF RoundReads, AdmissionMatches, Admission, Current
<1>2. view' \subseteq stored
  BY <1>1 DEF WithKey
<1>3. Typed'
  BY <1>1, <1>2, Types DEF IInv, Typed, TypeOK, database
<1>4. Unstored' /\ Reading' /\ Grouped' /\ Admitted'
  BY <1>1, <1>2 DEF IInv, Unstored, Reading, Grouped, Admitted, Current, Members, Ids, database
<1>5. Truthful' /\ Released' /\ NoItemForgotten'
  BY <1>1 DEF IInv, Truthful, Released, NoItemForgotten, Current, Named, Members, database
<1>6. FailuresLeaveNothing' /\ StagedMarked' /\ ErasedBatchGone'
  BY <1>1 DEF IInv, FailuresLeaveNothing, StagedMarked, ErasedBatchGone, Ids, database
<1>7. QED BY <1>3, <1>4, <1>5, <1>6 DEF IInv

\* What StoreLeaders does to the data.
LEMMA StoresLeaders ==
  ASSUME IInv, pc = "insert", StoreLeaders
  PROVE  /\ Current /\ Current' = (gate.epoch = adm' /\ IsOpen(gate))
         /\ stored' \subseteq Event /\ staged' \subseteq Item /\ marked' \subseteq Item
         /\ staged' \subseteq marked' /\ UNCHANGED <<gate, projected>>
         /\ stored' = stored \cup {Doc(l) : l \in Leaders(Fresh)}
         /\ Ids' = Ids \cup Leaders(Fresh)
         /\ Leaders(Fresh) \subseteq Members(insert) /\ Leaders(Fresh) \subseteq Item
<1>1. /\ stored' = stored \cup {Doc(l) : l \in Leaders(Fresh)}
      /\ staged' = staged \cup Leaders(Fresh) /\ marked' = marked \cup Leaders(Fresh)
      /\ UNCHANGED <<gate, projected>>
  BY DEF StoreLeaders
<1>2. Leaders(Fresh) \subseteq Members(insert) /\ Leaders(Fresh) \subseteq Item
  <2>1. \A g \in Fresh : g \in insert
    BY DEF Fresh
  <2>2. \A g \in insert : Min(g) \in g /\ g \subseteq Item
    BY MembersAreItems DEF IInv
  <2>3. QED BY <2>1, <2>2 DEF Leaders, Members
<1>3. Ids' = Ids \cup Leaders(Fresh)
  <2>1. Ids' = Ids \cup {Doc(l).id : l \in Leaders(Fresh)}
    BY <1>1 DEF Ids
  <2>2. QED BY <2>1, DocFields
<1>4. stored' \subseteq Event
  BY <1>1, <1>2, MembersAreItems, Types DEF IInv
<1>5. Current /\ Current' = (gate.epoch = adm' /\ IsOpen(gate))
  BY <1>1 DEF IInv, Reading, Current
<1>6. QED BY <1>1, <1>2, <1>3, <1>4, <1>5, Types DEF IInv, StagedMarked

\* RoundCommits: the receipts of the round are true of what it stores.
LEMMA CommitsStep ==
  ASSUME IInv, RoundCommits
  PROVE  IInv'
<1> DEFINE M == Members(insert \cup resolve)
           L == Leaders(Fresh)
<1>1. /\ pc = "insert" /\ StoreLeaders /\ receipts' = Answered(M, Drafted)
      /\ written' = written \cup L /\ insert' = {} /\ resolve' = {} /\ needsFence' = FALSE
      /\ view' = {} /\ pc' = "round" /\ UNCHANGED <<batch, adm>>
  BY DEF RoundCommits
<1>2. /\ Current /\ Current' /\ stored' \subseteq Event /\ staged' \subseteq Item
      /\ marked' \subseteq Item /\ staged' \subseteq marked' /\ UNCHANGED <<gate, projected>>
      /\ stored' = stored \cup {Doc(l) : l \in L} /\ Ids' = Ids \cup L
      /\ L \subseteq M /\ L \subseteq Item
  BY <1>1, StoresLeaders DEF Members, Current
<1>3. /\ Typed /\ Grouped /\ M \subseteq Item
      /\ \A i \in Item : receipts'[i] = IF i \in M THEN Drafted(i) ELSE receipts[i]
  BY <1>1, MembersAreItems DEF IInv, Answered
<1>4. \A i \in M : /\ Drafted(i) \in Receipt
                   /\ Drafted(i).out \in {"ok", "replayed", "conflict", "unconfirmed"}
                   /\ Drafted(i).out = "conflict" => i \notin L
                   /\ Drafted(i).out \in {"ok", "replayed"} =>
                        Named(i, Drafted(i).id, view \cup {Doc(l) : l \in L})
  BY <1>3, DraftedReceipt
<1> HIDE DEF M, L
<1>5. Typed'
  <2>1. receipts' \in [Item -> Receipt]
    BY <1>1, <1>3, <1>4, Types DEF Answered
  <2>2. written' \subseteq Item
    BY <1>1, <1>2, <1>3, Types
  <2>3. gate' \in Gate /\ batch' \in Batch /\ adm' \in Nat /\ projected' \subseteq Item
    BY <1>1, <1>2, <1>3, Types
  <2>4. /\ pc' = "round" /\ needsFence' = FALSE /\ view' = {} /\ insert' \cup resolve' = {}
        /\ stored' \subseteq Event /\ staged' \subseteq Item /\ marked' \subseteq Item
    BY <1>1, <1>2
  <2>5. BatchConstants
    BY <1>3 DEF Typed
  <2>6. QED BY <2>1, <2>2, <2>3, <2>4, <2>5 DEF Typed, TypeOK
<1>6. Truthful'
  <2>1. \A e \in view : e \in stored \/ e.id = Rival
    BY <1>1 DEF IInv, Reading
  <2>2. ASSUME NEW i \in Item, NEW id, Named(i, id, view \cup {Doc(l) : l \in L})
        PROVE  Named(i, id, stored')
    BY <1>1, <1>2, <2>1, <2>2 DEF Named
  <2>3. ASSUME NEW i \in Item, NEW id, Named(i, id, stored)
        PROVE  Named(i, id, stored')
    BY <1>1, <1>2, <2>3 DEF Named
  <2>4. \A i \in Item \ M : receipts[i].out \in {"ok", "replayed"} =>
                              Named(i, receipts[i].id, stored)
    BY <1>1, <1>2 DEF IInv, Truthful
  <2>5. ASSUME NEW i \in Item, receipts'[i].out \in {"ok", "replayed"}
        PROVE  Named(i, receipts'[i].id, stored')
    BY <1>3, <1>4, <2>2, <2>3, <2>4, <2>5
  <2>6. QED BY <1>1, <2>5 DEF Truthful, Named
<1>7. FailuresLeaveNothing'
  <2>1. M \cap Ids = {}
    BY <1>1 DEF M, IInv, Unstored
  <2>2. \A i \in Item : receipts[i].out \in {"failed", "conflict"} => i \notin Ids
    BY DEF IInv, FailuresLeaveNothing
  <2>3. QED BY <1>2, <1>3, <1>4, <2>1, <2>2 DEF FailuresLeaveNothing
<1>8. NoItemForgotten'
  BY <1>1, <1>3, <1>4 DEF IInv, NoItemForgotten, M
<1>9. Grouped' /\ Unstored' /\ Admitted' /\ Reading' /\ Released' /\ StagedMarked'
      /\ ErasedBatchGone'
  BY <1>1, <1>2 DEF IInv, Grouped, Unstored, Members, Admitted, Reading, Released,
     StagedMarked, ErasedBatchGone, Current
<1>10. QED BY <1>5, <1>6, <1>7, <1>8, <1>9 DEF IInv

\* RoundAborts: the items with a new receipt are those that leave their groups.
LEMMA AbortsStep ==
  ASSUME IInv, RoundAborts
  PROVE  IInv'
<1>1. PICK issues \in SUBSET Rejected :
        /\ AfterIssues({i \in issues : batch[i].kind = "invalid"},
                       issues \ {i \in issues : batch[i].kind = "invalid"})
        /\ receipts' = Answered({i \in issues : batch[i].kind = "invalid"},
                                LAMBDA i : Says("failed", 0))
  BY DEF RoundAborts
<1> DEFINE invalid == {i \in issues : batch[i].kind = "invalid"}
           duplicate == issues \ invalid
<1>2. /\ pc = "insert" /\ pc' = "round" /\ needsFence' = TRUE /\ view' = {}
      /\ UNCHANGED <<batch, database, adm, written>>
  BY DEF RoundAborts
<1>3. /\ insert' = ({g \in insert : Min(g) \notin invalid \cup duplicate}
                     \cup {g \ {Min(g)} : g \in {g \in insert : Min(g) \in invalid}}) \ {{}}
      /\ resolve' = resolve \cup {g \in insert : Min(g) \in duplicate}
  BY <1>1 DEF AfterIssues
<1>4. Typed /\ Grouped /\ \A g \in insert \cup resolve : Min(g) \in g /\ g \subseteq Item
  BY MembersAreItems DEF IInv
<1>5. \A i \in invalid : i \in Item /\ \E g \in insert : i = Min(g)
  <2>1. \A i \in issues : \E g \in insert : i = Min(g)
    BY DEF Rejected, Leaders, Fresh
  <2>2. QED BY <1>4, <2>1
<1>6. \A i \in Item : receipts'[i] = IF i \in invalid THEN Says("failed", 0) ELSE receipts[i]
  BY <1>1 DEF Answered
<1>7. invalid \cap duplicate = {}
  OBVIOUS
<1> HIDE DEF invalid, duplicate
<1>8. \A h \in insert' \cup resolve' :
        \E g \in insert \cup resolve :
          /\ g \in insert /\ Min(g) \in invalid => h = g \ {Min(g)} /\ h \in insert'
          /\ ~ (g \in insert /\ Min(g) \in invalid) => h = g
  BY <1>3, <1>4, <1>7 DEF Grouped
<1>9. \A g \in insert \cup resolve : \A x \in g : x \in invalid => x = Min(g) /\ g \in insert
  BY <1>4, <1>5 DEF Grouped
<1>10. insert' \subseteq (SUBSET Item) \ {{}} /\ resolve' \subseteq (SUBSET Item) \ {{}}
  BY <1>3, <1>4, Types
<1>11. Members(insert' \cup resolve') = Members(insert \cup resolve) \ invalid
  <2>1. ASSUME NEW h \in insert' \cup resolve', NEW x \in h
        PROVE  x \in Members(insert \cup resolve) \ invalid
    BY <1>8, <1>9 DEF Members
  <2>2. ASSUME NEW g \in insert \cup resolve, NEW x \in g, x \notin invalid
        PROVE  \E h \in insert' \cup resolve' : x \in h
    <3>1. CASE g \in insert /\ Min(g) \in invalid
      <4>1. x \in g \ {Min(g)}
        BY <2>2, <3>1
      <4>2. g \ {Min(g)} \in insert'
        BY <1>3, <3>1, <4>1
      <4>3. QED BY <4>1, <4>2
    <3>2. CASE ~ (g \in insert /\ Min(g) \in invalid)
      BY <1>3, <2>2, <3>2
    <3>3. QED BY <3>1, <3>2
  <2>3. QED BY <2>1, <2>2 DEF Members
<1>12. Typed'
  <2>1. Says("failed", 0) \in Receipt
    BY DEF Says, Receipt
  <2>2. receipts' \in [Item -> Receipt]
    BY <1>1, <1>4, <2>1, Types DEF Answered, Says, Receipt
  <2>3. insert' \cup resolve' \subseteq (SUBSET Item) \ {{}}
    BY <1>10
  <2>4. QED BY <1>2, <1>4, <2>2, <2>3 DEF Typed, TypeOK, database
<1>13. Grouped'
  <2>1. ASSUME NEW h \in insert' \cup resolve', NEW k \in insert' \cup resolve', h # k
        PROVE  h \cap k = {}
    <3>1. PICK g \in insert \cup resolve :
            /\ g \in insert /\ Min(g) \in invalid => h = g \ {Min(g)}
            /\ ~ (g \in insert /\ Min(g) \in invalid) => h = g
      BY <1>8
    <3>2. PICK f \in insert \cup resolve :
            /\ f \in insert /\ Min(f) \in invalid => k = f \ {Min(f)}
            /\ ~ (f \in insert /\ Min(f) \in invalid) => k = f
      BY <1>8
    <3>3. f # g /\ h \subseteq g /\ k \subseteq f
      BY <2>1, <3>1, <3>2
    <3>4. f \cap g = {}
      BY <1>4, <3>3 DEF Grouped
    <3>5. QED BY <3>3, <3>4
  <2>2. insert' \cap resolve' = {}
    <3>1. \A h \in insert' : h # {} /\ \E g \in insert : h \subseteq g /\ Min(g) \notin duplicate
      BY <1>3, <1>7
    <3>2. \A h \in resolve' : h \in resolve \/ (h \in insert /\ Min(h) \in duplicate)
      BY <1>3
    <3>3. QED BY <1>4, <3>1, <3>2 DEF Grouped
  <2>3. \A h \in insert' \cup resolve' : \A i, j \in h : batch[i].key = batch[j].key
    BY <1>4, <1>8 DEF Grouped
  <2>4. QED BY <1>2, <2>1, <2>2, <2>3 DEF Grouped
<1>14. Unstored' /\ FailuresLeaveNothing' /\ NoItemForgotten'
  <2>1. Members(insert \cup resolve) \cap Ids = {} /\ Ids' = Ids
    BY <1>2 DEF IInv, Unstored, Ids, database
  <2>2. \A i \in invalid : i \in Members(insert \cup resolve)
    BY <1>4, <1>5 DEF Members
  <2>3. \A i \in Item : receipts[i].out \in {"failed", "conflict"} => i \notin Ids
    BY DEF IInv, FailuresLeaveNothing
  <2>4. \A i \in Item : receipts[i].out # "none" \/ i \in Members(insert \cup resolve)
    BY <1>2 DEF IInv, NoItemForgotten
  <2>5. Unstored'
    BY <1>2, <1>11, <2>1 DEF Unstored
  <2>6. FailuresLeaveNothing'
    BY <1>6, <2>1, <2>2, <2>3 DEF FailuresLeaveNothing
  <2>7. \A i \in Item : receipts'[i].out # "none" \/ i \in Members(insert' \cup resolve')
    <3>1. Says("failed", 0).out # "none"
      BY DEF Says
    <3>2. QED BY <1>6, <1>11, <2>4, <3>1
  <2>8. QED BY <2>5, <2>6, <2>7 DEF NoItemForgotten, Members
<1>15. Truthful'
  <2>1. \A i \in Item : receipts[i].out \in {"ok", "replayed"} => Named(i, receipts[i].id, stored)
    BY <1>2 DEF IInv, Truthful, Reading
  <2>2. \A i \in Item : receipts'[i].out \in {"ok", "replayed"} => receipts'[i] = receipts[i]
    BY <1>6 DEF Says
  <2>3. stored' = stored /\ batch' = batch
    BY <1>2 DEF database
  <2>4. QED BY <2>1, <2>2, <2>3 DEF Truthful, Named
<1>16. Admitted' /\ Reading' /\ Released' /\ StagedMarked' /\ ErasedBatchGone'
  BY <1>2 DEF IInv, Admitted, Reading, Released, StagedMarked, ErasedBatchGone, Ids, database
<1>17. QED BY <1>12, <1>13, <1>14, <1>15, <1>16 DEF IInv

\* RoundUncertain: nobody is told that it failed, and only leaders can be stored.
LEMMA UncertainStep ==
  ASSUME IInv, RoundUncertain
  PROVE  IInv'
<1> DEFINE M == Members(insert \cup resolve)
<1>1. /\ pc = "insert" /\ pc' = "reconcile" /\ view' = {} /\ receipts' = Uncertain
      /\ StoreLeaders \/ UNCHANGED database
      /\ UNCHANGED <<batch, adm, insert, resolve, needsFence, written>>
  BY DEF RoundUncertain
<1>2. Typed /\ Grouped /\ Current /\ M \cap Ids = {} /\ M \subseteq Item
      /\ \A g \in insert : Min(g) \in g
  BY <1>1, MembersAreItems DEF IInv, Unstored, Reading
<1>3. /\ Current' /\ stored' \subseteq Event /\ staged' \subseteq Item /\ marked' \subseteq Item
      /\ staged' \subseteq marked' /\ UNCHANGED <<gate, projected>> /\ stored \subseteq stored'
      /\ Ids' \subseteq Ids \cup Leaders(Fresh)
      /\ Leaders(Fresh) \subseteq M /\ Leaders(Fresh) \subseteq Item
  <2>1. CASE StoreLeaders
    <3>1. Members(insert) \subseteq M
      BY DEF Members
    <3> HIDE DEF M
    <3>2. QED BY <1>1, <1>2, <2>1, <3>1, StoresLeaders DEF Current
  <2>2. CASE UNCHANGED database
    <3>1. Leaders(Fresh) \subseteq M /\ Leaders(Fresh) \subseteq Item
      BY <1>2 DEF Leaders, Fresh, Members
    <3>2. QED BY <1>1, <1>2, <2>2, <3>1, Types DEF database, Current, Ids, IInv, StagedMarked
  <2>3. QED BY <1>1, <2>1, <2>2
<1>4. \A i \in Item :
        receipts'[i] = IF i \in M THEN Says("unconfirmed", 0) ELSE receipts[i]
  BY <1>1 DEF Uncertain, Answered
<1>5. Says("unconfirmed", 0) \in Receipt /\ Says("unconfirmed", 0).out = "unconfirmed"
  BY DEF Says, Receipt
<1>6. Typed'
  <2>1. receipts' \in [Item -> Receipt]
    BY <1>1, <1>2, <1>5, Types DEF Uncertain, Answered
  <2>2. QED BY <1>1, <1>2, <1>3, <2>1, Types DEF Typed, TypeOK
<1>7. Unstored'
  <2>1. ASSUME NEW g \in insert, NEW x \in g, x \in Ids'
        PROVE  x = Min(g)
    <3>1. x \in M
      BY <2>1 DEF Members
    <3>2. x \in Leaders(Fresh)
      BY <1>2, <1>3, <2>1, <3>1
    <3>3. PICK h \in insert : x = Min(h)
      BY <3>2 DEF Leaders, Fresh
    <3>4. h = g
      BY <1>2, <3>3 DEF Grouped
    <3>5. QED BY <3>3, <3>4
  <2>2. QED BY <1>1, <2>1 DEF Unstored
<1>8. FailuresLeaveNothing' /\ NoItemForgotten'
  <2>1. \A i \in Item : receipts[i].out \in {"failed", "conflict"} => i \notin Ids
    BY DEF IInv, FailuresLeaveNothing
  <2>2. \A i \in Item : receipts[i].out # "none" \/ i \in M
    BY <1>1 DEF IInv, NoItemForgotten
  <2> HIDE DEF M
  <2>3. FailuresLeaveNothing'
    BY <1>3, <1>4, <1>5, <2>1 DEF FailuresLeaveNothing
  <2>4. \A i \in Item : receipts'[i].out # "none"
    BY <1>4, <1>5, <2>2
  <2>5. QED BY <2>3, <2>4 DEF NoItemForgotten
<1>9. Truthful'
  <2>1. \A i \in Item : receipts[i].out \in {"ok", "replayed"} => Named(i, receipts[i].id, stored)
    BY <1>1, <1>2 DEF IInv, Truthful
  <2>2. \A i \in Item : receipts'[i].out \in {"ok", "replayed"} => receipts'[i] = receipts[i]
    BY <1>4, <1>5
  <2>3. QED BY <1>1, <1>3, <2>1, <2>2 DEF Truthful, Named
<1>10. Grouped' /\ Admitted' /\ Reading' /\ Released' /\ StagedMarked' /\ ErasedBatchGone'
  BY <1>1, <1>2, <1>3 DEF IInv, Grouped, Admitted, Reading, Released, StagedMarked,
     ErasedBatchGone, Current
<1>11. QED BY <1>6, <1>7, <1>8, <1>9, <1>10 DEF IInv

\* Reconcile: a group whose leader is found is answered as if it had committed.
LEMMA ReconcileStep ==
  ASSUME IInv, Reconcile
  PROVE  IInv'
<1> DEFINE found == {g \in insert : Doc(Min(g)) \in stored}
           says(i) == Inserted(CHOOSE g \in found : i \in g, i)
<1>1. /\ pc = "reconcile" /\ pc' = "project"
      /\ receipts' = Answered(Members(found), says)
      /\ written' = written \cup Leaders(found)
      /\ UNCHANGED <<batch, database, adm, insert, resolve, needsFence, view>>
  BY DEF Reconcile, rounds
<1>2. Typed /\ Grouped /\ \A g \in insert : Min(g) \in g /\ g \subseteq Item
  BY MembersAreItems DEF IInv
<1>3. ASSUME NEW i \in Members(found)
      PROVE  /\ i \in Item /\ says(i) \in Receipt
             /\ says(i).out \in {"ok", "replayed", "conflict"}
             /\ says(i).out = "conflict" => i \notin Ids
             /\ says(i).out \in {"ok", "replayed"} => Named(i, says(i).id, stored)
  <2>1. PICK g \in found : i \in g
    BY DEF Members
  <2>2. found \in SUBSET (insert \cup resolve)
    OBVIOUS
  <2>3. says(i) = Inserted(g, i)
    <3>1. (CHOOSE h \in found : i \in h) = g
      BY <1>2, <2>1, <2>2, OneGroup
    <3>2. QED BY <3>1
  <2>4. g \in insert /\ Doc(Min(g)) \in stored /\ g \cap Ids \subseteq {Min(g)}
    BY <1>1, <2>1 DEF IInv, Unstored
  <2> HIDE DEF says
  <2>5. says(i).out \in {"ok", "replayed"} => Named(i, says(i).id, {Doc(Min(g))})
    BY <1>2, <2>1, <2>3, <2>4, InsertedReceipt
  <2>6. says(i).out \in {"ok", "replayed"} => Named(i, says(i).id, stored)
    BY <2>4, <2>5 DEF Named
  <2>7. QED BY <1>2, <2>1, <2>3, <2>4, <2>6, InsertedReceipt
<1>4. \A i \in Item : receipts'[i] = IF i \in Members(found) THEN says(i) ELSE receipts[i]
  BY <1>1 DEF Answered
<1>5. Typed'
  <2>1. receipts' \in [Item -> Receipt]
    <3> HIDE DEF says, found
    <3>1. QED BY <1>1, <1>2, <1>3, Types DEF Answered
  <2>2. written' \subseteq Item
    BY <1>1, <1>2, Types DEF Leaders
  <2>3. /\ pc' = "project" /\ UNCHANGED <<batch, gate, stored, staged, marked, projected>>
        /\ UNCHANGED <<adm, insert, resolve, needsFence, view>>
    BY <1>1 DEF database
  <2>4. QED BY <1>2, <2>1, <2>2, <2>3, Types DEF Typed, TypeOK
<1> HIDE DEF found, says
<1>6. FailuresLeaveNothing' /\ NoItemForgotten'
  <2>1. Ids' = Ids
    BY <1>1 DEF Ids, database
  <2>2. \A i \in Item : receipts[i].out \in {"failed", "conflict"} => i \notin Ids
    BY DEF IInv, FailuresLeaveNothing
  <2>3. FailuresLeaveNothing'
    BY <1>3, <1>4, <2>1, <2>2 DEF FailuresLeaveNothing
  <2>4. \A i \in Item : receipts[i].out # "none" \/ i \in Members(insert \cup resolve)
    BY <1>1 DEF IInv, NoItemForgotten
  <2>5. \A i \in Item : receipts'[i].out # "none" \/ i \in Members(insert \cup resolve)
    BY <1>3, <1>4, <2>4
  <2>6. QED BY <1>1, <2>3, <2>5 DEF NoItemForgotten
<1>7. Truthful'
  <2>1. gate' = gate /\ stored' = stored
    BY <1>1 DEF database
  <2>2. QED BY <1>1, <1>3, <1>4, <2>1 DEF IInv, Truthful, Named, Current
<1>8. Grouped' /\ Unstored' /\ Admitted' /\ Reading' /\ Released' /\ StagedMarked'
      /\ ErasedBatchGone'
  BY <1>1 DEF IInv, Grouped, Unstored, Admitted, Reading, Released, StagedMarked,
     ErasedBatchGone, Ids, database
<1>9. QED BY <1>5, <1>6, <1>7, <1>8 DEF IInv

\* RoundFails: every item of the round is told that it failed, and none is stored.
LEMMA FailsStep ==
  ASSUME IInv, RoundFails
  PROVE  IInv'
<1> DEFINE M == Members(insert \cup resolve)
<1>1. /\ pc = "insert" /\ pc' = "project" /\ view' = {}
      /\ receipts' = Answered(M, LAMBDA i : Says("failed", 0))
      /\ UNCHANGED <<batch, database, adm, insert, resolve, needsFence, written>>
  BY DEF RoundFails
<1>2. Typed /\ M \subseteq Item /\ M \cap Ids = {}
  BY <1>1, MembersAreItems DEF IInv, Unstored
<1>3. \A i \in Item : receipts'[i] = IF i \in M THEN Says("failed", 0) ELSE receipts[i]
  BY <1>1 DEF Answered
<1>4. Says("failed", 0) \in Receipt /\ Says("failed", 0).out = "failed"
  BY DEF Says, Receipt
<1>5. receipts' \in [Item -> Receipt]
  BY <1>1, <1>2, <1>4, Types DEF Answered
<1>6. UNCHANGED <<gate, stored, staged, marked, projected>> /\ Ids' = Ids
  BY <1>1 DEF database, Ids
<1>7. Typed'
  BY <1>1, <1>2, <1>5, <1>6, Types DEF Typed, TypeOK
<1>8. FailuresLeaveNothing' /\ NoItemForgotten' /\ Truthful'
  <2>1. \A i \in Item : receipts[i].out \in {"failed", "conflict"} => i \notin Ids
    BY DEF IInv, FailuresLeaveNothing
  <2>2. \A i \in Item : receipts[i].out # "none" \/ i \in M
    BY <1>1 DEF IInv, NoItemForgotten
  <2>3. Current => \A i \in Item : receipts[i].out \in {"ok", "replayed"} =>
                                     Named(i, receipts[i].id, stored)
    BY <1>1 DEF IInv, Truthful
  <2> HIDE DEF M
  <2>4. FailuresLeaveNothing'
    BY <1>2, <1>3, <1>4, <1>6, <2>1 DEF FailuresLeaveNothing
  <2>5. \A i \in Item : receipts'[i].out # "none"
    BY <1>3, <1>4, <2>2
  <2>6. Truthful'
    BY <1>1, <1>3, <1>4, <1>6, <2>3 DEF Truthful, Named, Current
  <2>7. QED BY <2>4, <2>5, <2>6 DEF NoItemForgotten
<1>9. Grouped' /\ Unstored' /\ Admitted' /\ Reading' /\ Released' /\ StagedMarked'
      /\ ErasedBatchGone'
  BY <1>1, <1>6 DEF IInv, Grouped, Unstored, Admitted, Reading, Released, StagedMarked,
     ErasedBatchGone
<1>10. QED BY <1>7, <1>8, <1>9 DEF IInv

\* A step that gives no receipt and changes no event, and by which the call leaves its
\* rounds or goes on after them.
LEMMA AfterRounds ==
  ASSUME IInv,
         pc \notin {"new", "insert", "refused"},
         pc' \in {"project", "release", "clear", "done", "refused"},
         UNCHANGED <<gate, stored, batch, adm, insert, resolve, needsFence, view, receipts,
                     written>>,
         staged' \subseteq staged, marked' \subseteq marked, projected' \subseteq Item,
         staged' \subseteq marked', projected' # projected => Current,
         pc' = "clear" => staged' \cap written = {}
  PROVE  IInv'
<1>1. Ids' = Ids /\ Typed
  BY DEF Ids, IInv
<1>2. Typed'
  BY <1>1, Types DEF Typed, TypeOK
<1>3. NoItemForgotten'
  BY DEF IInv, NoItemForgotten
<1>4. FailuresLeaveNothing' /\ Truthful'
  BY <1>1 DEF IInv, FailuresLeaveNothing, Truthful, Named, Current
<1>5. Grouped' /\ Unstored' /\ Admitted' /\ Reading' /\ Released' /\ StagedMarked'
  BY DEF IInv, Grouped, Unstored, Admitted, Reading, Released, StagedMarked
<1>6. ErasedBatchGone'
  BY <1>1 DEF IInv, ErasedBatchGone, Current
<1>7. QED BY <1>2, <1>3, <1>4, <1>5, <1>6 DEF IInv

\* The end of the rounds, the projection, the release and the markers.
LEMMA EndSteps ==
  ASSUME IInv,
         \/ RoundRefused \/ ReconcileFails \/ RoundsEnd
         \/ Project \/ Release \/ ReleaseFails \/ ClearMarkers
  PROVE  IInv'
<1>0. staged \subseteq marked /\ projected \subseteq Item /\ written \subseteq Item
  BY Types DEF IInv, StagedMarked
<1>1. CASE RoundRefused \/ ReconcileFails \/ RoundsEnd \/ ReleaseFails
  <2>1. /\ pc \in {"round", "reconcile", "release"} /\ pc' \in {"project", "done", "refused"}
        /\ UNCHANGED <<batch, database, adm, rounds, receipts, written>>
    BY <1>1 DEF RoundRefused, ReconcileFails, RoundsEnd, ReleaseFails
  <2>2. QED BY <1>0, <2>1, AfterRounds DEF database, rounds
<1>2. CASE Project
  <2>1. /\ pc = "project" /\ pc' = "release" /\ projected' \in {projected, projected \cup written}
        /\ projected' # projected => AdmissionMatches(gate, Admission(adm))
        /\ UNCHANGED <<gate, stored, staged, marked, batch, adm, rounds, receipts, written>>
    BY <1>2 DEF Project
  <2>2. projected' # projected => Current
    BY <2>1 DEF AdmissionMatches, Admission, Current
  <2>3. QED BY <1>0, <2>1, <2>2, AfterRounds DEF rounds
<1>3. CASE Release
  <2>1. /\ pc = "release" /\ pc' \in {"clear", "done"} /\ staged' = staged \ written
        /\ UNCHANGED <<gate, stored, marked, projected, batch, adm, rounds, receipts, written>>
    BY <1>3 DEF Release
  <2>2. QED BY <1>0, <2>1, AfterRounds DEF rounds
<1>4. CASE ClearMarkers
  <2>1. /\ pc = "clear" /\ pc' = "done" /\ marked' \in {marked, marked \ written}
        /\ UNCHANGED <<gate, stored, staged, projected, batch, adm, rounds, receipts, written>>
    BY <1>4 DEF ClearMarkers
  <2>2. staged \cap written = {}
    BY <2>1 DEF IInv, Released
  <2>3. QED BY <1>0, <2>1, <2>2, AfterRounds DEF rounds
<1>5. QED BY <1>1, <1>2, <1>3, <1>4
-----------------------------------------------------------------------------
(***************************************************************************)
(* The steps around the call, and the theorems.                            *)
(***************************************************************************)
\* The rival's event comes and goes; nothing says that it is there.
LEMMA RivalSteps ==
  ASSUME IInv, RivalWrites \/ RivalExpires
  PROVE  IInv'
<1>1. UNCHANGED <<gate, staged, marked, projected, batch, pc, adm, insert, resolve, needsFence,
                  view, receipts, written>>
  BY DEF RivalWrites, RivalExpires, rounds
<1>2. /\ stored' \subseteq Event /\ Ids' \cap Item = Ids \cap Item
      /\ \A e \in stored : e.id # Rival => e \in stored'
  <2>0. stored \subseteq Event /\ Rival \notin Item
    BY Types DEF IInv
  <2>1. CASE RivalWrites
    <3>1. PICK k \in Key, b \in Body :
            stored' = stored \cup {[id |-> Rival, key |-> k, body |-> b]}
      BY <2>1 DEF RivalWrites
    <3> DEFINE e == [id |-> Rival, key |-> k, body |-> b]
    <3>2. e \in Event /\ e.id = Rival
      BY DEF Event
    <3> HIDE DEF e
    <3>3. stored' = stored \cup {e}
      BY <3>1 DEF e
    <3>4. QED BY <2>0, <3>2, <3>3 DEF Ids
  <2>2. CASE RivalExpires
    <3>1. stored' = {e \in stored : e.id # Rival}
      BY <2>2 DEF RivalExpires
    <3>2. QED BY <2>0, <3>1 DEF Ids
  <2>3. QED BY <2>1, <2>2
<1>3. Typed /\ \A g \in insert : g \subseteq Item
  BY MembersAreItems DEF IInv
<1>4. Members(insert \cup resolve) \subseteq Item
  BY MembersAreItems DEF IInv
<1>5. Typed'
  BY <1>1, <1>2, <1>3, Types DEF Typed, TypeOK
<1>6. Unstored'
  BY <1>1, <1>2, <1>3, <1>4 DEF IInv, Unstored, Nothing
<1>7. Reading' /\ Truthful'
  <2>1. \A i \in Item : \A id : Named(i, id, stored) => Named(i, id, stored')
    BY <1>2 DEF Named
  <2>2. Reading'
    BY <1>1, <1>2 DEF IInv, Reading, Current
  <2>3. QED BY <1>1, <2>1, <2>2 DEF IInv, Truthful, Named, Current
<1>8. FailuresLeaveNothing' /\ ErasedBatchGone'
  BY <1>1, <1>2 DEF IInv, FailuresLeaveNothing, ErasedBatchGone
<1>9. Grouped' /\ Admitted' /\ Released' /\ NoItemForgotten' /\ StagedMarked'
  BY <1>1 DEF IInv, Grouped, Admitted, Released, NoItemForgotten, StagedMarked
<1>10. QED BY <1>5, <1>6, <1>7, <1>8, <1>9 DEF IInv

\* The repair of another process.
LEMMA RepairStep ==
  ASSUME IInv, NEW i \in Item, RepairOutbox(i)
  PROVE  IInv'
<1>1. /\ pc # "new" /\ pc # "insert" /\ staged' = staged \ {i} /\ marked' = marked \ {i}
      /\ UNCHANGED <<gate, stored, projected, batch, pc, adm, insert, resolve, needsFence,
                     view, receipts, written>>
  BY DEF RepairOutbox, rounds, IInv, Unstored, Nothing
<1>2. Ids' = Ids /\ Typed
  BY <1>1 DEF Ids, IInv
<1>3. Typed'
  BY <1>1, <1>2, Types DEF Typed, TypeOK
<1>4. Unstored' /\ Reading' /\ Truthful' /\ FailuresLeaveNothing' /\ NoItemForgotten'
  BY <1>1, <1>2 DEF IInv, Unstored, Reading, Truthful, Named, Current, FailuresLeaveNothing,
     NoItemForgotten
<1>5. Grouped' /\ Admitted' /\ Released' /\ StagedMarked' /\ ErasedBatchGone'
  BY <1>1, <1>2 DEF IInv, Grouped, Admitted, Released, StagedMarked, ErasedBatchGone
<1>6. QED BY <1>3, <1>4, <1>5 DEF IInv

\* The erasure: once the gate is taken the call is over.
LEMMA ErasureSteps ==
  ASSUME IInv, BeginErasure \/ Erase
  PROVE  IInv'
<1>1. CASE BeginErasure
  <2>1. PICK r \in Run : gate' = Begun(gate, r)
    BY <1>1 DEF BeginErasure
  <2>2. /\ pc # "insert" /\ IsOpen(gate)
        /\ UNCHANGED <<stored, staged, marked, projected, batch, pc, adm, insert, resolve,
                       needsFence, view, receipts, written>>
    BY <1>1 DEF BeginErasure, rounds
  <2>3. gate' \in Gate /\ gate'.epoch = gate.epoch + 1 /\ IsErasing(gate') /\ ~ IsOpen(gate')
    BY <2>1, Types DEF IInv, Gate, Begun, IsErasing, IsOpen
  <2>4. Typed /\ gate.epoch \in Nat /\ adm \in Nat /\ Ids' = Ids
    BY <2>2, Types DEF IInv, Ids
  <2>5. Typed'
    BY <2>2, <2>3, <2>4, Types DEF Typed, TypeOK
  <2>6. Admitted' /\ Reading' /\ Truthful' /\ ErasedBatchGone'
    BY <2>2, <2>3, <2>4 DEF IInv, Admitted, Reading, Truthful, Current, ErasedBatchGone
  <2>7. Unstored' /\ Grouped' /\ Released' /\ NoItemForgotten' /\ FailuresLeaveNothing'
        /\ StagedMarked'
    BY <2>2, <2>4 DEF IInv, Unstored, Nothing, Grouped, Released, NoItemForgotten,
       FailuresLeaveNothing, StagedMarked
  <2>8. QED BY <2>5, <2>6, <2>7 DEF IInv
<1>2. CASE Erase
  <2>1. /\ IsErasing(gate) /\ gate' = Reopened(gate)
        /\ stored' = {} /\ staged' = {} /\ marked' = {} /\ projected' = {}
        /\ UNCHANGED <<batch, pc, adm, insert, resolve, needsFence, view, receipts, written>>
    BY <1>2 DEF Erase, rounds
  <2>2. gate' \in Gate /\ gate'.epoch = gate.epoch /\ IsOpen(gate') /\ ~ IsErasing(gate')
        /\ ~ IsOpen(gate)
    BY <2>1, Types DEF IInv, Gate, Reopened, IsErasing, IsOpen
  <2>3. Typed /\ gate.epoch \in Nat /\ adm \in Nat /\ Ids' = {}
    BY <2>1, Types DEF IInv, Ids
  <2>4. adm < gate.epoch /\ pc # "insert"
    BY <2>1, <2>2 DEF IInv, Admitted, Reading, Current
  <2>5. Typed'
    BY <2>1, <2>2, <2>3, Types DEF Typed, TypeOK
  <2>6. Admitted' /\ Reading' /\ Truthful' /\ ErasedBatchGone'
    BY <2>1, <2>2, <2>3, <2>4 DEF Admitted, Reading, Truthful, Current, ErasedBatchGone
  <2>7. Unstored' /\ Grouped' /\ Released' /\ NoItemForgotten' /\ FailuresLeaveNothing'
        /\ StagedMarked'
    BY <2>1, <2>3 DEF IInv, Unstored, Nothing, Grouped, Released, NoItemForgotten,
       FailuresLeaveNothing, StagedMarked
  <2>8. QED BY <2>5, <2>6, <2>7 DEF IInv
<1>3. QED BY <1>1, <1>2

\* The initial states satisfy the invariant.
LEMMA InitInv ==
  ASSUME Init
  PROVE  IInv
<1>1. Says("none", 0) \in Receipt /\ Says("none", 0).out = "none"
  BY DEF Says, Receipt
<1>2. gate \in Gate /\ gate.epoch = 0 /\ ~ IsErasing(gate)
  BY DEF Init, OpenGate, Gate, IsErasing
<1>3. \A i \in Item : receipts[i].out = "none"
  BY <1>1 DEF Init
<1>4. Typed
  <2>1. receipts \in [Item -> Receipt]
    BY <1>1 DEF Init
  <2>2. BatchConstants /\ insert = {} /\ resolve = {} /\ pc = "new" /\ adm = 0
        /\ batch \in Batch /\ view = {} /\ written = {} /\ needsFence = FALSE
        /\ stored = {} /\ staged = {} /\ marked = {} /\ projected = {}
    BY BatchConstants DEF Init, BatchConstants
  <2>3. QED BY <1>2, <2>1, <2>2 DEF Typed, TypeOK
<1>5. Unstored /\ FailuresLeaveNothing
  BY <1>3 DEF Init, Unstored, Nothing, Ids, FailuresLeaveNothing
<1>6. Admitted /\ Grouped /\ Reading /\ Truthful /\ Released /\ NoItemForgotten
      /\ StagedMarked /\ ErasedBatchGone
  BY <1>2 DEF Init, Admitted, Grouped, Reading, Truthful, Released, NoItemForgotten,
     StagedMarked, ErasedBatchGone
<1>7. QED BY <1>4, <1>5, <1>6 DEF IInv

\* A stutter.
LEMMA StutterInv ==
  ASSUME IInv, UNCHANGED vars
  PROVE  IInv'
<1>1. UNCHANGED <<gate, stored, staged, marked, projected, batch, pc, adm, insert, resolve,
                  needsFence, view, receipts, written>> /\ Ids' = Ids
  BY DEF vars, Ids
<1>2. Typed'
  BY <1>1 DEF IInv, Typed, TypeOK
<1>3. Unstored' /\ Reading' /\ Truthful' /\ FailuresLeaveNothing' /\ NoItemForgotten'
  BY <1>1 DEF IInv, Unstored, Nothing, Reading, Truthful, Named, Current,
     FailuresLeaveNothing, NoItemForgotten
<1>4. Grouped' /\ Admitted' /\ Released' /\ StagedMarked' /\ ErasedBatchGone'
  BY <1>1 DEF IInv, Grouped, Admitted, Released, StagedMarked, ErasedBatchGone
<1>5. QED BY <1>2, <1>3, <1>4 DEF IInv

\* Every step preserves it.
LEMMA NextInv ==
  IInv /\ [Next]_vars => IInv'
<1> SUFFICES ASSUME IInv, [Next]_vars
             PROVE  IInv'
  OBVIOUS
<1>1. CASE Begin \/ RoundReads \/ RoundCommits \/ RoundAborts \/ RoundUncertain
  BY <1>1, BeginStep, ReadsStep, CommitsStep, AbortsStep, UncertainStep
<1>2. CASE Reconcile \/ RoundFails
  BY <1>2, ReconcileStep, FailsStep
<1>3. CASE \/ RoundRefused \/ ReconcileFails \/ RoundsEnd
           \/ Project \/ Release \/ ReleaseFails \/ ClearMarkers
  BY <1>3, EndSteps
<1>4. CASE Around
  <2>1. CASE RivalWrites \/ RivalExpires
    BY <2>1, RivalSteps
  <2>2. CASE BeginErasure \/ Erase
    BY <2>2, ErasureSteps
  <2>3. CASE \E i \in Item : RepairOutbox(i)
    BY <2>3, RepairStep
  <2>4. QED BY <1>4, <2>1, <2>2, <2>3 DEF Around
<1>5. CASE UNCHANGED vars
  BY <1>5, StutterInv
<1>6. QED BY <1>1, <1>2, <1>3, <1>4, <1>5 DEF Next, CallStep

\* The inductive invariant of a batch.
THEOREM Invariance == Spec => []IInv
BY InitInv, NextInv, PTL DEF Spec

\* Every item of a batch has its group or its receipt, and the receipts are true: of
\* success of the call's epoch, of failure for good.
THEOREM BatchSafety == Spec => []BatchAccounted
<1>1. IInv => BatchAccounted
  <2> SUFFICES ASSUME IInv
               PROVE  BatchAccounted
    OBVIOUS
  <2>1. BatchReceiptsHold
    BY DEF IInv, Truthful, Named, BatchReceiptsHold
  <2>2. QED BY <2>1 DEF IInv, BatchAccounted
<1>2. QED BY <1>1, Invariance, PTL

\* Nothing of a batch outlives the erasure of its epoch.
THEOREM BatchErased == Spec => []ErasedBatchGone
<1>1. IInv => ErasedBatchGone
  BY DEF IInv
<1>2. QED BY <1>1, Invariance, PTL
=============================================================================
