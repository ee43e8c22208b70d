----------------------------- MODULE ManagerProofs -----------------------------
(***************************************************************************)
(* The managers of a process.  First ManagerClose, one manager, for any    *)
(* calls, depths and bounds: the depth of the write queue, what close() has *)
(* drained when it stops the worker, and the supervision of the change     *)
(* stream, and the accounts of the access tracker.  Then ManagerRegistry,  *)
(* their cache and the client they share, for any requests, keys and cache *)
(* size.                                                                   *)
(*                                                                         *)
(* In ManagerClose none of these is inductive.  A write leaves the         *)
(* queue only at its head, and each call is on it once (Chained).  What    *)
(* close() awaits is fixed when it begins to wait, so the drain is carried *)
(* from one await to the next (Drain).  A scheduled reopening means that   *)
(* no stream is open (Supervised), and the tokens that wait to be saved    *)
(* cover what the saved one covers (Resumable).                            *)
(*                                                                         *)
(* In ManagerRegistry, that no operation loses its manager rests on who    *)
(* may hold it (Requests, Owners) and on its borrows being its pending     *)
(* operations (Borrowed).  That a client has as many references as users   *)
(* needs that every user has the registered client (Counted), and that     *)
(* nothing is left behind needs that a shared manager is either in flight  *)
(* under its key or cached under it (Cache, Inflight, Sole) and what       *)
(* closeAll has left of them at each of its awaits (Shutdown).             *)
(***************************************************************************)
EXTENDS ManagerClose, ManagerRegistry, FiniteSetTheorems, WellFoundedInduction, TLAPS

CallPc == {"new", "targets", "queued", "written", "failed", "done", "refused"}

Accepted == {c \in Call : pc[c] \in {"queued", "written", "failed"}}

Chained ==
  /\ pc \in [Call -> CallPc]
  /\ writes \in Seq(Call) /\ derivations \in Seq(Call)
  /\ \A i, j \in DOMAIN writes : writes[i] = writes[j] => i = j
  /\ \A i \in DOMAIN writes : i > 1 => pc[writes[i]] = "queued"
  /\ DepthCounts

Drain ==
  /\ early \subseteq {c \in Call : pc[c] \in {"queued", "written", "failed", "done"}}
  /\ close = "writes" => early \cap ToSet(writes) \subseteq awaited
  /\ close \notin {"no", "sync", "writes"} => early \cap ToSet(writes) = {}
  /\ close = "derivations" => early \cap ToSet(derivations) \subseteq awaited
  /\ DrainedBeforeStop

\* Nothing up to change n is missed for good: delivered, signalled or committed in the dark.
Covered(n) == \A k \in 1..n : k \in seen \/ k <= signalled \/ k \in dark

Supervised ==
  /\ head \in Nat /\ opened \in Nat /\ reopenTimers \in {0, 1}
  /\ stream \in [id : 0..opened, pos : 0..head]
  /\ alive \subseteq 1..opened
  /\ reopenTimers = 1 \/ ended => stream.id = 0
  /\ debounce \in BOOLEAN
  /\ NoStreamLeaks

Resumable ==
  /\ token \in 0..head /\ signalled \in 0..head /\ saving \subseteq 0..head /\ saved \in 0..head
  /\ Covered(token) /\ \A t \in saving : Covered(t)
  /\ MissedOnlyInGaps

IInv == Chained /\ Drain /\ Supervised /\ Resumable
-----------------------------------------------------------------------------
(***************************************************************************)
(* Sequences.                                                              *)
(***************************************************************************)
\* Appending to a sequence.
LEMMA Appended ==
  ASSUME NEW S, NEW s \in Seq(S), NEW x \in S
  PROVE  /\ Append(s, x) \in Seq(S) /\ Len(Append(s, x)) = Len(s) + 1
         /\ DOMAIN Append(s, x) = 1..Len(s) + 1
         /\ \A i \in 1..Len(s) : Append(s, x)[i] = s[i]
         /\ Append(s, x)[Len(s) + 1] = x
         /\ ToSet(Append(s, x)) = ToSet(s) \cup {x}
<1>1. /\ Append(s, x) \in Seq(S) /\ Len(Append(s, x)) = Len(s) + 1
      /\ \A i \in 1..Len(s) : Append(s, x)[i] = s[i]
      /\ Append(s, x)[Len(s) + 1] = x
      /\ Len(s) \in Nat /\ DOMAIN s = 1..Len(s)
  OBVIOUS
<1>2. DOMAIN Append(s, x) = 1..Len(s) + 1
  BY <1>1
<1> DEFINE t == Append(s, x)
<1>3. ToSet(t) = ToSet(s) \cup {x}
  <2>1. /\ DOMAIN t = 1..Len(s) + 1 /\ t[Len(s) + 1] = x
        /\ \A i \in 1..Len(s) : t[i] = s[i]
    BY <1>1, <1>2
  <2> HIDE DEF t
  <2>2. ASSUME NEW y \in ToSet(t)
        PROVE  y \in ToSet(s) \cup {x}
    <3>1. PICK i \in 1..Len(s) + 1 : y = t[i]
      BY <2>1 DEF ToSet
    <3>2. i = Len(s) + 1 \/ i \in 1..Len(s)
      BY <1>1
    <3>3. QED BY <1>1, <2>1, <3>1, <3>2 DEF ToSet
  <2>3. ASSUME NEW y \in ToSet(s) \cup {x}
        PROVE  y \in ToSet(t)
    <3>1. CASE y = x
      <4>1. Len(s) + 1 \in DOMAIN t
        BY <1>1, <2>1
      <4>2. QED BY <2>1, <3>1, <4>1 DEF ToSet
    <3>2. CASE y \in ToSet(s)
      <4>1. PICK i \in 1..Len(s) : y = s[i]
        BY <1>1, <3>2 DEF ToSet
      <4>2. i \in DOMAIN t
        BY <1>1, <2>1
      <4>3. QED BY <2>1, <4>1, <4>2 DEF ToSet
    <3>3. QED BY <3>1, <3>2
  <2>4. QED BY <2>2, <2>3
<1>4. QED BY <1>1, <1>2, <1>3

\* Taking the head off a sequence.
LEMMA Dequeued ==
  ASSUME NEW S, NEW s \in Seq(S), s # <<>>
  PROVE  /\ Tail(s) \in Seq(S) /\ Len(Tail(s)) = Len(s) - 1 /\ Len(s) > 0
         /\ DOMAIN Tail(s) = 1..Len(s) - 1
         /\ \A i \in 1..Len(s) - 1 : Tail(s)[i] = s[i + 1]
         /\ Head(s) = s[1] /\ s[1] \in S
         /\ ToSet(Tail(s)) \subseteq ToSet(s) /\ ToSet(s) \subseteq ToSet(Tail(s)) \cup {s[1]}
<1>1. /\ Tail(s) \in Seq(S) /\ Len(Tail(s)) = Len(s) - 1 /\ Len(s) > 0 /\ Len(s) \in Nat
      /\ \A i \in 1..Len(s) - 1 : Tail(s)[i] = s[i + 1]
      /\ Head(s) = s[1] /\ s[1] \in S /\ DOMAIN s = 1..Len(s)
  OBVIOUS
<1>2. DOMAIN Tail(s) = 1..Len(s) - 1
  BY <1>1
<1> DEFINE t == Tail(s)
<1>3. ToSet(t) \subseteq ToSet(s) /\ ToSet(s) \subseteq ToSet(t) \cup {s[1]}
  <2>1. DOMAIN t = 1..Len(s) - 1 /\ \A i \in 1..Len(s) - 1 : t[i] = s[i + 1]
    BY <1>1, <1>2
  <2> HIDE DEF t
  <2>2. ASSUME NEW y \in ToSet(t)
        PROVE  y \in ToSet(s)
    <3>1. PICK i \in 1..Len(s) - 1 : y = t[i]
      BY <2>1 DEF ToSet
    <3>2. i + 1 \in DOMAIN s /\ y = s[i + 1]
      BY <1>1, <2>1, <3>1
    <3>3. QED BY <3>2 DEF ToSet
  <2>3. ASSUME NEW y \in ToSet(s), y # s[1]
        PROVE  y \in ToSet(t)
    <3>1. PICK i \in 1..Len(s) : y = s[i]
      BY <1>1 DEF ToSet
    <3>2. i - 1 \in 1..Len(s) - 1 /\ i = (i - 1) + 1
      BY <1>1, <2>3, <3>1
    <3>3. t[i - 1] = s[i] /\ i - 1 \in DOMAIN t
      BY <2>1, <3>2
    <3>4. QED BY <3>1, <3>3 DEF ToSet
  <2>4. QED BY <2>2, <2>3
<1>4. QED BY <1>1, <1>2, <1>3

\* The elements of a sequence.
LEMMA Elements ==
  ASSUME NEW S, NEW s \in Seq(S)
  PROVE  /\ DOMAIN s = 1..Len(s) /\ Len(s) \in Nat /\ ToSet(s) \subseteq S
         /\ \A i \in DOMAIN s : s[i] \in ToSet(s) /\ s[i] \in S
         /\ \A x \in ToSet(s) : \E i \in DOMAIN s : x = s[i]
<1>1. DOMAIN s = 1..Len(s) /\ Len(s) \in Nat /\ \A i \in DOMAIN s : s[i] \in S
  OBVIOUS
<1>2. \A x \in ToSet(s) : \E i \in DOMAIN s : x = s[i]
  BY DEF ToSet
<1>3. \A i \in DOMAIN s : s[i] \in ToSet(s)
  BY DEF ToSet
<1>4. QED BY <1>1, <1>2, <1>3
-----------------------------------------------------------------------------
(***************************************************************************)
(* The write queue.                                                        *)
(***************************************************************************)
\* A call of the queue changes its status and stays on it.
LEMMA StatusChange ==
  ASSUME Chained, NEW c \in Call, NEW p \in CallPc, pc' = [pc EXCEPT ![c] = p]
  PROVE  pc' \in [Call -> CallPc] /\ pc'[c] = p /\ \A d \in Call : d # c => pc'[d] = pc[d]
  BY DEF Chained

\* A call that writes, or fails to, is the head of the queue and no other position.
LEMMA OnlyHead ==
  ASSUME Chained, NEW c \in Call, pc[c] \in {"written", "failed"}
  PROVE  writes # <<>> /\ c = Head(writes)
<1>1. c \in ToSet(writes)
  BY DEF Chained, DepthCounts
<1>2. PICK i \in DOMAIN writes : c = writes[i]
  BY <1>1, Elements DEF Chained
<1>3. DOMAIN writes = 1..Len(writes) /\ Len(writes) \in Nat
  BY Elements DEF Chained
<1>4. i = 1
  BY <1>2, <1>3 DEF Chained
<1>5. writes # <<>>
  BY <1>2, <1>3, <1>4
<1>6. QED BY <1>2, <1>4, <1>5, Dequeued DEF Chained

\* A call whose status is none of those on the queue changes to another one of those.
LEMMA ChainedBeside ==
  ASSUME Chained, NEW c \in Call, pc[c] \in {"new", "targets"},
         NEW p \in {"targets", "refused"}, pc' = [pc EXCEPT ![c] = p],
         UNCHANGED <<writes, depth, derivations>>
  PROVE  Chained'
<1>1. pc' \in [Call -> CallPc] /\ pc'[c] = p /\ \A d \in Call : d # c => pc'[d] = pc[d]
  BY StatusChange DEF CallPc
<1>2. {d \in Call : pc'[d] \in {"queued", "written", "failed"}}
        = {d \in Call : pc[d] \in {"queued", "written", "failed"}}
  BY <1>1
<1>3. DepthCounts'
  BY <1>2 DEF Chained, DepthCounts
<1>4. \A i \in DOMAIN writes : writes[i] \in Call
  BY Elements DEF Chained
<1>5. \A i \in DOMAIN writes : i > 1 => pc'[writes[i]] = "queued"
  BY <1>1, <1>4 DEF Chained
<1>6. QED BY <1>1, <1>3, <1>5 DEF Chained

\* enqueueBoundedWrite keeps the depth within its cap and the call on the queue once.
LEMMA ChainedEnqueue ==
  ASSUME Chained, NEW c \in Call, pc[c] \in {"new", "targets"}, Enqueue(c),
         UNCHANGED derivations
  PROVE  Chained'
<1>1. CASE depth >= MaxDepth
  BY <1>1, ChainedBeside DEF Enqueue
<1>2. CASE ~ depth >= MaxDepth
  <2>1. /\ pc' = [pc EXCEPT ![c] = "queued"] /\ writes' = Append(writes, c)
        /\ depth' = depth + 1
    BY <1>2 DEF Enqueue
  <2>2. pc' \in [Call -> CallPc] /\ pc'[c] = "queued" /\ \A d \in Call : d # c => pc'[d] = pc[d]
    BY <2>1, StatusChange DEF CallPc
  <2> DEFINE n == Len(writes)
  <2>3. /\ writes \in Seq(Call) /\ DOMAIN writes = 1..n /\ n \in Nat /\ depth = n
        /\ ToSet(writes) = Accepted
        /\ \A i \in DOMAIN writes : writes[i] \in ToSet(writes) /\ writes[i] \in Call
    BY Elements DEF Chained, DepthCounts, Accepted
  <2>4. /\ writes' \in Seq(Call) /\ Len(writes') = n + 1 /\ DOMAIN writes' = 1..n + 1
        /\ \A i \in 1..n : writes'[i] = writes[i]
        /\ writes'[n + 1] = c /\ ToSet(writes') = ToSet(writes) \cup {c}
    BY <2>1, <2>3, Appended
  <2> HIDE DEF n
  <2>5. c \notin ToSet(writes)
    BY <2>3 DEF Accepted
  <2>6. \A i, j \in DOMAIN writes' : writes'[i] = writes'[j] => i = j
    <3>1. \A i \in 1..n + 1 : i = n + 1 \/ i \in 1..n
      BY <2>3
    <3>2. \A i, j \in 1..n : writes[i] = writes[j] => i = j
      BY <2>3 DEF Chained
    <3>3. \A i \in 1..n : writes[i] # c
      BY <2>3, <2>5
    <3>4. QED BY <2>4, <3>1, <3>2, <3>3
  <2>7. \A i \in DOMAIN writes' : i > 1 => pc'[writes'[i]] = "queued"
    <3>1. ASSUME NEW i \in 1..n + 1, i > 1
          PROVE  pc'[writes'[i]] = "queued"
      <4>1. CASE i = n + 1
        BY <2>2, <2>4, <4>1
      <4>2. CASE i \in 1..n
        BY <2>2, <2>3, <2>4, <2>5, <3>1, <4>2 DEF Chained
      <4>3. QED BY <2>3, <4>1, <4>2
    <3>2. QED BY <2>4, <3>1
  <2>8. DepthCounts'
    <3>1. Accepted' = Accepted \cup {c}
      BY <2>2 DEF Accepted
    <3>2. depth' <= MaxDepth
      BY <1>2, <2>1, <2>3, QueueConstants
    <3>3. QED BY <2>1, <2>3, <2>4, <3>1, <3>2 DEF DepthCounts, Accepted
  <2>9. QED BY <2>2, <2>4, <2>6, <2>7, <2>8 DEF Chained
<1>3. QED BY <1>1, <1>2
\* The write at the head succeeds or fails: the queue stays as it is.
LEMMA ChainedWrite ==
  ASSUME Chained, NEW c \in Call, Write(c) \/ WriteNothing(c)
  PROVE  /\ Chained'
         /\ pc[c] = "queued" /\ \E p \in {"written", "failed"} : pc' = [pc EXCEPT ![c] = p]
<1>1. PICK p \in {"written", "failed"} : pc' = [pc EXCEPT ![c] = p]
  BY DEF Write, WriteNothing
<1>2. writes' = writes /\ depth' = depth /\ pc[c] = "queued" /\ writes # <<>> /\ c = Head(writes)
  BY DEF Write, WriteNothing
<1>3. pc' \in [Call -> CallPc] /\ pc'[c] = p /\ \A d \in Call : d # c => pc'[d] = pc[d]
  BY <1>1, StatusChange DEF CallPc
<1>4. derivations' \in Seq(Call)
  BY Appended DEF Chained, Write, WriteNothing
<1>5. {d \in Call : pc'[d] \in {"queued", "written", "failed"}}
        = {d \in Call : pc[d] \in {"queued", "written", "failed"}}
  BY <1>2, <1>3
<1>6. DepthCounts'
  BY <1>2, <1>5 DEF Chained, DepthCounts
<1>7. ASSUME NEW i \in DOMAIN writes, i > 1
      PROVE  pc'[writes[i]] = "queued"
  <2>1. writes \in Seq(Call) /\ 1 \in DOMAIN writes /\ c = writes[1] /\ writes[i] \in Call
    BY <1>2, <1>7, Elements, Dequeued DEF Chained
  <2>2. writes[i] # c
    BY <1>7, <2>1 DEF Chained
  <2>3. QED BY <1>3, <1>7, <2>1, <2>2 DEF Chained
<1>8. QED BY <1>1, <1>2, <1>3, <1>4, <1>6, <1>7 DEF Chained

\* A write settles: it leaves the queue, and the depth is given back.
LEMMA ChainedSettle ==
  ASSUME Chained, NEW c \in Call, Settle(c)
  PROVE  Chained' /\ ToSet(writes') \subseteq ToSet(writes)
<1> DEFINE n == Len(writes)
<1>1. /\ pc[c] \in {"written", "failed"} /\ writes' = Tail(writes) /\ depth' = depth - 1
      /\ pc' = [pc EXCEPT ![c] = "done"] /\ derivations' = derivations
  BY DEF Settle
<1>2. pc' \in [Call -> CallPc] /\ pc'[c] = "done" /\ \A d \in Call : d # c => pc'[d] = pc[d]
  BY <1>1, StatusChange DEF CallPc
<1>3. writes # <<>> /\ c = Head(writes)
  BY <1>1, OnlyHead
<1>4. /\ writes \in Seq(Call) /\ n \in Nat /\ DOMAIN writes = 1..n /\ depth = n
      /\ \A i \in DOMAIN writes : writes[i] \in ToSet(writes) /\ writes[i] \in Call
  BY Elements DEF Chained, DepthCounts
<1>5. /\ writes' \in Seq(Call) /\ Len(writes') = n - 1 /\ n > 0 /\ DOMAIN writes' = 1..n - 1
      /\ \A i \in 1..n - 1 : writes'[i] = writes[i + 1]
      /\ c = writes[1]
      /\ ToSet(writes') \subseteq ToSet(writes) /\ ToSet(writes) \subseteq ToSet(writes') \cup {c}
  BY <1>1, <1>3, <1>4, Dequeued
<1> HIDE DEF n
<1>6. \A i \in 1..n - 1 : i + 1 \in 1..n /\ i + 1 > 1
  BY <1>4
<1>7. \A i \in 1..n - 1 : writes'[i] # c /\ pc[writes'[i]] = "queued" /\ writes'[i] \in Call
  <2>1. ASSUME NEW i \in 1..n - 1
        PROVE  writes'[i] # c /\ pc[writes'[i]] = "queued" /\ writes'[i] \in Call
    <3>1. i + 1 \in DOMAIN writes /\ i + 1 > 1 /\ writes'[i] = writes[i + 1] /\ 1 \in DOMAIN writes
      BY <1>4, <1>5, <1>6
    <3>2. writes[i + 1] # writes[1]
      BY <3>1, <1>4 DEF Chained
    <3>3. QED BY <3>1, <3>2, <1>4, <1>5 DEF Chained
  <2>2. QED BY <2>1
<1>8. c \notin ToSet(writes')
  BY <1>5, <1>7, Elements
<1>9. \A i, j \in DOMAIN writes' : writes'[i] = writes'[j] => i = j
  <2>1. ASSUME NEW i \in 1..n - 1, NEW j \in 1..n - 1, writes'[i] = writes'[j]
        PROVE  i = j
    <3>1. i + 1 \in DOMAIN writes /\ j + 1 \in DOMAIN writes /\ writes[i + 1] = writes[j + 1]
      BY <1>4, <1>5, <1>6, <2>1
    <3>2. i + 1 = j + 1
      BY <3>1 DEF Chained
    <3>3. QED BY <3>2, <1>4
  <2>2. QED BY <2>1, <1>5
<1>10. \A i \in DOMAIN writes' : i > 1 => pc'[writes'[i]] = "queued"
  BY <1>2, <1>5, <1>7
<1>11. DepthCounts'
  <2>1. ToSet(writes') = ToSet(writes) \ {c}
    BY <1>5, <1>8
  <2>2. Accepted' = Accepted \ {c}
    BY <1>2 DEF Accepted
  <2>3. ToSet(writes) = Accepted /\ depth <= MaxDepth
    BY DEF Chained, DepthCounts, Accepted
  <2>4. depth' = Len(writes') /\ depth' <= MaxDepth
    BY <1>1, <1>4, <1>5, <2>3, QueueConstants
  <2>5. QED BY <2>1, <2>2, <2>3, <2>4 DEF DepthCounts, Accepted
<1>12. QED BY <1>1, <1>2, <1>5, <1>9, <1>10, <1>11 DEF Chained

-----------------------------------------------------------------------------
(***************************************************************************)
(* The drain.                                                              *)
(***************************************************************************)
\* A step that leaves close() alone and only takes calls off the chains.
LEMMA DrainShrinks ==
  ASSUME Chained, Drain, UNCHANGED <<early, close, awaited>>,
         \A c \in early : pc'[c] \in {"queued", "written", "failed", "done"},
         ToSet(writes') \subseteq ToSet(writes),
         ToSet(derivations') \subseteq ToSet(derivations)
  PROVE  Drain'
<1>1. early' \subseteq {c \in Call : pc'[c] \in {"queued", "written", "failed", "done"}}
  BY DEF Drain
<1>2. /\ early \cap ToSet(writes') \subseteq early \cap ToSet(writes)
      /\ early \cap ToSet(derivations') \subseteq early \cap ToSet(derivations)
  OBVIOUS
<1>3. DrainedBeforeStop'
  BY <1>2 DEF Drain, DrainedBeforeStop
<1>4. QED BY <1>1, <1>2, <1>3 DEF Drain

\* A call that is refused, or that waits for its search indexes, was not accepted.
LEMMA DrainBeside ==
  ASSUME Chained, Drain, NEW c \in Call, pc[c] \in {"new", "targets"},
         NEW p \in {"targets", "refused"}, pc' = [pc EXCEPT ![c] = p],
         UNCHANGED <<writes, derivations, early, close, awaited>>
  PROVE  Drain'
<1>1. \A d \in Call : d # c => pc'[d] = pc[d]
  BY StatusChange DEF CallPc
<1>2. c \notin early
  BY DEF Drain
<1>3. \A d \in early : pc'[d] \in {"queued", "written", "failed", "done"}
  BY <1>1, <1>2 DEF Drain
<1>4. QED BY <1>3, DrainShrinks

\* A call that joins the queue while close() runs is none of those it has to drain.
LEMMA DrainEnqueue ==
  ASSUME Chained, Drain, NEW c \in Call, pc[c] \in {"new", "targets"}, Enqueue(c),
         UNCHANGED <<derivations, close, awaited>>
  PROVE  Drain'
<1>1. CASE depth >= MaxDepth
  BY <1>1, DrainBeside DEF Enqueue
<1>2. CASE ~ depth >= MaxDepth
  <2>1. /\ pc' = [pc EXCEPT ![c] = "queued"] /\ writes' = Append(writes, c)
        /\ early' = IF closed THEN early ELSE early \cup {c}
    BY <1>2 DEF Enqueue
  <2>2. pc'[c] = "queued" /\ \A d \in Call : d # c => pc'[d] = pc[d]
    BY <2>1, StatusChange DEF CallPc
  <2>3. ToSet(writes') = ToSet(writes) \cup {c}
    BY <2>1, Appended DEF Chained
  <2>4. c \notin early
    BY DEF Drain
  <2>5. early' \subseteq {d \in Call : pc'[d] \in {"queued", "written", "failed", "done"}}
    BY <2>1, <2>2 DEF Drain
  <2>6. closed => early' = early /\ early' \cap ToSet(writes') = early \cap ToSet(writes)
    BY <2>1, <2>3, <2>4
  <2>7. close # "no" <=> closed
    BY DEF closed
  <2>8. DrainedBeforeStop'
    BY <2>3, <2>4, <2>6, <2>7 DEF Drain, DrainedBeforeStop
  <2>9. QED BY <2>5, <2>6, <2>7, <2>8 DEF Drain
<1>3. QED BY <1>1, <1>2

\* A write that queues its derivation is still on the queue, so that close() awaits
\* its derivation after it.
LEMMA DrainWrite ==
  ASSUME Chained, Drain, NEW c \in Call, Write(c) \/ WriteNothing(c)
  PROVE  Drain'
<1>1. PICK p \in {"written", "failed"} : pc' = [pc EXCEPT ![c] = p]
  BY ChainedWrite
<1>2. \A d \in Call : pc'[d] = IF d = c THEN p ELSE pc[d]
  BY <1>1, StatusChange DEF CallPc
<1>3. \A d \in early : pc'[d] \in {"queued", "written", "failed", "done"}
  BY <1>2 DEF Drain
<1>4. CASE WriteNothing(c)
  BY <1>3, <1>4, DrainShrinks DEF WriteNothing
<1>5. CASE Write(c)
  <2>1. UNCHANGED <<writes, early, close, awaited>>
    BY <1>5 DEF Write
  <2>2. ToSet(derivations') = ToSet(derivations) \cup {c}
    BY <1>5, Appended DEF Chained, Write
  <2>3. c \in ToSet(writes)
    BY <1>5 DEF Chained, DepthCounts, Write
  <2>4. close \notin {"no", "sync", "writes"} => c \notin early
    BY <2>3 DEF Drain
  <2>5. close = "derivations" => early \cap ToSet(derivations') = early \cap ToSet(derivations)
    BY <2>2, <2>4
  <2>6. DrainedBeforeStop'
    BY <2>1, <2>2, <2>4 DEF Drain, DrainedBeforeStop
  <2>7. early' \subseteq {d \in Call : pc'[d] \in {"queued", "written", "failed", "done"}}
    BY <1>3, <2>1 DEF Drain
  <2>8. QED BY <2>1, <2>5, <2>6, <2>7 DEF Drain
<1>6. QED BY <1>4, <1>5

\* What close() does to the queue: it begins, and it has awaited what it goes on from.
LEMMA DrainClose ==
  ASSUME Drain, Close \/ AwaitWrites \/ AwaitDerivations \/ StopWorker
  PROVE  Drain'
<1>1. UNCHANGED <<pc, writes, derivations, early>>
  BY DEF Close, AwaitWrites, AwaitDerivations, StopWorker
<1>2. CASE Close
  BY <1>1, <1>2 DEF Close, Drain, DrainedBeforeStop, closed
<1>3. CASE AwaitWrites
  BY <1>1, <1>3 DEF AwaitWrites, Drain, DrainedBeforeStop
<1>4. CASE AwaitDerivations
  <2>1. early \cap ToSet(writes) = {}
    BY <1>4 DEF AwaitDerivations, Drain
  <2>2. QED BY <1>1, <1>4, <2>1 DEF AwaitDerivations, Drain, DrainedBeforeStop
<1>5. CASE StopWorker
  <2>1. early \cap ToSet(writes) = {} /\ early \cap ToSet(derivations) = {}
    BY <1>5 DEF StopWorker, Drain
  <2>2. early \cap (ToSet(writes) \cup ToSet(derivations)) = {}
    BY <2>1
  <2>3. QED BY <1>1, <1>5, <2>1, <2>2 DEF StopWorker, Drain, DrainedBeforeStop
<1>6. QED BY <1>2, <1>3, <1>4, <1>5

\* The rest of close() comes after the worker is stopped.
LEMMA DrainAfterStop ==
  ASSUME Drain, close \in {"stopped", "token", "stream", "tracker"},
         close' \in {"token", "stream", "tracker", "ended"},
         UNCHANGED <<pc, writes, derivations, early>>
  PROVE  Drain'
  BY DEF Drain, DrainedBeforeStop
-----------------------------------------------------------------------------
(***************************************************************************)
(* The change stream.                                                      *)
(***************************************************************************)
\* What is known of a change is not forgotten.
LEMMA CoveredGrows ==
  ASSUME NEW n \in Int, Covered(n), seen \subseteq seen', dark \subseteq dark',
         signalled \in Int, signalled' \in Int, signalled <= signalled'
  PROVE  \A k \in 1..n : k \in seen' \/ k <= signalled' \/ k \in dark'
  BY DEF Covered

\* The changes that no stream has to deliver any more are covered as long as nothing
\* is forgotten: what the stream has not passed, new changes included, is the stream's.
LEMMA ResumableStep ==
  ASSUME Supervised, Resumable,
         head' \in Nat, token' \in 0..head', signalled' \in 0..head', saved' \in 0..head',
         saving' \subseteq 0..head', head <= head',
         seen \subseteq seen', dark \subseteq dark', signalled <= signalled',
         saved' \in saving \cup {token, saved}, saving' \subseteq saving \cup {token},
         \/ token' = token
         \/ \A k \in 1..token' : k \in seen' \/ k <= signalled' \/ k \in dark',
         \A k \in 1..head' : \/ k \in seen' \/ k <= signalled' \/ k \in dark'
                             \/ (stream'.id # 0 /\ k > stream'.pos) \/ ended'
  PROVE  Resumable'
<1>1. signalled \in Int /\ signalled' \in Int
  BY DEF Resumable
<1>2. ASSUME NEW t \in saving \cup {token, saved}
      PROVE  \A k \in 1..t : k \in seen' \/ k <= signalled' \/ k \in dark'
  <2>1. t \in Int /\ Covered(t)
    BY DEF Resumable, Supervised, MissedOnlyInGaps, Covered
  <2>2. QED BY <1>1, <2>1, CoveredGrows
<1>3. \A k \in 1..token' : k \in seen' \/ k <= signalled' \/ k \in dark'
  BY <1>2
<1>4. \A t \in saving' : \A k \in 1..t : k \in seen' \/ k <= signalled' \/ k \in dark'
  BY <1>2
<1>5. \A k \in 1..saved' : k \in seen' \/ k <= signalled' \/ k \in dark'
  BY <1>2
<1>6. QED BY <1>3, <1>4, <1>5 DEF Resumable, MissedOnlyInGaps, Covered

\* Nothing of the stream changes but what close() saves.
LEMMA StreamKept ==
  ASSUME Supervised, Resumable,
         UNCHANGED <<head, stream, opened, alive, reopenTimers, token, debounce, saving,
                     ended, seen, signalled, dark>>,
         saved' \in saving \cup {token, saved}
  PROVE  Supervised' /\ Resumable'
<1>1. Supervised'
  BY DEF Supervised, NoStreamLeaks
<1>2. saved' \in 0..head'
  BY DEF Resumable
<1>3. QED BY <1>1, <1>2, ResumableStep DEF Resumable, Supervised, MissedOnlyInGaps

\* The stream is lost: nothing is left open beside the one that is opened at once, or
\* the reopening that is scheduled; the gap covers every change so far.
LEMMA StreamLost ==
  ASSUME Supervised, Resumable, LoseStream
  PROVE  Supervised' /\ Resumable'
<1>1. /\ UNCHANGED <<head, token, debounce, saving, saved, ended, seen, dark>>
      /\ signalled' = head /\ ~ ended
  BY DEF LoseStream, GapSignalled
<1>2. alive \ {stream.id} = {}
  BY DEF Supervised, NoStreamLeaks
<1>3. Supervised'
  <2>1. CASE Opens({}) /\ reopenTimers' = 0
    <3>1. stream' = [id |-> opened + 1, pos |-> head] /\ alive' = {opened + 1} /\ opened' = opened + 1
      BY <2>1 DEF Opens
    <3>2. head \in Nat /\ opened \in Nat
      BY DEF Supervised
    <3>3. stream' \in [id : 0..opened', pos : 0..head'] /\ stream'.id = opened + 1
      BY <1>1, <3>1, <3>2
    <3>4. QED BY <1>1, <2>1, <3>1, <3>2, <3>3 DEF Supervised, NoStreamLeaks
  <2>2. CASE stream' = NoStream /\ alive' = {} /\ reopenTimers' = 1 /\ opened' = opened
    <3>1. stream' \in [id : 0..opened', pos : 0..head'] /\ stream'.id = 0
      BY <1>1, <2>2 DEF NoStream, Supervised
    <3>2. QED BY <1>1, <2>2, <3>1 DEF Supervised, NoStreamLeaks
  <2>3. \/ Opens({}) /\ reopenTimers' = 0
        \/ stream' = NoStream /\ alive' = {} /\ reopenTimers' = 1 /\ opened' = opened
    BY <1>2 DEF LoseStream, TimersCleared
  <2>4. QED BY <2>1, <2>2, <2>3
<1>4. \A k \in 1..head' : k <= signalled'
  BY <1>1 DEF Supervised
<1>5. signalled <= signalled' /\ signalled' \in 0..head'
  BY <1>1 DEF Resumable, Supervised
<1>6. Resumable'
  BY <1>1, <1>4, <1>5, ResumableStep DEF Resumable, Supervised
<1>7. QED BY <1>3, <1>6

\* The scheduled reopening: no stream was open, so everything up to now is covered
\* already.
LEMMA StreamReopened ==
  ASSUME Supervised, Resumable, AttemptReopen
  PROVE  Supervised' /\ Resumable'
<1>1. /\ UNCHANGED <<head, token, debounce, saving, saved, ended, seen, signalled, dark>>
      /\ reopenTimers = 1 /\ stream.id = 0 /\ ~ ended /\ reopenTimers' = 0
      /\ stream' = [id |-> opened + 1, pos |-> head] /\ opened' = opened + 1
      /\ alive' = alive \cup {opened + 1}
  BY DEF AttemptReopen, Opens, Supervised
<1>2. alive = {}
  BY <1>1 DEF Supervised, NoStreamLeaks
<1>3. Supervised'
  <2>1. head \in Nat /\ opened \in Nat
    BY DEF Supervised
  <2>2. stream' \in [id : 0..opened', pos : 0..head'] /\ stream'.id = opened + 1
    BY <1>1, <2>1
  <2>3. QED BY <1>1, <1>2, <2>1, <2>2 DEF Supervised, NoStreamLeaks
<1>4. \A k \in 1..head' : k \in seen' \/ k <= signalled' \/ k \in dark'
  BY <1>1 DEF Resumable, MissedOnlyInGaps
<1>5. Resumable'
  BY <1>1, <1>4, ResumableStep DEF Resumable, Supervised
<1>6. QED BY <1>3, <1>5

\* close() of the watcher: the stream it holds is the only one there is.
LEMMA StreamClosed ==
  ASSUME Supervised, Resumable, CloseWatcher, saved' = saved
  PROVE  Supervised' /\ Resumable'
<1>1. /\ UNCHANGED <<head, opened, token, saving, saved, seen, signalled, dark>>
      /\ ended' = TRUE /\ reopenTimers' = 0 /\ debounce' = FALSE
      /\ stream' = NoStream /\ alive' = alive \ {stream.id}
  BY DEF CloseWatcher
<1>2. alive' = {}
  BY <1>1 DEF Supervised, NoStreamLeaks
<1>3. stream' \in [id : 0..opened', pos : 0..head'] /\ stream'.id = 0
  BY <1>1 DEF NoStream, Supervised
<1>4. Supervised'
  BY <1>1, <1>2, <1>3 DEF Supervised, NoStreamLeaks
<1>5. Resumable'
  BY <1>1, ResumableStep DEF Resumable, Supervised
<1>6. QED BY <1>4, <1>5

\* A change is committed: the open stream has it ahead, or nobody sees it.
LEMMA StreamGrows ==
  ASSUME Supervised, Resumable, Change
  PROVE  Supervised' /\ Resumable'
<1>1. /\ UNCHANGED <<stream, opened, alive, reopenTimers, token, debounce, saving, saved,
                     ended, seen, signalled>>
      /\ head' = head + 1
      /\ dark' = IF stream.id = 0 THEN dark \cup {head + 1} ELSE dark
  BY DEF Change
<1>2. /\ head \in Nat /\ stream \in [id : 0..opened, pos : 0..head]
      /\ token \in 0..head /\ signalled \in 0..head /\ saved \in 0..head /\ saving \subseteq 0..head
  BY DEF Supervised, Resumable
<1>3. /\ head' \in Nat /\ 0..head \subseteq 0..head' /\ head + 1 = head'
      /\ \A k \in 1..head' : k \in 1..head \/ k = head'
  BY <1>1, <1>2
<1>4. stream \in [id : 0..opened, pos : 0..head']
  BY <1>2, <1>3
<1>5. Supervised'
  BY <1>1, <1>3, <1>4 DEF Supervised, NoStreamLeaks
<1>6. stream.pos \in 0..head /\ head' > stream.pos
  BY <1>1, <1>2
<1>7. ASSUME NEW k \in 1..head'
      PROVE  \/ k \in seen' \/ k <= signalled' \/ k \in dark'
             \/ (stream'.id # 0 /\ k > stream'.pos) \/ ended'
  <2>1. CASE k \in 1..head
    BY <1>1, <2>1 DEF Resumable, MissedOnlyInGaps
  <2>2. CASE k = head'
    BY <1>1, <1>6, <2>2
  <2>3. QED BY <1>3, <2>1, <2>2
<1>8. /\ token' \in 0..head' /\ signalled' \in 0..head' /\ saved' \in 0..head'
      /\ saving' \subseteq 0..head' /\ head <= head' /\ dark \subseteq dark'
      /\ signalled <= signalled'
  BY <1>1, <1>2, <1>3
<1>9. Resumable'
  BY <1>1, <1>3, <1>7, <1>8, ResumableStep
<1>10. QED BY <1>5, <1>9

\* A change is delivered: the token moves over what was covered up to it.
LEMMA StreamDelivers ==
  ASSUME Supervised, Resumable, HandleChange
  PROVE  Supervised' /\ Resumable'
<1> DEFINE p == stream.pos
<1>1. /\ UNCHANGED <<head, opened, alive, reopenTimers, saving, saved, ended, signalled, dark>>
      /\ stream.id # 0 /\ p < head /\ token' = p + 1 /\ seen' = seen \cup {p + 1}
      /\ debounce' = TRUE /\ stream' = [stream EXCEPT !.pos = @ + 1]
  BY DEF HandleChange
<1>2. /\ head \in Nat /\ p \in 0..head /\ ~ ended /\ reopenTimers = 0
      /\ stream \in [id : 0..opened, pos : 0..head]
  BY <1>1 DEF Supervised
<1>3. stream'.id = stream.id /\ stream'.pos = p + 1
  BY <1>1, <1>2
<1>4. p + 1 \in 0..head
  BY <1>1, <1>2
<1>5. stream' \in [id : 0..opened, pos : 0..head]
  <2>1. stream' = [stream EXCEPT !.pos = p + 1]
    BY <1>1
  <2> HIDE DEF p
  <2>2. QED BY <1>2, <1>4, <2>1
<1> HIDE DEF p
<1>6. Supervised'
  BY <1>1, <1>2, <1>3, <1>5 DEF Supervised, NoStreamLeaks
<1>7. \A k \in 1..head : k \in seen \/ k <= signalled \/ k \in dark \/ k > p
  BY <1>2 DEF Resumable, MissedOnlyInGaps, p
<1>8. \A k \in 1..head : k > p => k = p + 1 \/ k > p + 1
  BY <1>2
<1>9. \A k \in 1..head' : \/ k \in seen' \/ k <= signalled' \/ k \in dark'
                           \/ (stream'.id # 0 /\ k > stream'.pos)
  BY <1>1, <1>3, <1>7, <1>8
<1>10. \A k \in 1..token' : k \in seen' \/ k <= signalled' \/ k \in dark'
  <2>1. \A k \in 1..token' : k \in 1..head /\ ~ k > p + 1
    BY <1>1, <1>2, <1>4
  <2>2. QED BY <1>1, <1>7, <1>8, <2>1
<1>11. /\ head' \in Nat /\ token' \in 0..head' /\ signalled' \in 0..head' /\ saved' \in 0..head'
       /\ saving' \subseteq 0..head' /\ head <= head' /\ signalled <= signalled'
  BY <1>1, <1>2, <1>4 DEF Resumable
<1>12. Resumable'
  BY <1>1, <1>9, <1>10, <1>11, ResumableStep
<1>13. QED BY <1>6, <1>12

\* The token waits to be saved, or its save ends.
LEMMA StreamSaves ==
  ASSUME Supervised, Resumable, FlushChanges \/ \E t \in saving : PersistToken(t)
  PROVE  Supervised' /\ Resumable'
<1>1. /\ UNCHANGED <<head, stream, opened, alive, reopenTimers, token, ended, seen,
                     signalled, dark>>
      /\ saving' \subseteq saving \cup {token} /\ saved' \in saving \cup {token, saved}
  BY DEF FlushChanges, PersistToken
<1>2. \/ debounce' = debounce
      \/ debounce' = FALSE
  BY DEF FlushChanges, PersistToken
<1>3. ASSUME debounce' = debounce PROVE Supervised'
  BY <1>1, <1>3 DEF Supervised, NoStreamLeaks
<1>4. ASSUME debounce' = FALSE PROVE Supervised'
  BY <1>1, <1>4 DEF Supervised, NoStreamLeaks
<1>5. /\ head \in Nat /\ token' \in 0..head' /\ signalled' \in 0..head' /\ saved' \in 0..head'
      /\ saving' \subseteq 0..head' /\ head <= head' /\ signalled <= signalled'
  BY <1>1 DEF Resumable, Supervised
<1>6. \A k \in 1..head' : \/ k \in seen' \/ k <= signalled' \/ k \in dark'
                           \/ (stream'.id # 0 /\ k > stream'.pos) \/ ended'
  BY <1>1 DEF Resumable, MissedOnlyInGaps
<1>7. Resumable'
  BY <1>1, <1>5, <1>6, ResumableStep
<1>8. QED BY <1>2, <1>3, <1>4, <1>7
-----------------------------------------------------------------------------
(***************************************************************************)
(* The manager.                                                            *)
(***************************************************************************)
\* The invariant holds when the manager starts.
LEMMA InitIInv ==
  ASSUME Init
  PROVE  IInv
<1>1. Chained
  <2>1. /\ pc = [c \in Call |-> "new"] /\ writes = <<>> /\ depth = 0 /\ derivations = <<>>
        /\ MaxDepth \in Nat
    BY QueueConstants DEF Init, QueueInit
  <2>2. <<>> \in Seq(Call) /\ Len(<<>>) = 0 /\ DOMAIN <<>> = {}
    OBVIOUS
  <2>3. ToSet(<<>>) = {}
    BY <2>2 DEF ToSet
  <2>4. {c \in Call : pc[c] \in {"queued", "written", "failed"}} = {}
    BY <2>1
  <2>5. DepthCounts
    BY <2>1, <2>2, <2>3, <2>4 DEF DepthCounts
  <2>6. pc \in [Call -> CallPc]
    BY <2>1 DEF CallPc
  <2>7. QED BY <2>1, <2>2, <2>5, <2>6 DEF Chained
<1>2. Drain
  BY DEF Init, QueueInit, Drain, DrainedBeforeStop
<1>3. /\ head = 2 /\ saved \in 0..2 /\ opened = 1 /\ alive = {1} /\ reopenTimers = 0
      /\ stream = [id |-> 1, pos |-> IF saved = 0 THEN head ELSE saved]
      /\ token = 0 /\ debounce = FALSE /\ saving = {} /\ ended = FALSE
      /\ seen = 1..stream.pos /\ signalled = 0 /\ dark = {}
  BY DEF Init, StreamInit
<1>4. stream.id = 1 /\ stream.pos \in 0..2 /\ stream.pos >= saved
  BY <1>3
<1>5. stream \in [id : 0..1, pos : 0..2]
  <2>1. stream = [id |-> 1, pos |-> stream.pos]
    BY <1>3
  <2>2. QED BY <1>4, <2>1
<1>6. Supervised
  <2>1. NoStreamLeaks
    BY <1>3, <1>4 DEF NoStreamLeaks
  <2>2. stream \in [id : 0..opened, pos : 0..head]
    BY <1>3, <1>5
  <2>3. alive \subseteq 1..opened /\ head \in Nat /\ opened \in Nat
    BY <1>3
  <2>4. debounce \in BOOLEAN
    BY <1>3
  <2>5. reopenTimers = 1 \/ ended => stream.id = 0
    BY <1>3
  <2>6. QED BY <1>3, <2>1, <2>2, <2>3, <2>4, <2>5 DEF Supervised
<1>7. Resumable
  BY <1>3, <1>4 DEF Resumable, MissedOnlyInGaps, Covered
<1>8. QED BY <1>1, <1>2, <1>6, <1>7 DEF IInv

\* A step of the queue.
LEMMA QueueStep ==
  ASSUME IInv, Queue
  PROVE  IInv'
<1>1. Chained /\ Drain /\ Supervised /\ Resumable
  BY DEF IInv
<1>2. UNCHANGED streamVars
  BY DEF Queue
<1>3. Supervised' /\ Resumable'
  BY <1>1, <1>2, StreamKept DEF streamVars
<1>4. ASSUME NEW c \in Call, Intake(c)
      PROVE  Chained' /\ Drain'
  <2>1. CASE CallClosed(c)
    BY <1>1, <2>1, ChainedBeside, DrainBeside DEF CallClosed
  <2>2. CASE CallWrite(c)
    BY <1>1, <2>2, ChainedEnqueue, DrainEnqueue DEF CallWrite
  <2>3. CASE CallBarrier(c)
    BY <1>1, <2>3, ChainedBeside, DrainBeside DEF CallBarrier
  <2>4. CASE TargetsFound(c)
    BY <1>1, <2>4, ChainedEnqueue, DrainEnqueue DEF TargetsFound
  <2>5. CASE TargetsMissing(c)
    BY <1>1, <2>5, ChainedBeside, DrainBeside DEF TargetsMissing
  <2>6. QED BY <1>4, <2>1, <2>2, <2>3, <2>4, <2>5 DEF Intake
<1>5. ASSUME NEW c \in Call, Chain(c)
      PROVE  Chained' /\ Drain'
  <2>1. CASE Write(c) \/ WriteNothing(c)
    BY <1>1, <2>1, ChainedWrite, DrainWrite
  <2>2. CASE Settle(c)
    <3>1. Chained' /\ ToSet(writes') \subseteq ToSet(writes)
      BY <1>1, <2>2, ChainedSettle
    <3>2. UNCHANGED <<derivations, early, close, awaited>> /\ pc' = [pc EXCEPT ![c] = "done"]
      BY <2>2 DEF Settle
    <3>3. \A d \in Call : pc'[d] = IF d = c THEN "done" ELSE pc[d]
      BY <1>1, <3>2, StatusChange DEF CallPc
    <3>4. \A d \in early : pc'[d] \in {"queued", "written", "failed", "done"}
      BY <1>1, <3>3 DEF Drain
    <3>5. QED BY <1>1, <3>1, <3>2, <3>4, DrainShrinks
  <2>3. QED BY <1>5, <2>1, <2>2 DEF Chain
<1>6. ASSUME Derive
      PROVE  Chained' /\ Drain'
  <2>1. /\ derivations # <<>> /\ derivations' = Tail(derivations)
        /\ UNCHANGED <<pc, writes, depth, early, close, awaited>>
    BY <1>6 DEF Derive
  <2>2. derivations' \in Seq(Call) /\ ToSet(derivations') \subseteq ToSet(derivations)
    BY <1>1, <2>1, Dequeued DEF Chained
  <2>3. Chained'
    BY <1>1, <2>1, <2>2 DEF Chained, DepthCounts
  <2>4. \A d \in early : pc'[d] \in {"queued", "written", "failed", "done"}
    BY <1>1, <2>1 DEF Drain
  <2>5. QED BY <1>1, <2>1, <2>2, <2>3, <2>4, DrainShrinks
<1>7. ASSUME Sync
      PROVE  Chained' /\ Drain'
  BY <1>1, <1>7 DEF Sync, Chained, DepthCounts, Drain, DrainedBeforeStop
<1>8. ASSUME Close \/ AwaitWrites \/ AwaitDerivations \/ StopWorker
      PROVE  Chained' /\ Drain'
  <2>1. UNCHANGED <<pc, writes, depth, derivations>>
    BY <1>8 DEF Close, AwaitWrites, AwaitDerivations, StopWorker
  <2>2. QED BY <1>1, <1>8, <2>1, DrainClose DEF Chained, DepthCounts
<1>9. Chained' /\ Drain'
  BY <1>4, <1>5, <1>6, <1>7, <1>8 DEF Queue
<1>10. QED BY <1>3, <1>9 DEF IInv

\* A step that leaves the queue alone.
LEMMA BesideQueue ==
  ASSUME IInv, UNCHANGED <<pc, writes, depth, derivations, early, close, awaited>>
  PROVE  Chained' /\ Drain'
  BY DEF IInv, Chained, DepthCounts, Drain, DrainedBeforeStop

\* A step of the change stream, or one that signals its gap.
LEMMA StreamStep ==
  ASSUME IInv, Stream \/ Gap
  PROVE  IInv'
<1>1. Chained' /\ Drain'
  BY BesideQueue DEF Stream, Gap, queueVars
<1>2. Supervised /\ Resumable
  BY DEF IInv
<1>3. CASE Gap
  BY <1>1, <1>2, <1>3, StreamLost DEF Gap, IInv
<1>4. CASE Stream
  <2>1. CASE AttemptReopen
    BY <1>1, <1>2, <2>1, StreamReopened DEF IInv
  <2>2. CASE ReopenFails
    BY <1>1, <1>2, <2>2, StreamKept DEF ReopenFails, IInv
  <2>3. CASE Unsupported
    BY <1>1, <1>2, <2>3, StreamClosed DEF Unsupported, IInv
  <2>4. CASE Change
    BY <1>1, <1>2, <2>4, StreamGrows DEF IInv
  <2>5. CASE HandleChange
    BY <1>1, <1>2, <2>5, StreamDelivers DEF IInv
  <2>6. CASE FlushChanges \/ \E t \in saving : PersistToken(t)
    BY <1>1, <1>2, <2>6, StreamSaves DEF IInv
  <2>7. QED BY <1>4, <2>1, <2>2, <2>3, <2>4, <2>5, <2>6 DEF Stream
<1>5. QED BY <1>3, <1>4

\* A step of the rest of close().
LEMMA ClosingStep ==
  ASSUME IInv, Closing
  PROVE  IInv'
<1>1. UNCHANGED <<pc, writes, depth, derivations, early>>
  BY DEF Closing, CloseSavesToken, CloseStream, CloseTracker, CloseEnds
<1>2. /\ close \in {"stopped", "token", "stream", "tracker"}
      /\ close' \in {"token", "stream", "tracker", "ended"}
  BY DEF Closing, CloseSavesToken, CloseStream, CloseTracker, CloseEnds
<1>3. Chained'
  BY <1>1 DEF IInv, Chained, DepthCounts
<1>4. Drain'
  BY <1>1, <1>2, DrainAfterStop DEF IInv
<1>5. Supervised /\ Resumable
  BY DEF IInv
<1>6. Supervised' /\ Resumable'
  <2>1. CASE CloseSavesToken
    BY <1>5, <2>1, StreamKept DEF CloseSavesToken
  <2>2. CASE CloseStream
    BY <1>5, <2>2, StreamClosed DEF CloseStream
  <2>3. CASE CloseTracker \/ CloseEnds
    BY <1>5, <2>3, StreamKept DEF CloseTracker, CloseEnds, streamVars
  <2>4. QED BY <2>1, <2>2, <2>3 DEF Closing
<1>7. QED BY <1>3, <1>4, <1>6 DEF IInv

\* A step of neither the queue nor the stream nor close().
LEMMA BesideStep ==
  ASSUME IInv, SyncSettles \/ Tracker \/ FlushCalls \/ EraseHere \/ UNCHANGED vars
  PROVE  IInv'
<1>1. UNCHANGED <<pc, writes, depth, derivations, early, close, awaited, streamVars>>
  BY DEF SyncSettles, SyncEnds, Tracker, FlushCalls, EraseHere, vars, queueVars
<1>2. Chained' /\ Drain'
  BY <1>1, BesideQueue
<1>3. Supervised' /\ Resumable'
  BY <1>1, StreamKept DEF streamVars, IInv
<1>4. QED BY <1>2, <1>3 DEF IInv

\* The inductive invariant of a manager.
THEOREM Invariance == Spec => []IInv
<1>1. Init => IInv
  BY InitIInv
<1>2. IInv /\ [Next]_vars => IInv'
  BY QueueStep, StreamStep, ClosingStep, BesideStep DEF Next
<1>3. QED BY <1>1, <1>2, PTL DEF Spec

\* Whatever writes fail, replay or are refused, the depth of the write queue is the
\* number of its unfinished writes and within its cap (enqueueBoundedWrite).
THEOREM DepthSafety == Spec => []DepthCounts
<1>1. IInv => DepthCounts
  BY DEF IInv, Chained
<1>2. QED BY <1>1, Invariance, PTL

\* When close() stops the job worker, every write that was accepted before it began
\* has settled and has been derived from.
THEOREM DrainSafety == Spec => []DrainedBeforeStop
<1>1. IInv => DrainedBeforeStop
  BY DEF IInv, Drain
<1>2. QED BY <1>1, Invariance, PTL

\* However reopenings, errors, saves of the token and close() race, no stream leaks
\* and no change is missed outside a gap.
THEOREM StreamSafety == Spec => []StreamSupervised
<1>1. IInv => StreamSupervised
  BY DEF IInv, Supervised, Resumable, StreamSupervised
<1>2. QED BY <1>1, Invariance, PTL

-----------------------------------------------------------------------------
(***************************************************************************)
(* The access tracker.  Its invariant is about the entries of an access    *)
(* rather than the access: no access is in two of them, and an entry that  *)
(* has a batch id is in the memory or not as a whole (Told).  The counter  *)
(* is right if the memory still knows the batches that may come again.     *)
(* Those are few: each was put back by a failure (Failures), they are the  *)
(* latest that were applied (Remembered), and the window holds more        *)
(* batches than there are failures.  The callers of flush() follow their   *)
(* accesses into the flight that has them (Callers).                       *)
(***************************************************************************)
Accesses(s) == UNION {s[i].of : i \in DOMAIN s}

Stamps(s) == {s[i].batch : i \in DOMAIN s} \ {0}

\* The entries of one epoch: those in the buffer and those in flight.  No access is in
\* two of them, and those that have a batch id are all in one place.
Lists(b, t, top, tw) ==
  /\ \A i, j \in DOMAIN b : i # j => b[i].of \cap b[j].of = {}
  /\ \A i, j \in DOMAIN t : i # j => t[i].of \cap t[j].of = {}
  /\ Accesses(b) \cap Accesses(t) = {}
  /\ \A i, j \in DOMAIN b : i < j /\ b[i].batch = b[j].batch /\ b[j].batch # 0 => b[j].of \subseteq tw
  /\ \A i, j \in DOMAIN t : i < j /\ t[i].batch = t[j].batch => t[j].of \subseteq tw
  /\ \A i \in DOMAIN b : b[i].batch <= top
  /\ \A i \in DOMAIN t : t[i].batch <= top /\ t[i].batch # 0
  /\ Stamps(b) # {} => t = <<>>

Entry == [of : SUBSET Access, batch : Nat]
Buffers == [Epoch -> Seq(Entry)]
AccessState == [pc : {"new", "search", "pending", "recorded", "lost"}, tok : Epoch]
Flights == [on : BOOLEAN, id : Nat, inspect : BOOLEAN, bad : BOOLEAN, todo : Buffers]
Memories == [counted : [Access -> Nat], applied : Seq(Nat), raw : [Access -> Nat],
             batches : SUBSET Nat]
FlushCall == [pc : {"no", "admissions", "flight", "run", "done"}, waits : SUBSET Access,
              id : Nat, due : SUBSET Access, failed : BOOLEAN, overtaken : BOOLEAN]

TrackerTypes(ac, bu, fl, ba, me, ep, fa, tw) ==
  /\ ac \in [Access -> AccessState] /\ bu \in Buffers /\ fl \in Flights /\ ba \in Nat
  /\ me \in Memories /\ ep \in Epoch /\ fa \in 0..MaxFault /\ tw \subseteq Access

Queued(bu, fl, ba, tw) ==
  /\ fl.id <= ba /\ (fl.on => fl.id # 0) /\ (~ fl.on => fl.todo = NoEntries)
  /\ \A e \in Epoch : Lists(bu[e], fl.todo[e], ba, tw)

\* An entry holds recorded accesses of its epoch.
Held(ac, bu, fl, ep) ==
  /\ \A a \in Access : ac[a].tok <= ep
  /\ \A e \in Epoch : \A a \in Accesses(bu[e]) \cup Accesses(fl.todo[e]) :
       ac[a].pc = "recorded" /\ ac[a].tok = e

\* What an entry has stored.
Told(s, me) ==
  \A i \in DOMAIN s : \A a \in s[i].of :
    me.raw[a] = IF s[i].batch \in me.batches THEN 1 ELSE 0

Once(ac, me, ep, tw) ==
  \A a \in Access :
    /\ me.counted[a] <= me.raw[a] /\ me.raw[a] <= 1
    /\ a \notin tw => me.counted[a] = me.raw[a]
    /\ me.raw[a] = 1 => ac[a].pc = "recorded" /\ ac[a].tok = ep

Missing(a, ac, me, ep) == ac[a].tok = ep /\ me.raw[a] = 0

Kept(ac, bu, fl, ba, me, ep) ==
  /\ me.batches \subseteq 1..ba /\ ToSet(me.applied) \subseteq me.batches
  /\ Told(bu[ep], me) /\ Told(fl.todo[ep], me)
  /\ \A a \in Access : ac[a].pc = "recorded" /\ Missing(a, ac, me, ep) =>
       a \in Accesses(bu[ep]) \cup Accesses(fl.todo[ep])

\* T is what the end of q holds, without repetition.
Recent(q, T) ==
  \E cut \in 0 .. Len(q) :
    /\ T = {q[i] : i \in cut + 1 .. Len(q)}
    /\ \A i, j \in cut + 1 .. Len(q) : q[i] = q[j] => i = j

\* The batches that may be retried are among the last that were applied, if they were.
Remembered(bu, fl, me, ep) ==
  LET open == Stamps(bu[ep]) \cup Stamps(fl.todo[ep])
  IN \E T \in SUBSET open : Recent(me.applied, T) /\ open \cap me.batches \subseteq T

Retried(bu, fl) == UNION {Stamps(bu[e]) \cup (Stamps(fl.todo[e]) \ {fl.id}) : e \in Epoch}

Failures(bu, fl, fa) ==
  IsFiniteSet(Retried(bu, fl)) /\ Cardinality(Retried(bu, fl)) <= fa

\* A caller of flush() whose accesses are not stored waits for the flight that has them,
\* or has been told, or was overtaken.
Caller(x, ac, fl, ba, me, ep) ==
  /\ x.id <= ba /\ \A a \in x.due : ac[a].pc = "recorded"
  /\ \A a \in x.due : Missing(a, ac, me, ep) =>
       /\ x.pc = "flight" /\ fl.on /\ fl.id # x.id /\ ~ fl.bad => a \in Accesses(fl.todo[ep])
       /\ x.pc = "run" /\ ~ x.failed => fl.on /\ fl.id = x.id /\ a \in Accesses(fl.todo[ep])
       /\ x.pc = "done" => x.failed \/ x.overtaken

Callers(fu, ac, fl, ba, me, ep) == \A f \in Flusher : Caller(fu[f], ac, fl, ba, me, ep)

Ledger(ac, bu, fl, ba, me, ep, fa, tw) ==
  /\ TrackerTypes(ac, bu, fl, ba, me, ep, fa, tw) /\ Queued(bu, fl, ba, tw)
  /\ Held(ac, bu, fl, ep) /\ Once(ac, me, ep, tw) /\ Kept(ac, bu, fl, ba, me, ep)
  /\ Remembered(bu, fl, me, ep) /\ Failures(bu, fl, fa)

\* The entries of a flight that has entries left were not stored under its own batch id.
Unused(fl, me, ep) == fl.todo[ep] # <<>> => fl.id \notin me.batches

TrackerInv ==
  /\ Ledger(access, buffer, flight, batches, memory, epoch, faults, twins)
  /\ Unused(flight, memory, epoch)
  /\ flusher \in [Flusher -> FlushCall]
  /\ Callers(flusher, access, flight, batches, memory, epoch)

\* Induction over the natural numbers, for a set.
LEMMA SetInduction ==
  ASSUME NEW S \in SUBSET Nat, 0 \in S, \A n \in S : n + 1 \in S
  PROVE  S = Nat
<1>1. IsWellFoundedOn(OpToRel(<, Nat), Nat)
  BY NatLessThanWellFounded
<1>2. ASSUME Nat \ S # {} PROVE FALSE
  <2>1. \E x \in Nat \ S : \A y \in Nat \ S : ~(<<y, x>> \in OpToRel(<, Nat))
    BY <1>1, <1>2, WFMin
  <2>2. PICK x \in Nat \ S : \A y \in Nat \ S : ~ (y < x)
    BY <2>1 DEF OpToRel
  <2>3. x # 0 /\ x - 1 \in Nat /\ x - 1 < x /\ (x - 1) + 1 = x
    BY <2>2
  <2>4. QED BY <2>2, <2>3
<1>3. QED BY <1>2

\* A $push that has room in the window for P keeps the batches T, which are in P.
LEMMA RecentPushed ==
  ASSUME NEW q \in Seq(Nat), NEW T, Recent(q, T), NEW b \in Nat, b \notin ToSet(q),
         NEW P, T \cup {b} \subseteq P, IsFiniteSet(P), Cardinality(P) <= APPLIED_BATCHES_WINDOW
  PROVE  /\ Pushed(q, b) \in Seq(Nat) /\ ToSet(Pushed(q, b)) \subseteq ToSet(q) \cup {b}
         /\ Recent(Pushed(q, b), T \cup {b})
<1> DEFINE all == Append(q, b)
           n == Len(q) + 1
           W == APPLIED_BATCHES_WINDOW
<1>1. /\ all \in Seq(Nat) /\ Len(all) = n /\ all[n] = b /\ n \in Nat
      /\ \A i \in 1 .. n - 1 : all[i] = q[i] /\ all[i] \in ToSet(q)
  BY DEF ToSet
<1>2. PICK cut \in 0 .. n - 1 :
        /\ T = {q[i] : i \in cut + 1 .. n - 1}
        /\ \A i, j \in cut + 1 .. n - 1 : q[i] = q[j] => i = j
  BY <1>1 DEF Recent
<1> HIDE DEF all, n
<1>3. /\ T \cup {b} = {all[i] : i \in cut + 1 .. n}
      /\ \A i, j \in cut + 1 .. n : all[i] = all[j] => i = j
  <2>1. \A i \in cut + 1 .. n : i = n \/ i \in cut + 1 .. n - 1
    BY <1>1
  <2>2. n \in cut + 1 .. n /\ \A i \in cut + 1 .. n - 1 : i \in cut + 1 .. n /\ i \in 1 .. n - 1
    BY <1>1
  <2>3. \A i \in cut + 1 .. n - 1 : all[i] # b
    BY <1>1, <2>2
  <2>4. T \cup {b} \subseteq {all[i] : i \in cut + 1 .. n}
    BY <1>1, <1>2, <2>2
  <2>5. {all[i] : i \in cut + 1 .. n} \subseteq T \cup {b}
    BY <1>1, <1>2, <2>1, <2>2
  <2>6. ASSUME NEW i \in cut + 1 .. n, NEW j \in cut + 1 .. n, all[i] = all[j]
        PROVE  i = j
    BY <1>1, <1>2, <2>1, <2>2, <2>3, <2>6
  <2>7. QED BY <2>4, <2>5, <2>6
<1>4. n - cut <= W
  <2> DEFINE f == [i \in 1 .. n - cut |-> all[cut + i]]
  <2>1. \A i \in 1 .. n - cut : cut + i \in cut + 1 .. n
    BY <1>1
  <2>2. \A i \in 1 .. n - cut : f[i] \in P
    BY <1>3, <2>1
  <2>3. \A i, j \in 1 .. n - cut : f[i] = f[j] => i = j
    BY <1>3, <2>1
  <2>4. f \in Injection(1 .. n - cut, P)
    BY <2>2, <2>3 DEF Injection, IsInjective
  <2>5. Cardinality(1 .. n - cut) <= Cardinality(P) /\ Cardinality(P) \in Nat
    BY <2>4, FS_Injection, FS_CardinalityType
  <2>6. Cardinality(1 .. n - cut) = n - cut
    BY <1>1, FS_Interval
  <2>7. QED BY <1>1, <2>5, <2>6, TrackerConstants
<1>5. /\ n > W => Pushed(q, b) = SubSeq(all, (n - W) + 1, n)
      /\ n <= W => Pushed(q, b) = all
  <2>1. Len(Append(q, b)) = n /\ Append(q, b) = all
    BY <1>1 DEF all
  <2>2. Pushed(q, b) = IF n - W > 0 THEN SubSeq(all, (n - W) + 1, n) ELSE all
    BY <2>1, Zenon DEF Pushed
  <2>3. (n - W > 0 <=> n > W) /\ ~ (n > W /\ n <= W) /\ (n <= W => ~ n > W)
    BY <1>1, TrackerConstants
  <2>4. QED BY <2>2, <2>3, Zenon
<1>6. CASE n <= W
  <2>1. Pushed(q, b) = all
    BY <1>5, <1>6
  <2>2. ToSet(all) \subseteq ToSet(q) \cup {b}
    BY <1>1 DEF ToSet
  <2>3. Recent(all, T \cup {b})
    <3>1. cut \in 0 .. Len(all)
      BY <1>1
    <3>2. QED BY <1>1, <1>3, <3>1, Zenon DEF Recent
  <2>4. QED BY <1>1, <2>1, <2>2, <2>3
<1>7. CASE n > W
  <2> DEFINE k == n - W
             r == SubSeq(all, k + 1, n)
  <2>1. k \in Nat /\ k > 0 /\ k <= cut /\ n - k = W
    BY <1>1, <1>4, <1>7, TrackerConstants
  <2>2. Pushed(q, b) = r
    BY <1>5, <1>7
  <2>3. r \in Seq(Nat) /\ Len(r) = n - k /\ \A i \in 1 .. n - k : r[i] = all[i + k]
    <3>1. k + 1 \in Int /\ n \in Int /\ \A i \in k + 1 .. n : all[i] \in Nat
      BY <1>1, <2>1
    <3> HIDE DEF k
    <3>2. QED BY <1>1, <2>1, <3>1
  <2> HIDE DEF k, r
  <2>4. ToSet(r) \subseteq ToSet(q) \cup {b}
    <3>1. \A i \in 1 .. n - k : i + k = n \/ i + k \in 1 .. n - 1
      BY <1>1, <2>1
    <3>2. \A i \in 1 .. n - k : r[i] \in ToSet(q) \cup {b}
      BY <1>1, <2>3, <3>1
    <3>3. QED BY <2>3, <3>2 DEF ToSet
  <2>5. Recent(r, T \cup {b})
    <3>1. cut - k \in 0 .. Len(r) /\ \A i \in (cut - k) + 1 .. Len(r) : i \in 1 .. n - k /\ i + k \in cut + 1 .. n
      BY <1>1, <2>1, <2>3
    <3>2. \A i \in cut + 1 .. n : i - k \in (cut - k) + 1 .. Len(r) /\ (i - k) + k = i
      BY <1>1, <2>1, <2>3
    <3>3. {r[i] : i \in (cut - k) + 1 .. Len(r)} \subseteq T \cup {b}
      BY <1>3, <2>3, <3>1
    <3>4. ASSUME NEW i \in cut + 1 .. n
          PROVE  all[i] \in {r[j] : j \in (cut - k) + 1 .. Len(r)}
      <4>1. i - k \in (cut - k) + 1 .. Len(r) /\ r[i - k] = all[(i - k) + k] /\ (i - k) + k = i
        BY <2>3, <3>1, <3>2
      <4>2. r[i - k] = all[i]
        BY <4>1
      <4>3. QED BY <4>1, <4>2
    <3>5. T \cup {b} = {r[i] : i \in (cut - k) + 1 .. Len(r)}
      <4>1. ASSUME NEW x \in T \cup {b}
            PROVE  x \in {r[j] : j \in (cut - k) + 1 .. Len(r)}
        <5>1. PICK i \in cut + 1 .. n : x = all[i]
          BY <1>3
        <5>2. QED BY <3>4, <5>1
      <4>2. QED BY <3>3, <4>1, Zenon
    <3>6. ASSUME NEW i \in (cut - k) + 1 .. Len(r), NEW j \in (cut - k) + 1 .. Len(r), r[i] = r[j]
          PROVE  i = j
      <4>1. all[i + k] = all[j + k]
        BY <2>3, <3>1, <3>6
      <4>2. i + k = j + k
        BY <1>3, <3>1, <4>1
      <4>3. QED BY <2>1, <2>3, <4>2
    <3>7. QED BY <3>1, <3>5, <3>6 DEF Recent
  <2>6. QED BY <2>2, <2>3, <2>4, <2>5
<1>8. QED BY <1>1, <1>6, <1>7, TrackerConstants

\* The states of the memory between the updates of a flush.
LEMMA FlushSteps ==
  ASSUME NEW g \in Seq(Entry)
  PROVE  \E st :
           /\ st[0] = Inserted(memory, g)
           /\ \A n \in 1 .. Len(g) : st[n] = Count(st[n - 1], g[n])
           /\ FlushSnapshot(g) = st[Len(g)]
<1> DEFINE First == Inserted(memory, g)
           Runs(f, k) == f = [n \in 0 .. k |-> IF n = 0 THEN First ELSE Count(f[n - 1], g[n])]
           S == {k \in Nat : k <= Len(g) => \E f : Runs(f, k)}
           st == CHOOSE f : Runs(f, Len(g))
<1>1. FlushSnapshot(g) = st[Len(g)]
  BY DEF FlushSnapshot
<1>2. Len(g) \in Nat
  OBVIOUS
<1> HIDE DEF First
<1>3. Runs([n \in 0 .. 0 |-> First], 0)
  OBVIOUS
<1>4. ASSUME NEW k \in S
      PROVE  k + 1 \in S
  <2> SUFFICES ASSUME k + 1 <= Len(g)
               PROVE  \E f : Runs(f, k + 1)
    OBVIOUS
  <2>1. PICK f : Runs(f, k)
    BY <1>2
  <2> DEFINE h == [n \in 0 .. k + 1 |-> IF n = k + 1 THEN Count(f[k], g[k + 1]) ELSE f[n]]
  <2>2. h[0] = First
    BY <2>1
  <2>3. ASSUME NEW n \in 0 .. k + 1, n # 0
        PROVE  h[n] = Count(h[n - 1], g[n])
    <3>1. CASE n = k + 1
      <4>1. n - 1 = k /\ k # k + 1 /\ k \in 0 .. k + 1
        BY <3>1
      <4>2. h[n - 1] = f[k] /\ h[n] = Count(f[k], g[k + 1])
        BY <3>1, <4>1
      <4>3. QED BY <3>1, <4>2
    <3>2. CASE n # k + 1
      <4>1. n \in 0 .. k /\ n - 1 \in 0 .. k + 1 /\ n - 1 # k + 1
        BY <2>3, <3>2
      <4>2. h[n] = f[n] /\ h[n - 1] = f[n - 1]
        BY <3>2, <4>1
      <4>3. f[n] = Count(f[n - 1], g[n])
        BY <2>1, <2>3, <4>1
      <4>4. QED BY <4>2, <4>3
    <3>3. QED BY <3>1, <3>2
  <2>4. \A n \in 0 .. k + 1 : h[n] = IF n = 0 THEN First ELSE Count(h[n - 1], g[n])
    BY <2>2, <2>3
  <2>5. h = [n \in 0 .. k + 1 |-> h[n]]
    OBVIOUS
  <2> HIDE DEF h
  <2>6. Runs(h, k + 1)
    BY <2>4, <2>5
  <2>7. QED BY <2>6
<1>5. S \in SUBSET Nat /\ 0 \in S
  BY <1>3
<1> HIDE DEF S
<1>6. S = Nat
  BY <1>4, <1>5, SetInduction
<1>7. \E f : Runs(f, Len(g))
  BY <1>2, <1>6 DEF S
<1> HIDE DEF Runs
<1>8. Runs(st, Len(g))
  BY <1>7
<1> HIDE DEF st
<1>9. /\ st[0] = First
      /\ \A n \in 1 .. Len(g) : st[n] = Count(st[n - 1], g[n])
  <2>1. \A n \in 0 .. Len(g) : st[n] = IF n = 0 THEN First ELSE Count(st[n - 1], g[n])
    BY <1>8 DEF Runs
  <2>2. 0 \in 0 .. Len(g) /\ \A n \in 1 .. Len(g) : n \in 0 .. Len(g) /\ n # 0
    BY <1>2
  <2>3. QED BY <2>1, <2>2
<1>10. QED BY <1>1, <1>9, Zenon DEF First

\* The raw inserts of a flush of the entries g, which are those of the flight.
LEMMA InsertedOnce ==
  ASSUME NEW g, g \in Seq(Entry), memory \in Memories,
         \A i, j \in DOMAIN g : i # j => g[i].of \cap g[j].of = {},
         \A i \in DOMAIN g : g[i].batch # 0,
         Told(g, memory), \A a \in Access : memory.raw[a] <= 1,
         flight.id \notin memory.batches
  PROVE  LET m == Inserted(memory, g) IN
         /\ m \in Memories
         /\ m.counted = memory.counted /\ m.applied = memory.applied
         /\ m.batches = memory.batches \cup Stamps(g)
         /\ \A a \in Access : m.raw[a] = IF a \in Accesses(g) THEN 1 ELSE memory.raw[a]
<1> DEFINE present == IF {x.batch : x \in ToSet(g)} = {flight.id} THEN {} ELSE memory.batches
           new == {i \in DOMAIN g : g[i].batch \notin present}
           here(a) == {i \in new : a \in g[i].of}
           raw == [a \in Access |-> memory.raw[a] + Cardinality(here(a))]
           bs == memory.batches \cup {g[i].batch : i \in new}
           m == [memory EXCEPT !.raw = raw, !.batches = bs]
<1>1. Inserted(memory, g) = m
  BY DEF Inserted
<1>2. \A i \in DOMAIN g : g[i] \in Entry /\ i \in Nat /\ g[i].of \subseteq Access /\ g[i].batch \in Nat
  <2>1. \A i \in DOMAIN g : g[i] \in Entry /\ i \in Nat
    OBVIOUS
  <2>2. QED BY <2>1 DEF Entry
<1>3. \A i \in DOMAIN g : i \in new <=> g[i].batch \notin memory.batches
  <2>1. CASE {x.batch : x \in ToSet(g)} = {flight.id}
    <3>1. present = {}
      BY <2>1
    <3>2. \A i \in DOMAIN g : g[i].batch = flight.id
      <4>1. \A i \in DOMAIN g : g[i] \in ToSet(g)
        BY DEF ToSet
      <4>2. QED BY <2>1, <4>1
    <3>3. QED BY <3>1, <3>2
  <2>2. CASE {x.batch : x \in ToSet(g)} # {flight.id}
    <3>1. present = memory.batches
      BY <2>2
    <3>2. QED BY <3>1
  <2>3. QED BY <2>1, <2>2
<1>4. new \subseteq DOMAIN g
  OBVIOUS
<1>5. \A a \in Access : memory.raw[a] \in Nat
  BY DEF Memories
<1>6. memory.batches \in SUBSET Nat /\ memory.counted \in [Access -> Nat] /\ memory.applied \in Seq(Nat)
  BY DEF Memories
<1> HIDE DEF new
<1>7. bs = memory.batches \cup Stamps(g)
  <2>1. \A i \in new : g[i].batch \in Stamps(g)
    BY <1>4 DEF Stamps
  <2>2. ASSUME NEW x \in Stamps(g)
        PROVE  x \in bs
    <3>1. PICK i \in DOMAIN g : x = g[i].batch
      BY DEF Stamps
    <3>2. QED BY <3>1, <1>3
  <2>3. QED BY <2>1, <2>2
<1>8. ASSUME NEW a \in Access
      PROVE  /\ Cardinality(here(a)) \in Nat
             /\ memory.raw[a] + Cardinality(here(a)) = IF a \in Accesses(g) THEN 1 ELSE memory.raw[a]
  <2>1. CASE a \notin Accesses(g)
    <3>1. here(a) = {}
      BY <2>1, <1>4 DEF Accesses
    <3>2. Cardinality(here(a)) = 0
      BY <3>1, FS_EmptySet
    <3>3. QED BY <1>5, <2>1, <3>2
  <2>2. CASE a \in Accesses(g)
    <3>1. PICK k \in DOMAIN g : a \in g[k].of
      BY <2>2 DEF Accesses
    <3>2. \A i \in DOMAIN g : a \in g[i].of => i = k
      BY <3>1
    <3>3. memory.raw[a] = IF g[k].batch \in memory.batches THEN 1 ELSE 0
      BY <3>1 DEF Told
    <3>4. CASE g[k].batch \in memory.batches
      <4>1. here(a) = {}
        BY <1>3, <1>4, <3>2, <3>4
      <4>2. Cardinality(here(a)) = 0
        BY <4>1, FS_EmptySet
      <4>3. QED BY <2>2, <3>3, <3>4, <4>2
    <3>5. CASE g[k].batch \notin memory.batches
      <4>1. here(a) = {k}
        BY <1>3, <1>4, <3>1, <3>2, <3>5
      <4>2. Cardinality(here(a)) = 1
        BY <4>1, FS_Singleton
      <4>3. QED BY <2>2, <3>3, <3>5, <4>2
    <3>6. QED BY <3>4, <3>5
  <2>3. QED BY <2>1, <2>2
<1> HIDE DEF here
<1>9. raw \in [Access -> Nat] /\ \A a \in Access : raw[a] = IF a \in Accesses(g) THEN 1 ELSE memory.raw[a]
  <2>1. \A a \in Access : raw[a] = memory.raw[a] + Cardinality(here(a)) /\ raw[a] \in Nat
    BY <1>5, <1>8
  <2>2. raw \in [Access -> Nat]
    <3>1. \A a \in Access : memory.raw[a] + Cardinality(here(a)) \in Nat
      BY <1>5, <1>8
    <3>2. QED BY <3>1
  <2>3. QED BY <1>8, <2>1, <2>2
<1> HIDE DEF raw
<1>10. bs \in SUBSET Nat
  <2>1. Stamps(g) \subseteq Nat
    BY <1>2 DEF Stamps
  <2>2. QED BY <1>6, <1>7, <2>1
<1> HIDE DEF bs
<1>11. /\ m \in Memories /\ m.counted = memory.counted /\ m.applied = memory.applied
       /\ m.batches = bs /\ m.raw = raw
  BY <1>9, <1>10 DEF Memories
<1> HIDE DEF m
<1>12. QED BY <1>1, <1>7, <1>9, <1>11

\* The accesses of the first n entries, and their batches.
Before(g, n) == UNION {g[k].of : k \in 1 .. n}
StampsBefore(g, n) == {g[k].batch : k \in 1 .. n}

\* The memory m after n of the updates for g, which began with m0: T are the batches of
\* g that it had applied.
Tallied(m, m0, g, n, T, tw) ==
  /\ m \in Memories /\ m.raw = m0.raw /\ m.batches = m0.batches
  /\ Recent(m.applied, T \cup StampsBefore(g, n))
  /\ ToSet(m.applied) \subseteq ToSet(m0.applied) \cup StampsBefore(g, n)
  /\ \A a \in Before(g, n) : m.counted[a] <= 1 /\ (a \notin tw => m.counted[a] = 1)
  /\ \A a \in Access \ Before(g, n) : m.counted[a] = m0.counted[a]

\* What the entries g of a flush are: T are the batches among theirs that are in the
\* memory, and P has room for theirs.
Flushable(g, m, T, tw) ==
  /\ g \in Seq(Entry) /\ m \in Memories
  /\ \A i, j \in DOMAIN g : i # j => g[i].of \cap g[j].of = {}
  /\ \A i, j \in DOMAIN g : i < j /\ g[i].batch = g[j].batch => g[j].of \subseteq tw
  /\ ToSet(m.applied) \subseteq m.batches /\ Told(g, m)
  /\ \A a \in Access : m.counted[a] <= m.raw[a] /\ m.raw[a] <= 1
                       /\ (a \notin tw => m.counted[a] = m.raw[a])
  /\ T \subseteq Stamps(g) /\ Stamps(g) \cap m.batches = T
  /\ \A i \in DOMAIN g : g[i].batch # 0

\* One update of a flush keeps the tally, if the window has room for the flush's batches.
LEMMA CountTallied ==
  ASSUME NEW g, NEW m0, NEW T, NEW tw, Flushable(g, m0, T, tw),
         NEW P, Stamps(g) \subseteq P, IsFiniteSet(P), Cardinality(P) <= APPLIED_BATCHES_WINDOW,
         NEW i0, i0 \in Memories, i0.counted = m0.counted, i0.applied = m0.applied,
         NEW n \in Nat, n + 1 <= Len(g), NEW m, Tallied(m, i0, g, n, T, tw)
  PROVE  Tallied(Count(m, g[n + 1]), i0, g, n + 1, T, tw)
<1> DEFINE e == g[n + 1]
<1>1. /\ g \in Seq(Entry) /\ Len(g) \in Nat /\ DOMAIN g = 1 .. Len(g) /\ n + 1 \in DOMAIN g
      /\ \A k \in 1 .. n : k \in DOMAIN g /\ k < n + 1
  BY DEF Flushable
<1>2. e \in Entry /\ e.of \subseteq Access /\ e.batch \in Nat /\ e.batch # 0
  <2>1. g[n + 1] \in Entry
    BY <1>1
  <2>2. QED BY <1>1, <2>1 DEF Entry, Flushable
<1>3. Before(g, n + 1) = Before(g, n) \cup e.of /\ StampsBefore(g, n + 1) = StampsBefore(g, n) \cup {e.batch}
  <2>1. 1 .. n + 1 = (1 .. n) \cup {n + 1}
    OBVIOUS
  <2>2. QED BY <2>1 DEF Before, StampsBefore
<1>4. Before(g, n) \cap e.of = {}
  <2>1. \A k \in 1 .. n : g[k].of \cap g[n + 1].of = {}
    BY <1>1 DEF Flushable
  <2>2. QED BY <2>1 DEF Before
<1>5. \A k \in 1 .. n : g[k].batch = e.batch => e.of \subseteq tw
  BY <1>1 DEF Flushable
<1>6. e.batch \in Stamps(g) /\ StampsBefore(g, n) \subseteq Stamps(g) /\ T \subseteq Stamps(g)
  <2>1. \A k \in DOMAIN g : g[k].batch \in Stamps(g)
    BY DEF Flushable, Stamps
  <2>2. QED BY <1>1, <2>1 DEF StampsBefore, Flushable
<1>7. \A a \in e.of : a \in Access /\ m.counted[a] = m0.counted[a]
  BY <1>2, <1>4 DEF Tallied
<1>8. \A a \in e.of : /\ m0.counted[a] \in Nat /\ m0.raw[a] \in Nat /\ m0.counted[a] <= m0.raw[a]
                      /\ (a \notin tw => m0.counted[a] = m0.raw[a])
                      /\ m0.raw[a] = IF e.batch \in m0.batches THEN 1 ELSE 0
  <2>1. \A a \in e.of : m0.raw[a] = IF e.batch \in m0.batches THEN 1 ELSE 0
    BY <1>1 DEF Flushable, Told
  <2>2. m0.counted \in [Access -> Nat] /\ m0.raw \in [Access -> Nat]
    BY DEF Flushable, Memories
  <2>3. QED BY <1>2, <2>1, <2>2 DEF Flushable
<1>9. e.batch \in m0.batches <=> e.batch \in T
  BY <1>6 DEF Flushable
<1>10. /\ m \in Memories /\ m.raw = i0.raw /\ m.batches = i0.batches
       /\ Recent(m.applied, T \cup StampsBefore(g, n))
       /\ ToSet(m.applied) \subseteq ToSet(i0.applied) \cup StampsBefore(g, n)
       /\ ToSet(m0.applied) \subseteq m0.batches
  BY DEF Tallied, Flushable
<1>11. m.applied \in Seq(Nat) /\ m.counted \in [Access -> Nat]
  BY <1>10 DEF Memories
<1> HIDE DEF e
<1>12. CASE e.batch \in ToSet(m.applied)
  <2>1. Count(m, e) = m
    BY <1>12 DEF Count
  <2>2. e.batch \in T \cup StampsBefore(g, n)
    BY <1>9, <1>10, <1>12
  <2>3. Recent(m.applied, T \cup StampsBefore(g, n + 1))
    <3>1. T \cup StampsBefore(g, n + 1) = T \cup StampsBefore(g, n)
      BY <1>3, <2>2
    <3>2. QED BY <1>10, <3>1
  <2>4. \A a \in e.of : m.counted[a] <= 1 /\ (a \notin tw => m.counted[a] = 1)
    <3>1. CASE e.batch \in T
      BY <1>7, <1>8, <1>9, <3>1
    <3>2. CASE e.batch \in StampsBefore(g, n)
      <4>1. e.of \subseteq tw
        BY <1>5, <3>2 DEF StampsBefore
      <4>2. \A a \in e.of : m0.counted[a] <= 1
        BY <1>8
      <4>3. QED BY <1>7, <4>1, <4>2
    <3>3. QED BY <2>2, <3>1, <3>2
  <2>5. \A a \in Before(g, n + 1) : m.counted[a] <= 1 /\ (a \notin tw => m.counted[a] = 1)
    BY <1>3, <2>4 DEF Tallied
  <2>6. \A a \in Access \ Before(g, n + 1) : m.counted[a] = i0.counted[a]
    BY <1>3 DEF Tallied
  <2>7. ToSet(m.applied) \subseteq ToSet(i0.applied) \cup StampsBefore(g, n + 1)
    BY <1>3, <1>10
  <2> HIDE DEF Count
  <2>8. QED BY <1>10, <2>1, <2>3, <2>5, <2>6, <2>7 DEF Tallied, e
<1>13. CASE e.batch \notin ToSet(m.applied)
  <2> DEFINE c == [a \in Access |-> m.counted[a] + IF a \in e.of THEN 1 ELSE 0]
             q == Pushed(m.applied, e.batch)
             r == [m EXCEPT !.counted = c, !.applied = q]
  <2>1. Count(m, e) = r
    BY <1>13 DEF Count
  <2>2. c \in [Access -> Nat] /\ \A a \in Access : c[a] = IF a \in e.of THEN m.counted[a] + 1 ELSE m.counted[a]
    BY <1>11
  <2>3. T \cup StampsBefore(g, n) \subseteq ToSet(m.applied)
    <3>1. PICK cut \in 0 .. Len(m.applied) :
            T \cup StampsBefore(g, n) = {m.applied[i] : i \in cut + 1 .. Len(m.applied)}
      BY <1>10 DEF Recent
    <3>2. \A i \in cut + 1 .. Len(m.applied) : i \in DOMAIN m.applied
      BY <1>11
    <3>3. QED BY <3>1, <3>2 DEF ToSet
  <2>4. e.batch \notin m0.batches
    BY <1>9, <1>13, <2>3
  <2>5. (T \cup StampsBefore(g, n)) \cup {e.batch} \subseteq P
    BY <1>6
  <2>6. /\ q \in Seq(Nat) /\ ToSet(q) \subseteq ToSet(m.applied) \cup {e.batch}
        /\ Recent(q, (T \cup StampsBefore(g, n)) \cup {e.batch})
    BY <1>2, <1>10, <1>11, <1>13, <2>5, RecentPushed
  <2> HIDE DEF c, q
  <2>7. r \in Memories /\ r.raw = i0.raw /\ r.batches = i0.batches /\ r.counted = c /\ r.applied = q
    BY <1>10, <2>2, <2>6 DEF Memories
  <2>8. Recent(q, T \cup StampsBefore(g, n + 1))
    <3>1. T \cup StampsBefore(g, n + 1) = (T \cup StampsBefore(g, n)) \cup {e.batch}
      BY <1>3
    <3>2. QED BY <2>6, <3>1
  <2>9. ToSet(q) \subseteq ToSet(i0.applied) \cup StampsBefore(g, n + 1)
    BY <1>3, <1>10, <2>6
  <2>10. \A a \in e.of : c[a] = 1
    <3>1. \A a \in e.of : m.counted[a] = 0
      BY <1>7, <1>8, <2>4
    <3>2. QED BY <1>7, <2>2, <3>1
  <2>11. \A a \in Before(g, n) : a \in Access /\ c[a] = m.counted[a]
    <3>1. Before(g, n) \subseteq Access
      <4>1. \A k \in 1 .. n : g[k] \in Entry
        BY <1>1
      <4>2. \A k \in 1 .. n : g[k].of \subseteq Access
        BY <4>1 DEF Entry
      <4>3. QED BY <4>2 DEF Before
    <3>2. QED BY <1>4, <2>2, <3>1
  <2>12. \A a \in Before(g, n + 1) : c[a] <= 1 /\ (a \notin tw => c[a] = 1)
    <3>1. \A a \in Before(g, n) : c[a] <= 1 /\ (a \notin tw => c[a] = 1)
      BY <2>11 DEF Tallied
    <3>2. QED BY <1>3, <2>10, <3>1
  <2>13. \A a \in Access \ Before(g, n + 1) : c[a] = i0.counted[a]
    <3>1. \A a \in Access \ Before(g, n + 1) : a \notin e.of /\ a \notin Before(g, n)
      BY <1>3
    <3>2. QED BY <2>2, <3>1 DEF Tallied
  <2> HIDE DEF r
  <2>14. QED BY <2>1, <2>7, <2>8, <2>9, <2>12, <2>13 DEF Tallied, e
<1>14. QED BY <1>12, <1>13

\* What the updates of a flush of g make of the memory, P being as in CountTallied.
LEMMA FlushTallied ==
  ASSUME NEW g, NEW T, NEW tw, Flushable(g, memory, T, tw), Recent(memory.applied, T),
         NEW P, Stamps(g) \subseteq P, IsFiniteSet(P), Cardinality(P) <= APPLIED_BATCHES_WINDOW,
         Inserted(memory, g) \in Memories, Inserted(memory, g).counted = memory.counted,
         Inserted(memory, g).applied = memory.applied
  PROVE  Tallied(FlushSnapshot(g), Inserted(memory, g), g, Len(g), T, tw)
<1> DEFINE i0 == Inserted(memory, g)
<1>1. g \in Seq(Entry) /\ Len(g) \in Nat
  BY DEF Flushable
<1>2. PICK st : /\ st[0] = i0 /\ \A n \in 1 .. Len(g) : st[n] = Count(st[n - 1], g[n])
                /\ FlushSnapshot(g) = st[Len(g)]
  BY <1>1, FlushSteps, Zenon
<1> HIDE DEF i0
<1> DEFINE S == {n \in Nat : n <= Len(g) => Tallied(st[n], i0, g, n, T, tw)}
<1>3. 0 \in S
  <2>1. Before(g, 0) = {} /\ StampsBefore(g, 0) = {}
    BY DEF Before, StampsBefore
  <2>2. T \cup StampsBefore(g, 0) = T /\ ToSet(i0.applied) \cup StampsBefore(g, 0) = ToSet(i0.applied)
    BY <2>1
  <2>3. i0 \in Memories /\ i0.applied = memory.applied
    BY DEF i0
  <2>4. Tallied(i0, i0, g, 0, T, tw)
    BY <2>1, <2>2, <2>3 DEF Tallied
  <2>5. QED BY <1>2, <2>4
<1>4. ASSUME NEW n \in S
      PROVE  n + 1 \in S
  <2> SUFFICES ASSUME n + 1 <= Len(g)
               PROVE  Tallied(st[n + 1], i0, g, n + 1, T, tw)
    OBVIOUS
  <2>1. n \in Nat /\ n <= Len(g) /\ n + 1 \in 1 .. Len(g) /\ (n + 1) - 1 = n
    BY <1>1
  <2>2. Tallied(st[n], i0, g, n, T, tw)
    BY <2>1
  <2>3. st[n + 1] = Count(st[n], g[n + 1])
    <3>1. st[n + 1] = Count(st[(n + 1) - 1], g[n + 1])
      BY <1>2, <2>1
    <3>2. QED BY <2>1, <3>1
  <2>4. i0 \in Memories /\ i0.counted = memory.counted /\ i0.applied = memory.applied
    BY DEF i0
  <2>5. Tallied(Count(st[n], g[n + 1]), i0, g, n + 1, T, tw)
    BY <2>1, <2>2, <2>4, CountTallied
  <2>6. QED BY <2>3, <2>5
<1>5. S \in SUBSET Nat
  OBVIOUS
<1> HIDE DEF S
<1>6. S = Nat
  BY <1>3, <1>4, <1>5, SetInduction
<1>7. Tallied(st[Len(g)], i0, g, Len(g), T, tw)
  BY <1>1, <1>6 DEF S
<1>8. QED BY <1>2, <1>7 DEF i0

\* A flush of the epoch that lasts, in the state of the tracker.
LEMMA FlushLands ==
  ASSUME Ledger(access, buffer, flight, batches, memory, epoch, faults, twins),
         Unused(flight, memory, epoch), flight.todo[epoch] # <<>>
  PROVE  /\ Ledger(access, buffer, flight, batches, FlushSnapshot(flight.todo[epoch]), epoch,
                   faults, twins)
         /\ \A a \in Accesses(flight.todo[epoch]) : FlushSnapshot(flight.todo[epoch]).raw[a] = 1
         /\ \A a \in Access : FlushSnapshot(flight.todo[epoch]).raw[a] = 0 => memory.raw[a] = 0
<1> DEFINE g == flight.todo[epoch]
           b == buffer[epoch]
           i0 == Inserted(memory, g)
           m == FlushSnapshot(g)
           P == Retried(buffer, flight) \cup {flight.id}
           T == Stamps(g) \cap memory.batches
<1>1. /\ TrackerTypes(access, buffer, flight, batches, memory, epoch, faults, twins)
      /\ Queued(buffer, flight, batches, twins)
      /\ Held(access, buffer, flight, epoch) /\ Once(access, memory, epoch, twins)
      /\ Kept(access, buffer, flight, batches, memory, epoch)
      /\ Remembered(buffer, flight, memory, epoch) /\ Failures(buffer, flight, faults)
  BY DEF Ledger
<1>2. epoch \in Epoch /\ g \in Seq(Entry) /\ b \in Seq(Entry) /\ memory \in Memories /\ batches \in Nat
      /\ faults \in 0 .. MaxFault
  BY <1>1 DEF TrackerTypes, Buffers, Flights
<1>3. Lists(b, g, batches, twins) /\ g # <<>> /\ flight.id \notin memory.batches
  BY <1>1, <1>2 DEF Queued, Unused
<1>4. /\ memory.batches \subseteq 1 .. batches /\ ToSet(memory.applied) \subseteq memory.batches
      /\ Told(b, memory) /\ Told(g, memory)
  BY <1>1 DEF Kept
<1>5. memory.raw \in [Access -> Nat] /\ memory.counted \in [Access -> Nat] /\ memory.applied \in Seq(Nat)
  BY <1>2 DEF Memories
<1>6. \A a \in Access : /\ memory.counted[a] <= memory.raw[a] /\ memory.raw[a] <= 1
                        /\ (a \notin twins => memory.counted[a] = memory.raw[a])
                        /\ (memory.raw[a] = 1 => access[a].pc = "recorded" /\ access[a].tok = epoch)
  BY <1>1 DEF Once
<1>7. Stamps(b) = {} /\ (\A i \in DOMAIN g : g[i].batch # 0) /\ (\A i \in DOMAIN g : g[i].batch <= batches)
  BY <1>3 DEF Lists
<1> HIDE DEF g, b
<1>8. \A i \in DOMAIN g : g[i] \in Entry /\ g[i].of \subseteq Access /\ g[i].batch \in Nat
  <2>1. \A i \in DOMAIN g : g[i] \in Entry
    BY <1>2
  <2>2. QED BY <2>1 DEF Entry
<1>9. Stamps(g) \subseteq 1 .. batches /\ Accesses(g) \subseteq Access
  <2>1. \A i \in DOMAIN g : g[i].batch \in 1 .. batches
    BY <1>2, <1>7, <1>8
  <2>2. QED BY <1>8, <2>1 DEF Stamps, Accesses
<1>10. Recent(memory.applied, T)
  <2>1. PICK U \in SUBSET (Stamps(b) \cup Stamps(g)) :
          Recent(memory.applied, U) /\ (Stamps(b) \cup Stamps(g)) \cap memory.batches \subseteq U
    BY <1>1 DEF Remembered, g, b
  <2>2. U \subseteq ToSet(memory.applied)
    <3>1. PICK cut \in 0 .. Len(memory.applied) :
            U = {memory.applied[i] : i \in cut + 1 .. Len(memory.applied)}
      BY <2>1 DEF Recent
    <3>2. \A i \in cut + 1 .. Len(memory.applied) : i \in DOMAIN memory.applied
      BY <1>5
    <3>3. QED BY <3>1, <3>2 DEF ToSet
  <2>3. U = T
    BY <1>4, <1>7, <2>1, <2>2
  <2>4. QED BY <2>1, <2>3
<1>11. Flushable(g, memory, T, twins)
  <2>1. \A i, j \in DOMAIN g : i # j => g[i].of \cap g[j].of = {}
    BY <1>3 DEF Lists
  <2>2. \A i, j \in DOMAIN g : i < j /\ g[i].batch = g[j].batch => g[j].of \subseteq twins
    BY <1>3 DEF Lists
  <2>3. QED BY <1>2, <1>4, <1>6, <1>7, <2>1, <2>2 DEF Flushable
<1>12. IsFiniteSet(P) /\ Cardinality(P) <= APPLIED_BATCHES_WINDOW /\ Stamps(g) \subseteq P
  <2>1. IsFiniteSet(Retried(buffer, flight)) /\ Cardinality(Retried(buffer, flight)) <= faults
    BY <1>1 DEF Failures
  <2>2. IsFiniteSet(P) /\ Cardinality(P) <= Cardinality(Retried(buffer, flight)) + 1
    <3>1. IsFiniteSet(P) /\ Cardinality(P) = IF flight.id \in Retried(buffer, flight)
                                             THEN Cardinality(Retried(buffer, flight))
                                             ELSE Cardinality(Retried(buffer, flight)) + 1
      BY <2>1, FS_AddElement
    <3>2. Cardinality(Retried(buffer, flight)) \in Nat
      BY <2>1, FS_CardinalityType
    <3> HIDE DEF P
    <3>3. QED BY <3>1, <3>2
  <2>3. Cardinality(P) \in Nat /\ Cardinality(Retried(buffer, flight)) \in Nat
    BY <2>1, <2>2, FS_CardinalityType
  <2>4. Stamps(g) \ {flight.id} \subseteq Retried(buffer, flight)
    BY <1>2 DEF Retried, g
  <2> HIDE DEF P
  <2>5. Cardinality(P) <= APPLIED_BATCHES_WINDOW
    BY <1>2, <2>1, <2>2, <2>3, TrackerConstants
  <2>6. Stamps(g) \subseteq P
    BY <2>4 DEF P
  <2>7. QED BY <2>2, <2>5, <2>6
<1> HIDE DEF T, P
<1>13. /\ i0 \in Memories /\ i0.counted = memory.counted /\ i0.applied = memory.applied
       /\ i0.batches = memory.batches \cup Stamps(g)
       /\ \A a \in Access : i0.raw[a] = IF a \in Accesses(g) THEN 1 ELSE memory.raw[a]
  <2>1. \A i, j \in DOMAIN g : i # j => g[i].of \cap g[j].of = {}
    BY <1>3 DEF Lists
  <2>2. \A a \in Access : memory.raw[a] <= 1
    BY <1>6
  <2>3. QED BY <1>2, <1>3, <1>4, <1>7, <2>1, <2>2, InsertedOnce, Zenon
<1>14. Tallied(m, i0, g, Len(g), T, twins)
  <2>1. Inserted(memory, g) \in Memories /\ Inserted(memory, g).counted = memory.counted
        /\ Inserted(memory, g).applied = memory.applied
    BY <1>13
  <2>2. QED BY <1>10, <1>11, <1>12, <2>1, FlushTallied
<1> HIDE DEF i0, m
<1>15. Before(g, Len(g)) = Accesses(g) /\ StampsBefore(g, Len(g)) = Stamps(g) /\ T \subseteq Stamps(g)
  <2>1. DOMAIN g = 1 .. Len(g)
    BY <1>2
  <2>2. 0 \notin {g[k].batch : k \in 1 .. Len(g)}
    BY <1>7, <2>1
  <2>3. QED BY <2>1, <2>2 DEF Before, StampsBefore, Accesses, Stamps, T
<1>16. /\ m \in Memories /\ m.batches = memory.batches \cup Stamps(g)
       /\ \A a \in Access : m.raw[a] = IF a \in Accesses(g) THEN 1 ELSE memory.raw[a]
       /\ Recent(m.applied, Stamps(g)) /\ ToSet(m.applied) \subseteq ToSet(memory.applied) \cup Stamps(g)
       /\ \A a \in Accesses(g) : m.counted[a] <= 1 /\ (a \notin twins => m.counted[a] = 1)
       /\ \A a \in Access \ Accesses(g) : m.counted[a] = memory.counted[a]
  <2>1. T \cup StampsBefore(g, Len(g)) = Stamps(g)
    BY <1>15
  <2>2. QED BY <1>13, <1>14, <1>15, <2>1 DEF Tallied
<1>17. TrackerTypes(access, buffer, flight, batches, m, epoch, faults, twins)
  BY <1>1, <1>16 DEF TrackerTypes
<1>18. Once(access, m, epoch, twins)
  <2>1. \A a \in Accesses(g) : access[a].pc = "recorded" /\ access[a].tok = epoch
    BY <1>1, <1>2 DEF Held, g
  <2>2. ASSUME NEW a \in Access
        PROVE  /\ m.counted[a] <= m.raw[a] /\ m.raw[a] <= 1
               /\ a \notin twins => m.counted[a] = m.raw[a]
               /\ m.raw[a] = 1 => access[a].pc = "recorded" /\ access[a].tok = epoch
    <3>1. CASE a \in Accesses(g)
      <4>1. m.raw[a] = 1
        BY <1>16, <3>1
      <4>2. QED BY <1>16, <2>1, <3>1, <4>1
    <3>2. CASE a \notin Accesses(g)
      <4>1. m.raw[a] = memory.raw[a] /\ m.counted[a] = memory.counted[a]
        BY <1>16, <3>2
      <4>2. QED BY <1>6, <4>1
    <3>3. QED BY <3>1, <3>2
  <2>3. QED BY <2>2 DEF Once
<1>19. Told(b, m)
  <2>1. ASSUME NEW i \in DOMAIN b, NEW a \in b[i].of
        PROVE  m.raw[a] = IF b[i].batch \in m.batches THEN 1 ELSE 0
    <3>1. a \in Access
      <4>1. b[i] \in Entry
        BY <1>2
      <4>2. QED BY <4>1 DEF Entry
    <3>2. a \notin Accesses(g)
      BY <1>3 DEF Lists, Accesses
    <3>3. b[i].batch = 0
      BY <1>7 DEF Stamps
    <3>4. 0 \notin m.batches /\ 0 \notin memory.batches
      BY <1>4, <1>9, <1>16
    <3>5. memory.raw[a] = 0
      BY <1>4, <3>3, <3>4 DEF Told
    <3>6. QED BY <1>16, <3>1, <3>2, <3>3, <3>4, <3>5
  <2>2. QED BY <2>1 DEF Told
<1>20. Told(g, m)
  <2>1. \A i \in DOMAIN g : g[i].batch \in m.batches
    BY <1>7, <1>16 DEF Stamps
  <2>2. \A i \in DOMAIN g : \A a \in g[i].of : m.raw[a] = 1
    BY <1>9, <1>16 DEF Accesses
  <2>3. QED BY <2>1, <2>2 DEF Told
<1>21. /\ \A a \in Accesses(g) : m.raw[a] = 1
       /\ \A a \in Access : m.raw[a] = 0 => memory.raw[a] = 0
  BY <1>9, <1>16
<1>22. Kept(access, buffer, flight, batches, m, epoch)
  <2>1. m.batches \subseteq 1 .. batches /\ ToSet(m.applied) \subseteq m.batches
    BY <1>4, <1>9, <1>16
  <2>2. \A a \in Access : access[a].pc = "recorded" /\ Missing(a, access, m, epoch) =>
           a \in Accesses(b) \cup Accesses(g)
    BY <1>1, <1>21 DEF Kept, Missing, b, g
  <2>3. QED BY <1>19, <1>20, <2>1, <2>2 DEF Kept, b, g
<1>23. Remembered(buffer, flight, m, epoch)
  <2>1. Stamps(buffer[epoch]) \cup Stamps(flight.todo[epoch]) = Stamps(g)
    BY <1>7 DEF b, g
  <2>2. QED BY <1>16, <2>1 DEF Remembered
<1>24. QED BY <1>1, <1>17, <1>18, <1>21, <1>22, <1>23 DEF Ledger, m, g

\* The entries of two sequences.
LEMMA JoinedEntries ==
  ASSUME NEW b \in Seq(Entry), NEW t \in Seq(Entry)
  PROVE  /\ b \o t \in Seq(Entry) /\ Accesses(b \o t) = Accesses(b) \cup Accesses(t)
         /\ Stamps(b \o t) = Stamps(b) \cup Stamps(t)
         /\ \A i \in DOMAIN (b \o t) :
              \/ i \in DOMAIN b /\ (b \o t)[i] = b[i]
              \/ i - Len(b) \in DOMAIN t /\ (b \o t)[i] = t[i - Len(b)] /\ i \notin DOMAIN b
         /\ \A i \in DOMAIN b : i \in DOMAIN (b \o t) /\ (b \o t)[i] = b[i] /\ i <= Len(b)
         /\ \A i \in DOMAIN t : i + Len(b) \in DOMAIN (b \o t) /\ (b \o t)[i + Len(b)] = t[i]
<1> DEFINE c == b \o t
<1>1. /\ c \in Seq(Entry) /\ Len(c) = Len(b) + Len(t) /\ Len(b) \in Nat /\ Len(t) \in Nat
      /\ DOMAIN b = 1 .. Len(b) /\ DOMAIN t = 1 .. Len(t) /\ DOMAIN c = 1 .. Len(b) + Len(t)
      /\ \A i \in 1 .. Len(b) + Len(t) : c[i] = IF i <= Len(b) THEN b[i] ELSE t[i - Len(b)]
  OBVIOUS
<1> HIDE DEF c
<1>2. \A i \in DOMAIN c : \/ i \in DOMAIN b /\ c[i] = b[i]
                          \/ i - Len(b) \in DOMAIN t /\ c[i] = t[i - Len(b)] /\ i \notin DOMAIN b
  BY <1>1
<1>3. \A i \in DOMAIN b : i \in DOMAIN c /\ c[i] = b[i] /\ i <= Len(b)
  BY <1>1
<1>4. \A i \in DOMAIN t : i + Len(b) \in DOMAIN c /\ c[i + Len(b)] = t[i]
  BY <1>1
<1>5. Accesses(c) = Accesses(b) \cup Accesses(t)
  <2>1. ASSUME NEW a \in Accesses(c)
        PROVE  a \in Accesses(b) \cup Accesses(t)
    <3>1. PICK i \in DOMAIN c : a \in c[i].of
      BY DEF Accesses
    <3>2. QED BY <1>2, <3>1 DEF Accesses
  <2>2. ASSUME NEW a \in Accesses(b)
        PROVE  a \in Accesses(c)
    <3>1. PICK i \in DOMAIN b : a \in b[i].of
      BY DEF Accesses
    <3>2. QED BY <1>3, <3>1 DEF Accesses
  <2>3. ASSUME NEW a \in Accesses(t)
        PROVE  a \in Accesses(c)
    <3>1. PICK i \in DOMAIN t : a \in t[i].of
      BY DEF Accesses
    <3>2. QED BY <1>4, <3>1 DEF Accesses
  <2>4. QED BY <2>1, <2>2, <2>3
<1>6. Stamps(c) = Stamps(b) \cup Stamps(t)
  <2>1. ASSUME NEW x \in Stamps(c)
        PROVE  x \in Stamps(b) \cup Stamps(t)
    <3>1. PICK i \in DOMAIN c : x = c[i].batch /\ x # 0
      BY DEF Stamps
    <3>2. QED BY <1>2, <3>1 DEF Stamps
  <2>2. ASSUME NEW x \in Stamps(b)
        PROVE  x \in Stamps(c)
    <3>1. PICK i \in DOMAIN b : x = b[i].batch /\ x # 0
      BY DEF Stamps
    <3>2. QED BY <1>3, <3>1 DEF Stamps
  <2>3. ASSUME NEW x \in Stamps(t)
        PROVE  x \in Stamps(c)
    <3>1. PICK i \in DOMAIN t : x = t[i].batch /\ x # 0
      BY DEF Stamps
    <3>2. QED BY <1>4, <3>1 DEF Stamps
  <2>4. QED BY <2>1, <2>2, <2>3
<1>7. QED BY <1>1, <1>2, <1>3, <1>4, <1>5, <1>6 DEF c

\* Nothing is in an empty list.
LEMMA NothingListed ==
  Accesses(<<>>) = {} /\ Stamps(<<>>) = {} /\ \A me : Told(<<>>, me)
BY DEF Accesses, Stamps, Told

\* The entries of a flight go behind those of the buffer.
LEMMA ListsJoined ==
  ASSUME NEW b \in Seq(Entry), NEW t \in Seq(Entry), NEW top, NEW tw, Lists(b, t, top, tw)
  PROVE  Lists(b \o t, <<>>, top, tw)
<1> DEFINE c == b \o t
           n == Len(b)
<1>1. /\ Accesses(c) = Accesses(b) \cup Accesses(t)
      /\ \A i \in DOMAIN c : \/ i \in DOMAIN b /\ c[i] = b[i]
                             \/ i - n \in DOMAIN t /\ c[i] = t[i - n] /\ i \notin DOMAIN b
      /\ n \in Nat /\ DOMAIN b = 1 .. n /\ DOMAIN c \subseteq Nat \ {0}
  <2>1. DOMAIN b = 1 .. n /\ DOMAIN c \subseteq Nat \ {0} /\ n \in Nat
    OBVIOUS
  <2>2. QED BY <2>1, JoinedEntries
<1>2. \A i \in DOMAIN b : \A j \in DOMAIN t : b[i].of \cap t[j].of = {}
  BY DEF Lists, Accesses
<1>3. \A i \in DOMAIN b : \A j \in DOMAIN t : b[i].batch # t[j].batch
  <2>1. ASSUME NEW i \in DOMAIN b, NEW j \in DOMAIN t, b[i].batch = t[j].batch
        PROVE  FALSE
    <3>1. b[i].batch \in Stamps(b)
      BY <2>1 DEF Lists, Stamps
    <3>2. t = <<>>
      BY <3>1 DEF Lists
    <3>3. QED BY <3>2
  <2>2. QED BY <2>1
<1> HIDE DEF c, n
<1>4. ASSUME NEW i \in DOMAIN c, NEW j \in DOMAIN c, i # j
      PROVE  c[i].of \cap c[j].of = {}
  <2>1. CASE i \in DOMAIN b /\ c[i] = b[i] /\ j \in DOMAIN b /\ c[j] = b[j]
    BY <1>4, <2>1 DEF Lists
  <2>2. CASE i \in DOMAIN b /\ c[i] = b[i] /\ j - n \in DOMAIN t /\ c[j] = t[j - n]
    BY <1>2, <2>2
  <2>3. CASE i - n \in DOMAIN t /\ c[i] = t[i - n] /\ j \in DOMAIN b /\ c[j] = b[j]
    BY <1>2, <2>3
  <2>4. CASE i - n \in DOMAIN t /\ c[i] = t[i - n] /\ j - n \in DOMAIN t /\ c[j] = t[j - n]
    <3>1. i - n # j - n
      BY <1>1, <1>4
    <3>2. QED BY <2>4, <3>1 DEF Lists
  <2>5. QED BY <1>1, <2>1, <2>2, <2>3, <2>4
<1>5. ASSUME NEW i \in DOMAIN c, NEW j \in DOMAIN c, i < j, c[i].batch = c[j].batch, c[j].batch # 0
      PROVE  c[j].of \subseteq tw
  <2>1. CASE i \in DOMAIN b /\ c[i] = b[i] /\ j \in DOMAIN b /\ c[j] = b[j]
    BY <1>5, <2>1 DEF Lists
  <2>2. CASE i \in DOMAIN b /\ c[i] = b[i] /\ j - n \in DOMAIN t /\ c[j] = t[j - n]
    BY <1>3, <1>5, <2>2
  <2>3. CASE i - n \in DOMAIN t /\ c[i] = t[i - n] /\ j \in DOMAIN b /\ c[j] = b[j]
    BY <1>3, <1>5, <2>3
  <2>4. CASE i - n \in DOMAIN t /\ c[i] = t[i - n] /\ j - n \in DOMAIN t /\ c[j] = t[j - n]
    <3>1. i - n < j - n
      BY <1>1, <1>5
    <3>2. QED BY <1>5, <2>4, <3>1 DEF Lists
  <2>5. QED BY <1>1, <2>1, <2>2, <2>3, <2>4
<1>6. \A i \in DOMAIN c : c[i].batch <= top
  BY <1>1 DEF Lists
<1>7. Lists(c, <<>>, top, tw)
  <2>1. \A i, j \in DOMAIN c : i # j => c[i].of \cap c[j].of = {}
    BY <1>4
  <2>2. \A i, j \in DOMAIN c : i < j /\ c[i].batch = c[j].batch /\ c[j].batch # 0 => c[j].of \subseteq tw
    BY <1>5
  <2>3. DOMAIN <<>> = {} /\ Accesses(c) \cap Accesses(<<>>) = {}
    BY NothingListed
  <2>4. QED BY <1>6, <2>1, <2>2, <2>3 DEF Lists
<1>8. QED BY <1>7 DEF c

\* The entries of a flight are gone.
LEMMA ListsDropped ==
  ASSUME NEW b, NEW t, NEW top, NEW tw, Lists(b, t, top, tw)
  PROVE  Lists(b, <<>>, top, tw)
<1>1. DOMAIN <<>> = {} /\ Accesses(b) \cap Accesses(<<>>) = {}
  BY NothingListed
<1>2. QED BY <1>1 DEF Lists

\* The entries of each epoch stay where they are, or leave the flight for the buffer, or
\* for good, because they are stored or of another tenancy.
Handed(bu, td, bu2, td2, me, ep) ==
  \A e \in Epoch :
    \/ bu2[e] = bu[e] /\ td2[e] = td[e]
    \/ bu2[e] = bu[e] \o td[e] /\ td2[e] = <<>>
    \/ bu2[e] = bu[e] /\ td2[e] = <<>> /\ (e = ep => \A a \in Accesses(td[e]) : me.raw[a] = 1)

\* How a flight hands its entries back, or ends: bu2, fl2 and fa2 are what follows.
LEMMA LedgerHanded ==
  ASSUME NEW ac, NEW bu, NEW fl, NEW ba, NEW me, NEW ep, NEW fa, NEW tw,
         Ledger(ac, bu, fl, ba, me, ep, fa, tw),
         NEW bu2 \in Buffers, NEW fl2 \in Flights, NEW fa2 \in 0 .. MaxFault,
         Handed(bu, fl.todo, bu2, fl2.todo, me, ep),
         fl2.id = fl.id \/ (fl2.id = 0 /\ fl2.todo = NoEntries),
         fl2.on => fl2.id # 0, ~ fl2.on => fl2.todo = NoEntries,
         fa2 = fa + 1 \/ (fa2 = fa /\ bu2 = bu)
  PROVE  Ledger(ac, bu2, fl2, ba, me, ep, fa2, tw)
<1> DEFINE td == fl.todo
           td2 == fl2.todo
<1>1. /\ TrackerTypes(ac, bu, fl, ba, me, ep, fa, tw) /\ Queued(bu, fl, ba, tw)
      /\ Held(ac, bu, fl, ep) /\ Once(ac, me, ep, tw) /\ Kept(ac, bu, fl, ba, me, ep)
      /\ Remembered(bu, fl, me, ep) /\ Failures(bu, fl, fa)
  BY DEF Ledger
<1>2. /\ ep \in Epoch /\ bu \in [Epoch -> Seq(Entry)] /\ td \in [Epoch -> Seq(Entry)] /\ ba \in Nat
      /\ fl.id \in Nat /\ fa \in Nat /\ bu2 \in [Epoch -> Seq(Entry)] /\ td2 \in [Epoch -> Seq(Entry)]
      /\ fl2.id \in Nat
  BY <1>1 DEF TrackerTypes, Buffers, Flights
<1>3. \A e \in Epoch : bu[e] \in Seq(Entry) /\ td[e] \in Seq(Entry)
  BY <1>2
<1>4. TrackerTypes(ac, bu2, fl2, ba, me, ep, fa2, tw)
  BY <1>1 DEF TrackerTypes
<1>5. ASSUME NEW e \in Epoch
      PROVE  /\ Accesses(bu2[e]) \cup Accesses(td2[e]) \subseteq Accesses(bu[e]) \cup Accesses(td[e])
             /\ Stamps(bu2[e]) \cup Stamps(td2[e]) \subseteq Stamps(bu[e]) \cup Stamps(td[e])
             /\ Stamps(td2[e]) = {} \/ td2[e] = td[e]
             /\ bu2[e] = bu[e] \/ Stamps(bu2[e]) \subseteq Stamps(bu[e]) \cup Stamps(td[e])
             /\ Lists(bu2[e], td2[e], ba, tw)
             /\ (e = ep => Told(bu2[e], me) /\ Told(td2[e], me))
             /\ e = ep => \A a \in Accesses(bu[e]) \cup Accesses(td[e]) :
                  a \in Accesses(bu2[e]) \cup Accesses(td2[e]) \/ me.raw[a] = 1
  <2>1. Lists(bu[e], td[e], ba, tw) /\ bu[e] \in Seq(Entry) /\ td[e] \in Seq(Entry)
    BY <1>1, <1>2 DEF Queued
  <2>2. e = ep => Told(bu[e], me) /\ Told(td[e], me)
    BY <1>1 DEF Kept
  <2>3. CASE bu2[e] = bu[e] /\ td2[e] = td[e]
    BY <2>1, <2>2, <2>3
  <2>4. CASE bu2[e] = bu[e] \o td[e] /\ td2[e] = <<>>
    <3>1. /\ Accesses(bu2[e]) = Accesses(bu[e]) \cup Accesses(td[e]) /\ Accesses(td2[e]) = {}
          /\ Stamps(bu2[e]) = Stamps(bu[e]) \cup Stamps(td[e]) /\ Stamps(td2[e]) = {}
          /\ Told(td2[e], me)
      BY <2>1, <2>4, JoinedEntries, NothingListed
    <3>2. Lists(bu2[e], td2[e], ba, tw)
      BY <2>1, <2>4, ListsJoined
    <3>3. e = ep => Told(bu2[e], me)
      <4>1. \A i \in DOMAIN bu2[e] :
              \/ i \in DOMAIN bu[e] /\ bu2[e][i] = bu[e][i]
              \/ i - Len(bu[e]) \in DOMAIN td[e] /\ bu2[e][i] = td[e][i - Len(bu[e])]
        <5> DEFINE b == bu[e]
                   t == td[e]
        <5>1. b \in Seq(Entry) /\ t \in Seq(Entry) /\ bu2[e] = b \o t
          BY <2>1, <2>4
        <5> HIDE DEF b, t
        <5>2. \A i \in DOMAIN (b \o t) :
                \/ i \in DOMAIN b /\ (b \o t)[i] = b[i]
                \/ i - Len(b) \in DOMAIN t /\ (b \o t)[i] = t[i - Len(b)]
          BY <5>1
        <5>3. QED BY <5>1, <5>2 DEF b, t
      <4>2. ASSUME NEW i \in DOMAIN bu2[e], NEW a \in bu2[e][i].of, e = ep
            PROVE  me.raw[a] = IF bu2[e][i].batch \in me.batches THEN 1 ELSE 0
        BY <2>2, <4>1, <4>2 DEF Told
      <4>3. QED BY <4>2 DEF Told
    <3>4. QED BY <3>1, <3>2, <3>3
  <2>5. CASE bu2[e] = bu[e] /\ td2[e] = <<>> /\ (e = ep => \A a \in Accesses(td[e]) : me.raw[a] = 1)
    <3>1. Accesses(td2[e]) = {} /\ Stamps(td2[e]) = {} /\ Told(td2[e], me)
      BY <2>5, NothingListed
    <3>2. Lists(bu2[e], td2[e], ba, tw)
      BY <2>1, <2>5, ListsDropped
    <3>3. QED BY <2>2, <2>5, <3>1, <3>2
  <2>6. QED BY <2>3, <2>4, <2>5 DEF Handed
<1>6. Queued(bu2, fl2, ba, tw)
  <2>1. fl2.id <= ba
    BY <1>1, <1>2 DEF Queued
  <2>2. \A e \in Epoch : Lists(bu2[e], fl2.todo[e], ba, tw)
    BY <1>5
  <2>3. (fl2.on => fl2.id # 0) /\ (~ fl2.on => fl2.todo = NoEntries)
    OBVIOUS
  <2>4. QED BY <2>1, <2>2, <2>3 DEF Queued
<1>7. Held(ac, bu2, fl2, ep)
  <2>1. ASSUME NEW e \in Epoch, NEW a \in Accesses(bu2[e]) \cup Accesses(td2[e])
        PROVE  ac[a].pc = "recorded" /\ ac[a].tok = e
    <3>1. a \in Accesses(bu[e]) \cup Accesses(td[e])
      BY <1>5
    <3>2. QED BY <1>1, <3>1 DEF Held
  <2>2. QED BY <1>1, <2>1 DEF Held
<1>8. Kept(ac, bu2, fl2, ba, me, ep)
  <2>1. ASSUME NEW a \in Access, ac[a].pc = "recorded", Missing(a, ac, me, ep)
        PROVE  a \in Accesses(bu2[ep]) \cup Accesses(td2[ep])
    <3>1. a \in Accesses(bu[ep]) \cup Accesses(td[ep]) /\ me.raw[a] = 0
      BY <1>1, <2>1 DEF Kept, Missing
    <3>2. QED BY <1>2, <1>5, <3>1
  <2>2. me.batches \subseteq 1 .. ba /\ ToSet(me.applied) \subseteq me.batches
    BY <1>1 DEF Kept
  <2>3. Told(bu2[ep], me) /\ Told(td2[ep], me)
    BY <1>2, <1>5
  <2>4. QED BY <2>1, <2>2, <2>3 DEF Kept
<1>9. Failures(bu2, fl2, fa2)
  <2>1. IsFiniteSet(Retried(bu, fl)) /\ Cardinality(Retried(bu, fl)) <= fa
    BY <1>1 DEF Failures
  <2>2. ASSUME NEW e \in Epoch
        PROVE  Stamps(td2[e]) \ {fl2.id} \subseteq Stamps(td[e]) \ {fl.id}
    <3>1. CASE fl2.id = fl.id
      BY <1>5, <3>1
    <3>2. CASE fl2.todo = NoEntries
      <4>1. td2[e] = <<>>
        BY <3>2 DEF NoEntries
      <4>2. QED BY <4>1, NothingListed
    <3>3. QED BY <3>1, <3>2
  <2>3. Retried(bu2, fl2) \subseteq Retried(bu, fl) \cup {fl.id}
    <3>1. \A e \in Epoch : Stamps(bu2[e]) \cup (Stamps(td2[e]) \ {fl2.id})
                             \subseteq Stamps(bu[e]) \cup (Stamps(td[e]) \ {fl.id}) \cup {fl.id}
      BY <1>5, <2>2
    <3>2. QED BY <3>1 DEF Retried
  <2>4. bu2 = bu => Retried(bu2, fl2) \subseteq Retried(bu, fl)
    BY <2>2 DEF Retried
  <2>5. /\ IsFiniteSet(Retried(bu, fl) \cup {fl.id})
        /\ Cardinality(Retried(bu, fl) \cup {fl.id}) <= Cardinality(Retried(bu, fl)) + 1
    <3>1. /\ IsFiniteSet(Retried(bu, fl) \cup {fl.id})
          /\ Cardinality(Retried(bu, fl) \cup {fl.id}) =
               IF fl.id \in Retried(bu, fl) THEN Cardinality(Retried(bu, fl))
                                            ELSE Cardinality(Retried(bu, fl)) + 1
      BY <2>1, FS_AddElement
    <3>2. Cardinality(Retried(bu, fl)) \in Nat
      BY <2>1, FS_CardinalityType
    <3>3. QED BY <3>1, <3>2
  <2>6. CASE fa2 = fa + 1
    <3>1. /\ IsFiniteSet(Retried(bu2, fl2))
          /\ Cardinality(Retried(bu2, fl2)) <= Cardinality(Retried(bu, fl) \cup {fl.id})
      BY <2>3, <2>5, FS_Subset
    <3>2. /\ Cardinality(Retried(bu2, fl2)) \in Nat /\ Cardinality(Retried(bu, fl)) \in Nat
          /\ Cardinality(Retried(bu, fl) \cup {fl.id}) \in Nat
      BY <2>1, <2>5, <3>1, FS_CardinalityType
    <3>3. Cardinality(Retried(bu2, fl2)) <= fa2
      BY <1>2, <2>1, <2>5, <2>6, <3>1, <3>2
    <3>4. QED BY <3>1, <3>3 DEF Failures
  <2>7. CASE fa2 = fa /\ bu2 = bu
    <3>1. IsFiniteSet(Retried(bu2, fl2)) /\ Cardinality(Retried(bu2, fl2)) <= Cardinality(Retried(bu, fl))
      BY <2>1, <2>4, <2>7, FS_Subset
    <3>2. Cardinality(Retried(bu2, fl2)) \in Nat /\ Cardinality(Retried(bu, fl)) \in Nat
      BY <2>1, <3>1, FS_CardinalityType
    <3>3. Cardinality(Retried(bu2, fl2)) <= fa2
      BY <1>2, <2>1, <2>7, <3>1, <3>2
    <3>4. QED BY <3>1, <3>3 DEF Failures
  <2>8. QED BY <2>6, <2>7
<1>10. Remembered(bu2, fl2, me, ep)
  <2> DEFINE open == Stamps(bu[ep]) \cup Stamps(td[ep])
             open2 == Stamps(bu2[ep]) \cup Stamps(td2[ep])
  <2>1. PICK T \in SUBSET open : Recent(me.applied, T) /\ open \cap me.batches \subseteq T
    BY <1>1 DEF Remembered
  <2>2. CASE open2 = open
    BY <2>1, <2>2 DEF Remembered
  <2>3. CASE open2 = {}
    <3>1. Recent(me.applied, {})
      <4>1. me.applied \in Seq(Nat) /\ Len(me.applied) \in Nat
        BY <1>1 DEF TrackerTypes, Memories
      <4> DEFINE cut == Len(me.applied)
      <4>2. cut \in 0 .. Len(me.applied) /\ cut + 1 .. Len(me.applied) = {}
        BY <4>1
      <4>3. {} = {me.applied[i] : i \in cut + 1 .. Len(me.applied)}
        BY <4>2
      <4>4. QED BY <4>2, <4>3 DEF Recent
    <3>2. {} \in SUBSET open2 /\ open2 \cap me.batches \subseteq {}
      BY <2>3
    <3>3. QED BY <3>1, <3>2 DEF Remembered
  <2>4. open2 = open \/ open2 = {}
    <3>1. bu[ep] \in Seq(Entry) /\ td[ep] \in Seq(Entry)
      BY <1>2
    <3>2. CASE bu2[ep] = bu[ep] /\ td2[ep] = td[ep]
      BY <3>2
    <3>3. CASE bu2[ep] = bu[ep] \o td[ep] /\ td2[ep] = <<>>
      BY <3>1, <3>3, JoinedEntries, NothingListed
    <3>4. CASE bu2[ep] = bu[ep] /\ td2[ep] = <<>>
      <4>1. Stamps(bu[ep]) # {} => td[ep] = <<>>
        BY <1>1, <1>2 DEF Queued, Lists
      <4>2. QED BY <3>4, <4>1, NothingListed
    <3>5. QED BY <1>2, <3>2, <3>3, <3>4 DEF Handed
  <2>5. QED BY <2>2, <2>3, <2>4
<1>11. QED BY <1>1, <1>4, <1>6, <1>7, <1>8, <1>9, <1>10 DEF Ledger

\* The entries of s when a flush has given those without a batch id the id n.
Stamped(s, n) == [i \in DOMAIN s |-> IF s[i].batch = 0 THEN [s[i] EXCEPT !.batch = n] ELSE s[i]]

\* Stamping changes no access, and adds one batch id.
LEMMA StampedEntries ==
  ASSUME NEW s \in Seq(Entry), NEW n \in Nat \ {0}
  PROVE  /\ Stamped(s, n) \in Seq(Entry) /\ DOMAIN Stamped(s, n) = DOMAIN s
         /\ \A i \in DOMAIN s : /\ Stamped(s, n)[i].of = s[i].of
                                /\ Stamped(s, n)[i].batch = IF s[i].batch = 0 THEN n ELSE s[i].batch
         /\ Accesses(Stamped(s, n)) = Accesses(s)
         /\ Stamps(s) \subseteq Stamps(Stamped(s, n)) /\ Stamps(Stamped(s, n)) \subseteq Stamps(s) \cup {n}
<1> DEFINE t == Stamped(s, n)
<1>1. /\ \A i \in DOMAIN s : s[i] \in Entry
      /\ Len(s) \in Nat /\ DOMAIN s = 1 .. Len(s)
  OBVIOUS
<1>2. \A i \in DOMAIN s : s[i].of \in SUBSET Access /\ s[i].batch \in Nat
  BY <1>1 DEF Entry
<1>3. /\ DOMAIN t = DOMAIN s
      /\ \A i \in DOMAIN s : t[i] = IF s[i].batch = 0 THEN [s[i] EXCEPT !.batch = n] ELSE s[i]
  BY DEF Stamped
<1>4. \A i \in DOMAIN s : /\ t[i] \in Entry /\ t[i].of = s[i].of
                          /\ t[i].batch = IF s[i].batch = 0 THEN n ELSE s[i].batch
  BY <1>1, <1>2, <1>3 DEF Entry
<1>5. t \in Seq(Entry)
  <2>1. t = [i \in 1 .. Len(s) |-> t[i]]
    BY <1>1 DEF Stamped
  <2>2. t \in [1 .. Len(s) -> Entry]
    BY <1>1, <1>4, <2>1
  <2>3. QED BY <1>1, <2>2
<1> HIDE DEF t
<1>6. Accesses(t) = Accesses(s)
  BY <1>3, <1>4 DEF Accesses
<1>7. ASSUME NEW x \in Stamps(s)
      PROVE  x \in Stamps(t)
  <2>1. PICK i \in DOMAIN s : x = s[i].batch /\ x # 0
    BY DEF Stamps
  <2>2. QED BY <1>3, <1>4, <2>1 DEF Stamps
<1>8. ASSUME NEW x \in Stamps(t)
      PROVE  x \in Stamps(s) \cup {n}
  <2>1. PICK i \in DOMAIN s : x = t[i].batch /\ x # 0
    BY <1>3 DEF Stamps
  <2>2. QED BY <1>4, <2>1 DEF Stamps
<1>9. QED BY <1>3, <1>4, <1>5, <1>6, <1>7, <1>8 DEF t

\* A flush takes the buffer b.
LEMMA LedgerLaunched ==
  ASSUME NEW ac, NEW b, Ledger(ac, b, flight, batches, memory, epoch, faults, twins),
         ~ flight.on, Launch(b)
  PROVE  /\ Ledger(ac, buffer', flight', batches', memory, epoch, faults, twins')
         /\ Unused(flight', memory, epoch)
         /\ batches' = batches + 1 /\ flight'.on /\ flight'.id = batches + 1
         /\ \A a \in Access : ac[a].pc = "recorded" /\ Missing(a, ac, memory, epoch) =>
              a \in Accesses(flight'.todo[epoch])
<1> DEFINE n == batches + 1
           td == [e \in Epoch |-> Stamped(b[e], n)]
           fl == [on |-> TRUE, id |-> n, inspect |-> TRUE, bad |-> FALSE, todo |-> td]
           tw == twins \cup Twins(b)
<1>1. /\ TrackerTypes(ac, b, flight, batches, memory, epoch, faults, twins)
      /\ Queued(b, flight, batches, twins)
      /\ Held(ac, b, flight, epoch) /\ Once(ac, memory, epoch, twins)
      /\ Kept(ac, b, flight, batches, memory, epoch)
      /\ Remembered(b, flight, memory, epoch) /\ Failures(b, flight, faults)
  BY DEF Ledger
<1>2. epoch \in Epoch /\ b \in [Epoch -> Seq(Entry)] /\ batches \in Nat /\ faults \in Nat
  BY <1>1 DEF TrackerTypes, Buffers
<1>3. buffer' = NoEntries /\ batches' = n /\ flight' = fl /\ twins' = tw
  BY DEF Launch, Stamped
<1>4. flight.todo = NoEntries /\ \A e \in Epoch : flight.todo[e] = <<>>
  BY <1>1 DEF Queued, NoEntries
<1>5. n \in Nat \ {0} /\ n > batches
  BY <1>2
<1>6. \A e \in Epoch : b[e] \in Seq(Entry)
  BY <1>2
<1>7. ASSUME NEW e \in Epoch
      PROVE  /\ td[e] \in Seq(Entry) /\ DOMAIN td[e] = DOMAIN b[e]
             /\ \A i \in DOMAIN b[e] : /\ td[e][i].of = b[e][i].of
                                       /\ td[e][i].batch = IF b[e][i].batch = 0 THEN n ELSE b[e][i].batch
             /\ Accesses(td[e]) = Accesses(b[e])
             /\ Stamps(b[e]) \subseteq Stamps(td[e]) /\ Stamps(td[e]) \subseteq Stamps(b[e]) \cup {n}
  <2>1. td[e] = Stamped(b[e], n)
    OBVIOUS
  <2> DEFINE s == b[e]
             t == td[e]
  <2>2. s \in Seq(Entry) /\ t = Stamped(s, n)
    BY <1>6, <2>1
  <2> HIDE DEF td, n, s, t
  <2>3. /\ t \in Seq(Entry) /\ DOMAIN t = DOMAIN s
        /\ \A i \in DOMAIN s : /\ t[i].of = s[i].of
                               /\ t[i].batch = IF s[i].batch = 0 THEN n ELSE s[i].batch
        /\ Accesses(t) = Accesses(s)
        /\ Stamps(s) \subseteq Stamps(t) /\ Stamps(t) \subseteq Stamps(s) \cup {n}
    <3>1. s \in Seq(Entry) /\ n \in Nat \ {0}
      BY <1>5, <2>2
    <3>2. /\ Stamped(s, n) \in Seq(Entry) /\ DOMAIN Stamped(s, n) = DOMAIN s
          /\ \A i \in DOMAIN s :
               /\ Stamped(s, n)[i].of = s[i].of
               /\ Stamped(s, n)[i].batch = IF s[i].batch = 0 THEN n ELSE s[i].batch
          /\ Accesses(Stamped(s, n)) = Accesses(s)
          /\ Stamps(s) \subseteq Stamps(Stamped(s, n))
          /\ Stamps(Stamped(s, n)) \subseteq Stamps(s) \cup {n}
      BY <3>1, StampedEntries, Zenon
    <3>3. QED BY <2>2, <3>2
  <2>4. QED BY <2>3 DEF s, t
<1> HIDE DEF n, td
<1>8. /\ fl.on = TRUE /\ fl.id = n /\ fl.todo = td /\ fl.bad = FALSE
      /\ \A e \in Epoch : NoEntries[e] = <<>>
  BY DEF NoEntries
<1>9. fl \in Flights /\ NoEntries \in Buffers /\ Twins(b) \subseteq Access
  <2>1. td = [e \in Epoch |-> td[e]]
    BY DEF td
  <2>2. td \in Buffers
    BY <1>7, <2>1 DEF Buffers
  <2>3. NoEntries \in Buffers
    BY DEF NoEntries, Buffers
  <2>4. \A e \in Epoch : \A i \in DOMAIN b[e] : b[e][i] \in Entry
    BY <1>6
  <2>5. \A e \in Epoch : \A i \in DOMAIN b[e] : b[e][i].of \subseteq Access
    BY <2>4 DEF Entry
  <2>6. Twins(b) \subseteq Access
    BY <2>5 DEF Twins
  <2>7. QED BY <1>5, <2>2, <2>3, <2>6 DEF Flights
<1>10. TrackerTypes(ac, NoEntries, fl, n, memory, epoch, faults, tw)
  BY <1>1, <1>5, <1>9 DEF TrackerTypes
<1>11. Queued(NoEntries, fl, n, tw)
  <2>1. ASSUME NEW e \in Epoch
        PROVE  Lists(<<>>, td[e], n, tw)
    <3>1. /\ \A i, j \in DOMAIN b[e] : i # j => b[e][i].of \cap b[e][j].of = {}
          /\ \A i, j \in DOMAIN b[e] : i < j /\ b[e][i].batch = b[e][j].batch /\ b[e][j].batch # 0
                                          => b[e][j].of \subseteq twins
          /\ \A i \in DOMAIN b[e] : b[e][i].batch <= batches
      BY <1>1 DEF Queued, Lists
    <3>2. \A i \in DOMAIN b[e] : b[e][i].batch \in Nat
      <4>1. \A i \in DOMAIN b[e] : b[e][i] \in Entry
        BY <1>6
      <4>2. QED BY <4>1 DEF Entry
    <3>3. ASSUME NEW i \in DOMAIN b[e], NEW j \in DOMAIN b[e], i < j, td[e][i].batch = td[e][j].batch
          PROVE  td[e][j].of \subseteq tw
      <4>1. i \in Nat \ {0} /\ j \in Nat
        BY <1>6
      <4>2. CASE b[e][i].batch = 0 /\ b[e][j].batch = 0
        <5>1. i \in 1 .. j - 1
          BY <3>3, <4>1
        <5>2. b[e][j].of \subseteq Twins(b)
          BY <4>2, <5>1 DEF Twins
        <5>3. QED BY <1>7, <5>2
      <4>3. CASE b[e][i].batch # 0 /\ b[e][j].batch # 0
        BY <1>7, <3>1, <3>3, <4>3
      <4>4. CASE ~ (b[e][i].batch = 0 <=> b[e][j].batch = 0)
        <5>1. /\ td[e][i].batch = IF b[e][i].batch = 0 THEN n ELSE b[e][i].batch
              /\ td[e][j].batch = IF b[e][j].batch = 0 THEN n ELSE b[e][j].batch
          BY <1>7
        <5>2. b[e][i].batch # n /\ b[e][j].batch # n
          BY <1>2, <1>5, <3>1, <3>2
        <5>3. QED BY <3>3, <4>4, <5>1, <5>2
      <4>5. QED BY <4>2, <4>3, <4>4
    <3>4. \A i \in DOMAIN td[e] : td[e][i].batch <= n /\ td[e][i].batch # 0
      <4>1. ASSUME NEW i \in DOMAIN b[e]
            PROVE  td[e][i].batch <= n /\ td[e][i].batch # 0
        <5>1. td[e][i].batch = IF b[e][i].batch = 0 THEN n ELSE b[e][i].batch
          BY <1>7
        <5>2. b[e][i].batch <= n /\ b[e][i].batch \in Nat
          BY <1>2, <1>5, <3>1, <3>2
        <5>3. QED BY <1>5, <5>1, <5>2
      <4>2. QED BY <1>7, <4>1
    <3>5. \A i, j \in DOMAIN td[e] : i # j => td[e][i].of \cap td[e][j].of = {}
      BY <1>7, <3>1
    <3>6. DOMAIN <<>> = {} /\ Accesses(<<>>) = {} /\ Stamps(<<>>) = {}
      BY NothingListed
    <3>7. \A i, j \in DOMAIN td[e] : i < j /\ td[e][i].batch = td[e][j].batch => td[e][j].of \subseteq tw
      BY <1>7, <3>3
    <3> HIDE DEF tw
    <3>8. QED BY <3>4, <3>5, <3>6, <3>7 DEF Lists
  <2> HIDE DEF fl, tw
  <2>2. \A e \in Epoch : Lists(NoEntries[e], fl.todo[e], n, tw)
    BY <1>8, <2>1
  <2>3. fl.id <= n /\ fl.id # 0
    BY <1>5, <1>8
  <2>4. QED BY <1>8, <2>2, <2>3 DEF Queued
<1> HIDE DEF fl
<1>12. Held(ac, NoEntries, fl, epoch)
  <2>1. ASSUME NEW e \in Epoch, NEW a \in Accesses(NoEntries[e]) \cup Accesses(fl.todo[e])
        PROVE  ac[a].pc = "recorded" /\ ac[a].tok = e
    <3>1. a \in Accesses(b[e])
      BY <1>7, <1>8, NothingListed
    <3>2. QED BY <1>1, <3>1 DEF Held
  <2>2. QED BY <1>1, <2>1 DEF Held
<1>13. Once(ac, memory, epoch, tw)
  BY <1>1 DEF Once
<1>14. n \notin memory.batches /\ 0 \notin memory.batches
  BY <1>1, <1>2, <1>5 DEF Kept
<1>15. \A a \in Access : ac[a].pc = "recorded" /\ Missing(a, ac, memory, epoch) => a \in Accesses(td[epoch])
  <2>1. \A a \in Access : ac[a].pc = "recorded" /\ Missing(a, ac, memory, epoch) =>
          a \in Accesses(b[epoch]) \cup Accesses(flight.todo[epoch])
    BY <1>1 DEF Kept
  <2>2. QED BY <1>2, <1>4, <1>7, <2>1, NothingListed
<1>16. Kept(ac, NoEntries, fl, n, memory, epoch)
  <2>1. memory.batches \subseteq 1 .. n /\ ToSet(memory.applied) \subseteq memory.batches
    <3>1. memory.batches \subseteq 1 .. batches /\ ToSet(memory.applied) \subseteq memory.batches
      BY <1>1 DEF Kept
    <3>2. QED BY <1>2, <1>5, <3>1
  <2>2. Told(NoEntries[epoch], memory)
    BY <1>2, <1>8, NothingListed
  <2>3. Told(td[epoch], memory)
    <3>1. ASSUME NEW i \in DOMAIN td[epoch], NEW a \in td[epoch][i].of
          PROVE  memory.raw[a] = IF td[epoch][i].batch \in memory.batches THEN 1 ELSE 0
      <4>1. i \in DOMAIN b[epoch] /\ a \in b[epoch][i].of
        BY <1>2, <1>7
      <4>2. memory.raw[a] = IF b[epoch][i].batch \in memory.batches THEN 1 ELSE 0
        BY <1>1, <4>1 DEF Kept, Told
      <4>3. QED BY <1>2, <1>7, <1>14, <4>1, <4>2
    <3>2. QED BY <3>1 DEF Told
  <2>4. QED BY <1>8, <1>15, <2>1, <2>2, <2>3 DEF Kept
<1>17. Remembered(NoEntries, fl, memory, epoch)
  <2>1. PICK T \in SUBSET (Stamps(b[epoch]) \cup Stamps(flight.todo[epoch])) :
          /\ Recent(memory.applied, T)
          /\ (Stamps(b[epoch]) \cup Stamps(flight.todo[epoch])) \cap memory.batches \subseteq T
    BY <1>1 DEF Remembered
  <2>2. Stamps(NoEntries[epoch]) = {} /\ Stamps(flight.todo[epoch]) = {}
    BY <1>2, <1>4, <1>8, NothingListed
  <2>3. Stamps(b[epoch]) \subseteq Stamps(td[epoch]) /\ Stamps(td[epoch]) \subseteq Stamps(b[epoch]) \cup {n}
    BY <1>2, <1>7
  <2>4. /\ T \in SUBSET (Stamps(NoEntries[epoch]) \cup Stamps(td[epoch]))
        /\ (Stamps(NoEntries[epoch]) \cup Stamps(td[epoch])) \cap memory.batches \subseteq T
    BY <1>14, <2>1, <2>2, <2>3
  <2>5. QED BY <1>8, <2>1, <2>4 DEF Remembered
<1>18. Failures(NoEntries, fl, faults)
  <2>1. ASSUME NEW e \in Epoch
        PROVE  Stamps(NoEntries[e]) \cup (Stamps(fl.todo[e]) \ {fl.id})
                 \subseteq Stamps(b[e]) \cup (Stamps(flight.todo[e]) \ {flight.id})
    BY <1>7, <1>8, NothingListed
  <2>2. Retried(NoEntries, fl) \subseteq Retried(b, flight)
    BY <2>1 DEF Retried
  <2>3. IsFiniteSet(Retried(b, flight)) /\ Cardinality(Retried(b, flight)) <= faults
    BY <1>1 DEF Failures
  <2>4. /\ IsFiniteSet(Retried(NoEntries, fl))
        /\ Cardinality(Retried(NoEntries, fl)) <= Cardinality(Retried(b, flight))
    BY <2>2, <2>3, FS_Subset
  <2>5. Cardinality(Retried(NoEntries, fl)) \in Nat /\ Cardinality(Retried(b, flight)) \in Nat
    BY <2>3, <2>4, FS_CardinalityType
  <2>6. Cardinality(Retried(NoEntries, fl)) <= faults
    BY <1>2, <2>3, <2>4, <2>5
  <2>7. QED BY <2>4, <2>6 DEF Failures
<1>19. Ledger(ac, NoEntries, fl, n, memory, epoch, faults, tw)
  BY <1>10, <1>11, <1>12, <1>13, <1>16, <1>17, <1>18 DEF Ledger
<1>20. Unused(fl, memory, epoch)
  BY <1>8, <1>14 DEF Unused
<1>21. n = batches + 1
  BY DEF n
<1> HIDE DEF tw
<1>22. QED BY <1>3, <1>8, <1>15, <1>19, <1>20, <1>21

\* s2 is s with one access more, in an entry that has no batch id.
Grown(s, s2, a) ==
  /\ s2 \in Seq(Entry) /\ DOMAIN s \subseteq DOMAIN s2
  /\ \E k \in DOMAIN s2 :
       /\ s2[k].of = (IF k \in DOMAIN s THEN s[k].of ELSE {}) \cup {a} /\ s2[k].batch = 0
       /\ k \in DOMAIN s => s[k].batch = 0
       /\ \A i \in DOMAIN s2 \ {k} : i \in DOMAIN s /\ s2[i] = s[i]

\* bufferAccess adds an access to the entries of its epoch.
LEMMA BufferedGrows ==
  ASSUME NEW a \in Access, NEW tok \in Epoch, buffer \in Buffers
  PROVE  /\ Buffered(a, tok) \in Buffers /\ Grown(buffer[tok], Buffered(a, tok)[tok], a)
         /\ \A e \in Epoch \ {tok} : Buffered(a, tok)[e] = buffer[e]
<1> DEFINE s == buffer[tok]
           n == Len(s)
           open == n > 0 /\ s[n].batch = 0
           r == [s[n] EXCEPT !.of = s[n].of \cup {a}]
           x == [of |-> {a}, batch |-> 0]
           s2 == IF open THEN [s EXCEPT ![n] = r] ELSE Append(s, x)
<1>1. buffer \in [Epoch -> Seq(Entry)] /\ s \in Seq(Entry)
  BY DEF Buffers
<1>2. Buffered(a, tok) = [buffer EXCEPT ![tok] = s2]
  BY DEF Buffered
<1>3. n \in Nat /\ DOMAIN s = 1 .. n
  BY <1>1
<1> HIDE DEF s
<1>4. ASSUME open
      PROVE  Grown(s, s2, a)
  <2>1. s2 = [s EXCEPT ![n] = r] /\ n \in DOMAIN s
    BY <1>3, <1>4
  <2>2. s[n] \in Entry
    BY <1>1, <2>1
  <2>3. r \in Entry /\ r.of = s[n].of \cup {a} /\ r.batch = s[n].batch
    BY <2>2 DEF Entry
  <2>4. s[n].batch = 0
    BY <1>4
  <2> HIDE DEF r, n
  <2>5. /\ s2 \in Seq(Entry) /\ DOMAIN s2 = DOMAIN s /\ s2[n] = r
        /\ \A i \in DOMAIN s \ {n} : s2[i] = s[i]
    BY <1>1, <2>1, <2>3
  <2> HIDE DEF s2
  <2>6. QED BY <2>1, <2>3, <2>4, <2>5 DEF Grown
<1>5. ASSUME ~ open
      PROVE  Grown(s, s2, a)
  <2>1. s2 = Append(s, x)
    BY <1>5
  <2>2. x \in Entry /\ x.of = {a} /\ x.batch = 0
    BY DEF Entry
  <2> HIDE DEF x
  <2>3. /\ s2 \in Seq(Entry) /\ DOMAIN s2 = 1 .. n + 1 /\ s2[n + 1] = x
        /\ \A i \in DOMAIN s : s2[i] = s[i]
    <3>1. /\ Append(s, x) \in Seq(Entry) /\ Len(Append(s, x)) = n + 1 /\ Append(s, x)[n + 1] = x
          /\ \A i \in 1 .. n : Append(s, x)[i] = s[i]
      BY <1>1, <2>2
    <3> HIDE DEF s2, n
    <3>2. QED BY <1>3, <2>1, <3>1
  <2> HIDE DEF s2, n
  <2>4. n + 1 \in DOMAIN s2 /\ n + 1 \notin DOMAIN s
        /\ \A i \in DOMAIN s2 \ {n + 1} : i \in DOMAIN s /\ s2[i] = s[i]
    BY <1>3, <2>3
  <2>5. DOMAIN s \subseteq DOMAIN s2
    BY <1>3, <2>3
  <2>6. QED BY <2>2, <2>3, <2>4, <2>5 DEF Grown
<1> HIDE DEF s2
<1>6. s2 \in Seq(Entry) /\ Grown(s, s2, a)
  BY <1>4, <1>5 DEF Grown
<1>7. Buffered(a, tok) \in Buffers /\ Buffered(a, tok)[tok] = s2
      /\ \A e \in Epoch \ {tok} : Buffered(a, tok)[e] = buffer[e]
  BY <1>1, <1>2, <1>6 DEF Buffers
<1>8. QED BY <1>6, <1>7 DEF s

\* What an access adds to its list.
LEMMA GrownEntries ==
  ASSUME NEW s \in Seq(Entry), NEW s2, NEW a, Grown(s, s2, a)
  PROVE  Accesses(s2) = Accesses(s) \cup {a} /\ Stamps(s2) = Stamps(s)
<1>1. PICK k \in DOMAIN s2 :
        /\ s2[k].of = (IF k \in DOMAIN s THEN s[k].of ELSE {}) \cup {a} /\ s2[k].batch = 0
        /\ k \in DOMAIN s => s[k].batch = 0
        /\ \A i \in DOMAIN s2 \ {k} : i \in DOMAIN s /\ s2[i] = s[i]
  BY DEF Grown
<1>2. DOMAIN s \subseteq DOMAIN s2
  BY DEF Grown
<1>3. ASSUME NEW c \in Accesses(s2)
      PROVE  c \in Accesses(s) \cup {a}
  <2>1. PICK i \in DOMAIN s2 : c \in s2[i].of
    BY DEF Accesses
  <2>2. QED BY <1>1, <2>1 DEF Accesses
<1>4. ASSUME NEW c \in Accesses(s)
      PROVE  c \in Accesses(s2)
  <2>1. PICK i \in DOMAIN s : c \in s[i].of
    BY DEF Accesses
  <2>2. c \in s2[i].of
    BY <1>1, <1>2, <2>1
  <2>3. QED BY <1>2, <2>2 DEF Accesses
<1>5. a \in Accesses(s2)
  BY <1>1 DEF Accesses
<1>6. ASSUME NEW b \in Stamps(s2)
      PROVE  b \in Stamps(s)
  <2>1. PICK i \in DOMAIN s2 : b = s2[i].batch /\ b # 0
    BY DEF Stamps
  <2>2. QED BY <1>1, <2>1 DEF Stamps
<1>7. ASSUME NEW b \in Stamps(s)
      PROVE  b \in Stamps(s2)
  <2>1. PICK i \in DOMAIN s : b = s[i].batch /\ b # 0
    BY DEF Stamps
  <2>2. i # k /\ i \in DOMAIN s2
    BY <1>1, <1>2, <2>1
  <2>3. s2[i] = s[i]
    BY <1>1, <2>2
  <2>4. QED BY <2>1, <2>2, <2>3 DEF Stamps
<1>8. QED BY <1>3, <1>4, <1>5, <1>6, <1>7

\* ... and it disturbs nothing of the list.
LEMMA GrownListed ==
  ASSUME NEW s \in Seq(Entry), NEW t, NEW top \in Nat, NEW tw, Lists(s, t, top, tw),
         NEW s2, NEW a, Grown(s, s2, a), a \notin Accesses(s) \cup Accesses(t)
  PROVE  Lists(s2, t, top, tw)
<1>1. PICK k \in DOMAIN s2 :
        /\ s2[k].of = (IF k \in DOMAIN s THEN s[k].of ELSE {}) \cup {a} /\ s2[k].batch = 0
        /\ k \in DOMAIN s => s[k].batch = 0
        /\ \A i \in DOMAIN s2 \ {k} : i \in DOMAIN s /\ s2[i] = s[i]
  BY DEF Grown
<1>2. \A i \in DOMAIN s : a \notin s[i].of
  BY DEF Accesses
<1>3. ASSUME NEW i \in DOMAIN s2, i # k
      PROVE  s2[i].of \cap s2[k].of = {}
  <2>1. i \in DOMAIN s /\ s2[i] = s[i]
    BY <1>1, <1>3
  <2>2. CASE k \in DOMAIN s
    BY <1>1, <1>2, <1>3, <2>1, <2>2 DEF Lists
  <2>3. CASE k \notin DOMAIN s
    BY <1>1, <1>2, <2>1, <2>3
  <2>4. QED BY <2>2, <2>3
<1>4. ASSUME NEW i \in DOMAIN s2, NEW j \in DOMAIN s2, i # j
      PROVE  s2[i].of \cap s2[j].of = {}
  <2>1. CASE i = k \/ j = k
    BY <1>3, <1>4, <2>1
  <2>2. CASE i # k /\ j # k
    BY <1>1, <1>4, <2>2 DEF Lists
  <2>3. QED BY <2>1, <2>2
<1>5. ASSUME NEW i \in DOMAIN s2, NEW j \in DOMAIN s2, i < j, s2[i].batch = s2[j].batch, s2[j].batch # 0
      PROVE  s2[j].of \subseteq tw
  <2>1. i # k /\ j # k
    BY <1>1, <1>5
  <2>2. QED BY <1>1, <1>5, <2>1 DEF Lists
<1>6. \A i \in DOMAIN s2 : s2[i].batch <= top
  <2>1. \A i \in DOMAIN s : s[i].batch <= top
    BY DEF Lists
  <2>2. 0 <= top
    OBVIOUS
  <2>3. QED BY <1>1, <2>1, <2>2
<1>7. Accesses(s2) \cap Accesses(t) = {} /\ Stamps(s2) = Stamps(s)
  <2>1. Accesses(s2) = Accesses(s) \cup {a} /\ Stamps(s2) = Stamps(s)
    BY GrownEntries
  <2>2. QED BY <2>1 DEF Lists
<1>8. \A i, j \in DOMAIN s2 : i # j => s2[i].of \cap s2[j].of = {}
  BY <1>4
<1>9. \A i, j \in DOMAIN s2 : i < j /\ s2[i].batch = s2[j].batch /\ s2[j].batch # 0 => s2[j].of \subseteq tw
  BY <1>5
<1>10. QED BY <1>6, <1>7, <1>8, <1>9 DEF Lists

\* Whatever is buffered or in flight is an access.
LEMMA BufferedAccesses ==
  ASSUME NEW bu \in Buffers, NEW e \in Epoch
  PROVE  Accesses(bu[e]) \subseteq Access
<1>1. bu[e] \in Seq(Entry)
  BY DEF Buffers
<1>2. \A i \in DOMAIN bu[e] : bu[e][i] \in Entry
  BY <1>1
<1>3. QED BY <1>2 DEF Accesses, Entry

\* An access is recorded, in the buffer of its epoch.
LEMMA LedgerBuffered ==
  ASSUME NEW a \in Access, NEW tok \in Epoch, tok <= epoch, access[a].pc # "recorded",
         Ledger(access, buffer, flight, batches, memory, epoch, faults, twins)
  PROVE  Ledger([access EXCEPT ![a] = [pc |-> "recorded", tok |-> tok]], Buffered(a, tok), flight,
                batches, memory, epoch, faults, twins)
<1> DEFINE ac == [access EXCEPT ![a] = [pc |-> "recorded", tok |-> tok]]
           b == Buffered(a, tok)
<1>1. /\ TrackerTypes(access, buffer, flight, batches, memory, epoch, faults, twins)
      /\ Queued(buffer, flight, batches, twins)
      /\ Held(access, buffer, flight, epoch) /\ Once(access, memory, epoch, twins)
      /\ Kept(access, buffer, flight, batches, memory, epoch)
      /\ Remembered(buffer, flight, memory, epoch) /\ Failures(buffer, flight, faults)
  BY DEF Ledger
<1>2. /\ access \in [Access -> AccessState] /\ buffer \in Buffers /\ epoch \in Epoch /\ batches \in Nat
      /\ buffer \in [Epoch -> Seq(Entry)] /\ memory \in Memories
  BY <1>1 DEF TrackerTypes, Buffers
<1>3. /\ b \in Buffers /\ Grown(buffer[tok], b[tok], a)
      /\ \A e \in Epoch \ {tok} : b[e] = buffer[e]
  BY <1>2, BufferedGrows
<1>4. /\ ac \in [Access -> AccessState] /\ ac[a].pc = "recorded" /\ ac[a].tok = tok
      /\ \A c \in Access \ {a} : ac[c] = access[c]
  BY <1>2 DEF AccessState
<1> HIDE DEF ac, b
<1>5. buffer[tok] \in Seq(Entry)
  BY <1>2
<1>6. Accesses(b[tok]) = Accesses(buffer[tok]) \cup {a} /\ Stamps(b[tok]) = Stamps(buffer[tok])
  BY <1>3, <1>5, GrownEntries
<1>7. \A e \in Epoch : a \notin Accesses(buffer[e]) \cup Accesses(flight.todo[e])
  BY <1>1 DEF Held
<1>8. \A e \in Epoch : Stamps(b[e]) = Stamps(buffer[e])
  BY <1>3, <1>6
<1>9. TrackerTypes(ac, b, flight, batches, memory, epoch, faults, twins)
  BY <1>1, <1>3, <1>4 DEF TrackerTypes
<1>10. Queued(b, flight, batches, twins)
  <2>1. ASSUME NEW e \in Epoch
        PROVE  Lists(b[e], flight.todo[e], batches, twins)
    <3>1. Lists(buffer[e], flight.todo[e], batches, twins)
      BY <1>1 DEF Queued
    <3>2. CASE e = tok
      <4>1. a \notin Accesses(buffer[tok]) \cup Accesses(flight.todo[tok])
        BY <1>7
      <4>2. QED BY <1>2, <1>3, <1>5, <3>1, <3>2, <4>1, GrownListed
    <3>3. CASE e # tok
      BY <1>3, <3>1, <3>3
    <3>4. QED BY <3>2, <3>3
  <2>2. QED BY <1>1, <2>1 DEF Queued
<1>11. Held(ac, b, flight, epoch)
  <2>1. ASSUME NEW e \in Epoch, NEW c \in Accesses(b[e]) \cup Accesses(flight.todo[e])
        PROVE  ac[c].pc = "recorded" /\ ac[c].tok = e
    <3>1. CASE c = a
      <4>1. e = tok
        BY <1>3, <1>7, <3>1
      <4>2. QED BY <1>4, <3>1, <4>1
    <3>2. CASE c # a
      <4>1. c \in Accesses(buffer[e]) \cup Accesses(flight.todo[e])
        BY <1>3, <1>6, <3>2
      <4>2. access[c].pc = "recorded" /\ access[c].tok = e
        BY <1>1, <4>1 DEF Held
      <4>3. c \in Access
        BY <1>1, <1>3, BufferedAccesses DEF TrackerTypes, Flights
      <4>4. QED BY <1>4, <3>2, <4>2, <4>3
    <3>3. QED BY <3>1, <3>2
  <2>2. \A c \in Access : ac[c].tok <= epoch
    BY <1>1, <1>4 DEF Held
  <2>3. QED BY <2>1, <2>2 DEF Held
<1>12. Once(ac, memory, epoch, twins)
  <2>1. memory.raw[a] # 1
    BY <1>1 DEF Once
  <2>2. QED BY <1>1, <1>4, <2>1 DEF Once
<1>13. Kept(ac, b, flight, batches, memory, epoch)
  <2>1. Told(b[epoch], memory)
    <3>1. CASE epoch = tok
      <4>1. PICK k \in DOMAIN b[tok] :
              /\ b[tok][k].of = (IF k \in DOMAIN buffer[tok] THEN buffer[tok][k].of ELSE {}) \cup {a}
              /\ b[tok][k].batch = 0
              /\ k \in DOMAIN buffer[tok] => buffer[tok][k].batch = 0
              /\ \A i \in DOMAIN b[tok] \ {k} : i \in DOMAIN buffer[tok] /\ b[tok][i] = buffer[tok][i]
        BY <1>3 DEF Grown
      <4>2. Told(buffer[tok], memory)
        BY <1>1, <3>1 DEF Kept
      <4>3. 0 \notin memory.batches
        BY <1>1 DEF Kept
      <4>4. memory.raw[a] = 0
        <5>1. memory.raw[a] # 1 /\ memory.raw[a] <= 1
          BY <1>1 DEF Once
        <5>2. memory.raw[a] \in Nat
          BY <1>2 DEF Memories
        <5>3. QED BY <5>1, <5>2
      <4>5. ASSUME NEW i \in DOMAIN b[tok], NEW c \in b[tok][i].of
            PROVE  memory.raw[c] = IF b[tok][i].batch \in memory.batches THEN 1 ELSE 0
        <5>1. CASE i = k
          BY <4>1, <4>2, <4>3, <4>4, <5>1 DEF Told
        <5>2. CASE i # k
          BY <4>1, <4>2, <5>2 DEF Told
        <5>3. QED BY <5>1, <5>2
      <4>6. QED BY <3>1, <4>5 DEF Told
    <3>2. CASE epoch # tok
      BY <1>1, <1>2, <1>3, <3>2 DEF Kept
    <3>3. QED BY <3>1, <3>2
  <2>2. ASSUME NEW c \in Access, ac[c].pc = "recorded", Missing(c, ac, memory, epoch)
        PROVE  c \in Accesses(b[epoch]) \cup Accesses(flight.todo[epoch])
    <3>1. CASE c = a
      <4>1. tok = epoch
        BY <1>4, <2>2, <3>1 DEF Missing
      <4>2. QED BY <1>6, <3>1, <4>1
    <3>2. CASE c # a
      <4>1. access[c].pc = "recorded" /\ Missing(c, access, memory, epoch)
        BY <1>4, <2>2, <3>2 DEF Missing
      <4>2. c \in Accesses(buffer[epoch]) \cup Accesses(flight.todo[epoch])
        BY <1>1, <4>1 DEF Kept
      <4>3. Accesses(buffer[epoch]) \subseteq Accesses(b[epoch])
        BY <1>2, <1>3, <1>6
      <4>4. QED BY <4>2, <4>3
    <3>3. QED BY <3>1, <3>2
  <2>3. QED BY <1>1, <2>1, <2>2 DEF Kept
<1>14. Remembered(b, flight, memory, epoch)
  <2>1. Stamps(b[epoch]) = Stamps(buffer[epoch])
    BY <1>2, <1>8
  <2>2. QED BY <1>1, <2>1 DEF Remembered
<1>15. Failures(b, flight, faults)
  <2>1. Retried(b, flight) = Retried(buffer, flight)
    BY <1>8 DEF Retried
  <2>2. QED BY <1>1, <2>1 DEF Failures
<1>16. QED BY <1>9, <1>10, <1>11, <1>12, <1>13, <1>14, <1>15 DEF Ledger, ac, b

\* An access that is not in a buffer, now or before.
LEMMA LedgerAccess ==
  ASSUME NEW a \in Access, access[a].pc # "recorded", NEW x \in AccessState, x.pc # "recorded",
         x.tok <= epoch, NEW fa \in 0 .. MaxFault, fa >= faults,
         Ledger(access, buffer, flight, batches, memory, epoch, faults, twins)
  PROVE  Ledger([access EXCEPT ![a] = x], buffer, flight, batches, memory, epoch, fa, twins)
<1> DEFINE ac == [access EXCEPT ![a] = x]
<1>1. /\ TrackerTypes(access, buffer, flight, batches, memory, epoch, faults, twins)
      /\ Queued(buffer, flight, batches, twins)
      /\ Held(access, buffer, flight, epoch) /\ Once(access, memory, epoch, twins)
      /\ Kept(access, buffer, flight, batches, memory, epoch)
      /\ Remembered(buffer, flight, memory, epoch) /\ Failures(buffer, flight, faults)
  BY DEF Ledger
<1>2. access \in [Access -> AccessState] /\ faults \in Nat
  BY <1>1 DEF TrackerTypes
<1>3. ac \in [Access -> AccessState] /\ ac[a] = x /\ \A c \in Access \ {a} : ac[c] = access[c]
  BY <1>2
<1> HIDE DEF ac
<1>4. TrackerTypes(ac, buffer, flight, batches, memory, epoch, fa, twins)
  BY <1>1, <1>3 DEF TrackerTypes
<1>5. Held(ac, buffer, flight, epoch)
  <2>1. ASSUME NEW e \in Epoch, NEW c \in Accesses(buffer[e]) \cup Accesses(flight.todo[e])
        PROVE  ac[c].pc = "recorded" /\ ac[c].tok = e
    <3>1. access[c].pc = "recorded" /\ access[c].tok = e
      BY <1>1 DEF Held
    <3>2. c # a
      BY <3>1
    <3>3. ac[c] = access[c]
      <4>1. c \in Access
        BY <1>1, BufferedAccesses DEF TrackerTypes, Flights
      <4>2. QED BY <1>3, <3>2, <4>1
    <3>4. QED BY <3>1, <3>3
  <2>2. \A c \in Access : ac[c].tok <= epoch
    BY <1>1, <1>3 DEF Held
  <2>3. QED BY <2>1, <2>2 DEF Held
<1>6. Once(ac, memory, epoch, twins)
  <2>1. memory.raw[a] # 1
    BY <1>1 DEF Once
  <2>2. QED BY <1>1, <1>3, <2>1 DEF Once
<1>7. Kept(ac, buffer, flight, batches, memory, epoch)
  <2>1. ASSUME NEW c \in Access, ac[c].pc = "recorded", Missing(c, ac, memory, epoch)
        PROVE  c \in Accesses(buffer[epoch]) \cup Accesses(flight.todo[epoch])
    <3>1. access[c].pc = "recorded" /\ Missing(c, access, memory, epoch)
      BY <1>3, <2>1 DEF Missing
    <3>2. QED BY <1>1, <3>1 DEF Kept
  <2>2. QED BY <1>1, <2>1 DEF Kept
<1>8. Failures(buffer, flight, fa)
  <2>1. IsFiniteSet(Retried(buffer, flight)) /\ Cardinality(Retried(buffer, flight)) <= faults
    BY <1>1 DEF Failures
  <2>2. Cardinality(Retried(buffer, flight)) \in Nat
    BY <2>1, FS_CardinalityType
  <2>3. Cardinality(Retried(buffer, flight)) <= fa
    BY <1>2, <2>1, <2>2
  <2>4. QED BY <2>1, <2>3 DEF Failures
<1>9. QED BY <1>1, <1>4, <1>5, <1>6, <1>7, <1>8 DEF Ledger, ac

\* A new tenancy: nothing is stored, and nothing waits to be.
LEMMA LedgerErased ==
  ASSUME Ledger(access, buffer, flight, batches, memory, epoch, faults, twins), epoch < MaxErase
  PROVE  /\ Ledger(access, buffer, flight, batches, NoMemory, epoch + 1, faults, twins)
         /\ Unused(flight, NoMemory, epoch + 1)
<1>1. /\ TrackerTypes(access, buffer, flight, batches, memory, epoch, faults, twins)
      /\ Queued(buffer, flight, batches, twins)
      /\ Held(access, buffer, flight, epoch) /\ Failures(buffer, flight, faults)
  BY DEF Ledger
<1>2. epoch \in Nat /\ epoch + 1 \in Epoch /\ access \in [Access -> AccessState]
  BY <1>1, TrackerConstants DEF TrackerTypes, Epoch
<1>3. \A a \in Access : access[a].tok \in Nat /\ access[a].tok <= epoch /\ access[a].tok # epoch + 1
                        /\ access[a].tok <= epoch + 1
  <2>1. \A a \in Access : access[a] \in AccessState
    BY <1>2
  <2>2. \A a \in Access : access[a].tok \in Nat
    BY <2>1 DEF AccessState, Epoch
  <2>3. QED BY <1>1, <1>2, <2>2 DEF Held
<1>4. Accesses(buffer[epoch + 1]) = {} /\ Accesses(flight.todo[epoch + 1]) = {}
  <2>1. \A a \in Accesses(buffer[epoch + 1]) \cup Accesses(flight.todo[epoch + 1]) :
          a \in Access /\ access[a].tok = epoch + 1
    <3>1. Accesses(buffer[epoch + 1]) \cup Accesses(flight.todo[epoch + 1]) \subseteq Access
      BY <1>1, <1>2, BufferedAccesses DEF TrackerTypes, Flights
    <3>2. QED BY <1>1, <1>2, <3>1 DEF Held
  <2>2. QED BY <1>3, <2>1
<1>5. /\ NoMemory \in Memories /\ NoMemory.batches = {} /\ NoMemory.applied = <<>>
      /\ \A a \in Access : NoMemory.raw[a] = 0 /\ NoMemory.counted[a] = 0
  BY DEF NoMemory, Memories
<1>6. TrackerTypes(access, buffer, flight, batches, NoMemory, epoch + 1, faults, twins)
  BY <1>1, <1>2, <1>5 DEF TrackerTypes
<1>7. Held(access, buffer, flight, epoch + 1)
  BY <1>1, <1>3 DEF Held
<1>8. Once(access, NoMemory, epoch + 1, twins)
  BY <1>5 DEF Once
<1>9. Kept(access, buffer, flight, batches, NoMemory, epoch + 1)
  <2>1. Told(buffer[epoch + 1], NoMemory) /\ Told(flight.todo[epoch + 1], NoMemory)
    BY <1>4 DEF Told, Accesses
  <2>2. ToSet(<<>>) = {}
    BY DEF ToSet
  <2>3. \A a \in Access : ~ Missing(a, access, NoMemory, epoch + 1)
    BY <1>3 DEF Missing
  <2>4. QED BY <1>5, <2>1, <2>2, <2>3 DEF Kept
<1>10. Remembered(buffer, flight, NoMemory, epoch + 1)
  <2>1. Recent(<<>>, {})
    <3>1. Len(<<>>) = 0 /\ 0 \in 0 .. 0 /\ 0 + 1 .. 0 = {}
      OBVIOUS
    <3>2. {} = {<<>>[i] : i \in 0 + 1 .. 0}
      BY <3>1
    <3>3. QED BY <3>1, <3>2 DEF Recent
  <2>2. QED BY <1>5, <2>1 DEF Remembered
<1>11. Unused(flight, NoMemory, epoch + 1)
  BY <1>5 DEF Unused
<1>12. QED BY <1>1, <1>6, <1>7, <1>8, <1>9, <1>10, <1>11 DEF Ledger

\* The tracker begins with nothing.
LEMMA TrackerInvInit == TrackerInit => TrackerInv
<1> SUFFICES ASSUME TrackerInit PROVE TrackerInv
  OBVIOUS
<1>1. /\ access \in [Access -> AccessState] /\ \A a \in Access : access[a].pc = "new" /\ access[a].tok = 0
      /\ 0 \in Epoch /\ epoch = 0 /\ faults = 0 /\ batches = 0 /\ twins = {}
      /\ buffer = NoEntries /\ flight = NoFlight /\ memory = NoMemory
      /\ flusher = [f \in Flusher |-> NoFlusher]
  BY TrackerConstants DEF TrackerInit, AccessState, Epoch
<1>2. NoEntries \in Buffers /\ \A e \in Epoch : NoEntries[e] = <<>>
  BY DEF NoEntries, Buffers
<1>3. /\ flight \in Flights /\ flight.todo = NoEntries /\ flight.id = 0 /\ ~ flight.on
  BY <1>1, <1>2 DEF NoFlight, Flights
<1>4. /\ memory \in Memories /\ memory.batches = {} /\ memory.applied = <<>>
      /\ \A a \in Access : memory.raw[a] = 0 /\ memory.counted[a] = 0
  BY <1>1 DEF NoMemory, Memories
<1>5. TrackerTypes(access, buffer, flight, batches, memory, epoch, faults, twins)
  BY <1>1, <1>2, <1>3, <1>4, TrackerConstants DEF TrackerTypes
<1>6. Queued(buffer, flight, batches, twins)
  <2>1. Lists(<<>>, <<>>, 0, {})
    BY NothingListed DEF Lists
  <2>2. QED BY <1>1, <1>2, <1>3, <2>1 DEF Queued
<1>7. Held(access, buffer, flight, epoch)
  BY <1>1, <1>2, <1>3, NothingListed DEF Held
<1>8. Once(access, memory, epoch, twins)
  BY <1>4 DEF Once
<1>9. Kept(access, buffer, flight, batches, memory, epoch)
  <2>1. ToSet(<<>>) = {}
    BY DEF ToSet
  <2>2. QED BY <1>1, <1>2, <1>3, <1>4, <2>1, NothingListed DEF Kept
<1>10. Remembered(buffer, flight, memory, epoch)
  <2>1. Recent(<<>>, {})
    <3>1. Len(<<>>) = 0 /\ 0 \in 0 .. 0 /\ 0 + 1 .. 0 = {}
      OBVIOUS
    <3>2. {} = {<<>>[i] : i \in 0 + 1 .. 0}
      BY <3>1
    <3>3. QED BY <3>1, <3>2 DEF Recent
  <2>2. QED BY <1>4, <2>1 DEF Remembered
<1>11. Failures(buffer, flight, faults)
  <2>1. Retried(buffer, flight) = {}
    BY <1>1, <1>2, <1>3, NothingListed DEF Retried
  <2>2. QED BY <1>1, <2>1, FS_EmptySet DEF Failures
<1>12. Unused(flight, memory, epoch)
  BY <1>4 DEF Unused
<1>13. /\ flusher \in [Flusher -> FlushCall]
       /\ \A f \in Flusher : flusher[f].id = 0 /\ flusher[f].due = {}
  BY <1>1 DEF NoFlusher, FlushCall
<1>14. Callers(flusher, access, flight, batches, memory, epoch)
  BY <1>1, <1>13 DEF Callers, Caller
<1>15. QED BY <1>5, <1>6, <1>7, <1>8, <1>9, <1>10, <1>11, <1>12, <1>13, <1>14 DEF TrackerInv, Ledger

\* The part of the invariant that no launch and no flush disturbs.
LEMMA TrackerFacts ==
  ASSUME TrackerInv
  PROVE  /\ Ledger(access, buffer, flight, batches, memory, epoch, faults, twins)
         /\ Unused(flight, memory, epoch) /\ flusher \in [Flusher -> FlushCall]
         /\ Callers(flusher, access, flight, batches, memory, epoch)
         /\ access \in [Access -> AccessState] /\ buffer \in Buffers /\ flight \in Flights
         /\ batches \in Nat /\ memory \in Memories /\ epoch \in Epoch /\ faults \in 0 .. MaxFault
         /\ \A a \in Access : access[a].tok <= epoch
         /\ \A f \in Flusher : flusher[f] \in FlushCall /\ flusher[f].due \subseteq Access
<1>1. /\ Ledger(access, buffer, flight, batches, memory, epoch, faults, twins)
      /\ Unused(flight, memory, epoch) /\ flusher \in [Flusher -> FlushCall]
      /\ Callers(flusher, access, flight, batches, memory, epoch)
  BY DEF TrackerInv
<1>2. /\ access \in [Access -> AccessState] /\ buffer \in Buffers /\ flight \in Flights
      /\ batches \in Nat /\ memory \in Memories /\ epoch \in Epoch /\ faults \in 0 .. MaxFault
  BY <1>1 DEF Ledger, TrackerTypes
<1>3. \A a \in Access : access[a].tok <= epoch
  BY <1>1 DEF Ledger, Held
<1>4. \A f \in Flusher : flusher[f] \in FlushCall
  BY <1>1
<1>5. \A f \in Flusher : flusher[f].due \subseteq Access
  BY <1>4 DEF FlushCall
<1>6. QED BY <1>1, <1>2, <1>3, <1>4, <1>5

\* An access that was not recorded changes no caller's accesses.
LEMMA CallersAccess ==
  ASSUME TrackerInv, NEW ac, NEW a \in Access, access[a].pc # "recorded",
         \A c \in Access \ {a} : ac[c] = access[c]
  PROVE  Callers(flusher, ac, flight, batches, memory, epoch)
<1>1. \A f \in Flusher : \A c \in flusher[f].due : c \in Access /\ c # a /\ ac[c] = access[c]
  BY TrackerFacts DEF Callers, Caller
<1>2. ASSUME NEW f \in Flusher
      PROVE  Caller(flusher[f], ac, flight, batches, memory, epoch)
  <2>1. Caller(flusher[f], access, flight, batches, memory, epoch)
    BY TrackerFacts DEF Callers
  <2>2. \A c \in flusher[f].due : ac[c].pc = access[c].pc
          /\ (Missing(c, ac, memory, epoch) <=> Missing(c, access, memory, epoch))
    BY <1>1 DEF Missing
  <2>3. QED BY <2>1, <2>2 DEF Caller
<1>3. QED BY <1>2 DEF Callers

\* The callers when a flush takes the buffer b: what they miss is in it.
LEMMA CallersLaunched ==
  ASSUME NEW ac, NEW x, Caller(x, ac, flight, batches, memory, epoch), x.due \subseteq Access,
         batches \in Nat, x.id \in Nat, ~ flight.on, NEW fl, fl.id = batches + 1,
         \A a \in Access : ac[a].pc = "recorded" /\ Missing(a, ac, memory, epoch) =>
           a \in Accesses(fl.todo[epoch])
  PROVE  Caller(x, ac, fl, batches + 1, memory, epoch)
<1>1. x.id <= batches + 1 /\ fl.id # x.id
  BY DEF Caller
<1>2. \A a \in x.due : ac[a].pc = "recorded"
  BY DEF Caller
<1>3. ASSUME NEW a \in x.due, Missing(a, ac, memory, epoch)
      PROVE  /\ x.pc = "flight" /\ fl.on /\ fl.id # x.id /\ ~ fl.bad => a \in Accesses(fl.todo[epoch])
             /\ x.pc = "run" /\ ~ x.failed => fl.on /\ fl.id = x.id /\ a \in Accesses(fl.todo[epoch])
             /\ x.pc = "done" => x.failed \/ x.overtaken
  <2>1. a \in Accesses(fl.todo[epoch])
    BY <1>2, <1>3
  <2>2. /\ x.pc = "run" /\ ~ x.failed => flight.on
        /\ x.pc = "done" => x.failed \/ x.overtaken
    BY <1>3 DEF Caller
  <2>3. QED BY <2>1, <2>2
<1>4. QED BY <1>1, <1>2, <1>3 DEF Caller

\* What recordAccess does once its access has an epoch.
LEMMA RecordedKeeps ==
  ASSUME TrackerInv, NEW a \in Access, NEW tok \in Epoch, tok <= epoch, access[a].pc # "recorded",
         access' = [access EXCEPT ![a] = [pc |-> "recorded", tok |-> tok]], BufferAccess(a, tok),
         UNCHANGED <<memory, flusher, epoch, faults>>
  PROVE  TrackerInv'
<1> DEFINE b == Buffered(a, tok)
<1>1. /\ Ledger(access, buffer, flight, batches, memory, epoch, faults, twins)
      /\ Unused(flight, memory, epoch) /\ flusher \in [Flusher -> FlushCall]
      /\ access \in [Access -> AccessState] /\ batches \in Nat
      /\ \A f \in Flusher : flusher[f] \in FlushCall /\ flusher[f].due \subseteq Access
  BY TrackerFacts
<1>2. Ledger(access', b, flight, batches, memory, epoch, faults, twins)
  BY <1>1, LedgerBuffered
<1>3. Callers(flusher, access', flight, batches, memory, epoch)
  <2>1. \A c \in Access \ {a} : access'[c] = access[c]
    BY <1>1
  <2>2. QED BY <2>1, CallersAccess
<1> HIDE DEF b
<1>4. CASE buffer' = b /\ UNCHANGED <<flight, batches, twins>>
  BY <1>1, <1>2, <1>3, <1>4 DEF TrackerInv
<1>5. CASE Launch(b) /\ ~ flight.on
  <2>1. /\ Ledger(access', buffer', flight', batches', memory, epoch, faults, twins')
        /\ Unused(flight', memory, epoch)
        /\ batches' = batches + 1 /\ flight'.id = batches + 1
        /\ \A c \in Access : access'[c].pc = "recorded" /\ Missing(c, access', memory, epoch) =>
             c \in Accesses(flight'.todo[epoch])
    BY <1>2, <1>5, LedgerLaunched
  <2>2. ASSUME NEW f \in Flusher
        PROVE  Caller(flusher[f], access', flight', batches + 1, memory, epoch)
    <3>1. flusher[f].id \in Nat /\ Caller(flusher[f], access', flight, batches, memory, epoch)
      BY <1>1, <1>3 DEF FlushCall, Callers
    <3>2. QED BY <1>1, <1>5, <2>1, <3>1, CallersLaunched
  <2>3. Callers(flusher, access', flight', batches', memory, epoch)
    BY <2>1, <2>2 DEF Callers
  <2>4. QED BY <1>1, <2>1, <2>3 DEF TrackerInv
<1>6. QED BY <1>4, <1>5 DEF BufferAccess, b

\* The steps of a search that records its access.
LEMMA RecordKeeps ==
  ASSUME TrackerInv, NEW a \in Access, Record(a)
  PROVE  TrackerInv'
<1>1. /\ Ledger(access, buffer, flight, batches, memory, epoch, faults, twins)
      /\ Unused(flight, memory, epoch) /\ flusher \in [Flusher -> FlushCall]
      /\ access \in [Access -> AccessState] /\ epoch \in Epoch /\ faults \in 0 .. MaxFault
      /\ access[a].tok <= epoch /\ access[a] \in AccessState
  BY TrackerFacts
<1>2. epoch \in Nat /\ epoch <= epoch /\ access[a].tok \in Epoch
  BY <1>1 DEF Epoch, AccessState
<1>3. ASSUME access[a].pc # "recorded", NEW x \in AccessState, x.pc # "recorded", x.tok <= epoch,
             access' = [access EXCEPT ![a] = x], faults' \in 0 .. MaxFault, faults' >= faults,
             UNCHANGED <<buffer, flight, batches, memory, flusher, epoch, twins>>
      PROVE  TrackerInv'
  <2>1. Ledger(access', buffer, flight, batches, memory, epoch, faults', twins)
    BY <1>1, <1>3, LedgerAccess
  <2>2. \A c \in Access \ {a} : access'[c] = access[c]
    BY <1>1, <1>3
  <2>3. Callers(flusher, access', flight, batches, memory, epoch)
    BY <1>3, <2>2, CallersAccess
  <2>4. QED BY <1>1, <1>3, <2>1, <2>3 DEF TrackerInv
<1>4. CASE SearchAdmitted(a)
  <2> DEFINE x == [pc |-> "search", tok |-> epoch]
  <2>1. x \in AccessState /\ x.pc # "recorded" /\ x.tok <= epoch
    BY <1>1, <1>2 DEF AccessState
  <2>2. /\ access[a].pc # "recorded" /\ access' = [access EXCEPT ![a] = x] /\ faults' = faults
        /\ UNCHANGED <<buffer, flight, batches, memory, flusher, epoch, twins>>
    BY <1>4 DEF SearchAdmitted
  <2>3. faults' \in 0 .. MaxFault /\ faults' >= faults
    BY <1>1, <2>2
  <2> HIDE DEF x
  <2>4. QED BY <1>3, <2>1, <2>2, <2>3
<1>5. CASE RecordAccess(a)
  <2>1. access[a].pc = "search" /\ UNCHANGED <<memory, flusher, interval, epoch, faults>>
    BY <1>5 DEF RecordAccess
  <2>2. CASE flusher["close"].pc = "done"
    <3> DEFINE x == [access[a] EXCEPT !.pc = "lost"]
    <3>1. x \in AccessState /\ x.pc # "recorded" /\ x.tok <= epoch
      BY <1>1 DEF AccessState
    <3>2. access' = [access EXCEPT ![a] = x] /\ UNCHANGED <<buffer, flight, batches, twins>>
      BY <1>5, <2>2 DEF RecordAccess
    <3>3. faults' \in 0 .. MaxFault /\ faults' >= faults
      BY <1>1, <2>1
    <3> HIDE DEF x
    <3>4. QED BY <1>3, <2>1, <3>1, <3>2, <3>3
  <2>3. CASE flusher["close"].pc # "done"
    <3>1. access' = [access EXCEPT ![a].pc = "recorded"] /\ BufferAccess(a, access[a].tok)
      BY <1>5, <2>3 DEF RecordAccess
    <3>2. [access[a] EXCEPT !.pc = "recorded"] = [pc |-> "recorded", tok |-> access[a].tok]
      BY <1>1 DEF AccessState
    <3>3. access' = [access EXCEPT ![a] = [pc |-> "recorded", tok |-> access[a].tok]]
      BY <3>1, <3>2
    <3>4. QED BY <1>1, <1>2, <2>1, <3>1, <3>3, RecordedKeeps
  <2>4. QED BY <2>2, <2>3
<1>6. CASE RecordPending(a)
  <2> DEFINE x == [access[a] EXCEPT !.pc = "pending"]
  <2>1. x \in AccessState /\ x.pc # "recorded" /\ x.tok <= epoch
    BY <1>1 DEF AccessState
  <2>2. /\ access[a].pc # "recorded" /\ access' = [access EXCEPT ![a] = x] /\ faults' = faults
        /\ UNCHANGED <<buffer, flight, batches, memory, flusher, epoch, twins>>
    BY <1>6 DEF RecordPending
  <2>3. faults' \in 0 .. MaxFault /\ faults' >= faults
    BY <1>1, <2>2
  <2> HIDE DEF x
  <2>4. QED BY <1>3, <2>1, <2>2, <2>3
<1>7. CASE AdmissionArrives(a)
  <2>1. /\ access[a].pc # "recorded" /\ BufferAccess(a, epoch)
        /\ access' = [access EXCEPT ![a] = [pc |-> "recorded", tok |-> epoch]]
        /\ UNCHANGED <<memory, flusher, epoch, faults>>
    BY <1>7 DEF AdmissionArrives
  <2>2. QED BY <1>1, <1>2, <2>1, RecordedKeeps
<1>8. CASE AdmissionFails(a)
  <2> DEFINE x == [access[a] EXCEPT !.pc = "lost"]
  <2>1. x \in AccessState /\ x.pc # "recorded" /\ x.tok <= epoch
    BY <1>1 DEF AccessState
  <2>2. /\ access[a].pc # "recorded" /\ access' = [access EXCEPT ![a] = x] /\ faults' = faults + 1
        /\ faults < MaxFault /\ UNCHANGED <<buffer, flight, batches, memory, flusher, epoch, twins>>
    BY <1>8 DEF AdmissionFails
  <2>3. faults' \in 0 .. MaxFault /\ faults' >= faults
    BY <1>1, <2>2, TrackerConstants
  <2> HIDE DEF x
  <2>4. QED BY <1>3, <2>1, <2>2, <2>3
<1>9. QED BY <1>4, <1>5, <1>6, <1>7, <1>8 DEF Record

\* A flush that takes the buffer, when nobody else's state changes.
LEMMA LaunchKeeps ==
  ASSUME TrackerInv, ~ flight.on, Launch(buffer), UNCHANGED <<access, memory, epoch, faults>>
  PROVE  /\ Ledger(access', buffer', flight', batches', memory', epoch', faults', twins')
         /\ Unused(flight', memory', epoch')
         /\ \A f \in Flusher : Caller(flusher[f], access', flight', batches', memory', epoch')
         /\ batches' = batches + 1 /\ flight'.on /\ flight'.id = batches + 1
         /\ \A a \in Access : access[a].pc = "recorded" /\ Missing(a, access, memory, epoch) =>
              a \in Accesses(flight'.todo[epoch])
<1>1. /\ Ledger(access, buffer, flight, batches, memory, epoch, faults, twins)
      /\ batches \in Nat /\ Callers(flusher, access, flight, batches, memory, epoch)
      /\ \A f \in Flusher : flusher[f] \in FlushCall /\ flusher[f].due \subseteq Access
  BY TrackerFacts
<1>2. /\ Ledger(access, buffer', flight', batches', memory, epoch, faults, twins')
      /\ Unused(flight', memory, epoch)
      /\ batches' = batches + 1 /\ flight'.on /\ flight'.id = batches + 1
      /\ \A a \in Access : access[a].pc = "recorded" /\ Missing(a, access, memory, epoch) =>
           a \in Accesses(flight'.todo[epoch])
  BY <1>1, LedgerLaunched
<1>3. ASSUME NEW f \in Flusher
      PROVE  Caller(flusher[f], access, flight', batches + 1, memory, epoch)
  <2>1. flusher[f].id \in Nat /\ Caller(flusher[f], access, flight, batches, memory, epoch)
    BY <1>1 DEF FlushCall, Callers
  <2>2. QED BY <1>1, <1>2, <2>1, CallersLaunched
<1>4. QED BY <1>2, <1>3

\* The interval starts a flush.
LEMMA IntervalKeeps ==
  ASSUME TrackerInv, Interval
  PROVE  TrackerInv'
<1>1. ~ flight.on /\ Launch(buffer) /\ UNCHANGED <<access, memory, flusher, epoch, faults>>
  BY DEF Interval
<1>2. QED BY <1>1, LaunchKeeps, TrackerFacts DEF TrackerInv, Callers

\* The collection is inspected.
LEMMA InspectKeeps ==
  ASSUME TrackerInv, Inspect
  PROVE  TrackerInv'
<1>1. /\ Ledger(access, buffer, flight, batches, memory, epoch, faults, twins)
      /\ Unused(flight, memory, epoch) /\ flusher \in [Flusher -> FlushCall]
      /\ Callers(flusher, access, flight, batches, memory, epoch) /\ flight \in Flights
  BY TrackerFacts
<1>2. /\ flight' = [flight EXCEPT !.inspect = FALSE]
      /\ UNCHANGED <<access, buffer, batches, memory, flusher, epoch, faults, twins>>
  BY DEF Inspect
<1>3. /\ flight' \in Flights /\ flight'.on = flight.on /\ flight'.id = flight.id
      /\ flight'.bad = flight.bad /\ flight'.todo = flight.todo
  BY <1>1, <1>2 DEF Flights
<1>4. TrackerTypes(access, buffer, flight', batches, memory, epoch, faults, twins)
  BY <1>1, <1>3 DEF Ledger, TrackerTypes
<1>5. Queued(buffer, flight', batches, twins) /\ Held(access, buffer, flight', epoch)
  BY <1>1, <1>3 DEF Ledger, Queued, Held
<1>6. /\ Kept(access, buffer, flight', batches, memory, epoch)
      /\ Remembered(buffer, flight', memory, epoch)
  BY <1>1, <1>3 DEF Ledger, Kept, Remembered
<1>7. Failures(buffer, flight', faults) /\ Unused(flight', memory, epoch)
  BY <1>1, <1>3 DEF Ledger, Failures, Retried, Unused
<1>8. Callers(flusher, access, flight', batches, memory, epoch)
  BY <1>1, <1>3 DEF Callers, Caller
<1>9. QED BY <1>1, <1>2, <1>4, <1>5, <1>6, <1>7, <1>8 DEF TrackerInv, Ledger

\* The tenant is erased.
LEMMA EraseKeeps ==
  ASSUME TrackerInv, Erase
  PROVE  TrackerInv'
<1>1. /\ epoch < MaxErase /\ epoch' = epoch + 1 /\ memory' = NoMemory
      /\ UNCHANGED <<access, buffer, flight, batches, flusher, faults, twins>>
  BY DEF Erase
<1>2. /\ Ledger(access, buffer, flight, batches, memory, epoch, faults, twins)
      /\ flusher \in [Flusher -> FlushCall] /\ access \in [Access -> AccessState]
      /\ Callers(flusher, access, flight, batches, memory, epoch) /\ epoch \in Epoch
      /\ \A a \in Access : access[a].tok <= epoch
      /\ \A f \in Flusher : flusher[f].due \subseteq Access
  BY TrackerFacts
<1>3. /\ Ledger(access, buffer, flight, batches, NoMemory, epoch + 1, faults, twins)
      /\ Unused(flight, NoMemory, epoch + 1)
  BY <1>1, <1>2, LedgerErased
<1>4. \A a \in Access : ~ Missing(a, access, NoMemory, epoch + 1)
  <2>1. \A a \in Access : access[a].tok \in Nat
    BY <1>2 DEF AccessState, Epoch
  <2>2. \A a \in Access : access[a].tok # epoch + 1
    BY <1>2, <2>1 DEF Epoch
  <2>3. QED BY <2>2 DEF Missing
<1>5. Callers(flusher, access, flight, batches, NoMemory, epoch + 1)
  BY <1>2, <1>4 DEF Callers, Caller
<1>6. QED BY <1>1, <1>2, <1>3, <1>5 DEF TrackerInv

\* What becomes of the flight when one of its groups is done: fl2 is flight'.
Left(fl2, e, bad) ==
  /\ fl2 \in Flights /\ fl2.todo = [flight.todo EXCEPT ![e] = <<>>]
  /\ \/ fl2.on /\ fl2.id = flight.id /\ (fl2.bad <=> flight.bad \/ bad)
     \/ ~ fl2.on /\ fl2.id = 0 /\ fl2.todo = NoEntries

\* GroupDone does that.
LEMMA GroupLeaves ==
  ASSUME flight \in Flights, flight.on, NEW e \in Epoch, NEW bad \in BOOLEAN, GroupDone(e, bad)
  PROVE  Left(flight', e, bad)
<1> DEFINE left == [flight.todo EXCEPT ![e] = <<>>]
           r == [flight EXCEPT !.todo = left, !.bad = flight.bad \/ bad]
<1>1. flight.todo \in Buffers
  BY DEF Flights
<1>2. left \in Buffers /\ NoEntries \in Buffers
  BY <1>1 DEF Buffers, NoEntries
<1>3. flight' = IF left = NoEntries THEN NoFlight ELSE r
  BY DEF GroupDone
<1> HIDE DEF left
<1>4. /\ r \in Flights /\ r.todo = left /\ r.on = flight.on /\ r.id = flight.id
      /\ r.bad = (flight.bad \/ bad)
  BY <1>2 DEF Flights
<1>5. /\ NoFlight \in Flights /\ NoFlight.todo = NoEntries /\ ~ NoFlight.on /\ NoFlight.id = 0
  BY <1>2 DEF NoFlight, Flights
<1> HIDE DEF r
<1>6. CASE left = NoEntries
  <2>1. flight' = NoFlight
    BY <1>3, <1>6
  <2>2. QED BY <1>5, <1>6, <2>1 DEF Left, left
<1>7. CASE left # NoEntries
  <2>1. flight' = r
    BY <1>3, <1>7
  <2>2. QED BY <1>4, <2>1 DEF Left, left
<1>8. QED BY <1>6, <1>7

\* The callers learn what became of the flight: x2 is the caller afterwards.
Informed(x, x2) ==
  \/ x2 = x
  \/ x.pc = "run" /\ x.id = flight.id /\ x2 = [x EXCEPT !.failed = TRUE]

\* A caller when a group of the flight is stored, is refused, or fails.
LEMMA CallerServed ==
  ASSUME NEW x \in FlushCall, Caller(x, access, flight, batches, memory, epoch),
         NEW x2, Informed(x, x2), NEW me, \A a \in x.due : me.raw[a] = 0 => memory.raw[a] = 0,
         NEW fl,
         \/ /\ fl.on => flight.on /\ fl.id = flight.id /\ (flight.bad => fl.bad)
            /\ \A a \in Accesses(flight.todo[epoch]) : me.raw[a] = 1
         \/ /\ fl.on => flight.on /\ fl.id = flight.id /\ (flight.bad => fl.bad)
            /\ ~ fl.on => fl.todo[epoch] = <<>>
            /\ fl.todo[epoch] = flight.todo[epoch]
         \/ /\ ~ fl.on \/ fl.bad
            /\ x.pc = "run" /\ x.id = flight.id => x2.failed
  PROVE  x2 \in FlushCall /\ Caller(x2, access, fl, batches, me, epoch)
<1>1. /\ x2 \in FlushCall /\ x2.pc = x.pc /\ x2.id = x.id /\ x2.due = x.due
      /\ x2.overtaken = x.overtaken /\ (x.failed => x2.failed) /\ (x2.failed => x.failed \/ x.pc = "run")
  BY DEF Informed, FlushCall
<1>2. /\ x2.id <= batches /\ \A a \in x2.due : access[a].pc = "recorded"
  BY <1>1 DEF Caller
<1>3. ASSUME NEW a \in x2.due, Missing(a, access, me, epoch)
      PROVE  /\ x2.pc = "flight" /\ fl.on /\ fl.id # x2.id /\ ~ fl.bad => a \in Accesses(fl.todo[epoch])
             /\ x2.pc = "run" /\ ~ x2.failed => fl.on /\ fl.id = x2.id /\ a \in Accesses(fl.todo[epoch])
             /\ x2.pc = "done" => x2.failed \/ x2.overtaken
  <2>1. Missing(a, access, memory, epoch) /\ me.raw[a] = 0
    BY <1>1, <1>3 DEF Missing
  <2>2. /\ x.pc = "flight" /\ flight.on /\ flight.id # x.id /\ ~ flight.bad
             => a \in Accesses(flight.todo[epoch])
        /\ x.pc = "run" /\ ~ x.failed
             => flight.on /\ flight.id = x.id /\ a \in Accesses(flight.todo[epoch])
        /\ x.pc = "done" => x.failed \/ x.overtaken
    BY <1>1, <2>1 DEF Caller
  <2>3. CASE /\ fl.on => flight.on /\ fl.id = flight.id /\ (flight.bad => fl.bad)
             /\ \A c \in Accesses(flight.todo[epoch]) : me.raw[c] = 1
    <3>1. a \notin Accesses(flight.todo[epoch])
      BY <2>1, <2>3
    <3>2. QED BY <1>1, <2>2, <2>3, <3>1
  <2>4. CASE /\ fl.on => flight.on /\ fl.id = flight.id /\ (flight.bad => fl.bad)
             /\ ~ fl.on => fl.todo[epoch] = <<>>
             /\ fl.todo[epoch] = flight.todo[epoch]
    <3>1. ~ fl.on => a \notin Accesses(flight.todo[epoch])
      BY <2>4, NothingListed
    <3>2. QED BY <1>1, <2>2, <2>4, <3>1
  <2>5. CASE (~ fl.on \/ fl.bad) /\ (x.pc = "run" /\ x.id = flight.id => x2.failed)
    BY <1>1, <2>2, <2>5
  <2>6. QED BY <2>3, <2>4, <2>5
<1>4. QED BY <1>1, <1>2, <1>3 DEF Caller

\* Failed tells those who wait for the flight, and nobody else.
LEMMA FailedTells ==
  ASSUME flusher' = Failed, flusher \in [Flusher -> FlushCall], NEW f \in Flusher
  PROVE  /\ Informed(flusher[f], flusher'[f])
         /\ flusher[f].pc = "run" /\ flusher[f].id = flight.id => flusher'[f].failed
<1>1. flusher'[f] = IF flusher[f].pc = "run" /\ flusher[f].id = flight.id
                    THEN [flusher[f] EXCEPT !.failed = TRUE] ELSE flusher[f]
  BY DEF Failed
<1>2. flusher[f] \in FlushCall
  OBVIOUS
<1>3. [flusher[f] EXCEPT !.failed = TRUE].failed
  BY <1>2 DEF FlushCall
<1>4. QED BY <1>1, <1>3 DEF Informed

\* The inspection fails: all entries go back to the buffer.
LEMMA InspectFailsKeeps ==
  ASSUME TrackerInv, InspectFails
  PROVE  TrackerInv'
<1>1. /\ faults < MaxFault /\ faults' = faults + 1 /\ flight' = NoFlight /\ flusher' = Failed
      /\ buffer' = [e \in Epoch |-> buffer[e] \o flight.todo[e]]
      /\ UNCHANGED <<access, batches, memory, epoch, twins>>
  BY DEF InspectFails
<1>2. /\ Ledger(access, buffer, flight, batches, memory, epoch, faults, twins)
      /\ flusher \in [Flusher -> FlushCall]
      /\ Callers(flusher, access, flight, batches, memory, epoch) /\ epoch \in Epoch
      /\ buffer \in Buffers /\ flight \in Flights /\ faults \in 0 .. MaxFault
      /\ \A f \in Flusher : flusher[f] \in FlushCall
  BY TrackerFacts
<1>3. faults + 1 \in 0 .. MaxFault
  BY <1>1, <1>2, TrackerConstants
<1>4. /\ NoFlight \in Flights /\ NoFlight.todo = NoEntries /\ ~ NoFlight.on /\ NoFlight.id = 0
      /\ \A e \in Epoch : NoEntries[e] = <<>>
  BY DEF NoFlight, Flights, NoEntries, Buffers
<1>5. buffer' \in Buffers
  <2>1. \A e \in Epoch : buffer[e] \in Seq(Entry) /\ flight.todo[e] \in Seq(Entry)
    BY <1>2 DEF Buffers, Flights
  <2>2. \A e \in Epoch : buffer[e] \o flight.todo[e] \in Seq(Entry)
    BY <2>1
  <2>3. QED BY <1>1, <2>2 DEF Buffers
<1>6. Handed(buffer, flight.todo, buffer', NoFlight.todo, memory, epoch)
  BY <1>1, <1>4 DEF Handed
<1>7. Ledger(access, buffer', NoFlight, batches, memory, epoch, faults + 1, twins)
  BY <1>2, <1>3, <1>4, <1>5, <1>6, LedgerHanded
<1>8. Unused(NoFlight, memory, epoch)
  BY <1>2, <1>4 DEF Unused
<1>9. ASSUME NEW f \in Flusher
      PROVE  flusher'[f] \in FlushCall /\ Caller(flusher'[f], access, NoFlight, batches, memory, epoch)
  <2>1. /\ Informed(flusher[f], flusher'[f])
        /\ flusher[f].pc = "run" /\ flusher[f].id = flight.id => flusher'[f].failed
    BY <1>1, <1>2, FailedTells
  <2>2. flusher[f] \in FlushCall /\ Caller(flusher[f], access, flight, batches, memory, epoch)
    BY <1>2 DEF Callers
  <2>3. QED BY <1>4, <2>1, <2>2, CallerServed
<1>10. flusher' \in [Flusher -> FlushCall]
  <2>1. flusher' = [f \in Flusher |-> flusher'[f]]
    BY <1>1 DEF Failed
  <2>2. QED BY <1>9, <2>1
<1>11. QED BY <1>1, <1>7, <1>8, <1>9, <1>10 DEF TrackerInv, Callers

\* A group is stored.
LEMMA FlushGroupKeeps ==
  ASSUME TrackerInv, NEW e \in Epoch, FlushGroup(e)
  PROVE  TrackerInv'
<1> DEFINE m == FlushSnapshot(flight.todo[epoch])
<1>1. /\ e = epoch /\ flight.on /\ flight.todo[epoch] # <<>> /\ memory' = m
      /\ GroupDone(epoch, FALSE)
      /\ UNCHANGED <<access, buffer, batches, flusher, epoch, faults, twins>>
  BY DEF FlushGroup, Turn, Admitted
<1>2. /\ Ledger(access, buffer, flight, batches, memory, epoch, faults, twins)
      /\ Unused(flight, memory, epoch) /\ flusher \in [Flusher -> FlushCall]
      /\ Callers(flusher, access, flight, batches, memory, epoch) /\ epoch \in Epoch
      /\ buffer \in Buffers /\ flight \in Flights /\ faults \in 0 .. MaxFault
      /\ \A f \in Flusher : flusher[f] \in FlushCall /\ flusher[f].due \subseteq Access
  BY TrackerFacts
<1>3. /\ Ledger(access, buffer, flight, batches, m, epoch, faults, twins)
      /\ \A a \in Accesses(flight.todo[epoch]) : m.raw[a] = 1
      /\ \A a \in Access : m.raw[a] = 0 => memory.raw[a] = 0
  BY <1>1, <1>2, FlushLands
<1> HIDE DEF m
<1>4. Left(flight', epoch, FALSE)
  BY <1>1, <1>2, GroupLeaves
<1>5. /\ flight' \in Flights /\ flight'.todo[epoch] = <<>>
      /\ \A d \in Epoch \ {epoch} : flight'.todo[d] = flight.todo[d]
      /\ flight'.id = flight.id \/ (flight'.id = 0 /\ flight'.todo = NoEntries)
      /\ flight'.on => flight'.id = flight.id /\ (flight.bad => flight'.bad)
      /\ ~ flight'.on => flight'.todo = NoEntries
  <2>1. flight.todo \in [Epoch -> Seq(Entry)]
    BY <1>2 DEF Flights, Buffers
  <2>2. QED BY <1>2, <1>4, <2>1 DEF Left
<1>6. Handed(buffer, flight.todo, buffer, flight'.todo, m, epoch)
  BY <1>3, <1>5 DEF Handed
<1>7. flight'.on => flight'.id # 0
  BY <1>1, <1>2, <1>5 DEF Ledger, Queued
<1>8. Ledger(access, buffer, flight', batches, m, epoch, faults, twins)
  BY <1>2, <1>3, <1>5, <1>6, <1>7, LedgerHanded
<1>9. Unused(flight', m, epoch)
  BY <1>5 DEF Unused
<1>10. ASSUME NEW f \in Flusher
       PROVE  Caller(flusher[f], access, flight', batches, m, epoch)
  <2>1. /\ flusher[f] \in FlushCall /\ Caller(flusher[f], access, flight, batches, memory, epoch)
        /\ Informed(flusher[f], flusher[f]) /\ \A a \in flusher[f].due : m.raw[a] = 0 => memory.raw[a] = 0
    BY <1>2, <1>3 DEF Callers, Informed
  <2>2. QED BY <1>1, <1>3, <1>5, <2>1, CallerServed
<1>11. QED BY <1>1, <1>2, <1>8, <1>9, <1>10 DEF TrackerInv, Callers

\* A group of another tenancy is discarded.
LEMMA FlushRefusedKeeps ==
  ASSUME TrackerInv, NEW e \in Epoch, FlushRefused(e)
  PROVE  TrackerInv'
<1>1. /\ e # epoch /\ flight.on /\ GroupDone(e, FALSE)
      /\ UNCHANGED <<access, buffer, batches, memory, flusher, epoch, faults, twins>>
  BY DEF FlushRefused, Turn, Admitted
<1>2. /\ Ledger(access, buffer, flight, batches, memory, epoch, faults, twins)
      /\ Unused(flight, memory, epoch) /\ flusher \in [Flusher -> FlushCall]
      /\ Callers(flusher, access, flight, batches, memory, epoch) /\ epoch \in Epoch
      /\ buffer \in Buffers /\ flight \in Flights /\ faults \in 0 .. MaxFault
      /\ \A f \in Flusher : flusher[f] \in FlushCall /\ flusher[f].due \subseteq Access
  BY TrackerFacts
<1>3. Left(flight', e, FALSE)
  BY <1>1, <1>2, GroupLeaves
<1>4. /\ flight' \in Flights /\ flight'.todo[e] = <<>>
      /\ \A d \in Epoch \ {e} : flight'.todo[d] = flight.todo[d]
      /\ flight'.todo[epoch] = flight.todo[epoch]
      /\ flight'.id = flight.id \/ (flight'.id = 0 /\ flight'.todo = NoEntries)
      /\ flight'.on => flight'.id = flight.id /\ (flight.bad => flight'.bad)
      /\ ~ flight'.on => flight'.todo = NoEntries
  <2>1. flight.todo \in [Epoch -> Seq(Entry)]
    BY <1>2 DEF Flights, Buffers
  <2>2. QED BY <1>1, <1>2, <1>3, <2>1 DEF Left
<1>5. Handed(buffer, flight.todo, buffer, flight'.todo, memory, epoch)
  BY <1>1, <1>4 DEF Handed
<1>6. flight'.on => flight'.id # 0
  BY <1>1, <1>2, <1>4 DEF Ledger, Queued
<1>7. Ledger(access, buffer, flight', batches, memory, epoch, faults, twins)
  BY <1>2, <1>4, <1>5, <1>6, LedgerHanded
<1>8. Unused(flight', memory, epoch)
  <2>1. flight'.todo = NoEntries => flight'.todo[epoch] = <<>>
    BY <1>2 DEF NoEntries
  <2>2. QED BY <1>2, <1>4, <2>1 DEF Unused
<1>9. ASSUME NEW f \in Flusher
      PROVE  Caller(flusher[f], access, flight', batches, memory, epoch)
  <2>1. flusher[f] \in FlushCall /\ Caller(flusher[f], access, flight, batches, memory, epoch)
        /\ Informed(flusher[f], flusher[f])
    BY <1>2 DEF Callers, Informed
  <2>2. ~ flight'.on => flight'.todo[epoch] = <<>>
    BY <1>2, <1>4 DEF NoEntries
  <2>3. QED BY <1>1, <1>4, <2>1, <2>2, CallerServed
<1>10. QED BY <1>1, <1>2, <1>7, <1>8, <1>9 DEF TrackerInv, Callers

\* A group fails, stored or not.
LEMMA FlushFailsKeeps ==
  ASSUME TrackerInv, NEW e \in Epoch, FlushFails(e)
  PROVE  TrackerInv'
<1>1. /\ e = epoch /\ flight.on /\ flight.todo[epoch] # <<>> /\ faults < MaxFault /\ faults' = faults + 1
      /\ memory' \in {memory, FlushSnapshot(flight.todo[epoch])}
      /\ buffer' = [buffer EXCEPT ![epoch] = buffer[epoch] \o flight.todo[epoch]]
      /\ GroupDone(epoch, TRUE) /\ flusher' = Failed
      /\ UNCHANGED <<access, batches, epoch, twins>>
  BY DEF FlushFails, Turn, Admitted, Rebuffered
<1>2. /\ Ledger(access, buffer, flight, batches, memory, epoch, faults, twins)
      /\ Unused(flight, memory, epoch) /\ flusher \in [Flusher -> FlushCall]
      /\ Callers(flusher, access, flight, batches, memory, epoch) /\ epoch \in Epoch
      /\ buffer \in Buffers /\ flight \in Flights /\ faults \in 0 .. MaxFault
      /\ \A f \in Flusher : flusher[f] \in FlushCall /\ flusher[f].due \subseteq Access
  BY TrackerFacts
<1>3. /\ Ledger(access, buffer, flight, batches, memory', epoch, faults, twins)
      /\ \A a \in Access : memory'.raw[a] = 0 => memory.raw[a] = 0
  <2>1. CASE memory' = memory
    BY <1>2, <2>1
  <2>2. CASE memory' = FlushSnapshot(flight.todo[epoch])
    BY <1>1, <1>2, <2>2, FlushLands
  <2>3. QED BY <1>1, <2>1, <2>2
<1>4. Left(flight', epoch, TRUE)
  BY <1>1, <1>2, GroupLeaves
<1>5. /\ flight' \in Flights /\ flight'.todo[epoch] = <<>>
      /\ \A d \in Epoch \ {epoch} : flight'.todo[d] = flight.todo[d]
      /\ flight'.id = flight.id \/ (flight'.id = 0 /\ flight'.todo = NoEntries)
      /\ flight'.on => flight'.id = flight.id /\ flight'.bad
      /\ ~ flight'.on => flight'.todo = NoEntries
  <2>1. flight.todo \in [Epoch -> Seq(Entry)]
    BY <1>2 DEF Flights, Buffers
  <2>2. QED BY <1>2, <1>4, <2>1 DEF Left
<1>6. /\ buffer' \in Buffers /\ buffer'[epoch] = buffer[epoch] \o flight.todo[epoch]
      /\ \A d \in Epoch \ {epoch} : buffer'[d] = buffer[d]
  <2>1. buffer[epoch] \in Seq(Entry) /\ flight.todo[epoch] \in Seq(Entry) /\ buffer \in [Epoch -> Seq(Entry)]
    BY <1>2 DEF Flights, Buffers
  <2>2. buffer[epoch] \o flight.todo[epoch] \in Seq(Entry)
    BY <2>1
  <2>3. QED BY <1>1, <1>2, <2>1, <2>2 DEF Buffers
<1>7. Handed(buffer, flight.todo, buffer', flight'.todo, memory', epoch)
  BY <1>5, <1>6 DEF Handed
<1>8. flight'.on => flight'.id # 0
  BY <1>1, <1>2, <1>5 DEF Ledger, Queued
<1>9. faults + 1 \in 0 .. MaxFault
  BY <1>1, <1>2, TrackerConstants
<1>10. Ledger(access, buffer', flight', batches, memory', epoch, faults + 1, twins)
  BY <1>3, <1>5, <1>6, <1>7, <1>8, <1>9, LedgerHanded
<1>11. Unused(flight', memory', epoch)
  BY <1>5 DEF Unused
<1>12. ASSUME NEW f \in Flusher
       PROVE  flusher'[f] \in FlushCall /\ Caller(flusher'[f], access, flight', batches, memory', epoch)
  <2>1. /\ Informed(flusher[f], flusher'[f])
        /\ flusher[f].pc = "run" /\ flusher[f].id = flight.id => flusher'[f].failed
    BY <1>1, <1>2, FailedTells
  <2>2. /\ flusher[f] \in FlushCall /\ Caller(flusher[f], access, flight, batches, memory, epoch)
        /\ \A a \in flusher[f].due : memory'.raw[a] = 0 => memory.raw[a] = 0
    BY <1>2, <1>3 DEF Callers
  <2>3. ~ flight'.on \/ flight'.bad
    BY <1>5
  <2>4. QED BY <2>1, <2>2, <2>3, CallerServed
<1>13. flusher' \in [Flusher -> FlushCall]
  <2>1. flusher' = [f \in Flusher |-> flusher'[f]]
    BY <1>1 DEF Failed
  <2>2. QED BY <1>12, <2>1
<1>14. QED BY <1>1, <1>10, <1>11, <1>12, <1>13 DEF TrackerInv, Callers

\* A step of one caller that leaves the tracker alone: x is the caller afterwards.
LEMMA CallerMoves ==
  ASSUME TrackerInv, NEW f \in Flusher, NEW x \in FlushCall, flusher' = [flusher EXCEPT ![f] = x],
         Caller(x, access, flight, batches, memory, epoch),
         UNCHANGED <<access, buffer, flight, batches, memory, epoch, faults, twins>>
  PROVE  TrackerInv'
<1>1. /\ Ledger(access, buffer, flight, batches, memory, epoch, faults, twins)
      /\ Unused(flight, memory, epoch) /\ flusher \in [Flusher -> FlushCall]
      /\ Callers(flusher, access, flight, batches, memory, epoch)
  BY TrackerFacts
<1>2. flusher' \in [Flusher -> FlushCall] /\ flusher'[f] = x
      /\ \A g \in Flusher \ {f} : flusher'[g] = flusher[g]
  BY <1>1
<1>3. Callers(flusher', access, flight, batches, memory, epoch)
  BY <1>1, <1>2 DEF Callers
<1>4. QED BY <1>1, <1>2, <1>3 DEF TrackerInv

\* flush() is called.
LEMMA CallFlushKeeps ==
  ASSUME TrackerInv, NEW f \in Flusher, CallFlush(f),
         UNCHANGED <<access, buffer, flight, batches, memory, epoch, faults, twins>>
  PROVE  TrackerInv'
<1> DEFINE waits == {a \in Access : access[a].pc = "pending"}
           due == {a \in Access : access[a].pc = "recorded"}
           x == [flusher[f] EXCEPT !.pc = "admissions", !.waits = waits, !.due = due]
<1>1. flusher[f] \in FlushCall /\ Caller(flusher[f], access, flight, batches, memory, epoch)
      /\ flusher \in [Flusher -> FlushCall]
  BY TrackerFacts DEF Callers
<1>2. flusher' = [flusher EXCEPT ![f] = x]
  BY <1>1 DEF CallFlush
<1>3. waits \in SUBSET Access /\ due \in SUBSET Access /\ \A a \in due : access[a].pc = "recorded"
  OBVIOUS
<1> HIDE DEF waits, due
<1>4. x \in FlushCall /\ x.pc = "admissions" /\ x.id = flusher[f].id /\ x.due = due
  BY <1>1, <1>3 DEF FlushCall
<1> HIDE DEF x
<1>5. Caller(x, access, flight, batches, memory, epoch)
  BY <1>1, <1>3, <1>4 DEF Caller
<1>6. QED BY <1>2, <1>4, <1>5, CallerMoves

\* The end of flush() but for its own flush, if what the caller waited for has landed.
LEMMA FinishKeeps ==
  ASSUME TrackerInv, NEW f \in Flusher, Finish(f), UNCHANGED <<access, memory, epoch, faults>>,
         flight.on => flusher[f].pc = "flight" /\ flight.id # flusher[f].id
  PROVE  TrackerInv'
<1> DEFINE old == flusher[f]
<1>1. /\ Ledger(access, buffer, flight, batches, memory, epoch, faults, twins)
      /\ old \in FlushCall /\ Caller(old, access, flight, batches, memory, epoch)
      /\ flusher \in [Flusher -> FlushCall] /\ batches \in Nat /\ flight \in Flights
      /\ old.due \subseteq Access /\ epoch \in Epoch
  BY TrackerFacts DEF Callers
<1>2. flight.id <= batches /\ flight.id \in Nat /\ flight.on \in BOOLEAN /\ flight.bad \in BOOLEAN
      /\ (~ flight.on => flight.todo = NoEntries)
  BY <1>1 DEF Ledger, Queued, Flights
<1>3. \A a \in old.due : Missing(a, access, memory, epoch) =>
        a \in Accesses(buffer[epoch]) \cup Accesses(flight.todo[epoch])
  BY <1>1 DEF Ledger, Kept, Caller
<1>4. \A a \in old.due : access[a].pc = "recorded"
  BY <1>1 DEF Caller
<1>5. CASE /\ buffer = NoEntries
           /\ flusher' = [flusher EXCEPT ![f].pc = "done", ![f].waits = {}, ![f].id = 0,
                                           ![f].overtaken = flight.on]
           /\ UNCHANGED <<buffer, flight, batches, twins>>
  <2> DEFINE x == [old EXCEPT !.pc = "done", !.waits = {}, !.id = 0, !.overtaken = flight.on]
  <2>1. flusher' = [flusher EXCEPT ![f] = x]
    BY <1>1, <1>5
  <2>2. x \in FlushCall /\ x.pc = "done" /\ x.id = 0 /\ x.due = old.due /\ x.overtaken = flight.on
    BY <1>1, <1>2 DEF FlushCall
  <2> HIDE DEF x
  <2>3. ~ flight.on => \A a \in old.due : ~ Missing(a, access, memory, epoch)
    <3>1. ~ flight.on => buffer[epoch] = <<>> /\ flight.todo[epoch] = <<>>
      BY <1>1, <1>2, <1>5 DEF NoEntries
    <3>2. QED BY <1>3, <3>1, NothingListed
  <2>4. Caller(x, access, flight, batches, memory, epoch)
    BY <1>1, <1>4, <2>2, <2>3 DEF Caller
  <2>5. UNCHANGED <<access, buffer, flight, batches, memory, epoch, faults, twins>>
    BY <1>5
  <2>6. QED BY <2>1, <2>2, <2>4, <2>5, CallerMoves
<1>6. CASE /\ flight.on
           /\ flusher' = [flusher EXCEPT ![f].pc = "run", ![f].waits = {},
                                           ![f].id = flight.id, ![f].failed = flight.bad]
           /\ UNCHANGED <<buffer, flight, batches, twins>>
  <2> DEFINE x == [old EXCEPT !.pc = "run", !.waits = {}, !.id = flight.id, !.failed = flight.bad]
  <2>1. flusher' = [flusher EXCEPT ![f] = x]
    BY <1>1, <1>6
  <2>2. x \in FlushCall /\ x.pc = "run" /\ x.id = flight.id /\ x.due = old.due /\ x.failed = flight.bad
    BY <1>1, <1>2 DEF FlushCall
  <2> HIDE DEF x
  <2>3. \A a \in old.due : Missing(a, access, memory, epoch) /\ ~ flight.bad =>
          a \in Accesses(flight.todo[epoch])
    BY <1>1, <1>6 DEF Caller
  <2>4. Caller(x, access, flight, batches, memory, epoch)
    BY <1>2, <1>4, <1>6, <2>2, <2>3 DEF Caller
  <2>5. UNCHANGED <<access, buffer, flight, batches, memory, epoch, faults, twins>>
    BY <1>6
  <2>6. QED BY <2>1, <2>2, <2>4, <2>5, CallerMoves
<1>7. CASE /\ ~ flight.on
           /\ flusher' = [flusher EXCEPT ![f].pc = "run", ![f].waits = {}, ![f].id = batches + 1]
           /\ Launch(buffer)
  <2> DEFINE x == [old EXCEPT !.pc = "run", !.waits = {}, !.id = batches + 1]
  <2>1. flusher' = [flusher EXCEPT ![f] = x]
    BY <1>1, <1>7
  <2>2. x \in FlushCall /\ x.pc = "run" /\ x.id = batches + 1 /\ x.due = old.due
    <3> DEFINE n == batches + 1
    <3>1. n \in Nat
      BY <1>1
    <3> HIDE DEF n
    <3>2. [old EXCEPT !.pc = "run", !.waits = {}, !.id = n] \in FlushCall
      BY <1>1, <3>1 DEF FlushCall
    <3>3. QED BY <1>1, <3>2 DEF FlushCall, n
  <2> HIDE DEF x
  <2>3. /\ Ledger(access', buffer', flight', batches', memory', epoch', faults', twins')
        /\ Unused(flight', memory', epoch')
        /\ \A g \in Flusher : Caller(flusher[g], access', flight', batches', memory', epoch')
        /\ batches' = batches + 1 /\ flight'.on /\ flight'.id = batches + 1
        /\ \A a \in Access : access[a].pc = "recorded" /\ Missing(a, access, memory, epoch) =>
             a \in Accesses(flight'.todo[epoch])
    BY <1>7, LaunchKeeps
  <2>4. Caller(x, access, flight', batches + 1, memory, epoch)
    <3>1. x.id <= batches + 1
      BY <1>1, <2>2
    <3>2. \A a \in old.due : Missing(a, access, memory, epoch) => a \in Accesses(flight'.todo[epoch])
      BY <1>1, <1>4, <2>3
    <3>3. QED BY <1>4, <2>2, <2>3, <3>1, <3>2 DEF Caller
  <2>5. flusher' \in [Flusher -> FlushCall] /\ flusher'[f] = x
        /\ \A g \in Flusher \ {f} : flusher'[g] = flusher[g]
    BY <1>1, <2>1, <2>2
  <2>6. Callers(flusher', access', flight', batches', memory', epoch')
    BY <2>3, <2>4, <2>5 DEF Callers
  <2>7. QED BY <2>3, <2>5, <2>6 DEF TrackerInv
<1>8. QED BY <1>5, <1>6, <1>7 DEF Finish

\* The steps of a caller of flush().
LEMMA FlushKeeps ==
  ASSUME TrackerInv, NEW f \in Flusher, Flush(f)
  PROVE  TrackerInv'
<1> DEFINE old == flusher[f]
<1>1. /\ old \in FlushCall /\ Caller(old, access, flight, batches, memory, epoch)
      /\ flusher \in [Flusher -> FlushCall] /\ batches \in Nat /\ flight \in Flights
      /\ Ledger(access, buffer, flight, batches, memory, epoch, faults, twins)
  BY TrackerFacts DEF Callers
<1>2. flight.id <= batches /\ flight.id \in Nat
  BY <1>1 DEF Ledger, Queued, Flights
<1>3. CASE FlushAdmitted(f)
  <2>1. UNCHANGED <<access, memory, epoch, faults>>
    BY <1>3 DEF FlushAdmitted
  <2>2. CASE flight.on
    <3> DEFINE x == [old EXCEPT !.pc = "flight", !.waits = {}, !.id = flight.id]
    <3>1. flusher' = [flusher EXCEPT ![f] = x] /\ UNCHANGED <<buffer, flight, batches, twins>>
      BY <1>1, <1>3, <2>2 DEF FlushAdmitted
    <3>2. x \in FlushCall /\ x.pc = "flight" /\ x.id = flight.id /\ x.due = old.due
      BY <1>1, <1>2 DEF FlushCall
    <3> HIDE DEF x
    <3>3. Caller(x, access, flight, batches, memory, epoch)
      BY <1>1, <1>2, <3>2 DEF Caller
    <3>4. QED BY <2>1, <3>1, <3>2, <3>3, CallerMoves
  <2>3. CASE ~ flight.on
    <3>1. Finish(f)
      BY <1>3, <2>3 DEF FlushAdmitted
    <3>2. QED BY <2>1, <2>3, <3>1, FinishKeeps
  <2>4. QED BY <2>2, <2>3
<1>4. CASE FlushResumes(f)
  <2>1. /\ Finish(f) /\ UNCHANGED <<access, memory, epoch, faults>>
        /\ flight.on => flusher[f].pc = "flight" /\ flight.id # flusher[f].id
    BY <1>4 DEF FlushResumes, Landed
  <2>2. QED BY <2>1, FinishKeeps
<1>5. CASE FlushReturns(f)
  <2> DEFINE x == [old EXCEPT !.pc = "done", !.id = 0]
  <2>1. /\ flusher' = [flusher EXCEPT ![f] = x] /\ old.pc = "run"
        /\ ~ (flight.on /\ flight.id = old.id)
        /\ UNCHANGED <<access, buffer, flight, batches, memory, epoch, faults, twins>>
    BY <1>1, <1>5 DEF FlushReturns, Landed
  <2>2. x \in FlushCall /\ x.pc = "done" /\ x.id = 0 /\ x.due = old.due /\ x.failed = old.failed
    BY <1>1 DEF FlushCall
  <2> HIDE DEF x
  <2>3. Caller(x, access, flight, batches, memory, epoch)
    BY <1>1, <2>1, <2>2 DEF Caller
  <2>4. QED BY <2>1, <2>2, <2>3, CallerMoves
<1>6. QED BY <1>3, <1>4, <1>5 DEF Flush

\* Every step of the manager keeps the tracker's invariant.
LEMMA TrackerInvNext ==
  ASSUME TrackerInv, [Next]_vars
  PROVE  TrackerInv'
<1>1. CASE UNCHANGED trackerVars
  BY <1>1 DEF TrackerInv, trackerVars
<1>2. CASE Tracker
  <2>1. CASE \E a \in Access : Record(a)
    BY <2>1, RecordKeeps
  <2>2. CASE Interval
    BY <2>2, IntervalKeeps
  <2>3. CASE Flushing
    BY <2>3, InspectKeeps, InspectFailsKeeps, FlushGroupKeeps, FlushRefusedKeeps, FlushFailsKeeps
       DEF Flushing
  <2>4. CASE Erase
    BY <2>4, EraseKeeps
  <2>5. QED BY <1>2, <2>1, <2>2, <2>3, <2>4 DEF Tracker
<1>3. CASE FlushCalls
  BY <1>3, FlushKeeps DEF FlushCalls
<1>4. CASE EraseHere
  <2>1. /\ CallFlush("erasure") /\ "erasure" \in Flusher
        /\ UNCHANGED <<access, buffer, flight, batches, memory, epoch, faults, twins>>
    BY <1>4 DEF EraseHere, Flusher
  <2>2. QED BY <2>1, CallFlushKeeps
<1>5. CASE CloseTracker
  <2>1. /\ CallFlush("close") /\ "close" \in Flusher
        /\ UNCHANGED <<access, buffer, flight, batches, memory, epoch, faults, twins>>
    BY <1>5 DEF CloseTracker, Flusher
  <2>2. QED BY <2>1, CallFlushKeeps
<1>6. Queue \/ SyncSettles \/ Stream \/ Gap \/ CloseSavesToken \/ CloseStream \/ CloseEnds
        => UNCHANGED trackerVars
  BY DEF Queue, SyncSettles, Stream, Gap, CloseSavesToken, CloseStream, CloseEnds
<1>7. UNCHANGED vars => UNCHANGED trackerVars
  BY DEF vars
<1>8. QED BY <1>1, <1>2, <1>3, <1>4, <1>5, <1>6, <1>7 DEF Next, Closing

\* Whatever the accesses, the threshold, the window and the bounds.
THEOREM TrackerInvariance == Spec => []TrackerInv
<1>1. Init => TrackerInv
  BY TrackerInvInit DEF Init
<1>2. TrackerInv /\ [Next]_vars => TrackerInv'
  BY TrackerInvNext
<1>3. QED BY <1>1, <1>2, PTL DEF Spec

\* No access is counted twice or in another tenancy, and counter and history agree but for
\* twins, for any number of flushes, failures, erasures and batches.
THEOREM AccessSafety == Spec => []CountedOnce
<1>1. TrackerInv => CountedOnce
  BY DEF TrackerInv, Ledger, Once, CountedOnce
<1>2. QED BY <1>1, TrackerInvariance, PTL

\* What flush() was called for is stored when it returns, unless it was told or overtaken.
THEOREM FlushSafety == Spec => []FlushedWhenDone
<1>1. ASSUME TrackerInv
      PROVE  FlushedWhenDone
  <2>1. /\ Callers(flusher, access, flight, batches, memory, epoch) /\ memory \in Memories
        /\ \A f \in Flusher : flusher[f].due \subseteq Access
        /\ Once(access, memory, epoch, twins)
    BY <1>1, TrackerFacts DEF Ledger
  <2>2. \A a \in Access : memory.raw[a] = 0 \/ memory.raw[a] = 1
    <3>1. \A a \in Access : memory.raw[a] \in Nat /\ memory.raw[a] <= 1
      BY <2>1 DEF Memories, Once
    <3>2. QED BY <3>1
  <2>3. QED BY <2>1, <2>2 DEF Callers, Caller, Missing, FlushedWhenDone
<1>2. QED BY <1>1, TrackerInvariance, PTL

\* When close() has returned, what was accepted before it is written and derived from, and
\* what its last flush was called for is stored, refused or was taken by another flush.
THEOREM CloseSafety == Spec => []CloseLosesNothing
<1>1. DrainedBeforeStop /\ FlushedWhenDone => CloseLosesNothing
  BY DEF CloseLosesNothing
<1>2. QED BY <1>1, DrainSafety, FlushSafety, PTL

-----------------------------------------------------------------------------
(***************************************************************************)
(* The manager cache and the client registry: the invariant.               *)
(***************************************************************************)
Holding == {"wait", "hold", "op"}

\* The requests that wait for, hold or use manager i, and those that operate on it.
Operating(i) == {r \in Req : req[r].pc = "op" /\ req[r].on = i}

\* A request that is under way refers to a manager, which a joined or own
\* initialisation is still building as long as the request waits.
Requests ==
  \A r \in Req :
    /\ req[r].pc \in Holding <=> req[r].on # None
    /\ req[r].pc = "new" => mgr[r] = NoManager
    /\ req[r].on # None => mgr[req[r].on].pc # "none"
    /\ req[r].pc = "wait" => mgr[req[r].on].pc \in Building

\* An owned manager is its owner's alone, and open as long as the owner has it.
Owners ==
  \A r \in Req : req[r].on # None /\ mgr[req[r].on].owned =>
    /\ req[r].on = r
    /\ req[r].pc \in {"hold", "op"} => mgr[r].pc = "live"

\* A manager's borrows are the operations that are pending on it.
Borrowed ==
  \A i \in Req : mgr[i].borrows = IF mgr[i].owned THEN 0 ELSE Cardinality(Operating(i))

\* What the cache holds is in service, and no key is cached twice.
Cache ==
  /\ \A n \in DOMAIN cache :
       mgr[cache[n]].pc = "live" /\ ~mgr[cache[n]].evicted /\ ~mgr[cache[n]].owned
  /\ \A m, n \in DOMAIN cache : m # n => mgr[cache[m]].key # mgr[cache[n]].key

\* An initialisation that can be joined is under way.
Inflight ==
  \A k \in Key : inflight[k] # None =>
    /\ mgr[inflight[k]].pc \in Building
    /\ mgr[inflight[k]].key = k /\ ~mgr[inflight[k]].owned

\* A manager that is being built or in service has a key, and none is evicted before it
\* is in service.
Keyed ==
  \A i \in Req : /\ mgr[i].pc \in Building \cup {"live"} => mgr[i].key \in Key
                 /\ mgr[i].pc \in Building => ~mgr[i].evicted

\* Managers that go through the cache.
Shared == {i \in Req : ~mgr[i].owned}

Ended == {"none", "closed", "failed"}

\* A shared manager is closed after its eviction only.
Leaving == \A i \in Shared : mgr[i].pc = "closing" => mgr[i].evicted

\* Unless a get overlapped closeAll, a shared manager that is being built is the one
\* in flight for its key, nothing is cached under that key, and a manager in service
\* is cached.
Sole ==
  ~overlap =>
    /\ \A i \in Shared : mgr[i].pc \in Building => inflight[mgr[i].key] = i
    /\ \A i \in Shared : mgr[i].pc = "live" /\ ~mgr[i].evicted => i \in ToSet(cache)
    /\ \A k \in Key : inflight[k] # None => At(k) = {}

\* How far closeAll is, and what it has left of the shared managers.
Shutdown ==
  /\ ~overlap /\ closer.pc = "settle" =>
       \A i \in Shared : mgr[i].pc \in Building => i \in closer.wait
  /\ ~overlap /\ closer.pc = "quiesce" =>
       \A i \in Shared : \/ mgr[i].pc \in Ended
                         \/ mgr[i].pc \in {"live", "closing"} /\ i \in closer.wait
  /\ ~overlap /\ closer.pc = "clients" => \A i \in Shared : mgr[i].pc \in Ended
  /\ server => ~overlap /\ \A i \in Req : ~mgr[i].owned
  /\ exit => server /\ \A i \in Shared : mgr[i].pc \in Ended
  /\ torn => overlap \/ \E i \in Req : mgr[i].owned

Users(c) == {i \in Req : Uses(i, c)}

\* A client carries the name of the request that connected it; the registered one is
\* open, or will be, and not being closed.
Clients ==
  /\ \A i \in Req : /\ mgr[i].pc \in {"none", "import"} => client[i].pc = "none"
                    /\ mgr[i].pc \in Ended \cup {"import"} <=> mgr[i].client = None
  /\ \A c \in Req : client[c].pc = "none" => client[c].refs = 0 /\ ~client[c].doomed
  /\ registry # None =>
       client[registry].pc \in {"connecting", "open"} /\ ~client[registry].doomed

\* As long as closeAll tore no client away, a client in use is the registered one and
\* its references are its users; those of a client that connects all await it.
Counted ==
  ~torn => \A c \in Req :
    /\ client[c].refs = Cardinality(Users(c))
    /\ Users(c) # {} => registry = c
    /\ client[c].pc = "connecting" => \A i \in Users(c) : mgr[i].pc = "connect"

Managers == [pc : Building \cup {"none", "live", "closing", "closed", "failed"},
             key : Key \cup {None}, owned : BOOLEAN, gen : 0..MaxGen,
             client : Req \cup {None}, borrows : Int, evicted : BOOLEAN]

Asked == [pc : {"new", "wait", "hold", "op", "done"}, on : Req \cup {None}, late : BOOLEAN]

Connection == [pc : {"none", "connecting", "open", "closed", "failed"},
               refs : Int, doomed : BOOLEAN]

\* RegistryTypeOK, but for the bound of the borrows, which Borrowed gives.
Typed ==
  /\ req \in [Req -> Asked]
  /\ mgr \in [Req -> Managers]
  /\ cache \in Seq(Req) /\ Len(cache) <= CacheMax
  /\ inflight \in [Key -> Req \cup {None}]
  /\ closeGeneration \in 0..MaxGen
  /\ client \in [Req -> Connection]
  /\ registry \in Req \cup {None}
  /\ closer \in [pc : {"up", "drain", "settle", "quiesce", "clients"}, wait : SUBSET Req]
  /\ server \in BOOLEAN /\ exit \in BOOLEAN
  /\ overlap \in BOOLEAN /\ torn \in BOOLEAN

RegistryInv ==
  /\ Typed /\ Requests /\ Owners /\ Borrowed /\ NoCloseUnderOperation
  /\ Cache /\ Inflight /\ Keyed /\ Leaving /\ Sole /\ Shutdown /\ Clients /\ Counted
-----------------------------------------------------------------------------
(***************************************************************************)
(* What a step does to the managers, and to those who wait for them.       *)
(***************************************************************************)
\* The requests that wait for initialisations in S are answered, and only they.
Answers(S, ok) ==
  \A r \in Req :
    LET hit == req[r].pc = "wait" /\ req[r].on \in S
    IN  /\ ~hit => req'[r] = req[r]
        /\ hit /\ ok => req'[r].pc = "hold" /\ req'[r].on = req[r].on
        /\ hit /\ ~ok => req'[r].pc = "done" /\ req'[r].on = None

\* Initialisations in S succeed or not, and managers in use are left alone.
InUse(S, ok) ==
  \A i \in Req :
    /\ mgr[i].pc = "none" => mgr'[i] = mgr[i]
    /\ mgr[i].pc # "none" => mgr'[i].pc # "none"
    /\ mgr'[i].owned = mgr[i].owned /\ mgr'[i].borrows = mgr[i].borrows
    /\ i \notin S /\ mgr[i].pc \in Building => mgr'[i].pc \in Building
    /\ i \in S => mgr[i].pc \in Building /\ (ok => mgr'[i].pc = "live")
    /\ mgr[i].pc = "live" => mgr'[i].pc = "live" \/ (~mgr[i].owned /\ mgr[i].borrows = 0)

\* Nobody can join the initialisations in S any more.
Unjoined(S) ==
  /\ inflight' \in [Key -> Req \cup {None}]
  /\ \A k \in Key : inflight'[k] \in {None, inflight[k]}
  /\ \A k \in Key : inflight'[k] # None => \A i \in S : mgr[i].key = k => mgr[i].owned
  /\ \A k \in Key : (\A i \in S : mgr[i].key = k => mgr[i].owned)
                        => inflight'[k] = inflight[k]

\* Initialisations in S end with no shared manager, and none starts or leaves service.
InService(S) ==
  /\ \A i \in S : mgr[i].pc \in Building /\ (mgr'[i].pc \in {"failed", "closed"} \/ mgr[i].owned)
  /\ \A i \in Req :
       /\ mgr'[i].owned = mgr[i].owned
       /\ ~mgr[i].owned => ((mgr'[i].pc = "live" /\ ~mgr'[i].evicted)
                             <=> (mgr[i].pc = "live" /\ ~mgr[i].evicted))
       /\ mgr'[i].pc \in Building \cup {"live"} =>
            mgr'[i].key = mgr[i].key /\ mgr[i].pc \in Building \cup {"live"}
       /\ mgr'[i].pc \in Building =>
            mgr[i].pc \in Building /\ mgr'[i].evicted = mgr[i].evicted
       /\ ~mgr[i].owned /\ i \notin S => (mgr'[i].pc \in Building <=> mgr[i].pc \in Building)
       /\ ~mgr[i].owned /\ mgr'[i].pc = "closing" => mgr'[i].evicted

\* No manager begins or comes back.
NoneBegins ==
  \A i \in Req :
    /\ mgr'[i].owned = mgr[i].owned
    /\ mgr'[i].pc \in Building => mgr[i].pc \in Building
    /\ mgr[i].pc \in Ended => mgr'[i].pc \in Ended
    /\ mgr'[i].pc \in Building \cup Ended \cup {"live", "closing"}

-----------------------------------------------------------------------------
(***************************************************************************)
(* What the handlers do, value by value.                                   *)
(***************************************************************************)
\* No manager has yet anything of its own.
LEMMA NoManagerType == NoManager \in Managers
BY RegistryAssumption DEF NoManager, Managers, Building

\* What is left of a manager.
LEMMA GoneFields ==
  ASSUME NEW m \in Managers, NEW how \in {"closed", "failed"}
  PROVE  /\ Gone(m, how) \in Managers
         /\ Gone(m, how).pc = how /\ Gone(m, how).owned = m.owned
         /\ Gone(m, how).borrows = m.borrows /\ Gone(m, how).client = None
         /\ Gone(m, how).key = None /\ ~Gone(m, how).evicted
<1>1. NoManager \in Managers /\ NoManager.client = None /\ NoManager.key = None
      /\ ~NoManager.evicted
  BY NoManagerType DEF NoManager
<1>2. how \in Building \cup {"none", "live", "closing", "closed", "failed"}
  OBVIOUS
<1>3. Gone(m, how) = [[[NoManager EXCEPT !.pc = how] EXCEPT !.owned = m.owned]
                        EXCEPT !.borrows = m.borrows]
  BY DEF Gone
<1> HIDE DEF NoManager
<1>4. QED BY <1>1, <1>2, <1>3 DEF Managers

\* Evicting managers changes their eviction, and closes those that are idle.
LEMMA EvictedFields ==
  ASSUME NEW m \in [Req -> Managers], NEW S
  PROVE  /\ Evicted(m, S) \in [Req -> Managers]
         /\ \A i \in Req :
              /\ Evicted(m, S)[i].owned = m[i].owned /\ Evicted(m, S)[i].key = m[i].key
              /\ Evicted(m, S)[i].client = m[i].client /\ Evicted(m, S)[i].gen = m[i].gen
              /\ Evicted(m, S)[i].borrows = m[i].borrows
              /\ Evicted(m, S)[i].evicted = (m[i].evicted \/ i \in S)
              /\ Evicted(m, S)[i].pc = IF i \in S /\ m[i].pc = "live" /\ m[i].borrows = 0
                                       THEN "closing" ELSE m[i].pc
              /\ i \notin S => Evicted(m, S)[i] = m[i]
<1> DEFINE e == Evicted(m, S)
<1>1. ASSUME NEW i \in Req
      PROVE  /\ e[i] \in Managers
             /\ e[i].owned = m[i].owned /\ e[i].key = m[i].key
             /\ e[i].client = m[i].client /\ e[i].gen = m[i].gen
             /\ e[i].borrows = m[i].borrows /\ e[i].evicted = (m[i].evicted \/ i \in S)
             /\ e[i].pc = IF i \in S /\ m[i].pc = "live" /\ m[i].borrows = 0
                         THEN "closing" ELSE m[i].pc
             /\ i \notin S => e[i] = m[i]
  <2>1. m[i] \in Managers
    OBVIOUS
  <2>2. e[i] = IF i \in S THEN AtQuiescence([m[i] EXCEPT !.evicted = TRUE]) ELSE m[i]
    BY DEF Evicted
  <2> HIDE DEF e
  <2>3. QED BY <2>1, <2>2 DEF AtQuiescence, Managers
<1>2. DOMAIN e = Req /\ e = [i \in Req |-> e[i]]
  BY DEF Evicted
<1> HIDE DEF e
<1>3. e \in [Req -> Managers]
  BY <1>1, <1>2
<1>4. QED BY <1>1, <1>3 DEF e

\* Settled initialisations answer those that wait for them, and can no longer be joined.
LEMMA SettledFields ==
  ASSUME Typed, NEW S \in SUBSET Req, NEW ok \in BOOLEAN, InitSettles(S, ok)
  PROVE  req' \in [Req -> Asked] /\ Answers(S, ok) /\ Unjoined(S)
<1> USE DEF Answers, Unjoined
<1>1. ASSUME NEW r \in Req
      PROVE  LET hit == req[r].pc = "wait" /\ req[r].on \in S
             IN  /\ req'[r] \in Asked
                 /\ ~hit => req'[r] = req[r]
                 /\ hit /\ ok => req'[r].pc = "hold" /\ req'[r].on = req[r].on
                 /\ hit /\ ~ok => req'[r].pc = "done" /\ req'[r].on = None
  <2>1. req[r] \in Asked
    BY DEF Typed
  <2>2. QED BY <2>1 DEF InitSettles, Asked, Answered
<1>2. req' \in [Req -> Asked]
  BY <1>1 DEF InitSettles
<1>3. inflight' \in [Key -> Req \cup {None}]
  BY DEF InitSettles, Typed
<1>4. QED BY <1>1, <1>2, <1>3 DEF InitSettles

\* The entries that stay keep their order; all of them stay but those taken out.
LEMMA WithoutElements ==
  ASSUME NEW s \in Seq(Req), NEW S, NEW left, Without(s, S, left)
  PROVE  /\ left \in Seq(Req) /\ Len(left) <= Len(s)
         /\ ToSet(left) = ToSet(s) \ S
         /\ \E at \in [DOMAIN left -> DOMAIN s] :
              /\ \A n \in DOMAIN left : left[n] = s[at[n]]
              /\ \A m, n \in DOMAIN left : at[m] = at[n] => m = n
<1> DEFINE stay == {n \in DOMAIN s : s[n] \notin S}
           N == Cardinality(stay)
<1>1. DOMAIN s = 1..Len(s) /\ Len(s) \in Nat /\ \A n \in DOMAIN s : s[n] \in Req
  OBVIOUS
<1>2. IsFiniteSet(stay) /\ N \in Nat /\ N <= Len(s) /\ N = Cardinality(stay)
  <2>1. IsFiniteSet(DOMAIN s) /\ Cardinality(DOMAIN s) = Len(s)
    BY <1>1, FS_Interval
  <2>2. QED BY <2>1, FS_Subset, FS_CardinalityType
<1>a. \A n \in stay : n \in 1..Len(s) /\ s[n] \notin S
  BY <1>1
<1>b. \A n \in 1..Len(s) : s[n] \notin S => n \in stay
  BY <1>1
<1>3. PICK at \in [1..N -> stay] :
        /\ \A m, n \in DOMAIN at : m < n => at[m] < at[n]
        /\ left = [n \in DOMAIN at |-> s[at[n]]]
  BY DEF Without
<1> HIDE DEF stay, N
<1>4. DOMAIN at = 1..N /\ \A n \in 1..N : at[n] \in stay
  OBVIOUS
<1>5. left \in Seq(Req) /\ DOMAIN left = 1..N /\ Len(left) = N
  <2>1. left \in [1..N -> Req]
    BY <1>1, <1>3, <1>4, <1>a
  <2>2. left \in Seq(Req)
    BY <1>2, <2>1
  <2>3. DOMAIN left = 1..N
    BY <2>1
  <2>4. QED BY <1>2, <2>2, <2>3
<1>6. \A n \in 1..N : left[n] = s[at[n]]
  BY <1>3, <1>4
<1>7. \A m, n \in 1..N : at[m] = at[n] => m = n
  <2>1. ASSUME NEW m \in 1..N, NEW n \in 1..N, m < n
        PROVE  at[m] # at[n]
    BY <1>3, <1>4, <1>a, <1>1, <2>1
  <2>2. ASSUME NEW m \in 1..N, NEW n \in 1..N, m # n
        PROVE  m < n \/ n < m
    BY <1>2, <2>2
  <2>3. QED BY <2>1, <2>2
<1>8. ToSet(left) = ToSet(s) \ S
  <2>1. at \in Injection(1..N, stay)
    BY <1>7 DEF Injection, IsInjective
  <2>2. Cardinality(1..N) = N
    BY <1>2, FS_Interval
  <2>3. at \in Surjection(1..N, stay)
    BY <1>2, <2>1, <2>2, FS_Injection
  <2>4. \A x \in stay : \E n \in 1..N : at[n] = x
    BY <2>3 DEF Surjection
  <2>5. ToSet(left) \subseteq ToSet(s) \ S
    BY <1>1, <1>4, <1>5, <1>6, <1>a DEF ToSet
  <2>6. ToSet(s) \ S \subseteq ToSet(left)
    <3>1. ASSUME NEW y \in ToSet(s) \ S
          PROVE  y \in ToSet(left)
      <4>1. PICK x \in 1..Len(s) : y = s[x]
        BY <1>1 DEF ToSet
      <4>2. PICK n \in 1..N : at[n] = x
        BY <1>b, <2>4, <3>1, <4>1
      <4>3. QED BY <1>5, <1>6, <4>1, <4>2 DEF ToSet
    <3>2. QED BY <3>1
  <2>7. QED BY <2>5, <2>6
<1>9. at \in [DOMAIN left -> DOMAIN s]
  BY <1>1, <1>4, <1>5, <1>a
<1>10. QED BY <1>2, <1>5, <1>6, <1>7, <1>8, <1>9

-----------------------------------------------------------------------------
(***************************************************************************)
(* What keeps each part of the invariant.                                  *)
(***************************************************************************)
\* The request's side: settled initialisations apart, managers in use are left alone.
LEMMA UseKept ==
  ASSUME Typed, Requests, Owners, Borrowed, NoCloseUnderOperation,
         NEW S \in SUBSET Req, NEW ok \in BOOLEAN,
         Answers(S, ok), InUse(S, ok)
  PROVE  Requests' /\ Owners' /\ Borrowed' /\ NoCloseUnderOperation'
<1> USE DEF Answers, InUse
<1>1. \A r \in Req : /\ req[r].pc \in {"new", "wait", "hold", "op", "done"}
                     /\ req[r].on \in Req \cup {None}
  BY DEF Typed, Asked
<1>2. "live" \notin Building /\ "none" \notin Building /\ None \notin Req
  BY RegistryAssumption DEF Building
<1>3. ASSUME NEW r \in Req
      PROVE  /\ req'[r].pc = "op" <=> req[r].pc = "op"
             /\ req[r].pc = "op" => req'[r] = req[r]
             /\ req'[r].pc = "new" <=> req[r].pc = "new"
             /\ req'[r].pc = "wait" => req[r].pc = "wait" /\ req[r].on \notin S /\ req'[r] = req[r]
             /\ req'[r].on \in {None, req[r].on}
             /\ req'[r].pc = "hold" => req'[r].on = req[r].on /\ req[r].pc \in {"wait", "hold"}
             /\ req[r].pc = "wait" /\ req'[r].pc = "hold" => req[r].on \in S /\ ok
  BY <1>1
<1>4. Requests'
  <2>1. ASSUME NEW r \in Req
        PROVE  /\ req'[r].pc \in Holding <=> req'[r].on # None
               /\ req'[r].pc = "new" => mgr'[r] = NoManager
               /\ req'[r].on # None => mgr'[req'[r].on].pc # "none"
               /\ req'[r].pc = "wait" => mgr'[req'[r].on].pc \in Building
    <3>1. /\ req[r].pc \in Holding <=> req[r].on # None
          /\ req[r].pc = "new" => mgr[r] = NoManager
          /\ req[r].on # None => mgr[req[r].on].pc # "none"
          /\ req[r].pc = "wait" => mgr[req[r].on].pc \in Building
      BY DEF Requests
    <3>2. req'[r].pc \in Holding <=> req'[r].on # None
      BY <3>1, <1>1 DEF Holding
    <3>3. req'[r].pc = "new" => mgr'[r] = NoManager
      BY <1>3, <3>1 DEF NoManager
    <3>4. req'[r].on # None => mgr'[req'[r].on].pc # "none"
      BY <1>1, <1>3, <3>1
    <3>5. req'[r].pc = "wait" => mgr'[req'[r].on].pc \in Building
      BY <1>1, <1>2, <1>3, <3>1 DEF Holding
    <3>6. QED BY <3>2, <3>3, <3>4, <3>5
  <2>2. QED BY <2>1 DEF Requests
<1>5. Borrowed'
  <2>1. \A i \in Req : Operating(i)' = Operating(i)
    BY <1>3 DEF Operating
  <2>2. QED BY <2>1 DEF Borrowed
<1>6. ASSUME NEW r \in Req, req[r].pc = "op", ~mgr[req[r].on].owned, req[r].on \in Req
      PROVE  mgr[req[r].on].borrows # 0
  <2>1. r \in Operating(req[r].on) /\ Operating(req[r].on) \subseteq Req
    BY <1>6 DEF Operating
  <2>2. IsFiniteSet(Operating(req[r].on))
    BY <2>1, RegistryAssumption, FS_Subset
  <2>3. QED BY <1>6, <2>1, <2>2, FS_EmptySet DEF Borrowed
<1>7. \A r \in Req : req[r].pc = "op" => req[r].on \in Req
  BY <1>1 DEF Requests, Holding
<1>8. NoCloseUnderOperation'
  BY <1>3, <1>6, <1>7 DEF NoCloseUnderOperation
<1>9. Owners'
  <2>1. ASSUME NEW r \in Req, req'[r].on # None, mgr'[req'[r].on].owned
        PROVE  req'[r].on = r /\ (req'[r].pc \in {"hold", "op"} => mgr'[r].pc = "live")
    <3>1. req'[r].on = req[r].on /\ req[r].on \in Req /\ mgr[req[r].on].owned
      BY <1>1, <1>3, <2>1
    <3>2. req[r].on = r /\ (req[r].pc \in {"hold", "op"} => mgr[r].pc = "live")
      BY <2>1, <3>1 DEF Owners
    <3>3. CASE req'[r].pc \in {"hold", "op"}
      BY <1>1, <1>3, <3>1, <3>2, <3>3
    <3>4. QED BY <3>1, <3>2, <3>3
  <2>2. QED BY <2>1 DEF Owners
<1>10. QED BY <1>4, <1>5, <1>8, <1>9

\* The cache's side: initialisations in S fail, no manager starts or leaves service.
LEMMA ServiceKept ==
  ASSUME Typed, Cache, Inflight, Keyed, Leaving, Sole, UNCHANGED <<cache, overlap>>,
         NEW S \in SUBSET Req, Unjoined(S), InService(S)
  PROVE  Cache' /\ Inflight' /\ Keyed' /\ Leaving' /\ Sole'
<1> USE DEF Unjoined, InService
<1>1. /\ \A n \in DOMAIN cache : cache[n] \in Req
      /\ \A k \in Key : inflight[k] \in Req \cup {None}
      /\ "live" \notin Building /\ {"failed", "closed"} \cap Building = {}
      /\ \A i \in ToSet(cache) : i \in Req
  <2>1. cache \in Seq(Req)
    BY DEF Typed
  <2>2. \A n \in DOMAIN cache : cache[n] \in Req
    BY <2>1
  <2>3. QED BY <2>2 DEF Typed, Building, ToSet
<1>2. Keyed'
  BY DEF Keyed
<1>3. Leaving'
  BY DEF Leaving, Shared
<1>4. Cache'
  BY <1>1 DEF Cache
<1>5. Inflight'
  <2>1. ASSUME NEW k \in Key, inflight'[k] # None
        PROVE  /\ mgr'[inflight'[k]].pc \in Building
               /\ mgr'[inflight'[k]].key = k /\ ~mgr'[inflight'[k]].owned
    <3>1. /\ inflight'[k] = inflight[k] /\ inflight[k] \in Req
          /\ mgr[inflight[k]].pc \in Building /\ mgr[inflight[k]].key = k
          /\ ~mgr[inflight[k]].owned
      BY <1>1, <2>1 DEF Inflight
    <3>2. inflight[k] \notin S
      BY <2>1, <3>1
    <3>3. QED BY <3>1, <3>2
  <2>2. QED BY <2>1 DEF Inflight
<1>6. Sole'
  <2> SUFFICES ASSUME ~overlap PROVE Sole'
    BY DEF Sole
  <2>1. \A i \in Shared : mgr[i].pc \in Building => inflight[mgr[i].key] = i
    BY DEF Sole
  <2>2. ASSUME NEW i \in Req, ~mgr[i].owned, mgr'[i].pc \in Building
        PROVE  inflight'[mgr'[i].key] = i
    <3>1. i \notin S /\ mgr[i].pc \in Building /\ mgr[i].key \in Key /\ mgr'[i].key = mgr[i].key
      BY <1>1, <2>2 DEF Keyed
    <3>2. ASSUME NEW j \in S, mgr[j].key = mgr[i].key, ~mgr[j].owned
          PROVE  FALSE
      BY <2>1, <2>2, <3>1, <3>2 DEF Shared
    <3>3. QED BY <2>1, <2>2, <3>1, <3>2 DEF Shared
  <2>3. ASSUME NEW i \in Req, ~mgr[i].owned, mgr'[i].pc = "live", ~mgr'[i].evicted
        PROVE  i \in ToSet(cache')
    BY <2>3 DEF Sole, Shared
  <2>4. ASSUME NEW k \in Key, inflight'[k] # None
        PROVE  \A i \in ToSet(cache') : mgr'[i].key # k
    <3>1. inflight[k] # None
      BY <2>4
    <3>2. \A i \in ToSet(cache) : mgr[i].key # k
      BY <3>1 DEF Sole, At
    <3>3. \A i \in ToSet(cache) : mgr[i].pc = "live" /\ ~mgr[i].evicted /\ ~mgr[i].owned
      BY DEF Cache, ToSet
    <3>4. QED BY <1>1, <3>2, <3>3
  <2>5. QED BY <2>2, <2>3, <2>4 DEF Sole, Shared, At
<1>7. QED BY <1>2, <1>3, <1>4, <1>5, <1>6

\* The shutdown's side: no manager begins or comes back.
LEMMA ShutdownKept ==
  ASSUME Typed, Shutdown, UNCHANGED <<closer, server, exit, overlap, torn>>, ~exit,
         NoneBegins
  PROVE  Shutdown'
<1> USE DEF NoneBegins
<1>1. \A i \in Req : mgr[i].pc \in Building \cup Ended \cup {"live", "closing"}
  BY DEF Typed, Managers, Ended
<1>2. Building \cap Ended = {} /\ {"live", "closing"} \cap (Building \cup Ended) = {}
  BY DEF Building, Ended
<1>3. Shared' = Shared
  BY DEF Shared
<1>4. QED BY <1>1, <1>2, <1>3 DEF Shutdown, Shared

\* The client's side: no manager begins or stops to use a client.
LEMMA ClientsKept ==
  ASSUME Typed, Clients, Counted, UNCHANGED <<client, registry, torn>>,
         \A i \in Req :
           /\ mgr'[i].client = mgr[i].client
           /\ mgr'[i].pc = mgr[i].pc
              \/ {mgr[i].pc, mgr'[i].pc} \subseteq {"create", "discard", "live", "closing"}
  PROVE  Clients' /\ Counted'
<1>1. \A i \in Req : /\ mgr'[i].pc \in {"none", "import"} <=> mgr[i].pc \in {"none", "import"}
                     /\ mgr'[i].pc \in Ended \cup {"import"} <=> mgr[i].pc \in Ended \cup {"import"}
                     /\ mgr'[i].pc = "connect" <=> mgr[i].pc = "connect"
                     /\ mgr'[i].pc \in Building \cup {"live", "closing"}
                          <=> mgr[i].pc \in Building \cup {"live", "closing"}
  BY DEF Ended, Building
<1>2. Clients'
  BY <1>1 DEF Clients
<1>3. \A c \in Req : Users(c)' = Users(c)
  BY <1>1 DEF Users, Uses
<1>4. \A c \in Req : Users(c) \subseteq Req
  BY DEF Users
<1>5. QED BY <1>1, <1>2, <1>3, <1>4 DEF Counted

\* Who uses a client is one of finitely many requests.
LEMMA UsersFinite ==
  \A c \in Req : Users(c) \subseteq Req /\ IsFiniteSet(Users(c)) /\ Cardinality(Users(c)) \in Nat
<1>1. \A c \in Req : Users(c) \subseteq Req
  BY DEF Users
<1>2. QED BY <1>1, RegistryAssumption, FS_Subset, FS_CardinalityType

\* A user that is done gives back the reference of the client it used, and the last
\* one leaves a client that is no longer registered (releaseSharedMongoClient).
LEMMA UserLeaves ==
  ASSUME Typed, Clients, Counted, NEW i \in Req, Release, UNCHANGED torn,
         mgr[i].pc \in {"create", "discard", "closing"},
         mgr'[i].client = None, mgr'[i].pc \in {"closed", "failed"},
         \A j \in Req : j # i => mgr'[j] = mgr[j]
  PROVE  /\ client' \in [Req -> Connection] /\ registry' \in Req \cup {None}
         /\ Clients' /\ Counted'
<1>1. mgr[i].client \in Req
  BY DEF Clients, Typed, Managers, Ended
<1>2. i \in Users(mgr[i].client)
  BY <1>1 DEF Users, Uses, Building
<1>3. ASSUME ~torn
      PROVE  registry = mgr[i].client
  BY <1>1, <1>2, <1>3 DEF Counted
<1>4. /\ client \in [Req -> Connection] /\ registry \in Req \cup {None} /\ None \notin Req
      /\ \A c \in Req : client[c].refs \in Int /\ client[c].doomed \in BOOLEAN
  BY RegistryAssumption DEF Typed, Connection
<1>5. CASE registry = None
  <2>1. UNCHANGED <<client, registry>>
    BY <1>5 DEF Release
  <2>2. torn'
    BY <1>1, <1>3, <1>4, <1>5
  <2>3. Clients'
    BY <1>5, <2>1 DEF Clients, Ended
  <2>4. QED BY <1>4, <2>1, <2>2, <2>3 DEF Counted
<1>6. CASE registry # None
  <2> DEFINE q == registry
             last == client[q].refs <= 1
  <2>1. q \in Req
    BY <1>4, <1>6
  <2>2. /\ client' \in [Req -> Connection]
        /\ \A c \in Req : c # q => client'[c] = client[c]
        /\ client'[q].pc = client[q].pc /\ client'[q].refs = client[q].refs - 1
        /\ client'[q].doomed = (client[q].doomed \/ last)
        /\ registry' = IF last THEN None ELSE q
    <3>1. /\ client' = [client EXCEPT ![q].refs = client[q].refs - 1,
                                      ![q].doomed = client[q].doomed \/ last]
          /\ registry' = IF last THEN None ELSE q
      BY <1>6 DEF Release
    <3>2. client[q] \in Connection
      BY <1>4, <2>1
    <3>3. client[q].refs - 1 \in Int /\ (client[q].doomed \/ last) \in BOOLEAN
      BY <1>4, <2>1
    <3> HIDE DEF last
    <3>4. client'[q] = [client[q] EXCEPT !.refs = client[q].refs - 1,
                                         !.doomed = client[q].doomed \/ last]
      BY <1>4, <2>1, <3>1
    <3>5. client'[q] \in Connection
      BY <3>2, <3>3, <3>4 DEF Connection
    <3>6. QED BY <1>4, <2>1, <3>1, <3>2, <3>4, <3>5 DEF Connection
  <2>3. registry' \in Req \cup {None}
    BY <2>1, <2>2
  <2>4. Clients'
    <3>1. client[q].pc \in {"connecting", "open"} /\ ~client[q].doomed
      BY <1>6 DEF Clients
    <3>2. \A c \in Req : client'[c].pc = client[c].pc
      BY <2>2
    <3>3. \A c \in Req : client[c].pc = "none" => c # q
      BY <3>1
    <3>4. registry' # None => registry' = q /\ ~client'[q].doomed
      BY <2>2, <3>1
    <3> HIDE DEF q, last
    <3>5. /\ \A j \in Req : /\ mgr'[j].pc \in {"none", "import"} => client'[j].pc = "none"
                            /\ mgr'[j].pc \in Ended \cup {"import"} <=> mgr'[j].client = None
      <4>1. mgr'[i].pc \in Ended /\ mgr'[i].pc \notin {"none", "import"}
        BY DEF Ended
      <4>2. QED BY <3>2, <4>1 DEF Clients
    <3>6. \A c \in Req : client'[c].pc = "none" => client'[c].refs = 0 /\ ~client'[c].doomed
      BY <2>2, <3>2, <3>3 DEF Clients
    <3>7. QED BY <2>1, <3>1, <3>2, <3>4, <3>5, <3>6 DEF Clients
  <2>5. ASSUME ~torn
        PROVE  Counted'
    <3>1. q = mgr[i].client /\ client[q].refs = Cardinality(Users(q)) /\ i \in Users(q)
      BY <1>2, <1>3, <2>1, <2>5 DEF Counted
    <3>2. \A c \in Req : Users(c)' = IF c = q THEN Users(q) \ {i} ELSE Users(c)
      <4>1. ASSUME NEW c \in Req, NEW j \in Req
            PROVE  Uses(j, c)' <=> (Uses(j, c) /\ j # i)
        BY <1>4 DEF Uses, Building
      <4>2. \A c \in Req : c # q => i \notin Users(c)
        BY <3>1 DEF Users, Uses
      <4>3. QED BY <4>1, <4>2 DEF Users
    <3>3. Cardinality(Users(q) \ {i}) = Cardinality(Users(q)) - 1 /\ IsFiniteSet(Users(q) \ {i})
      BY <2>1, <3>1, UsersFinite, FS_RemoveElement
    <3>4. last => Users(q) \ {i} = {}
      <4>1. ASSUME last
            PROVE  Cardinality(Users(q) \ {i}) = 0
        <5>1. Cardinality(Users(q) \ {i}) \in Nat
          BY <3>3, FS_CardinalityType
        <5>2. Cardinality(Users(q)) \in Nat
          BY <2>1, UsersFinite
        <5>3. QED BY <3>1, <3>3, <4>1, <5>1, <5>2
      <4>2. QED BY <3>3, <4>1, FS_EmptySet
    <3>5. ASSUME NEW c \in Req
          PROVE  /\ client'[c].refs = Cardinality(Users(c)')
                 /\ Users(c)' # {} => registry' = c
                 /\ client'[c].pc = "connecting" => \A j \in Users(c)' : mgr'[j].pc = "connect"
      <4>1. /\ client[c].refs = Cardinality(Users(c))
            /\ Users(c) # {} => registry = c
            /\ client[c].pc = "connecting" => \A j \in Users(c) : mgr[j].pc = "connect"
        BY <2>5 DEF Counted
      <4>2. \A j \in Users(c)' : j \in Users(c) /\ j # i /\ j \in Req
        <5>1. Users(c) \subseteq Req
          BY UsersFinite
        <5>2. c # q => i \notin Users(c)
          BY <3>1 DEF Users, Uses
        <5>3. QED BY <3>2, <5>1, <5>2
      <4>3. client'[c].pc = client[c].pc
        BY <2>2
      <4>4. client'[c].refs = Cardinality(Users(c)')
        BY <2>2, <3>1, <3>2, <3>3, <4>1
      <4>5. Users(c)' # {} => registry' = c
        BY <2>2, <3>2, <3>4, <4>1, <4>2
      <4>6. QED BY <4>1, <4>2, <4>3, <4>4, <4>5
    <3>6. QED BY <3>5 DEF Counted
  <2>6. torn => Counted'
    BY DEF Counted
  <2>7. QED BY <2>2, <2>3, <2>4, <2>5, <2>6
<1>7. QED BY <1>5, <1>6

-----------------------------------------------------------------------------
(***************************************************************************)
(* The actions.                                                            *)
(***************************************************************************)
\* The initialisations that await a client are building.
LEMMA AwaitingBuild ==
  ASSUME Typed, NEW c \in Req
  PROVE  Awaiting(c) \in SUBSET Req /\ \A i \in Awaiting(c) : mgr[i].pc \in Building
BY DEF Awaiting, Building

\* A step that settles no initialisation.
LEMMA NobodySettles ==
  ASSUME Typed, UNCHANGED <<req, inflight>>
  PROVE  Answers({}, FALSE) /\ Unjoined({})
BY DEF Answers, Unjoined, Typed

\* defaultSharedMongoClientConnect succeeds.
LEMMA ConnectsStep ==
  ASSUME RegistryInv, ~exit, NEW c \in Req, Connects(c)
  PROVE  RegistryInv'
<1>1. /\ mgr' \in [Req -> Managers]
      /\ \A i \in Req : /\ i \notin Awaiting(c) => mgr'[i] = mgr[i]
                        /\ i \in Awaiting(c) => /\ mgr'[i].pc = "create"
                                                /\ mgr'[i].owned = mgr[i].owned
                                                /\ mgr'[i].key = mgr[i].key
                                                /\ mgr'[i].client = mgr[i].client
                                                /\ mgr'[i].borrows = mgr[i].borrows
                                                /\ mgr'[i].evicted = mgr[i].evicted
  <2>1. \A i \in Req : mgr[i] \in Managers
    BY DEF RegistryInv, Typed
  <2>2. QED BY <2>1 DEF Connects, Managers, Building
<1>2. /\ client' \in [Req -> Connection]
      /\ \A d \in Req : d # c => client'[d] = client[d]
      /\ client'[c].pc = "open" /\ client'[c].refs = client[c].refs
      /\ client'[c].doomed = client[c].doomed /\ client[c].pc = "connecting"
  BY DEF RegistryInv, Typed, Connects, Connection
<1>3. Typed'
  BY <1>1, <1>2 DEF RegistryInv, Typed, Connects
<1>4. \A i \in Awaiting(c) : mgr[i].pc = "connect" /\ mgr[i].client = c
  BY DEF Awaiting
<1>5. \A i \in Req : mgr'[i].pc \in Building <=> mgr[i].pc \in Building
  BY <1>1, <1>4 DEF Building
<1>6. UNCHANGED <<req, inflight, cache, overlap, closer, server, exit, torn>>
  BY DEF Connects
<1>7. Answers({}, FALSE) /\ Unjoined({})
  BY <1>6, NobodySettles DEF RegistryInv
<1>8. InUse({}, FALSE) /\ InService({}) /\ NoneBegins
  <2>1. \A i \in Req : mgr[i].pc = "closing" /\ ~mgr[i].owned => mgr[i].evicted
    BY DEF RegistryInv, Leaving, Shared
  <2>2. InUse({}, FALSE)
    BY <1>1, <1>4, <1>5 DEF InUse
  <2>3. InService({})
    BY <1>1, <1>4, <1>5, <2>1 DEF InService, Building
  <2>4. NoneBegins
    BY <1>1, <1>4, <1>5 DEF NoneBegins, Managers, Ended
  <2>5. QED BY <2>2, <2>3, <2>4
<1>a. Requests' /\ Owners' /\ Borrowed' /\ NoCloseUnderOperation'
  BY <1>7, <1>8, UseKept DEF RegistryInv
<1>b. Cache' /\ Inflight' /\ Keyed' /\ Leaving' /\ Sole'
  BY <1>6, <1>7, <1>8, ServiceKept DEF RegistryInv
<1>c. Shutdown'
  BY <1>6, <1>8, ShutdownKept DEF RegistryInv
<1>9. Clients'
  <2>1. UNCHANGED registry
    BY DEF Connects
  <2>2. \A i \in Req : /\ mgr'[i].pc \in {"none", "import"} => client'[i].pc = "none"
                       /\ mgr'[i].pc \in Ended \cup {"import"} <=> mgr'[i].client = None
    <3>1. \A i \in Req : mgr'[i].pc \in Ended \cup {"import"} <=> mgr[i].pc \in Ended \cup {"import"}
      BY <1>1, <1>4 DEF Ended
    <3>2. \A i \in Req : mgr'[i].client = mgr[i].client
      BY <1>1
    <3>3. \A i \in Req : mgr'[i].pc \in {"none", "import"} => mgr[i].pc \in {"none", "import"}
      BY <1>1
    <3>4. \A i \in Req : mgr[i].pc \in {"none", "import"} => client[i].pc = "none"
      BY DEF RegistryInv, Clients
    <3>5. \A i \in Req : mgr[i].pc \in Ended \cup {"import"} <=> mgr[i].client = None
      BY DEF RegistryInv, Clients
    <3>6. QED BY <1>2, <3>1, <3>2, <3>3, <3>4, <3>5
  <2>3. \A d \in Req : client'[d].pc = "none" => client'[d].refs = 0 /\ ~client'[d].doomed
    BY <1>2 DEF RegistryInv, Clients
  <2>4. registry # None =>
          client'[registry].pc \in {"connecting", "open"} /\ ~client'[registry].doomed
    BY <1>2 DEF RegistryInv, Clients, Typed
  <2>5. QED BY <2>1, <2>2, <2>3, <2>4 DEF Clients
<1>10. Counted'
  <2>1. UNCHANGED <<registry, torn>>
    BY DEF Connects
  <2>2. \A d \in Req : Users(d)' = Users(d)
    <3>1. \A i \in Req : /\ mgr'[i].client = mgr[i].client
                         /\ mgr'[i].pc \in Building \cup {"live", "closing"}
                              <=> mgr[i].pc \in Building \cup {"live", "closing"}
      BY <1>1, <1>4, <1>5 DEF Building
    <3>2. QED BY <3>1 DEF Users, Uses
  <2>3. ASSUME NEW d \in Req, d # c, NEW i \in Users(d)
        PROVE  mgr'[i] = mgr[i]
    <3>1. i \in Req /\ mgr[i].client = d
      BY <2>3 DEF Users, Uses
    <3>2. QED BY <1>1, <1>4, <2>3, <3>1
  <2>4. QED BY <1>2, <2>1, <2>2, <2>3 DEF RegistryInv, Counted
<1>11. QED BY <1>3, <1>a, <1>b, <1>c, <1>9, <1>10 DEF RegistryInv

\* It fails.
LEMMA ConnectFailsStep ==
  ASSUME RegistryInv, ~exit, NEW c \in Req, ConnectFails(c)
  PROVE  RegistryInv'
<1>0. Typed /\ Clients /\ Counted
  BY DEF RegistryInv
<1> DEFINE S == Awaiting(c)
<1>1. \A i \in S : i \in Req /\ mgr[i].pc = "connect" /\ mgr[i].client = c
  BY DEF Awaiting
<1>2. /\ mgr' \in [Req -> Managers]
      /\ \A i \in Req : /\ i \notin S => mgr'[i] = mgr[i]
                        /\ i \in S => /\ mgr'[i].pc = "failed" /\ mgr'[i].client = None
                                      /\ mgr'[i].owned = mgr[i].owned
                                      /\ mgr'[i].borrows = mgr[i].borrows
  <2>1. \A i \in Req : mgr[i] \in Managers
    BY <1>0 DEF Typed
  <2>2. \A i \in Req : mgr'[i] = IF i \in S THEN Gone(mgr[i], "failed") ELSE mgr[i]
    BY DEF ConnectFails
  <2>3. DOMAIN mgr' = Req /\ mgr' = [i \in Req |-> mgr'[i]]
    BY DEF ConnectFails
  <2>4. QED BY <2>1, <2>2, <2>3, GoneFields
<1>3. S \in SUBSET Req /\ \A i \in S : mgr[i].pc \in Building
  BY <1>0, AwaitingBuild
<1>4. IsFiniteSet(S) /\ Cardinality(S) \in Nat
  BY <1>3, RegistryAssumption, FS_Subset, FS_CardinalityType
<1>5. /\ client' \in [Req -> Connection]
      /\ \A d \in Req : d # c => client'[d] = client[d]
      /\ client'[c].pc = "failed" /\ client'[c].refs = client[c].refs - Cardinality(S)
      /\ client'[c].doomed = client[c].doomed /\ client[c].pc = "connecting"
  <2>1. client' = [client EXCEPT ![c].pc = "failed", ![c].refs = client[c].refs - Cardinality(S)]
        /\ client[c].pc = "connecting"
    BY DEF ConnectFails, FailedRefs
  <2>2. client \in [Req -> Connection] /\ client[c] \in Connection /\ client[c].refs \in Int
    BY <1>0 DEF Typed, Connection
  <2>3. client[c].refs - Cardinality(S) \in Int
    BY <1>4, <2>2
  <2> HIDE DEF S
  <2>4. client'[c] = [client[c] EXCEPT !.pc = "failed", !.refs = client[c].refs - Cardinality(S)]
    BY <2>1, <2>2
  <2>5. client'[c] \in Connection
    BY <2>2, <2>3, <2>4 DEF Connection
  <2>6. QED BY <2>1, <2>2, <2>4, <2>5 DEF Connection
<1>6. registry' = IF registry = c THEN None ELSE registry
  BY DEF ConnectFails
<1>7. InitSettles(S, FALSE)
  BY DEF ConnectFails
<1> HIDE DEF S
<1>8. /\ UNCHANGED <<cache, closeGeneration, closer, server, exit, overlap, torn>>
  BY DEF ConnectFails
<1>a. req' \in [Req -> Asked] /\ Answers(S, FALSE) /\ Unjoined(S)
  BY <1>0, <1>3, <1>7, SettledFields
<1>9. Typed'
  BY <1>0, <1>2, <1>5, <1>6, <1>8, <1>a DEF Typed, Unjoined
<1>b. InUse(S, FALSE) /\ InService(S) /\ NoneBegins
  <2>1. \A i \in Req : mgr[i].pc = "closing" /\ ~mgr[i].owned => mgr[i].evicted
    BY DEF RegistryInv, Leaving, Shared
  <2>2. \A i \in Req : mgr[i].pc \in Building \cup Ended \cup {"live", "closing"}
    BY <1>0 DEF Typed, Managers, Ended
  <2>3. /\ "failed" \notin Building \cup {"live", "closing"} /\ "failed" \in Ended
        /\ "connect" \notin Ended \cup {"none", "live"} /\ "connect" \in Building
    BY DEF Building, Ended
  <2>4. InUse(S, FALSE)
    BY <1>1, <1>2, <2>3 DEF InUse
  <2>5. InService(S)
    BY <1>1, <1>2, <2>1, <2>3 DEF InService
  <2>6. NoneBegins
    BY <1>1, <1>2, <2>2, <2>3 DEF NoneBegins
  <2>7. QED BY <2>4, <2>5, <2>6
<1>10. Requests' /\ Owners' /\ Borrowed' /\ NoCloseUnderOperation'
  BY <1>3, <1>a, <1>b, UseKept DEF RegistryInv
<1>11. Cache' /\ Inflight' /\ Keyed' /\ Leaving' /\ Sole'
  BY <1>3, <1>8, <1>a, <1>b, ServiceKept DEF RegistryInv
<1>12. Shutdown'
  BY <1>8, <1>b, ShutdownKept DEF RegistryInv
<1>13. Clients'
  <2>1. ASSUME NEW i \in Req
        PROVE  /\ mgr'[i].pc \in {"none", "import"} => client'[i].pc = "none"
               /\ mgr'[i].pc \in Ended \cup {"import"} <=> mgr'[i].client = None
    <3>1. CASE i \in S
      BY <1>2, <3>1 DEF Ended
    <3>2. CASE i \notin S
      BY <1>0, <1>2, <1>5, <3>2 DEF Clients
    <3>3. QED BY <3>1, <3>2
  <2>2. \A d \in Req : client'[d].pc = "none" => client'[d].refs = 0 /\ ~client'[d].doomed
    BY <1>0, <1>5 DEF Clients
  <2>3. registry' # None =>
          client'[registry'].pc \in {"connecting", "open"} /\ ~client'[registry'].doomed
    BY <1>0, <1>5, <1>6 DEF Clients, Typed
  <2>4. QED BY <2>1, <2>2, <2>3 DEF Clients
<1>14. Counted'
  <2> SUFFICES ASSUME ~torn PROVE Counted'
    BY <1>8 DEF Counted
  <2>1. Users(c) = S
    <3>1. \A i \in Users(c) : i \in Req /\ mgr[i].pc = "connect" /\ mgr[i].client = c
      BY <1>0, <1>5 DEF Counted, Users, Uses
    <3>2. QED BY <3>1, <1>1 DEF S, Awaiting, Users, Uses, Building
  <2>2. \A d \in Req : Users(d)' = IF d = c THEN {} ELSE Users(d)
    <3>1. \A i \in Req : mgr'[i].client \in Req => i \notin S /\ mgr'[i] = mgr[i]
      BY <1>2, RegistryAssumption
    <3>2. ASSUME NEW d \in Req, d # c, NEW i \in Req
          PROVE  Uses(i, d)' <=> Uses(i, d)
      BY <1>1, <1>2, <3>1, <3>2 DEF Uses
    <3>3. \A i \in Req : ~ Uses(i, c)'
      BY <2>1, <3>1 DEF Users, Uses
    <3>4. QED BY <3>2, <3>3 DEF Users
  <2>3. ASSUME NEW d \in Req
        PROVE  /\ client'[d].refs = Cardinality(Users(d)')
               /\ Users(d)' # {} => registry' = d
               /\ client'[d].pc = "connecting" => \A i \in Users(d)' : mgr'[i].pc = "connect"
    <3>1. /\ client[d].refs = Cardinality(Users(d))
          /\ Users(d) # {} => registry = d
          /\ client[d].pc = "connecting" => \A i \in Users(d) : mgr[i].pc = "connect"
      BY <1>0 DEF Counted
    <3>2. CASE d = c
      <4>1. client'[c].refs = 0
        <5>1. client[c].refs = Cardinality(S) /\ client'[c].refs = client[c].refs - Cardinality(S)
          BY <1>5, <2>1, <3>1, <3>2
        <5>2. QED BY <1>4, <5>1
      <4>2. Users(d)' = {} /\ Cardinality({}) = 0
        BY <2>2, <3>2, FS_EmptySet
      <4>3. QED BY <1>5, <3>2, <4>1, <4>2
    <3>3. CASE d # c
      <4>1. \A i \in Users(d) : i \in Req /\ i \notin S
        BY <1>1, <3>3 DEF Users, Uses
      <4>2. QED BY <1>2, <1>5, <1>6, <2>2, <3>1, <3>3, <4>1
    <3>4. QED BY <3>2, <3>3
  <2>4. QED BY <2>3 DEF Counted
<1>15. QED BY <1>9, <1>10, <1>11, <1>12, <1>13, <1>14 DEF RegistryInv

\* A step that touches neither requests nor managers.
LEMMA ManagersBeside ==
  ASSUME RegistryInv, UNCHANGED <<req, mgr, cache, inflight, overlap>>
  PROVE  /\ Requests' /\ Owners' /\ Borrowed' /\ NoCloseUnderOperation'
         /\ Cache' /\ Inflight' /\ Keyed' /\ Leaving' /\ Sole'
<1>1. Requests' /\ Owners' /\ Borrowed' /\ NoCloseUnderOperation'
  BY DEF RegistryInv, Requests, Owners, Borrowed, NoCloseUnderOperation, Operating
<1>2. Cache' /\ Inflight' /\ Keyed' /\ Leaving'
  BY DEF RegistryInv, Cache, Inflight, Keyed, Leaving, Shared
<1>3. Sole'
  BY DEF RegistryInv, Sole, Shared, At
<1>4. QED BY <1>1, <1>2, <1>3

\* A released client has closed.
LEMMA ClientClosesStep ==
  ASSUME RegistryInv, ~exit, NEW c \in Req, ClientCloses(c)
  PROVE  RegistryInv'
<1>0. Typed /\ Clients /\ Counted
  BY DEF RegistryInv
<1>1. UNCHANGED <<req, mgr, cache, inflight, closeGeneration, registry, closer, server, exit,
                  overlap, torn>>
  BY DEF ClientCloses
<1>2. /\ client' \in [Req -> Connection]
      /\ \A d \in Req : d # c => client'[d] = client[d]
      /\ client'[c].pc = "closed" /\ client'[c].refs = client[c].refs /\ client[c].pc = "open"
      /\ client[c].doomed
  BY <1>0 DEF Typed, ClientCloses, Connection
<1>3. Typed'
  BY <1>0, <1>1, <1>2 DEF Typed
<1>4. Clients'
  <2>1. registry # c
    BY <1>0, <1>2, RegistryAssumption DEF Clients
  <2>2. \A d \in Req : client'[d].pc = "none" => client'[d] = client[d]
    BY <1>2
  <2>3. \A d \in Req : client[d].pc = "none" => client'[d] = client[d]
    BY <1>2
  <2>4. registry # None => client'[registry] = client[registry]
    BY <1>0, <1>2, <2>1 DEF Typed
  <2>5. QED BY <1>0, <1>1, <2>2, <2>3, <2>4 DEF Clients
<1>5. Counted'
  <2>1. \A d \in Req : Users(d)' = Users(d)
    BY <1>1 DEF Users, Uses
  <2>2. \A d \in Req : client'[d].refs = client[d].refs
                       /\ (client'[d].pc = "connecting" => client[d].pc = "connecting")
    BY <1>2
  <2>3. QED BY <1>0, <1>1, <2>1, <2>2 DEF Counted
<1>6. Shutdown'
  BY <1>1 DEF RegistryInv, Shutdown, Shared
<1>7. QED BY <1>1, <1>3, <1>4, <1>5, <1>6, ManagersBeside DEF RegistryInv

\* A step of one manager that settles the initialisations of S, and cannot begin one.
LEMMA OneManager ==
  ASSUME RegistryInv, ~exit, NEW i \in Req, NEW S \in SUBSET {i},
         UNCHANGED <<cache, closer, server, exit, overlap, torn>>,
         Answers(S, FALSE), Unjoined(S),
         mgr' \in [Req -> Managers],
         \A j \in Req : j # i => mgr'[j] = mgr[j],
         mgr'[i].owned = mgr[i].owned, mgr'[i].borrows = mgr[i].borrows,
         mgr[i].pc # "live", mgr'[i].pc \notin {"none", "live"},
         mgr[i].pc \in Building => IF i \in S THEN mgr'[i].pc \in {"closed", "failed"}
                                              ELSE mgr'[i].pc \in Building,
         mgr[i].pc \notin Building => i \notin S /\ mgr[i].pc = "closing" /\ mgr'[i].pc = "closed",
         mgr'[i].pc \in Building =>
           mgr'[i].key = mgr[i].key /\ mgr'[i].evicted = mgr[i].evicted
  PROVE  /\ Requests' /\ Owners' /\ Borrowed' /\ NoCloseUnderOperation'
         /\ Cache' /\ Inflight' /\ Keyed' /\ Leaving' /\ Sole' /\ Shutdown'
<1>1. \A j \in Req : mgr[j].pc = "closing" /\ ~mgr[j].owned => mgr[j].evicted
  BY DEF RegistryInv, Leaving, Shared
<1>2. \A j \in Req : mgr[j].pc \in Building \cup Ended \cup {"live", "closing"}
  BY DEF RegistryInv, Typed, Managers, Ended
<1>3. /\ {"closed", "failed"} \cap (Building \cup {"live", "closing"}) = {}
      /\ {"closed", "failed"} \subseteq Ended /\ "closing" \notin Building \cup Ended
      /\ "none" \notin Building /\ "none" \in Ended /\ Building \cap Ended = {}
      /\ {"live", "closing"} \cap Building = {}
  BY DEF Building, Ended
<1>4. InUse(S, FALSE)
  BY <1>3 DEF InUse
<1>5. InService(S)
  BY <1>1, <1>3 DEF InService
<1>6. NoneBegins
  BY <1>2, <1>3 DEF NoneBegins
<1>7. S \in SUBSET Req
  OBVIOUS
<1>8. Requests' /\ Owners' /\ Borrowed' /\ NoCloseUnderOperation'
  BY <1>4, <1>7, UseKept DEF RegistryInv
<1>9. Cache' /\ Inflight' /\ Keyed' /\ Leaving' /\ Sole'
  BY <1>5, <1>7, ServiceKept DEF RegistryInv
<1>10. Shutdown'
  BY <1>6, ShutdownKept DEF RegistryInv
<1>11. QED BY <1>8, <1>9, <1>10

\* The phases of an initialisation.
LEMMA Phases ==
  {"import", "connect", "create", "discard"} \subseteq Building
  /\ {"closed", "failed", "none", "live", "closing"} \cap Building = {}
BY DEF Building

\* create() failed and unwound.
LEMMA CreateFailsStep ==
  ASSUME RegistryInv, ~exit, NEW r \in Req, CreateFails(r)
  PROVE  RegistryInv'
<1>0. Typed /\ Clients /\ Counted
  BY DEF RegistryInv
<1>1. UNCHANGED <<cache, closeGeneration, closer, server, exit, overlap, torn>>
  BY DEF CreateFails
<1>2. req' \in [Req -> Asked] /\ Answers({r}, FALSE) /\ Unjoined({r})
  BY <1>0, SettledFields DEF CreateFails
<1>3. /\ mgr' \in [Req -> Managers] /\ mgr[r].pc = "create"
      /\ \A j \in Req : j # r => mgr'[j] = mgr[j]
      /\ mgr'[r].pc = "failed" /\ mgr'[r].client = None
      /\ mgr'[r].owned = mgr[r].owned /\ mgr'[r].borrows = mgr[r].borrows
  <2>1. mgr \in [Req -> Managers] /\ mgr[r] \in Managers
    BY <1>0 DEF Typed
  <2>2. mgr' = [mgr EXCEPT ![r] = Gone(mgr[r], "failed")] /\ mgr[r].pc = "create"
    BY DEF CreateFails
  <2>3. QED BY <2>1, <2>2, GoneFields
<1>4. /\ client' \in [Req -> Connection] /\ registry' \in Req \cup {None}
      /\ Clients' /\ Counted'
  BY <1>0, <1>1, <1>3, UserLeaves DEF CreateFails
<1>5. Typed'
  BY <1>0, <1>1, <1>2, <1>3, <1>4 DEF Typed, Unjoined
<1>6. QED BY <1>1, <1>2, <1>3, <1>4, <1>5, OneManager, Phases DEF RegistryInv

\* manager.close() returned.
LEMMA ManagerClosesStep ==
  ASSUME RegistryInv, ~exit, NEW i \in Req, ManagerCloses(i)
  PROVE  RegistryInv'
<1>0. Typed /\ Clients /\ Counted
  BY DEF RegistryInv
<1> DEFINE S == IF mgr[i].pc = "discard" THEN {i} ELSE {}
<1>1. UNCHANGED <<cache, closeGeneration, closer, server, exit, overlap, torn>>
  BY DEF ManagerCloses
<1>2. req' \in [Req -> Asked] /\ Answers(S, FALSE) /\ Unjoined(S)
  <2>1. CASE mgr[i].pc = "discard"
    BY <1>0, <2>1, SettledFields DEF ManagerCloses
  <2>2. CASE mgr[i].pc # "discard"
    BY <1>0, <2>2, NobodySettles DEF ManagerCloses, Typed
  <2>3. QED BY <2>1, <2>2
<1>3. /\ mgr' \in [Req -> Managers] /\ mgr[i].pc \in {"closing", "discard"}
      /\ \A j \in Req : j # i => mgr'[j] = mgr[j]
      /\ mgr'[i].pc = "closed" /\ mgr'[i].client = None
      /\ mgr'[i].owned = mgr[i].owned /\ mgr'[i].borrows = mgr[i].borrows
  <2>1. mgr \in [Req -> Managers] /\ mgr[i] \in Managers
    BY <1>0 DEF Typed
  <2>2. mgr' = [mgr EXCEPT ![i] = Gone(mgr[i], "closed")] /\ mgr[i].pc \in {"closing", "discard"}
    BY DEF ManagerCloses
  <2>3. QED BY <2>1, <2>2, GoneFields
<1>4. /\ client' \in [Req -> Connection] /\ registry' \in Req \cup {None}
      /\ Clients' /\ Counted'
  <2>1. Release
    BY DEF ManagerCloses
  <2>2. QED BY <1>0, <1>1, <1>3, <2>1, UserLeaves
<1>5. Typed'
  BY <1>0, <1>1, <1>2, <1>3, <1>4 DEF Typed, Unjoined
<1>6. S \in SUBSET {i} /\ (i \in S <=> mgr[i].pc = "discard")
  OBVIOUS
<1> HIDE DEF S
<1>7. QED BY <1>1, <1>2, <1>3, <1>4, <1>5, <1>6, OneManager, Phases DEF RegistryInv

\* initializeManager acquires the client.
LEMMA ImportedStep ==
  ASSUME RegistryInv, ~exit, NEW r \in Req, Imported(r)
  PROVE  RegistryInv'
<1>0. Typed /\ Clients /\ Counted /\ None \notin Req
  BY RegistryAssumption DEF RegistryInv
<1> DEFINE c == IF registry = None THEN r ELSE registry
<1>1. UNCHANGED <<req, cache, inflight, closeGeneration, closer, server, exit, overlap, torn>>
  BY DEF Imported
<1>2. c \in Req /\ mgr[r].pc = "import" /\ client[r].pc = "none" /\ mgr[r].client = None
      /\ client[r].refs = 0 /\ ~client[r].doomed
  BY <1>0 DEF Imported, Typed, Clients
<1>3. /\ client' \in [Req -> Connection] /\ registry' = c
      /\ \A d \in Req : d # c => client'[d] = client[d]
      /\ client'[c].pc = IF registry = None THEN "connecting" ELSE client[c].pc
      /\ client'[c].refs = IF registry = None THEN 1 ELSE client[c].refs + 1
      /\ client'[c].doomed = client[c].doomed
  <2>1. registry' = c
        /\ client' = [client EXCEPT ![c].pc = IF registry = None THEN "connecting" ELSE client[c].pc,
                        ![c].refs = IF registry = None THEN 1 ELSE client[c].refs + 1]
    BY DEF Imported, Acquired
  <2>2. client \in [Req -> Connection] /\ client[c] \in Connection /\ client[c].refs \in Int
        /\ client[c].pc \in {"none", "connecting", "open", "closed", "failed"}
    BY <1>0, <1>2 DEF Typed, Connection
  <2> HIDE DEF c
  <2> DEFINE p == IF registry = None THEN "connecting" ELSE client[c].pc
             n == IF registry = None THEN 1 ELSE client[c].refs + 1
  <2>3. p \in {"none", "connecting", "open", "closed", "failed"} /\ n \in Int
    BY <2>2
  <2>4. client' = [client EXCEPT ![c].pc = p, ![c].refs = n]
    BY <2>1
  <2> HIDE DEF p, n
  <2>5. client'[c] = [client[c] EXCEPT !.pc = p, !.refs = n]
    BY <1>2, <2>2, <2>4
  <2>6. client'[c] \in Connection
    BY <2>2, <2>3, <2>5 DEF Connection
  <2>7. client'[c].pc = p /\ client'[c].refs = n /\ client'[c].doomed = client[c].doomed
    BY <2>2, <2>5 DEF Connection
  <2>8. QED BY <2>1, <2>2, <2>4, <2>6, <2>7, <1>2 DEF p, n
<1>4. /\ mgr' \in [Req -> Managers]
      /\ \A j \in Req : j # r => mgr'[j] = mgr[j]
      /\ mgr'[r].client = c /\ mgr'[r].pc = IF client'[c].pc = "open" THEN "create" ELSE "connect"
      /\ mgr'[r].owned = mgr[r].owned /\ mgr'[r].borrows = mgr[r].borrows
      /\ mgr'[r].key = mgr[r].key /\ mgr'[r].evicted = mgr[r].evicted
  <2>1. mgr \in [Req -> Managers] /\ mgr[r] \in Managers
    BY <1>0 DEF Typed
  <2>2. mgr' = [mgr EXCEPT ![r].client = c,
                           ![r].pc = IF client'[c].pc = "open" THEN "create" ELSE "connect"]
    BY DEF Imported, Acquired
  <2> HIDE DEF c
  <2>3. mgr'[r] = [mgr[r] EXCEPT !.client = c,
                                 !.pc = IF client'[c].pc = "open" THEN "create" ELSE "connect"]
    BY <2>1, <2>2
  <2>4. mgr'[r] \in Managers
    BY <1>2, <2>1, <2>3 DEF Managers, Building
  <2>5. QED BY <2>1, <2>2, <2>3, <2>4 DEF Managers
<1>5. registry # None => client[c].pc \in {"connecting", "open"} /\ ~client[c].doomed
  BY <1>0 DEF Clients
<1>6. registry = None => c = r
  OBVIOUS
<1>7. registry # None => c = registry
  OBVIOUS
<1> HIDE DEF c
<1>8. Typed'
  BY <1>0, <1>1, <1>2, <1>3, <1>4 DEF Typed
<1>9. Answers({}, FALSE) /\ Unjoined({})
  BY <1>0, <1>1, NobodySettles
<1>10. Clients'
  <2>1. client'[c].pc \in {"connecting", "open"} /\ ~client'[c].doomed
    BY <1>2, <1>3, <1>5, <1>6, <1>7
  <2>2. ASSUME NEW i \in Req
        PROVE  /\ mgr'[i].pc \in {"none", "import"} => client'[i].pc = "none"
               /\ mgr'[i].pc \in Ended \cup {"import"} <=> mgr'[i].client = None
    <3>1. CASE i = r
      BY <1>0, <1>2, <1>4, <3>1 DEF Ended
    <3>2. CASE i # r
      <4>1. /\ mgr[i].pc \in {"none", "import"} => client[i].pc = "none"
            /\ mgr[i].pc \in Ended \cup {"import"} <=> mgr[i].client = None
        BY <1>0 DEF Clients
      <4>2. client[i].pc = "none" => i # c
        BY <1>5, <1>6, <1>7, <3>2
      <4>3. QED BY <1>3, <1>4, <3>2, <4>1, <4>2
    <3>3. QED BY <3>1, <3>2
  <2>3. \A d \in Req : client'[d].pc = "none" => client'[d].refs = 0 /\ ~client'[d].doomed
    BY <1>0, <1>3, <2>1 DEF Clients
  <2>4. QED BY <1>3, <2>1, <2>2, <2>3 DEF Clients
<1>11. Counted'
  <2> SUFFICES ASSUME ~torn PROVE Counted'
    BY <1>1 DEF Counted
  <2>1. \A d \in Req : Users(d)' = IF d = c THEN Users(c) \cup {r} ELSE Users(d)
    <3>1. ASSUME NEW d \in Req, NEW i \in Req
          PROVE  Uses(i, d)' <=> (Uses(i, d) \/ (i = r /\ d = c))
      BY <1>0, <1>2, <1>4 DEF Uses, Building
    <3>2. QED BY <3>1, <1>2 DEF Users
  <2>2. \A d \in Req : r \notin Users(d)
    BY <1>0, <1>2 DEF Users, Uses
  <2>3. Cardinality(Users(c) \cup {r}) = Cardinality(Users(c)) + 1
    BY <1>2, <2>2, UsersFinite, FS_AddElement
  <2>4. registry = None => Users(c) = {} /\ Cardinality(Users(c)) = 0
    BY <1>0, <1>2, FS_EmptySet DEF Counted
  <2>5. ASSUME NEW d \in Req
        PROVE  /\ client'[d].refs = Cardinality(Users(d)')
               /\ Users(d)' # {} => registry' = d
               /\ client'[d].pc = "connecting" => \A i \in Users(d)' : mgr'[i].pc = "connect"
    <3>1. /\ client[d].refs = Cardinality(Users(d))
          /\ Users(d) # {} => registry = d
          /\ client[d].pc = "connecting" => \A i \in Users(d) : mgr[i].pc = "connect"
      BY <1>0 DEF Counted
    <3>2. Users(d) \subseteq Req
      BY UsersFinite
    <3>3. CASE d = c
      <4>1. client'[c].refs = Cardinality(Users(c)) + 1
        BY <1>3, <2>4, <3>1, <3>3
      <4>2. client'[c].pc = "connecting" => \A i \in Users(c) : mgr[i].pc = "connect"
        BY <1>3, <2>4, <3>1, <3>3
      <4>3. client'[c].pc = "connecting" => mgr'[r].pc = "connect"
        BY <1>4
      <4>4. QED BY <1>3, <1>4, <2>1, <2>2, <2>3, <3>2, <3>3, <4>1, <4>2, <4>3
    <3>4. CASE d # c
      <4>1. Users(d)' = Users(d) /\ client'[d] = client[d]
        BY <1>3, <2>1, <3>4
      <4>2. Users(d) # {} => FALSE
        BY <1>0, <1>7, <3>1, <3>4
      <4>3. QED BY <3>1, <4>1, <4>2
    <3>5. QED BY <3>3, <3>4
  <2>6. QED BY <2>5 DEF Counted
<1>12. mgr[r].pc \in Building /\ mgr'[r].pc \in Building
  BY <1>2, <1>4 DEF Building
<1>13. /\ Requests' /\ Owners' /\ Borrowed' /\ NoCloseUnderOperation'
       /\ Cache' /\ Inflight' /\ Keyed' /\ Leaving' /\ Sole' /\ Shutdown'
  BY <1>1, <1>4, <1>9, <1>12, OneManager, Phases
<1>14. QED BY <1>8, <1>10, <1>11, <1>13 DEF RegistryInv

\* An operation begins and takes its borrow.
LEMMA BeginOperationStep ==
  ASSUME RegistryInv, ~exit, NEW r \in Req, BeginOperation(r)
  PROVE  RegistryInv'
<1>0. Typed /\ None \notin Req
  BY RegistryAssumption DEF RegistryInv
<1> DEFINE i == req[r].on
<1>1. i \in Req /\ req[r].pc = "hold" /\ mgr[i].pc # "none"
  BY <1>0 DEF RegistryInv, BeginOperation, Requests, Holding, Typed, Asked
<1>2. UNCHANGED <<cache, inflight, closeGeneration, client, registry, closer, server, exit,
                  overlap, torn>>
  BY DEF BeginOperation
<1>3. /\ req' \in [Req -> Asked] /\ \A x \in Req : x # r => req'[x] = req[x]
      /\ req'[r].pc = "op" /\ req'[r].on = i /\ req'[r].late = (mgr[i].pc # "live")
  <2>1. req' = [req EXCEPT ![r].pc = "op", ![r].late = mgr[i].pc # "live"]
    BY DEF BeginOperation
  <2>2. req \in [Req -> Asked] /\ req[r] \in Asked /\ (mgr[i].pc # "live") \in BOOLEAN
    BY <1>0 DEF Typed
  <2>3. QED BY <2>1, <2>2 DEF Asked
<1>4. /\ mgr' \in [Req -> Managers] /\ \A x \in Req : x # i => mgr'[x] = mgr[x]
      /\ mgr'[i].borrows = IF mgr[i].owned THEN mgr[i].borrows ELSE mgr[i].borrows + 1
      /\ \A x \in Req : /\ mgr'[x].pc = mgr[x].pc /\ mgr'[x].owned = mgr[x].owned
                        /\ mgr'[x].key = mgr[x].key /\ mgr'[x].evicted = mgr[x].evicted
                        /\ mgr'[x].client = mgr[x].client
  <2> DEFINE b == IF mgr[i].owned THEN mgr[i].borrows ELSE mgr[i].borrows + 1
  <2>1. mgr' = [mgr EXCEPT ![i].borrows = b]
    BY DEF BeginOperation
  <2>2. mgr \in [Req -> Managers] /\ mgr[i] \in Managers /\ mgr[i].borrows \in Int
    BY <1>0, <1>1 DEF Typed, Managers
  <2>3. b \in Int
    BY <2>2
  <2> HIDE DEF b, i
  <2>4. mgr'[i] = [mgr[i] EXCEPT !.borrows = b] /\ \A x \in Req : x # i => mgr'[x] = mgr[x]
    BY <1>1, <2>1, <2>2
  <2>5. mgr'[i] \in Managers /\ mgr'[i].borrows = b
    BY <2>2, <2>3, <2>4 DEF Managers
  <2>6. /\ mgr'[i].pc = mgr[i].pc /\ mgr'[i].owned = mgr[i].owned
        /\ mgr'[i].key = mgr[i].key /\ mgr'[i].evicted = mgr[i].evicted
        /\ mgr'[i].client = mgr[i].client
    BY <2>2, <2>4 DEF Managers
  <2>7. QED BY <1>1, <2>1, <2>2, <2>4, <2>5, <2>6 DEF b
<1> HIDE DEF i
<1>5. Typed'
  BY <1>0, <1>2, <1>3, <1>4 DEF Typed
<1>6. Requests'
  <2>1. ASSUME NEW x \in Req
        PROVE  /\ req'[x].pc \in Holding <=> req'[x].on # None
               /\ req'[x].pc = "new" => mgr'[x] = NoManager
               /\ req'[x].on # None => mgr'[req'[x].on].pc # "none"
               /\ req'[x].pc = "wait" => mgr'[req'[x].on].pc \in Building
    <3>1. CASE x = r
      BY <1>0, <1>1, <1>3, <1>4, <3>1 DEF Holding
    <3>2. CASE x # r
      <4>1. /\ req[x].pc \in Holding <=> req[x].on # None
            /\ req[x].pc = "new" => mgr[x] = NoManager
            /\ req[x].on # None => mgr[req[x].on].pc # "none"
            /\ req[x].pc = "wait" => mgr[req[x].on].pc \in Building
            /\ req[x].on \in Req \cup {None}
        BY <1>0 DEF RegistryInv, Requests, Typed, Asked
      <4>2. req[x].pc = "new" => x # i
        BY <1>1, <4>1 DEF NoManager
      <4>3. QED BY <1>3, <1>4, <3>2, <4>1, <4>2 DEF Holding
    <3>3. QED BY <3>1, <3>2
  <2>2. QED BY <2>1 DEF Requests
<1>7. Owners'
  <2>1. ASSUME NEW x \in Req, req'[x].on # None, mgr'[req'[x].on].owned
        PROVE  req'[x].on = x /\ (req'[x].pc \in {"hold", "op"} => mgr'[x].pc = "live")
    <3>1. req'[x].on = req[x].on /\ req[x].on \in Req
      BY <1>0, <1>1, <1>3, <2>1 DEF Typed, Asked, i
    <3>2. req[x].on = x /\ (req[x].pc \in {"hold", "op"} => mgr[x].pc = "live")
      BY <1>4, <2>1, <3>1 DEF RegistryInv, Owners
    <3>3. QED BY <1>1, <1>3, <1>4, <3>1, <3>2
  <2>2. QED BY <2>1 DEF Owners
<1>8. Borrowed'
  <2>1. \A x \in Req : Operating(x)' = IF x = i THEN Operating(i) \cup {r} ELSE Operating(x)
    BY <1>1, <1>3 DEF Operating
  <2>2. r \notin Operating(i) /\ IsFiniteSet(Operating(i))
    <3>1. Operating(i) \subseteq Req
      BY DEF Operating
    <3>2. QED BY <1>1, <3>1, RegistryAssumption, FS_Subset DEF Operating
  <2>3. Cardinality(Operating(i) \cup {r}) = Cardinality(Operating(i)) + 1
    BY <2>2, FS_AddElement
  <2>4. \A x \in Req : mgr[x].borrows = IF mgr[x].owned THEN 0 ELSE Cardinality(Operating(x))
    BY DEF RegistryInv, Borrowed
  <2>5. ASSUME NEW x \in Req
        PROVE  mgr'[x].borrows = IF mgr'[x].owned THEN 0 ELSE Cardinality(Operating(x)')
    <3>1. CASE x = i
      BY <1>1, <1>4, <2>1, <2>3, <2>4, <3>1
    <3>2. CASE x # i
      BY <1>4, <2>1, <2>4, <3>2
    <3>3. QED BY <3>1, <3>2
  <2>6. QED BY <2>5 DEF Borrowed
<1>9. NoCloseUnderOperation'
  <2>1. ASSUME NEW x \in Req, req'[x].pc = "op", ~req'[x].late
        PROVE  mgr'[req'[x].on].pc = "live"
    <3>1. CASE x = r
      BY <1>1, <1>3, <1>4, <2>1, <3>1
    <3>2. CASE x # r
      <4>1. req'[x] = req[x] /\ req[x].on \in Req
        BY <1>0, <1>3, <2>1, <3>2 DEF RegistryInv, Requests, Holding, Typed, Asked
      <4>2. QED BY <1>4, <2>1, <4>1 DEF RegistryInv, NoCloseUnderOperation
    <3>3. QED BY <3>1, <3>2
  <2>2. QED BY <2>1 DEF NoCloseUnderOperation
<1>10. Unjoined({})
  BY <1>0, <1>2 DEF Unjoined, Typed
<1>11. InService({})
  <2>1. \A x \in Req : mgr[x].pc = "closing" /\ ~mgr[x].owned => mgr[x].evicted
    BY DEF RegistryInv, Leaving, Shared
  <2>2. QED BY <1>4, <2>1 DEF InService
<1>12. NoneBegins
  <2>1. \A x \in Req : mgr[x].pc \in Building \cup Ended \cup {"live", "closing"}
    BY <1>0 DEF Typed, Managers, Ended
  <2>2. QED BY <1>4, <2>1 DEF NoneBegins
<1>13. Cache' /\ Inflight' /\ Keyed' /\ Leaving' /\ Sole'
  BY <1>2, <1>10, <1>11, ServiceKept DEF RegistryInv
<1>14. Shutdown'
  BY <1>2, <1>12, ShutdownKept DEF RegistryInv
<1>15. Clients' /\ Counted'
  BY <1>2, <1>4, ClientsKept DEF RegistryInv
<1>16. QED BY <1>5, <1>6, <1>7, <1>8, <1>9, <1>13, <1>14, <1>15 DEF RegistryInv

\* An operation settles: its borrow ends, and with the last one a manager that was
\* evicted closes.
LEMMA EndOperationStep ==
  ASSUME RegistryInv, ~exit, NEW r \in Req, EndOperation(r)
  PROVE  RegistryInv'
<1>0. Typed /\ None \notin Req
  BY RegistryAssumption DEF RegistryInv
<1> DEFINE i == req[r].on
<1>1. /\ i \in Req /\ req[r].pc = "op" /\ mgr[i].pc # "none"
      /\ mgr[i].owned => i = r /\ mgr[i].pc = "live"
  BY <1>0 DEF RegistryInv, EndOperation, Requests, Owners, Holding, Typed, Asked
<1>2. UNCHANGED <<cache, inflight, closeGeneration, client, registry, closer, server, exit,
                  overlap, torn>>
  BY DEF EndOperation
<1>3. /\ req' \in [Req -> Asked] /\ \A x \in Req : x # r => req'[x] = req[x]
      /\ req'[r].pc = "done" /\ req'[r].on = None
  BY <1>0 DEF EndOperation, Typed, Asked, Answered
<1> DEFINE b == IF mgr[i].owned THEN mgr[i].borrows ELSE mgr[i].borrows - 1
           ends == \/ mgr[i].owned
                   \/ mgr[i].evicted /\ mgr[i].pc = "live" /\ b = 0
<1>4. /\ mgr' \in [Req -> Managers] /\ \A x \in Req : x # i => mgr'[x] = mgr[x]
      /\ mgr'[i].borrows = b
      /\ mgr'[i].pc = IF ends THEN "closing" ELSE mgr[i].pc
      /\ mgr'[i].owned = mgr[i].owned /\ mgr'[i].key = mgr[i].key
      /\ mgr'[i].evicted = mgr[i].evicted /\ mgr'[i].client = mgr[i].client
  <2> DEFINE m == mgr[i]
             e == IF m.owned THEN [m EXCEPT !.pc = "closing"]
                  ELSE AtQuiescence([m EXCEPT !.borrows = m.borrows - 1])
  <2>1. mgr' = [mgr EXCEPT ![i] = e]
    BY DEF EndOperation
  <2>2. mgr \in [Req -> Managers] /\ m \in Managers /\ m.borrows \in Int
    BY <1>0, <1>1 DEF Typed, Managers
  <2>3. /\ e \in Managers /\ e.borrows = b
        /\ e.pc = IF ends THEN "closing" ELSE m.pc
        /\ e.owned = m.owned /\ e.key = m.key /\ e.evicted = m.evicted /\ e.client = m.client
    <3> HIDE DEF i
    <3>1. CASE m.owned
      BY <2>2, <3>1 DEF Managers
    <3>2. CASE ~m.owned
      <4> DEFINE n == [m EXCEPT !.borrows = m.borrows - 1]
      <4>1. n \in Managers /\ n.borrows = b /\ n.pc = m.pc /\ n.owned = m.owned /\ n.key = m.key
            /\ n.evicted = m.evicted /\ n.client = m.client
        BY <2>2, <3>2 DEF Managers
      <4>2. e = AtQuiescence(n)
        BY <3>2
      <4> HIDE DEF n, e, b, m
      <4>3. e = IF n.evicted /\ n.pc = "live" /\ n.borrows = 0 THEN [n EXCEPT !.pc = "closing"] ELSE n
        BY <4>2 DEF AtQuiescence
      <4>4. ends <=> n.evicted /\ n.pc = "live" /\ n.borrows = 0
        BY <3>2, <4>1 DEF m
      <4> HIDE DEF ends
      <4>5. QED BY <4>1, <4>3, <4>4 DEF Managers
    <3>3. QED BY <3>1, <3>2
  <2> HIDE DEF e, i, b, ends
  <2>4. mgr'[i] = e /\ \A x \in Req : x # i => mgr'[x] = mgr[x]
    BY <1>1, <2>1, <2>2
  <2>5. QED BY <1>1, <2>1, <2>2, <2>3, <2>4
<1> HIDE DEF i, ends, b
<1>a. ends => mgr[i].pc = "live" /\ (mgr[i].owned \/ mgr[i].evicted)
  BY <1>1 DEF ends
<1>5. Typed'
  BY <1>0, <1>2, <1>3, <1>4 DEF Typed
<1>6. Requests'
  <2>1. ASSUME NEW x \in Req
        PROVE  /\ req'[x].pc \in Holding <=> req'[x].on # None
               /\ req'[x].pc = "new" => mgr'[x] = NoManager
               /\ req'[x].on # None => mgr'[req'[x].on].pc # "none"
               /\ req'[x].pc = "wait" => mgr'[req'[x].on].pc \in Building
    <3>1. CASE x = r
      BY <1>3, <3>1 DEF Holding
    <3>2. CASE x # r
      <4>1. /\ req[x].pc \in Holding <=> req[x].on # None
            /\ req[x].pc = "new" => mgr[x] = NoManager
            /\ req[x].on # None => mgr[req[x].on].pc # "none"
            /\ req[x].pc = "wait" => mgr[req[x].on].pc \in Building
            /\ req[x].on \in Req \cup {None}
        BY <1>0 DEF RegistryInv, Requests, Typed, Asked
      <4>2. req[x].pc = "new" => x # i
        BY <1>1, <4>1 DEF NoManager
      <4>3. req'[x] = req[x]
        BY <1>3, <3>2
      <4>4. \A y \in Req : mgr[y].pc # "none" => mgr'[y].pc # "none"
        BY <1>4
      <4>5. \A y \in Req : mgr[y].pc \in Building => mgr'[y].pc \in Building
        BY <1>4, <1>a, Phases
      <4>6. req[x].pc = "wait" => req[x].on \in Req
        BY <4>1 DEF Holding
      <4>7. QED BY <1>4, <4>1, <4>2, <4>3, <4>4, <4>5, <4>6
    <3>3. QED BY <3>1, <3>2
  <2>2. QED BY <2>1 DEF Requests
<1>7. Owners'
  <2>1. ASSUME NEW x \in Req, req'[x].on # None, mgr'[req'[x].on].owned
        PROVE  req'[x].on = x /\ (req'[x].pc \in {"hold", "op"} => mgr'[x].pc = "live")
    <3>1. x # r /\ req'[x] = req[x] /\ req[x].on \in Req
      BY <1>0, <1>3, <2>1 DEF Typed, Asked
    <3>2. mgr[req[x].on].owned
      BY <1>4, <2>1, <3>1
    <3>3. req[x].on = x /\ (req[x].pc \in {"hold", "op"} => mgr[x].pc = "live")
      BY <2>1, <3>1, <3>2 DEF RegistryInv, Owners
    <3>4. x # i
      BY <1>1, <3>1, <3>2, <3>3
    <3>5. QED BY <1>4, <3>1, <3>3, <3>4
  <2>2. QED BY <2>1 DEF Owners
<1>8. /\ \A x \in Req : Operating(x)' = IF x = i THEN Operating(i) \ {r} ELSE Operating(x)
      /\ Cardinality(Operating(i) \ {r}) = Cardinality(Operating(i)) - 1
      /\ IsFiniteSet(Operating(i) \ {r})
  <2>1. \A x \in Req : Operating(x)' = IF x = i THEN Operating(i) \ {r} ELSE Operating(x)
    <3>1. \A y \in Req : req'[y].pc = "op" <=> (req[y].pc = "op" /\ y # r)
      BY <1>3
    <3>2. \A y \in Req : y # r => req'[y].on = req[y].on
      BY <1>3
    <3>3. QED BY <3>1, <3>2 DEF Operating, i
  <2>2. r \in Operating(i) /\ IsFiniteSet(Operating(i))
    <3>1. Operating(i) \subseteq Req
      BY DEF Operating
    <3>2. QED BY <1>1, <3>1, RegistryAssumption, FS_Subset DEF Operating, i
  <2>3. QED BY <2>1, <2>2, FS_RemoveElement
<1>b. \A x \in Req : mgr[x].borrows = IF mgr[x].owned THEN 0 ELSE Cardinality(Operating(x))
  BY DEF RegistryInv, Borrowed
<1>9. Borrowed'
  <2>1. ASSUME NEW x \in Req
        PROVE  mgr'[x].borrows = IF mgr'[x].owned THEN 0 ELSE Cardinality(Operating(x)')
    <3>1. CASE x = i
      BY <1>1, <1>4, <1>8, <1>b, <3>1 DEF b
    <3>2. CASE x # i
      BY <1>4, <1>8, <1>b, <3>2
    <3>3. QED BY <3>1, <3>2
  <2>2. QED BY <2>1 DEF Borrowed
<1>10. NoCloseUnderOperation'
  <2>1. ASSUME NEW x \in Req, req'[x].pc = "op", ~req'[x].late
        PROVE  mgr'[req'[x].on].pc = "live"
    <3>1. x # r /\ req'[x] = req[x] /\ req[x].on \in Req
      BY <1>0, <1>3, <2>1 DEF RegistryInv, Requests, Holding, Typed, Asked
    <3>2. mgr[req[x].on].pc = "live"
      BY <2>1, <3>1 DEF RegistryInv, NoCloseUnderOperation
    <3>3. CASE req[x].on = i
      <4>1. x \in Operating(i) \ {r}
        BY <2>1, <3>1, <3>3 DEF Operating
      <4>2. Cardinality(Operating(i) \ {r}) # 0
        BY <1>8, <4>1, FS_EmptySet
      <4>3. ~mgr[i].owned
        <5>1. mgr[i].owned => i = x
          BY <1>0, <3>1, <3>3 DEF RegistryInv, Owners
        <5>2. QED BY <1>1, <3>1, <5>1
      <4>4. ~ends
        BY <1>1, <1>8, <1>b, <4>2, <4>3 DEF ends, b
      <4>5. QED BY <1>4, <3>1, <3>2, <3>3, <4>4
    <3>4. CASE req[x].on # i
      BY <1>4, <3>1, <3>2, <3>4
    <3>5. QED BY <3>3, <3>4
  <2>2. QED BY <2>1 DEF NoCloseUnderOperation
<1>11. Unjoined({})
  BY <1>0, <1>2 DEF Unjoined, Typed
<1>12. InService({})
  <2>1. \A x \in Req : mgr[x].pc = "closing" /\ ~mgr[x].owned => mgr[x].evicted
    BY DEF RegistryInv, Leaving, Shared
  <2>2. QED BY <1>4, <1>a, <2>1, Phases DEF InService
<1>13. NoneBegins
  <2>1. \A x \in Req : mgr[x].pc \in Building \cup Ended \cup {"live", "closing"}
    BY <1>0 DEF Typed, Managers, Ended
  <2>2. "live" \notin Ended
    BY DEF Ended
  <2>3. QED BY <1>4, <1>a, <2>1, <2>2, Phases DEF NoneBegins
<1>14. Cache' /\ Inflight' /\ Keyed' /\ Leaving' /\ Sole'
  BY <1>2, <1>11, <1>12, ServiceKept DEF RegistryInv
<1>15. Shutdown'
  BY <1>2, <1>13, ShutdownKept DEF RegistryInv
<1>16. Clients' /\ Counted'
  <2>1. \A x \in Req :
          /\ mgr'[x].client = mgr[x].client
          /\ mgr'[x].pc = mgr[x].pc
             \/ {mgr[x].pc, mgr'[x].pc} \subseteq {"create", "discard", "live", "closing"}
    BY <1>4, <1>a
  <2>2. QED BY <1>2, <2>1, ClientsKept DEF RegistryInv
<1>17. QED BY <1>5, <1>6, <1>7, <1>9, <1>10, <1>14, <1>15, <1>16 DEF RegistryInv

\* The idle sweep.
LEMMA EvictIdleStep ==
  ASSUME RegistryInv, ~exit, NEW S \in SUBSET Req, EvictIdle(S)
  PROVE  RegistryInv'
<1>0. Typed /\ cache \in Seq(Req)
  BY DEF RegistryInv, Typed
<1>1. UNCHANGED <<req, inflight, closeGeneration, client, registry, closer, server, exit,
                  overlap, torn>>
  BY DEF EvictIdle
<1>2. /\ mgr' \in [Req -> Managers]
      /\ \A i \in Req :
           /\ mgr'[i].owned = mgr[i].owned /\ mgr'[i].key = mgr[i].key
           /\ mgr'[i].client = mgr[i].client /\ mgr'[i].borrows = mgr[i].borrows
           /\ mgr'[i].evicted = (mgr[i].evicted \/ i \in S)
           /\ mgr'[i].pc = IF i \in S /\ mgr[i].pc = "live" /\ mgr[i].borrows = 0
                           THEN "closing" ELSE mgr[i].pc
           /\ i \notin S => mgr'[i] = mgr[i]
  <2>1. mgr \in [Req -> Managers] /\ mgr' = Evicted(mgr, S)
    BY <1>0 DEF Typed, EvictIdle
  <2>2. QED BY <2>1, EvictedFields
<1>3. \A i \in S : mgr[i].pc = "live" /\ ~mgr[i].owned
  <2>1. S \subseteq ToSet(cache)
    BY DEF EvictIdle
  <2>2. QED BY <2>1 DEF RegistryInv, Cache, ToSet
<1>4. /\ cache' \in Seq(Req) /\ Len(cache') <= Len(cache)
      /\ ToSet(cache') = ToSet(cache) \ S
      /\ \E at \in [DOMAIN cache' -> DOMAIN cache] :
              /\ \A n \in DOMAIN cache' : cache'[n] = cache[at[n]]
              /\ \A m, n \in DOMAIN cache' : at[m] = at[n] => m = n
  <2>1. Without(cache, S, cache')
    BY DEF EvictIdle
  <2> DEFINE left == cache'
  <2>2. Without(cache, S, left)
    BY <2>1
  <2> HIDE DEF left
  <2>3. /\ left \in Seq(Req) /\ Len(left) <= Len(cache)
        /\ ToSet(left) = ToSet(cache) \ S
        /\ \E at \in [DOMAIN left -> DOMAIN cache] :
              /\ \A n \in DOMAIN left : left[n] = cache[at[n]]
              /\ \A m, n \in DOMAIN left : at[m] = at[n] => m = n
    BY <1>0, <2>2, WithoutElements
  <2>4. QED BY <2>3 DEF left
<1>5. Len(cache') <= CacheMax /\ \A n \in DOMAIN cache' : cache'[n] \in ToSet(cache') /\ cache'[n] \in Req
  BY <1>0, <1>4, Elements, RegistryAssumption DEF Typed
<1>6. Typed'
  BY <1>0, <1>1, <1>2, <1>4, <1>5 DEF Typed
<1>7. Answers({}, FALSE) /\ Unjoined({})
  BY <1>0, <1>1, NobodySettles
<1>8. InUse({}, FALSE)
  BY <1>2, <1>3, Phases DEF InUse
<1>9. Requests' /\ Owners' /\ Borrowed' /\ NoCloseUnderOperation'
  BY <1>7, <1>8, UseKept DEF RegistryInv
<1>10. Cache'
  <2>1. PICK at \in [DOMAIN cache' -> DOMAIN cache] :
              /\ \A n \in DOMAIN cache' : cache'[n] = cache[at[n]]
              /\ \A m, n \in DOMAIN cache' : at[m] = at[n] => m = n
    BY <1>4
  <2>2. \A n \in DOMAIN cache' : cache'[n] \in Req /\ cache'[n] \notin S
                                 /\ mgr'[cache'[n]] = mgr[cache[at[n]]]
    BY <1>2, <1>4, <1>5, <2>1
  <2>3. QED BY <2>1, <2>2 DEF RegistryInv, Cache
<1>11. Inflight' /\ Keyed' /\ Leaving'
  <2>1. \A k \in Key : inflight[k] \in Req \cup {None}
    BY <1>0 DEF Typed
  <2>2. Inflight'
    BY <1>1, <1>2, <2>1, Phases DEF RegistryInv, Inflight
  <2>3. Keyed'
    BY <1>2, <1>3, Phases DEF RegistryInv, Keyed
  <2>4. Leaving'
    BY <1>2 DEF RegistryInv, Leaving, Shared
  <2>5. QED BY <2>2, <2>3, <2>4
<1>12. Sole'
  <2> SUFFICES ASSUME ~overlap PROVE Sole'
    BY <1>1 DEF Sole
  <2>1. \A i \in Shared' : mgr'[i].pc \in Building => inflight'[mgr'[i].key] = i
    BY <1>1, <1>2, Phases DEF RegistryInv, Sole, Shared
  <2>2. \A i \in Shared' : mgr'[i].pc = "live" /\ ~mgr'[i].evicted => i \in ToSet(cache')
    BY <1>2, <1>4 DEF RegistryInv, Sole, Shared
  <2>3. \A k \in Key : inflight'[k] # None => At(k)' = {}
    <3>1. \A i \in ToSet(cache') : i \in ToSet(cache) /\ i \in Req
      BY <1>0, <1>4, Elements
    <3>2. \A k \in Key : At(k)' \subseteq At(k)
      BY <1>2, <3>1 DEF At
    <3>3. QED BY <1>1, <3>2 DEF RegistryInv, Sole
  <2>4. QED BY <2>1, <2>2, <2>3 DEF Sole
<1>13. NoneBegins
  <2>1. \A x \in Req : mgr[x].pc \in Building \cup Ended \cup {"live", "closing"}
    BY <1>0 DEF Typed, Managers, Ended
  <2>2. "live" \notin Ended
    BY DEF Ended
  <2>3. QED BY <1>2, <2>1, <2>2, Phases DEF NoneBegins
<1>14. Shutdown'
  BY <1>1, <1>13, ShutdownKept DEF RegistryInv
<1>15. Clients' /\ Counted'
  <2>1. \A x \in Req :
          /\ mgr'[x].client = mgr[x].client
          /\ mgr'[x].pc = mgr[x].pc
             \/ {mgr[x].pc, mgr'[x].pc} \subseteq {"create", "discard", "live", "closing"}
    BY <1>2
  <2>2. QED BY <1>1, <2>1, ClientsKept DEF RegistryInv
<1>16. QED BY <1>6, <1>9, <1>10, <1>11, <1>12, <1>14, <1>15 DEF RegistryInv

\* A request finds manager i, or the initialisation that builds it.
LEMMA Finds ==
  ASSUME RegistryInv, NEW r \in Req, req[r].pc = "new", UNCHANGED mgr,
         NEW i \in Req, NEW how \in {"hold", "wait"},
         req' = [req EXCEPT ![r].pc = how, ![r].on = i],
         ~mgr[i].owned, mgr[i].pc # "none", how = "wait" => mgr[i].pc \in Building
  PROVE  /\ req' \in [Req -> Asked]
         /\ Requests' /\ Owners' /\ Borrowed' /\ NoCloseUnderOperation'
<1>0. Typed /\ None \notin Req
  BY RegistryAssumption DEF RegistryInv
<1>1. /\ req' \in [Req -> Asked] /\ \A x \in Req : x # r => req'[x] = req[x]
      /\ req'[r].pc = how /\ req'[r].on = i
  <2>1. req \in [Req -> Asked] /\ req[r] \in Asked
    BY <1>0 DEF Typed
  <2>2. QED BY <2>1 DEF Asked
<1>2. Requests'
  <2>1. ASSUME NEW x \in Req
        PROVE  /\ req'[x].pc \in Holding <=> req'[x].on # None
               /\ req'[x].pc = "new" => mgr'[x] = NoManager
               /\ req'[x].on # None => mgr'[req'[x].on].pc # "none"
               /\ req'[x].pc = "wait" => mgr'[req'[x].on].pc \in Building
    <3>1. CASE x = r
      BY <1>0, <1>1, <3>1 DEF Holding
    <3>2. CASE x # r
      BY <1>1, <3>2 DEF RegistryInv, Requests
    <3>3. QED BY <3>1, <3>2
  <2>2. QED BY <2>1 DEF Requests
<1>3. Owners'
  BY <1>1 DEF RegistryInv, Owners
<1>4. Borrowed'
  <2>1. \A x \in Req : Operating(x)' = Operating(x)
    BY <1>1 DEF Operating
  <2>2. QED BY <2>1 DEF RegistryInv, Borrowed
<1>5. NoCloseUnderOperation'
  BY <1>1 DEF RegistryInv, NoCloseUnderOperation
<1>6. QED BY <1>1, <1>2, <1>3, <1>4, <1>5

\* The managers keep what the registry and closeAll know of them.
LEMMA Unmoved ==
  ASSUME RegistryInv, UNCHANGED <<mgr, client, registry, closer, server, exit, overlap, torn>>
  PROVE  Shutdown' /\ Clients' /\ Counted'
<1>1. Shutdown'
  BY DEF RegistryInv, Shutdown, Shared
<1>2. Clients' /\ Counted'
  BY ClientsKept DEF RegistryInv
<1>3. QED BY <1>1, <1>2

\* A request takes a cached manager.
LEMMA CachedStep ==
  ASSUME RegistryInv, NEW r \in Req, NEW k \in Key, req[r].pc = "new", Cached(r, k),
         UNCHANGED <<closeGeneration, client, registry, closer, server, exit, torn>>
  PROVE  RegistryInv'
<1>0. Typed /\ cache \in Seq(Req)
  BY DEF RegistryInv, Typed
<1> DEFINE N == Len(cache)
<1>1. /\ N \in Nat /\ DOMAIN cache = 1..N
      /\ \A n \in 1..N : cache[n] \in Req
  BY <1>0
<1>2. PICK p \in 1..N :
        /\ cache' = [n \in 1..N |-> IF n = N THEN cache[p] ELSE cache[IF n < p THEN n ELSE n + 1]]
        /\ req' = [req EXCEPT ![r].pc = "hold", ![r].on = cache[p]]
        /\ UNCHANGED <<mgr, inflight, overlap>>
  BY <1>1 DEF Cached
<1> DEFINE at == [n \in 1..N |-> IF n = N THEN p ELSE IF n < p THEN n ELSE n + 1]
<1> HIDE DEF N
<1>3. at \in [1..N -> 1..N]
  BY <1>1
<1>4. \A m, n \in 1..N : at[m] = at[n] => m = n
  BY <1>1
<1>5. \A m \in 1..N : \E n \in 1..N : at[n] = m
  <2>1. ASSUME NEW m \in 1..N
        PROVE  \E n \in 1..N : at[n] = m
    <3>1. CASE m = p
      <4>1. N \in 1..N /\ at[N] = m
        BY <1>1, <3>1
      <4>2. QED BY <4>1
    <3>2. CASE m < p
      <4>1. m # N /\ at[m] = m
        BY <1>1, <3>2
      <4>2. QED BY <4>1
    <3>3. CASE m > p
      <4>1. m - 1 \in 1..N /\ m - 1 # N /\ ~(m - 1 < p) /\ (m - 1) + 1 = m
        BY <1>1, <3>3
      <4>2. at[m - 1] = m
        BY <4>1
      <4>3. QED BY <4>1, <4>2
    <3>4. QED BY <1>1, <3>1, <3>2, <3>3
  <2>2. QED BY <2>1
<1>6. cache' = [n \in 1..N |-> cache[at[n]]]
  <2>1. \A n \in 1..N :
          (IF n = N THEN cache[p] ELSE cache[IF n < p THEN n ELSE n + 1]) = cache[at[n]]
    BY <1>1
  <2>2. QED BY <1>2, <2>1
<1> HIDE DEF at
<1>7. /\ cache' \in Seq(Req) /\ Len(cache') = N /\ DOMAIN cache' = 1..N
      /\ \A n \in 1..N : cache'[n] = cache[at[n]]
  <2>1. cache' \in [1..N -> Req]
    BY <1>1, <1>3, <1>6
  <2>2. QED BY <1>1, <1>6, <2>1
<1>8. ToSet(cache') = ToSet(cache)
  <2>1. ToSet(cache') \subseteq ToSet(cache)
    BY <1>1, <1>3, <1>7 DEF ToSet
  <2>2. \A y \in ToSet(cache) : \E m \in 1..N : y = cache[m]
    BY <1>1 DEF ToSet
  <2>3. ASSUME NEW y \in ToSet(cache)
        PROVE  \E n \in 1..N : y = cache'[n]
    <3>1. PICK m \in 1..N : y = cache[m]
      BY <2>2
    <3>2. PICK n \in 1..N : at[n] = m
      BY <1>5
    <3>3. y = cache'[n]
      BY <1>7, <3>1, <3>2
    <3>4. QED BY <3>3
  <2>4. \A n \in 1..N : cache'[n] \in ToSet(cache')
    BY <1>7 DEF ToSet
  <2>5. QED BY <2>1, <2>3, <2>4
<1>9. /\ cache[p] \in Req /\ mgr[cache[p]].pc = "live" /\ ~mgr[cache[p]].owned
  BY <1>1 DEF RegistryInv, Cache
<1>10. /\ req' \in [Req -> Asked]
       /\ Requests' /\ Owners' /\ Borrowed' /\ NoCloseUnderOperation'
  BY <1>2, <1>9, Finds
<1>11. Typed'
  <2>1. Len(cache) <= CacheMax
    BY <1>0 DEF Typed
  <2>2. Len(cache') <= CacheMax
    BY <1>7, <2>1 DEF N
  <2>3. QED BY <1>0, <1>2, <1>7, <1>10, <2>2 DEF Typed
<1>12. Cache'
  <2>1. /\ \A n \in 1..N :
             mgr[cache[n]].pc = "live" /\ ~mgr[cache[n]].evicted /\ ~mgr[cache[n]].owned
        /\ \A m, n \in 1..N : m # n => mgr[cache[m]].key # mgr[cache[n]].key
    BY <1>1 DEF RegistryInv, Cache
  <2>2. ASSUME NEW m \in 1..N, NEW n \in 1..N
        PROVE  /\ mgr'[cache'[n]] = mgr[cache[at[n]]] /\ at[n] \in 1..N /\ at[m] \in 1..N
               /\ m # n => mgr'[cache'[m]].key # mgr'[cache'[n]].key
    <3>1. at[n] \in 1..N /\ at[m] \in 1..N /\ (m # n => at[m] # at[n])
      BY <1>3, <1>4
    <3>2. mgr'[cache'[n]] = mgr[cache[at[n]]] /\ mgr'[cache'[m]] = mgr[cache[at[m]]]
      BY <1>2, <1>7
    <3>3. QED BY <2>1, <3>1, <3>2
  <2>3. QED BY <1>7, <2>1, <2>2 DEF Cache
<1>13. Inflight' /\ Keyed' /\ Leaving'
  BY <1>2 DEF RegistryInv, Inflight, Keyed, Leaving, Shared
<1>14. Sole'
  BY <1>2, <1>8 DEF RegistryInv, Sole, Shared, At
<1>15. Shutdown' /\ Clients' /\ Counted'
  BY <1>2, Unmoved
<1>16. QED BY <1>10, <1>11, <1>12, <1>13, <1>14, <1>15 DEF RegistryInv

\* A request joins an initialisation.
LEMMA JoinedStep ==
  ASSUME RegistryInv, NEW r \in Req, NEW k \in Key, req[r].pc = "new", Joined(r, k),
         UNCHANGED <<closeGeneration, client, registry, closer, server, exit, torn>>
  PROVE  RegistryInv'
<1>1. Typed /\ UNCHANGED <<mgr, cache, inflight, overlap>> /\ inflight[k] # None
      /\ req' = [req EXCEPT ![r].pc = "wait", ![r].on = inflight[k]]
  BY DEF RegistryInv, Joined
<1>2. /\ inflight[k] \in Req /\ mgr[inflight[k]].pc \in Building
      /\ ~mgr[inflight[k]].owned /\ mgr[inflight[k]].pc # "none"
  BY <1>1, Phases DEF Typed, RegistryInv, Inflight
<1>3. /\ req' \in [Req -> Asked]
      /\ Requests' /\ Owners' /\ Borrowed' /\ NoCloseUnderOperation'
  BY <1>1, <1>2, Finds
<1>4. Typed'
  BY <1>1, <1>3 DEF Typed
<1>5. Cache' /\ Inflight' /\ Keyed' /\ Leaving'
  BY <1>1 DEF RegistryInv, Cache, Inflight, Keyed, Leaving, Shared
<1>6. Sole'
  BY <1>1 DEF RegistryInv, Sole, Shared, At
<1>7. Shutdown' /\ Clients' /\ Counted'
  BY <1>1, Unmoved
<1>8. QED BY <1>3, <1>4, <1>5, <1>6, <1>7 DEF RegistryInv

\* initializeManager begins.
LEMMA InitialisesStep ==
  ASSUME RegistryInv, ~exit, NEW r \in Req, NEW k \in Key, NEW owned \in BOOLEAN,
         req[r].pc = "new", Serving, owned => ~server,
         ~owned => At(k) = {} /\ inflight[k] = None,
         Initialises(r, k, owned),
         UNCHANGED <<closeGeneration, client, registry, closer, server, exit, torn>>
  PROVE  RegistryInv'
<1>0. Typed /\ None \notin Req
  BY RegistryAssumption DEF RegistryInv
<1>1. /\ UNCHANGED <<cache, closeGeneration, client, registry, closer, server, exit, torn>>
      /\ overlap' = (overlap \/ closer.pc \in {"settle", "quiesce", "clients"})
      /\ inflight' = IF owned THEN inflight ELSE [inflight EXCEPT ![k] = r]
  BY DEF Initialises
<1>2. /\ mgr[r] = NoManager /\ mgr[r].pc = "none" /\ ~mgr[r].owned /\ mgr[r].client = None
  <2>1. mgr[r] = NoManager
    BY DEF RegistryInv, Requests
  <2>2. QED BY <2>1 DEF NoManager
<1>3. /\ mgr' \in [Req -> Managers] /\ \A x \in Req : x # r => mgr'[x] = mgr[x]
      /\ mgr'[r].pc = "import" /\ mgr'[r].key = k /\ mgr'[r].owned = owned
      /\ mgr'[r].client = None /\ mgr'[r].borrows = 0 /\ ~mgr'[r].evicted
  <2> DEFINE m == [NoManager EXCEPT !.pc = "import", !.key = k,
                                    !.owned = owned, !.gen = closeGeneration]
  <2>1. mgr' = [mgr EXCEPT ![r] = m]
    BY DEF Initialises
  <2>2. mgr \in [Req -> Managers] /\ closeGeneration \in 0..MaxGen
    BY <1>0 DEF Typed
  <2>3. /\ m \in Managers
        /\ m.pc = "import" /\ m.key = k /\ m.owned = owned
        /\ m.client = None /\ m.borrows = 0 /\ ~m.evicted
    BY <2>2, NoManagerType DEF NoManager, Managers, Building
  <2> HIDE DEF m
  <2>4. QED BY <2>1, <2>2, <2>3
<1>4. /\ req' \in [Req -> Asked] /\ \A x \in Req : x # r => req'[x] = req[x]
      /\ req'[r].pc = "wait" /\ req'[r].on = r
  <2>1. req \in [Req -> Asked] /\ req[r] \in Asked
    BY <1>0 DEF Typed
  <2>2. req' = [req EXCEPT ![r].pc = "wait", ![r].on = r]
    BY DEF Initialises
  <2>3. QED BY <2>1, <2>2 DEF Asked
<1>5. \A x \in Req : req[x].on # r
  BY <1>0, <1>2 DEF RegistryInv, Requests
<1>6. \A k2 \in Key : inflight[k2] \in Req \cup {None} /\ inflight[k2] # r
  BY <1>0, <1>2, Phases DEF Typed, RegistryInv, Inflight
<1>7. /\ inflight' \in [Key -> Req \cup {None}]
      /\ \A k2 \in Key : inflight'[k2] = IF k2 = k /\ ~owned THEN r ELSE inflight[k2]
  BY <1>0, <1>1 DEF Typed
<1>8. Typed'
  <2>1. overlap' \in BOOLEAN
    BY <1>1
  <2>2. QED BY <1>0, <1>1, <1>3, <1>4, <1>7, <2>1 DEF Typed
<1>9. Requests'
  <2>1. ASSUME NEW x \in Req
        PROVE  /\ req'[x].pc \in Holding <=> req'[x].on # None
               /\ req'[x].pc = "new" => mgr'[x] = NoManager
               /\ req'[x].on # None => mgr'[req'[x].on].pc # "none"
               /\ req'[x].pc = "wait" => mgr'[req'[x].on].pc \in Building
    <3>1. CASE x = r
      BY <1>0, <1>3, <1>4, <3>1, Phases DEF Holding
    <3>2. CASE x # r
      <4>1. /\ req[x].pc \in Holding <=> req[x].on # None
            /\ req[x].pc = "new" => mgr[x] = NoManager
            /\ req[x].on # None => mgr[req[x].on].pc # "none"
            /\ req[x].pc = "wait" => mgr[req[x].on].pc \in Building
            /\ req[x].on \in Req \cup {None}
        BY <1>0 DEF RegistryInv, Requests, Typed, Asked
      <4>2. req'[x] = req[x] /\ mgr'[x] = mgr[x]
        BY <1>3, <1>4, <3>2
      <4>3. req[x].on # None => mgr'[req[x].on] = mgr[req[x].on]
        BY <1>3, <1>5, <4>1
      <4>4. req[x].pc = "wait" => req[x].on # None
        BY <4>1 DEF Holding
      <4>5. QED BY <4>1, <4>2, <4>3, <4>4
    <3>3. QED BY <3>1, <3>2
  <2>2. QED BY <2>1 DEF Requests
<1>10. Owners'
  <2>1. ASSUME NEW x \in Req, req'[x].on # None, mgr'[req'[x].on].owned
        PROVE  req'[x].on = x /\ (req'[x].pc \in {"hold", "op"} => mgr'[x].pc = "live")
    <3>1. CASE x = r
      BY <1>4, <3>1
    <3>2. CASE x # r
      <4>1. req'[x] = req[x] /\ req[x].on \in Req /\ mgr'[req[x].on] = mgr[req[x].on]
            /\ mgr'[x] = mgr[x]
        BY <1>0, <1>3, <1>4, <1>5, <2>1, <3>2 DEF Typed, Asked
      <4>2. QED BY <2>1, <4>1 DEF RegistryInv, Owners
    <3>3. QED BY <3>1, <3>2
  <2>2. QED BY <2>1 DEF Owners
<1>11. Borrowed'
  <2>1. \A x \in Req : Operating(x)' = Operating(x)
    <3>1. \A y \in Req : /\ req'[y].pc = "op" <=> req[y].pc = "op"
                         /\ req'[y].pc = "op" => req'[y].on = req[y].on
      BY <1>4
    <3>2. QED BY <3>1 DEF Operating
  <2>2. Operating(r) = {} /\ Cardinality({}) = 0
    BY <1>5, FS_EmptySet DEF Operating
  <2>3. \A x \in Req : mgr[x].borrows = IF mgr[x].owned THEN 0 ELSE Cardinality(Operating(x))
    BY DEF RegistryInv, Borrowed
  <2>4. ASSUME NEW x \in Req
        PROVE  mgr'[x].borrows = IF mgr'[x].owned THEN 0 ELSE Cardinality(Operating(x)')
    <3>1. CASE x = r
      BY <1>3, <2>1, <2>2, <3>1
    <3>2. CASE x # r
      BY <1>3, <2>1, <2>3, <3>2
    <3>3. QED BY <3>1, <3>2
  <2>5. QED BY <2>4 DEF Borrowed
<1>12. NoCloseUnderOperation'
  <2>1. ASSUME NEW x \in Req, req'[x].pc = "op", ~req'[x].late
        PROVE  mgr'[req'[x].on].pc = "live"
    <3>1. x # r /\ req'[x] = req[x] /\ req[x].on \in Req
      BY <1>0, <1>4, <2>1 DEF RegistryInv, Requests, Holding, Typed, Asked
    <3>2. mgr'[req[x].on] = mgr[req[x].on]
      BY <1>3, <1>5, <3>1
    <3>3. QED BY <2>1, <3>1, <3>2 DEF RegistryInv, NoCloseUnderOperation
  <2>2. QED BY <2>1 DEF NoCloseUnderOperation
<1>13. \A n \in DOMAIN cache : cache[n] \in Req /\ mgr'[cache[n]] = mgr[cache[n]]
  <2>1. \A n \in DOMAIN cache : cache[n] \in Req /\ mgr[cache[n]].pc = "live"
    <3>1. cache \in Seq(Req)
      BY <1>0 DEF Typed
    <3>2. QED BY <3>1 DEF RegistryInv, Cache
  <2>2. QED BY <1>2, <1>3, <2>1
<1>14. Cache'
  BY <1>1, <1>13 DEF RegistryInv, Cache
<1>15. Inflight'
  <2>1. ASSUME NEW k2 \in Key, inflight'[k2] # None
        PROVE  /\ mgr'[inflight'[k2]].pc \in Building
               /\ mgr'[inflight'[k2]].key = k2 /\ ~mgr'[inflight'[k2]].owned
    <3>1. CASE k2 = k /\ ~owned
      BY <1>3, <1>7, <3>1, Phases
    <3>2. CASE ~(k2 = k /\ ~owned)
      BY <1>3, <1>6, <1>7, <2>1, <3>2 DEF RegistryInv, Inflight
    <3>3. QED BY <3>1, <3>2
  <2>2. QED BY <2>1 DEF Inflight
<1>16. Keyed' /\ Leaving'
  <2>1. Keyed'
    BY <1>3 DEF RegistryInv, Keyed
  <2>2. Leaving'
    BY <1>3 DEF RegistryInv, Leaving, Shared
  <2>3. QED BY <2>1, <2>2
<1>17. Sole'
  <2> SUFFICES ASSUME ~overlap' PROVE Sole'
    BY DEF Sole
  <2>1. ~overlap
    BY <1>1
  <2>2. ASSUME NEW i \in Req, ~mgr'[i].owned, mgr'[i].pc \in Building
        PROVE  inflight'[mgr'[i].key] = i
    <3>1. CASE i = r
      BY <1>3, <1>7, <2>2, <3>1
    <3>2. CASE i # r
      <4>1. mgr'[i] = mgr[i] /\ mgr[i].key \in Key /\ inflight[mgr[i].key] = i
        BY <1>3, <2>1, <2>2, <3>2 DEF RegistryInv, Keyed, Sole, Shared
      <4>2. QED BY <1>0, <1>7, <4>1
    <3>3. QED BY <3>1, <3>2
  <2>3. ASSUME NEW i \in Req, ~mgr'[i].owned, mgr'[i].pc = "live", ~mgr'[i].evicted
        PROVE  i \in ToSet(cache')
    BY <1>1, <1>3, <2>1, <2>3 DEF RegistryInv, Sole, Shared
  <2>4. ASSUME NEW k2 \in Key, inflight'[k2] # None
        PROVE  At(k2)' = {}
    <3>1. At(k2)' = At(k2)
      <4>1. \A i \in ToSet(cache) : mgr'[i] = mgr[i]
        BY <1>13 DEF ToSet
      <4>2. QED BY <1>1, <4>1 DEF At
    <3>2. CASE k2 = k /\ ~owned
      BY <3>1, <3>2
    <3>3. CASE ~(k2 = k /\ ~owned)
      BY <1>7, <2>1, <2>4, <3>1, <3>3 DEF RegistryInv, Sole
    <3>4. QED BY <3>2, <3>3
  <2>5. QED BY <2>2, <2>3, <2>4 DEF Sole, Shared
<1>18. Shutdown'
  <2>1. ~overlap' => closer.pc \notin {"settle", "quiesce", "clients"}
    BY <1>1
  <2>2. server => ~overlap' /\ \A i \in Req : ~mgr'[i].owned
    <3>1. ASSUME server
          PROVE  ~overlap' /\ \A i \in Req : ~mgr'[i].owned
      <4>1. ~owned /\ closer.pc = "up"
        BY <3>1 DEF Serving
      <4>2. ~overlap /\ \A i \in Req : ~mgr[i].owned
        BY <3>1 DEF RegistryInv, Shutdown
      <4>3. QED BY <1>1, <1>3, <4>1, <4>2
    <3>2. QED BY <3>1
  <2>3. torn => overlap' \/ \E i \in Req : mgr'[i].owned
    <3>1. torn => overlap \/ \E i \in Req : mgr[i].owned
      BY DEF RegistryInv, Shutdown
    <3>2. \A i \in Req : mgr[i].owned => mgr'[i].owned
      BY <1>2, <1>3
    <3>3. QED BY <1>1, <3>1, <3>2
  <2>4. QED BY <1>1, <2>1, <2>2, <2>3 DEF Shutdown
<1>19. Clients'
  <2>1. ASSUME NEW i \in Req
        PROVE  /\ mgr'[i].pc \in {"none", "import"} => client'[i].pc = "none"
               /\ mgr'[i].pc \in Ended \cup {"import"} <=> mgr'[i].client = None
    <3>1. CASE i = r
      BY <1>1, <1>2, <1>3, <3>1 DEF RegistryInv, Clients
    <3>2. CASE i # r
      BY <1>1, <1>3, <3>2 DEF RegistryInv, Clients
    <3>3. QED BY <3>1, <3>2
  <2>2. QED BY <1>1, <2>1 DEF RegistryInv, Clients
<1>20. Counted'
  <2>1. ASSUME NEW c \in Req
        PROVE  Users(c)' = Users(c) /\ r \notin Users(c) /\ Users(c) \subseteq Req
    <3>1. \A i \in Req : Uses(i, c)' <=> Uses(i, c)
      BY <1>0, <1>2, <1>3 DEF Uses
    <3>2. QED BY <1>0, <1>2, <3>1 DEF Users, Uses
  <2>2. \A c \in Req : \A i \in Users(c) : mgr'[i] = mgr[i]
    BY <1>3, <2>1
  <2>3. QED BY <1>1, <2>1, <2>2 DEF RegistryInv, Counted
<1>21. QED BY <1>8, <1>9, <1>10, <1>11, <1>12, <1>14, <1>15, <1>16, <1>17, <1>18, <1>19, <1>20
       DEF RegistryInv

\* getMemorySearchManager.
LEMMA GetStep ==
  ASSUME RegistryInv, ~exit, NEW r \in Req, NEW w \in Wants[r],
         GetMemorySearchManager(r, w[1], w[2])
  PROVE  RegistryInv'
<1>1. w[1] \in Key /\ w[2] \in BOOLEAN
  <2>1. w \in Key \X BOOLEAN
    BY RegistryAssumption
  <2>2. QED BY <2>1
<1>2. /\ req[r].pc = "new" /\ Serving /\ (w[2] => ~server)
      /\ UNCHANGED <<closeGeneration, client, registry, closer, server, exit, torn>>
  BY DEF GetMemorySearchManager
<1>3. \/ w[2] /\ Initialises(r, w[1], TRUE)
      \/ ~w[2] /\ Cached(r, w[1])
      \/ ~w[2] /\ Joined(r, w[1])
      \/ ~w[2] /\ At(w[1]) = {} /\ inflight[w[1]] = None /\ Initialises(r, w[1], FALSE)
  BY <1>1 DEF GetMemorySearchManager
<1>4. CASE w[2] /\ Initialises(r, w[1], TRUE)
  BY <1>1, <1>2, <1>4, InitialisesStep
<1>5. CASE Cached(r, w[1])
  BY <1>1, <1>2, <1>5, CachedStep
<1>6. CASE Joined(r, w[1])
  BY <1>1, <1>2, <1>6, JoinedStep
<1>7. CASE ~w[2] /\ At(w[1]) = {} /\ inflight[w[1]] = None /\ Initialises(r, w[1], FALSE)
  BY <1>1, <1>2, <1>7, InitialisesStep
<1>8. QED BY <1>3, <1>4, <1>5, <1>6, <1>7

\* A manager created before closeAll and finished after its start.
LEMMA DiscardedStep ==
  ASSUME RegistryInv, ~exit, NEW r \in Req, mgr[r].pc = "create",
         mgr' = [mgr EXCEPT ![r].pc = "discard"],
         UNCHANGED <<req, cache, inflight, closeGeneration, client, registry, closer, server,
                     exit, overlap, torn>>
  PROVE  RegistryInv'
<1>0. Typed
  BY DEF RegistryInv
<1>1. /\ mgr' \in [Req -> Managers] /\ \A j \in Req : j # r => mgr'[j] = mgr[j]
      /\ mgr'[r].pc = "discard" /\ mgr'[r].client = mgr[r].client
      /\ mgr'[r].owned = mgr[r].owned /\ mgr'[r].borrows = mgr[r].borrows
      /\ mgr'[r].key = mgr[r].key /\ mgr'[r].evicted = mgr[r].evicted
  <2>1. mgr \in [Req -> Managers] /\ mgr[r] \in Managers
    BY <1>0 DEF Typed
  <2>2. QED BY <2>1 DEF Managers, Building
<1>2. Answers({}, FALSE) /\ Unjoined({})
  BY <1>0, NobodySettles
<1>3. Typed'
  BY <1>0, <1>1 DEF Typed
<1>4. mgr[r].pc \in Building /\ mgr'[r].pc \in Building
  BY <1>1, Phases
<1>5. /\ Requests' /\ Owners' /\ Borrowed' /\ NoCloseUnderOperation'
      /\ Cache' /\ Inflight' /\ Keyed' /\ Leaving' /\ Sole' /\ Shutdown'
  BY <1>1, <1>2, <1>4, OneManager, Phases
<1>6. Clients' /\ Counted'
  <2>1. \A x \in Req :
          /\ mgr'[x].client = mgr[x].client
          /\ mgr'[x].pc = mgr[x].pc
             \/ {mgr[x].pc, mgr'[x].pc} \subseteq {"create", "discard", "live", "closing"}
    BY <1>1
  <2>2. QED BY <2>1, ClientsKept DEF RegistryInv
<1>7. QED BY <1>3, <1>5, <1>6 DEF RegistryInv

\* What cacheManager makes of the cache, and of the managers of V that it evicts: r is
\* under its key, and the others keep theirs.
Recached(r, V) ==
  /\ V \in SUBSET ToSet(cache)
  /\ mgr' = Evicted([mgr EXCEPT ![r].pc = "live"], V)
  /\ cache' \in Seq(Req) /\ Len(cache') <= CacheMax
  /\ \A n \in DOMAIN cache' :
       /\ cache'[n] \in Req /\ cache'[n] \notin V
       /\ cache'[n] = r \/ (cache'[n] \in ToSet(cache) /\ mgr[cache'[n]].key # mgr[r].key)
  /\ \A m, n \in DOMAIN cache' : m # n => mgr[cache'[m]].key # mgr[cache'[n]].key
  /\ At(mgr[r].key) = {} => ToSet(cache) \cup {r} \subseteq ToSet(cache') \cup V

\* What cacheManager evicts was cached before.
LEMMA CacheManagerFields ==
  ASSUME RegistryInv, NEW r \in Req, mgr[r].pc = "create", ~mgr[r].owned, CacheManager(r)
  PROVE  \E V : Recached(r, V)
<1> DEFINE k == mgr[r].key
           N == Len(cache)
           set == IF At(k) = {} THEN Append(cache, r)
                  ELSE [n \in DOMAIN cache |-> IF cache[n] \in At(k) THEN r ELSE cache[n]]
           V == IF Len(set) > CacheMax THEN {Head(set)} ELSE {}
<1>0. Typed /\ cache \in Seq(Req) /\ N <= CacheMax /\ N = Len(cache)
  BY DEF RegistryInv, Typed
<1>1. /\ N \in Nat /\ DOMAIN cache = 1..N /\ CacheMax \in Nat \ {0}
      /\ \A n \in 1..N : /\ cache[n] \in Req /\ cache[n] \in ToSet(cache)
                         /\ cache[n] # r /\ mgr[cache[n]].pc = "live"
      /\ \A x \in ToSet(cache) : \E n \in 1..N : x = cache[n]
  <2>1. /\ N \in Nat /\ DOMAIN cache = 1..N /\ CacheMax \in Nat \ {0}
        /\ \A n \in 1..N : cache[n] \in Req /\ cache[n] \in ToSet(cache)
        /\ \A x \in ToSet(cache) : \E n \in 1..N : x = cache[n]
    BY <1>0, Elements, RegistryAssumption
  <2>2. QED BY <2>1 DEF RegistryInv, Cache
<1>2. \A m, n \in 1..N : m # n => mgr[cache[m]].key # mgr[cache[n]].key
  BY <1>1 DEF RegistryInv, Cache
<1>3. \A n \in 1..N : cache[n] \in At(k) <=> mgr[cache[n]].key = k
  BY <1>1 DEF At
<1>4. /\ cache' = IF Len(set) > CacheMax THEN Tail(set) ELSE set
      /\ mgr' = Evicted([mgr EXCEPT ![r].pc = "live"], V)
  BY DEF CacheManager
<1>5. /\ set \in Seq(Req)
      /\ Len(set) = IF At(k) = {} THEN N + 1 ELSE N
      /\ \A n \in 1..N : set[n] = IF cache[n] \in At(k) THEN r ELSE cache[n]
      /\ At(k) = {} => set[N + 1] = r
  <2>1. CASE At(k) = {}
    BY <1>0, <1>1, <2>1, Appended
  <2>2. CASE At(k) # {}
    <3>1. set = [n \in 1..N |-> IF cache[n] \in At(k) THEN r ELSE cache[n]]
      BY <1>1, <2>2
    <3> HIDE DEF set
    <3>2. set \in [1..N -> Req]
      BY <1>1, <3>1
    <3>3. set \in Seq(Req) /\ Len(set) = N
      BY <1>1, <3>2
    <3>4. \A n \in 1..N : set[n] = IF cache[n] \in At(k) THEN r ELSE cache[n]
      BY <3>1
    <3> HIDE DEF k, N
    <3>5. QED BY <2>2, <3>3, <3>4
  <2>3. QED BY <2>1, <2>2
<1> HIDE DEF N, set, k
<1>6. Len(set) \in Nat /\ DOMAIN set = 1..Len(set) /\ \A n \in 1..Len(set) : set[n] \in Req
  BY <1>5
<1>7. \A n \in 1..Len(set) :
        set[n] = r \/ (set[n] \in ToSet(cache) /\ mgr[set[n]].key # k)
  <2>1. ASSUME NEW n \in 1..Len(set)
        PROVE  set[n] = r \/ (set[n] \in ToSet(cache) /\ mgr[set[n]].key # k)
    <3>1. CASE n \in 1..N
      BY <1>1, <1>3, <1>5, <3>1
    <3>2. CASE n \notin 1..N
      BY <1>1, <1>5, <2>1, <3>2
    <3>3. QED BY <3>1, <3>2
  <2>2. QED BY <2>1
<1>8. \A m, n \in 1..Len(set) : m # n => mgr[set[m]].key # mgr[set[n]].key
  <2>1. ASSUME NEW m \in 1..Len(set), NEW n \in 1..Len(set), m # n, m \in 1..N, n \in 1..N
        PROVE  mgr[set[m]].key # mgr[set[n]].key
    <3>1. mgr[r].key = k
      BY DEF k
    <3>2. mgr[cache[m]].key # mgr[cache[n]].key
      BY <1>2, <2>1
    <3>3. /\ set[m] = IF cache[m] \in At(k) THEN r ELSE cache[m]
          /\ set[n] = IF cache[n] \in At(k) THEN r ELSE cache[n]
          /\ cache[m] \in At(k) <=> mgr[cache[m]].key = k
          /\ cache[n] \in At(k) <=> mgr[cache[n]].key = k
      BY <1>3, <1>5, <2>1
    <3>4. mgr[set[m]].key = mgr[cache[m]].key /\ mgr[set[n]].key = mgr[cache[n]].key
      BY <3>1, <3>3
    <3>5. QED BY <3>2, <3>4
  <2>2. ASSUME NEW m \in 1..Len(set), NEW n \in 1..N, m \notin 1..N
        PROVE  mgr[set[m]].key # mgr[set[n]].key
    <3>1. At(k) = {} /\ m = N + 1 /\ set[m] = r
      BY <1>1, <1>5, <2>2
    <3>2. set[n] = cache[n] /\ mgr[cache[n]].key # k
      BY <1>3, <1>5, <3>1
    <3>3. QED BY <3>1, <3>2 DEF k
  <2>3. \A m, n \in 1..Len(set) : m \notin 1..N /\ n \notin 1..N => m = n
    BY <1>1, <1>5
  <2>4. ASSUME NEW m \in 1..Len(set), NEW n \in 1..Len(set), m # n
        PROVE  mgr[set[m]].key # mgr[set[n]].key
    <3>1. CASE m \in 1..N /\ n \in 1..N
      BY <2>1, <2>4, <3>1
    <3>2. CASE m \notin 1..N /\ n \in 1..N
      BY <2>2, <3>2
    <3>3. CASE m \in 1..N /\ n \notin 1..N
      BY <2>2, <3>3
    <3>4. QED BY <2>3, <2>4, <3>1, <3>2, <3>3
  <2>5. QED BY <2>4
<1>9. At(k) = {} => ToSet(cache) \cup {r} \subseteq ToSet(set)
  <2>1. ASSUME At(k) = {}, NEW x \in ToSet(cache) \cup {r}
        PROVE  \E n \in 1..Len(set) : x = set[n]
    <3>1. CASE x = r
      <4>1. N + 1 \in 1..Len(set) /\ set[N + 1] = r
        BY <1>1, <1>5, <2>1
      <4>2. QED BY <3>1, <4>1
    <3>2. CASE x \in ToSet(cache)
      <4>1. PICK n \in 1..N : x = cache[n]
        BY <1>1, <3>2
      <4>2. n \in 1..Len(set) /\ set[n] = cache[n]
        BY <1>1, <1>5, <2>1, <4>1
      <4>3. QED BY <4>1, <4>2
    <3>3. QED BY <2>1, <3>1, <3>2
  <2>2. \A n \in 1..Len(set) : set[n] \in ToSet(set)
    BY <1>6 DEF ToSet
  <2>3. QED BY <2>1, <2>2
<1>10. CASE Len(set) > CacheMax
  <2>1. At(k) = {} /\ Len(set) = N + 1 /\ N = CacheMax /\ 1 \in 1..N
    BY <1>0, <1>1, <1>5, <1>10
  <2>2. /\ set # << >> /\ Tail(set) \in Seq(Req) /\ Len(Tail(set)) = N
        /\ DOMAIN Tail(set) = 1..N
        /\ \A n \in 1..N : Tail(set)[n] = set[n + 1]
        /\ Head(set) = set[1] /\ ToSet(set) \subseteq ToSet(Tail(set)) \cup {set[1]}
    <3>1. set # << >>
      BY <1>1, <2>1
    <3>2. QED BY <1>1, <1>5, <2>1, <3>1, Dequeued
  <2>3. set[1] \in ToSet(cache) /\ V = {set[1]}
    <3>1. set[1] = cache[1]
      BY <1>5, <2>1
    <3>2. QED BY <1>1, <1>10, <2>1, <2>2, <3>1
  <2>4. cache' = Tail(set)
    BY <1>4, <1>10
  <2> DEFINE left == Tail(set)
  <2>5. /\ left \in Seq(Req) /\ Len(left) = N /\ DOMAIN left = 1..N
        /\ \A n \in 1..N : left[n] = set[n + 1]
        /\ ToSet(set) \subseteq ToSet(left) \cup V
    BY <2>2, <2>3
  <2> HIDE DEF left, V
  <2>6. \A n \in 1..N : n + 1 \in 1..Len(set) /\ 1 \in 1..Len(set) /\ n + 1 # 1
    BY <1>1, <2>1
  <2>7. \A n \in 1..N :
          /\ left[n] \in Req /\ left[n] # set[1]
          /\ left[n] = r \/ (left[n] \in ToSet(cache) /\ mgr[left[n]].key # k)
    BY <1>6, <1>7, <1>8, <2>5, <2>6
  <2>8. \A m, n \in 1..N : m # n => mgr[left[m]].key # mgr[left[n]].key
    <3>1. ASSUME NEW m \in 1..N, NEW n \in 1..N, m # n
          PROVE  mgr[left[m]].key # mgr[left[n]].key
      <4>1. m + 1 # n + 1
        BY <1>1, <3>1
      <4>2. QED BY <1>8, <2>5, <2>6, <4>1
    <3>2. QED BY <3>1
  <2>9. cache' = left
    BY <2>4 DEF left
  <2>10. V \in SUBSET ToSet(cache) /\ \A n \in 1..N : left[n] \notin V
    BY <2>3, <2>7
  <2>11. N <= CacheMax
    BY <1>0
  <2>12. \A n \in 1..N :
           /\ left[n] \in Req /\ left[n] \notin V
           /\ left[n] = r \/ (left[n] \in ToSet(cache) /\ mgr[left[n]].key # mgr[r].key)
    BY <2>7, <2>10 DEF k
  <2>13. At(mgr[r].key) = {} => ToSet(cache) \cup {r} \subseteq ToSet(left) \cup V
    BY <1>9, <2>5 DEF k
  <2>14. Recached(r, V)
    BY <1>4, <2>5, <2>8, <2>9, <2>10, <2>11, <2>12, <2>13 DEF Recached
  <2>15. QED BY <2>14
<1>11. CASE ~(Len(set) > CacheMax)
  <2>1. cache' = set /\ V = {}
    BY <1>4, <1>11
  <2>2. Len(set) <= CacheMax
    BY <1>1, <1>6, <1>11
  <2> HIDE DEF V
  <2>3. \A n \in DOMAIN set :
           /\ set[n] \in Req /\ set[n] \notin V
           /\ set[n] = r \/ (set[n] \in ToSet(cache) /\ mgr[set[n]].key # mgr[r].key)
    BY <1>6, <1>7, <2>1 DEF k
  <2>4. \A m, n \in DOMAIN set : m # n => mgr[set[m]].key # mgr[set[n]].key
    BY <1>6, <1>8
  <2>5. At(mgr[r].key) = {} => ToSet(cache) \cup {r} \subseteq ToSet(set) \cup V
    BY <1>9 DEF k
  <2>6. Recached(r, V)
    BY <1>4, <1>5, <2>1, <2>2, <2>3, <2>4, <2>5 DEF Recached
  <2>7. QED BY <2>6
<1>12. QED BY <1>10, <1>11

\* An owned manager is ready.
LEMMA OwnedReadyStep ==
  ASSUME RegistryInv, ~exit, NEW r \in Req, mgr[r].pc = "create", mgr[r].owned,
         mgr' = [mgr EXCEPT ![r].pc = "live"], InitSettles({r}, TRUE),
         UNCHANGED <<cache, closeGeneration, client, registry, closer, server, exit,
                     overlap, torn>>
  PROVE  RegistryInv'
<1>0. Typed
  BY DEF RegistryInv
<1>1. /\ mgr' \in [Req -> Managers] /\ \A j \in Req : j # r => mgr'[j] = mgr[j]
      /\ mgr'[r].pc = "live" /\ mgr'[r].client = mgr[r].client
      /\ mgr'[r].owned = mgr[r].owned /\ mgr'[r].borrows = mgr[r].borrows
      /\ mgr'[r].key = mgr[r].key /\ mgr'[r].evicted = mgr[r].evicted
  <2>1. mgr \in [Req -> Managers] /\ mgr[r] \in Managers
    BY <1>0 DEF Typed
  <2>2. QED BY <2>1 DEF Managers, Building
<1>2. req' \in [Req -> Asked] /\ Answers({r}, TRUE) /\ Unjoined({r})
  BY <1>0, SettledFields
<1>3. Typed'
  BY <1>0, <1>1, <1>2 DEF Typed, Unjoined
<1>4. InUse({r}, TRUE)
  BY <1>1, Phases DEF InUse
<1>5. InService({r})
  <2>1. \A x \in Req : mgr[x].pc = "closing" /\ ~mgr[x].owned => mgr[x].evicted
    BY DEF RegistryInv, Leaving, Shared
  <2>2. QED BY <1>1, <2>1, Phases DEF InService
<1>6. NoneBegins
  <2>1. \A x \in Req : mgr[x].pc \in Building \cup Ended \cup {"live", "closing"}
    BY <1>0 DEF Typed, Managers, Ended
  <2>2. "create" \notin Ended
    BY DEF Ended
  <2>3. QED BY <1>1, <2>1, <2>2, Phases DEF NoneBegins
<1>7. Requests' /\ Owners' /\ Borrowed' /\ NoCloseUnderOperation'
  BY <1>2, <1>4, UseKept DEF RegistryInv
<1>8. Cache' /\ Inflight' /\ Keyed' /\ Leaving' /\ Sole'
  BY <1>2, <1>5, ServiceKept DEF RegistryInv
<1>9. Shutdown'
  BY <1>6, ShutdownKept DEF RegistryInv
<1>10. Clients' /\ Counted'
  <2>1. \A x \in Req :
          /\ mgr'[x].client = mgr[x].client
          /\ mgr'[x].pc = mgr[x].pc
             \/ {mgr[x].pc, mgr'[x].pc} \subseteq {"create", "discard", "live", "closing"}
    BY <1>1
  <2>2. QED BY <2>1, ClientsKept DEF RegistryInv
<1>11. QED BY <1>3, <1>7, <1>8, <1>9, <1>10 DEF RegistryInv

\* A manager is ready and goes into the cache.
LEMMA CachedReadyStep ==
  ASSUME RegistryInv, ~exit, NEW r \in Req, mgr[r].pc = "create", ~mgr[r].owned,
         CacheManager(r), InitSettles({r}, TRUE),
         UNCHANGED <<closeGeneration, client, registry, closer, server, exit, overlap, torn>>
  PROVE  RegistryInv'
<1>0. Typed /\ None \notin Req
  BY RegistryAssumption DEF RegistryInv
<1> DEFINE k == mgr[r].key
<1>1. k \in Key /\ ~mgr[r].evicted /\ mgr[r].pc \in Building /\ k = mgr[r].key
  BY Phases DEF RegistryInv, Keyed
<1>2. PICK V : Recached(r, V)
  BY CacheManagerFields
<1>3. \A x \in ToSet(cache) :
        x \in Req /\ mgr[x].pc = "live" /\ ~mgr[x].evicted /\ ~mgr[x].owned /\ x # r
  <2>1. cache \in Seq(Req)
    BY <1>0 DEF Typed
  <2>2. \A x \in ToSet(cache) : x \in Req /\ mgr[x].pc = "live" /\ ~mgr[x].evicted /\ ~mgr[x].owned
    BY <2>1, Elements DEF RegistryInv, Cache
  <2>3. QED BY <2>2
<1>4. V \in SUBSET Req /\ r \notin V /\ \A x \in V : mgr[x].pc = "live" /\ ~mgr[x].owned
  BY <1>2, <1>3 DEF Recached
<1>5. /\ mgr' \in [Req -> Managers]
      /\ \A i \in Req :
           /\ mgr'[i].owned = mgr[i].owned /\ mgr'[i].key = mgr[i].key
           /\ mgr'[i].client = mgr[i].client /\ mgr'[i].borrows = mgr[i].borrows
           /\ mgr'[i].evicted = (mgr[i].evicted \/ i \in V)
           /\ i \notin V /\ i # r => mgr'[i] = mgr[i]
           /\ mgr'[i].pc = IF i = r THEN "live"
                           ELSE IF i \in V /\ mgr[i].borrows = 0 THEN "closing" ELSE mgr[i].pc
  <2> DEFINE m == [mgr EXCEPT ![r].pc = "live"]
  <2>1. /\ m \in [Req -> Managers] /\ \A i \in Req : i # r => m[i] = mgr[i]
        /\ m[r].pc = "live" /\ m[r].client = mgr[r].client
        /\ m[r].owned = mgr[r].owned /\ m[r].borrows = mgr[r].borrows
        /\ m[r].key = mgr[r].key /\ m[r].evicted = mgr[r].evicted
    <3>1. mgr \in [Req -> Managers] /\ mgr[r] \in Managers
      BY <1>0 DEF Typed
    <3>2. QED BY <3>1 DEF Managers
  <2>2. mgr' = Evicted(m, V)
    BY <1>2 DEF Recached
  <2> HIDE DEF m
  <2>3. QED BY <1>4, <2>1, <2>2, EvictedFields
<1>6. req' \in [Req -> Asked] /\ Answers({r}, TRUE) /\ Unjoined({r})
  BY <1>0, SettledFields
<1>7. Typed'
  BY <1>0, <1>2, <1>5, <1>6 DEF Typed, Unjoined, Recached
<1>8. InUse({r}, TRUE)
  BY <1>1, <1>4, <1>5, Phases DEF InUse
<1>9. Requests' /\ Owners' /\ Borrowed' /\ NoCloseUnderOperation'
  BY <1>6, <1>8, UseKept DEF RegistryInv
<1> HIDE DEF k
<1>10. Cache'
  <2>1. \A n \in DOMAIN cache' :
          /\ mgr'[cache'[n]].pc = "live" /\ ~mgr'[cache'[n]].evicted /\ ~mgr'[cache'[n]].owned
          /\ mgr'[cache'[n]].key = mgr[cache'[n]].key
    <3>1. ASSUME NEW n \in DOMAIN cache'
          PROVE  /\ mgr'[cache'[n]].pc = "live" /\ ~mgr'[cache'[n]].evicted /\ ~mgr'[cache'[n]].owned
                 /\ mgr'[cache'[n]].key = mgr[cache'[n]].key
      <4>1. cache'[n] \in Req /\ cache'[n] \notin V /\ (cache'[n] = r \/ cache'[n] \in ToSet(cache))
        BY <1>2 DEF Recached
      <4>2. QED BY <1>1, <1>3, <1>5, <4>1
    <3>2. QED BY <3>1
  <2>2. \A m, n \in DOMAIN cache' : m # n => mgr[cache'[m]].key # mgr[cache'[n]].key
    BY <1>2 DEF Recached
  <2>3. QED BY <2>1, <2>2 DEF Cache
<1>11. \A k2 \in Key : IF k2 = k THEN inflight'[k2] = None ELSE inflight'[k2] = inflight[k2]
  BY <1>1, <1>6 DEF Unjoined
<1>12. Inflight'
  <2>1. ASSUME NEW k2 \in Key, inflight'[k2] # None
        PROVE  /\ mgr'[inflight'[k2]].pc \in Building
               /\ mgr'[inflight'[k2]].key = k2 /\ ~mgr'[inflight'[k2]].owned
    <3>1. k2 # k /\ inflight'[k2] = inflight[k2]
      BY <1>11, <2>1
    <3>2. /\ inflight[k2] \in Req /\ mgr[inflight[k2]].pc \in Building
          /\ mgr[inflight[k2]].key = k2 /\ ~mgr[inflight[k2]].owned
      BY <1>0, <2>1, <3>1 DEF Typed, RegistryInv, Inflight
    <3>3. inflight[k2] # r /\ inflight[k2] \notin V
      BY <1>1, <1>4, <3>1, <3>2, Phases
    <3>4. QED BY <1>5, <3>1, <3>2, <3>3
  <2>2. QED BY <2>1 DEF Inflight
<1>13. Keyed' /\ Leaving'
  <2>1. Keyed'
    BY <1>1, <1>4, <1>5, Phases DEF RegistryInv, Keyed
  <2>2. Leaving'
    BY <1>5 DEF RegistryInv, Leaving, Shared
  <2>3. QED BY <2>1, <2>2
<1>14. Sole'
  <2> SUFFICES ASSUME ~overlap PROVE Sole'
    BY DEF Sole
  <2>0. inflight[k] = r /\ At(k) = {}
    <3>1. inflight[k] = r
      BY <1>1 DEF RegistryInv, Sole, Shared
    <3>2. QED BY <1>0, <1>1, <3>1 DEF RegistryInv, Sole
  <2>1. ASSUME NEW i \in Req, ~mgr'[i].owned, mgr'[i].pc \in Building
        PROVE  inflight'[mgr'[i].key] = i
    <3>1. i # r /\ mgr[i].pc \in Building /\ mgr'[i] = mgr[i]
      BY <1>4, <1>5, <2>1, Phases
    <3>2. inflight[mgr[i].key] = i /\ mgr[i].key \in Key
      BY <2>1, <3>1 DEF RegistryInv, Sole, Keyed, Shared
    <3>3. QED BY <1>11, <2>0, <3>1, <3>2
  <2>2. ASSUME NEW i \in Req, ~mgr'[i].owned, mgr'[i].pc = "live", ~mgr'[i].evicted
        PROVE  i \in ToSet(cache')
    <3>1. i \notin V /\ (i = r \/ mgr'[i] = mgr[i])
      BY <1>5, <2>2
    <3>2. i = r \/ i \in ToSet(cache)
      BY <1>5, <2>2, <3>1 DEF RegistryInv, Sole, Shared
    <3>3. ToSet(cache) \cup {r} \subseteq ToSet(cache') \cup V
      BY <1>1, <1>2, <2>0 DEF Recached
    <3>4. QED BY <3>1, <3>2, <3>3
  <2>3. ASSUME NEW k2 \in Key, inflight'[k2] # None
        PROVE  \A i \in ToSet(cache') : mgr'[i].key # k2
    <3>1. k2 # k /\ inflight[k2] # None
      BY <1>11, <2>3
    <3>2. At(k2) = {}
      BY <3>1 DEF RegistryInv, Sole
    <3>3. \A n \in DOMAIN cache' : cache'[n] \in Req /\ (cache'[n] = r \/ cache'[n] \in ToSet(cache))
      BY <1>2 DEF Recached
    <3>4. \A i \in ToSet(cache') : i \in Req /\ (i = r \/ i \in ToSet(cache))
      BY <3>3 DEF ToSet
    <3>5. QED BY <1>1, <1>5, <3>1, <3>2, <3>4 DEF At
  <2>4. QED BY <2>1, <2>2, <2>3 DEF Sole, Shared, At
<1>15. NoneBegins
  <2>1. \A x \in Req : mgr[x].pc \in Building \cup Ended \cup {"live", "closing"}
    BY <1>0 DEF Typed, Managers, Ended
  <2>2. "live" \notin Ended /\ "create" \notin Ended
    BY DEF Ended
  <2>3. QED BY <1>4, <1>5, <2>1, <2>2, Phases DEF NoneBegins
<1>16. Shutdown'
  BY <1>15, ShutdownKept DEF RegistryInv
<1>17. Clients' /\ Counted'
  <2>1. \A x \in Req :
          /\ mgr'[x].client = mgr[x].client
          /\ mgr'[x].pc = mgr[x].pc
             \/ {mgr[x].pc, mgr'[x].pc} \subseteq {"create", "discard", "live", "closing"}
    BY <1>4, <1>5
  <2>2. QED BY <2>1, ClientsKept DEF RegistryInv
<1>18. QED BY <1>7, <1>9, <1>10, <1>12, <1>13, <1>14, <1>16, <1>17 DEF RegistryInv

\* create() returned a manager.
LEMMA CreatedStep ==
  ASSUME RegistryInv, ~exit, NEW r \in Req, Created(r)
  PROVE  RegistryInv'
<1>1. mgr[r].pc = "create"
      /\ UNCHANGED <<closeGeneration, client, registry, closer, server, exit, overlap, torn>>
  BY DEF Created
<1>2. \/ mgr' = [mgr EXCEPT ![r].pc = "discard"] /\ UNCHANGED <<req, cache, inflight>>
      \/ /\ mgr[r].owned /\ mgr' = [mgr EXCEPT ![r].pc = "live"] /\ UNCHANGED cache
         /\ InitSettles({r}, TRUE)
      \/ ~mgr[r].owned /\ CacheManager(r) /\ InitSettles({r}, TRUE)
  BY DEF Created
<1>3. CASE mgr' = [mgr EXCEPT ![r].pc = "discard"] /\ UNCHANGED <<req, cache, inflight>>
  BY <1>1, <1>3, DiscardedStep
<1>4. CASE /\ mgr[r].owned /\ mgr' = [mgr EXCEPT ![r].pc = "live"] /\ UNCHANGED cache
           /\ InitSettles({r}, TRUE)
  BY <1>1, <1>4, OwnedReadyStep
<1>5. CASE ~mgr[r].owned /\ CacheManager(r) /\ InitSettles({r}, TRUE)
  BY <1>1, <1>5, CachedReadyStep
<1>6. QED BY <1>2, <1>3, <1>4, <1>5

\* A stop signal.
LEMMA SignalStep ==
  ASSUME RegistryInv, Signal
  PROVE  RegistryInv'
<1>1. /\ closer' = [closer EXCEPT !.pc = "drain"]
      /\ UNCHANGED <<req, mgr, cache, inflight, closeGeneration, client, registry, server, exit,
                     overlap, torn>>
  BY DEF Signal
<1>2. Typed
  BY DEF RegistryInv
<1>3. closer' \in [pc : {"up", "drain", "settle", "quiesce", "clients"}, wait : SUBSET Req]
      /\ closer'.pc = "drain"
  BY <1>1, <1>2 DEF Typed
<1>4. Typed'
  BY <1>1, <1>2, <1>3 DEF Typed
<1>5. Shutdown'
  BY <1>1, <1>3 DEF RegistryInv, Shutdown, Shared
<1>6. Clients' /\ Counted'
  BY <1>1, ClientsKept DEF RegistryInv
<1>7. QED BY <1>1, <1>4, <1>5, <1>6, ManagersBeside DEF RegistryInv

\* closeAll begins: it awaits what is in flight, and unless a get overlaps it, nothing
\* else is being built.
LEMMA CloseAllStep ==
  ASSUME RegistryInv, CloseAll
  PROVE  RegistryInv'
<1>1. /\ closer' = [pc |-> "settle", wait |-> {inflight[k] : k \in Key} \ {None}]
      /\ closeGeneration' = closeGeneration + 1 /\ closeGeneration < MaxGen
      /\ UNCHANGED <<req, mgr, cache, inflight, client, registry, server, exit, overlap, torn>>
  BY DEF CloseAll
<1>2. Typed /\ None \notin Req
  BY RegistryAssumption DEF RegistryInv
<1>3. /\ closer' \in [pc : {"up", "drain", "settle", "quiesce", "clients"}, wait : SUBSET Req]
      /\ closer'.pc = "settle" /\ \A k \in Key : inflight[k] # None => inflight[k] \in closer'.wait
  BY <1>1, <1>2 DEF Typed
<1>4. Typed'
  <2>1. closeGeneration' \in 0..MaxGen
    BY <1>1, <1>2, RegistryAssumption DEF Typed
  <2>2. QED BY <1>1, <1>2, <1>3, <2>1 DEF Typed
<1>5. Shutdown'
  <2>1. ASSUME ~overlap, NEW i \in Shared, mgr[i].pc \in Building
        PROVE  i \in closer'.wait
    <3>1. inflight[mgr[i].key] = i /\ mgr[i].key \in Key /\ i # None
      BY <1>2, <2>1 DEF RegistryInv, Sole, Keyed, Shared
    <3>2. QED BY <1>3, <3>1
  <2>2. Shared' = Shared
    BY <1>1 DEF Shared
  <2>3. /\ server => ~overlap /\ \A i \in Req : ~mgr[i].owned
        /\ exit => server /\ \A i \in Shared : mgr[i].pc \in Ended
        /\ torn => overlap \/ \E i \in Req : mgr[i].owned
    BY DEF RegistryInv, Shutdown
  <2>4. QED BY <1>1, <1>3, <2>1, <2>2, <2>3 DEF Shutdown
<1>6. Clients' /\ Counted'
  BY <1>1, ClientsKept DEF RegistryInv
<1>7. QED BY <1>1, <1>4, <1>5, <1>6, ManagersBeside DEF RegistryInv

\* What is cached is evicted, and what is evicted and open is awaited.
LEMMA CloseEntriesStep ==
  ASSUME RegistryInv, ~exit, CloseEntries
  PROVE  RegistryInv'
<1>0. Typed
  BY DEF RegistryInv
<1> DEFINE V == ToSet(cache)
<1>1. /\ closer.pc = "settle" /\ \A i \in closer.wait : mgr[i].pc \notin Building
      /\ inflight' = [k \in Key |-> None] /\ cache' = << >>
      /\ mgr' = Evicted(mgr, V)
      /\ closer' = [pc |-> "quiesce", wait |-> Pending(mgr')]
      /\ UNCHANGED <<req, closeGeneration, client, registry, server, exit, overlap, torn>>
  BY DEF CloseEntries
<1>2. \A x \in V : x \in Req /\ mgr[x].pc = "live" /\ ~mgr[x].owned
  <2>1. cache \in Seq(Req)
    BY <1>0 DEF Typed
  <2>2. QED BY <2>1, Elements DEF RegistryInv, Cache
<1>3. /\ mgr' \in [Req -> Managers]
      /\ \A i \in Req :
           /\ mgr'[i].owned = mgr[i].owned /\ mgr'[i].key = mgr[i].key
           /\ mgr'[i].client = mgr[i].client /\ mgr'[i].borrows = mgr[i].borrows
           /\ mgr'[i].evicted = (mgr[i].evicted \/ i \in V)
           /\ mgr'[i].pc = IF i \in V /\ mgr[i].pc = "live" /\ mgr[i].borrows = 0
                           THEN "closing" ELSE mgr[i].pc
           /\ i \notin V => mgr'[i] = mgr[i]
  <2>1. mgr \in [Req -> Managers]
    BY <1>0 DEF Typed
  <2> HIDE DEF V
  <2>2. QED BY <1>1, <2>1, EvictedFields
<1>4. /\ closer' \in [pc : {"up", "drain", "settle", "quiesce", "clients"}, wait : SUBSET Req]
      /\ closer'.pc = "quiesce" /\ closer'.wait = Pending(mgr')
  <2>1. Pending(mgr') \in SUBSET Req
    BY DEF Pending
  <2>2. QED BY <1>1, <2>1
<1>5. cache' \in Seq(Req) /\ Len(cache') = 0 /\ DOMAIN cache' = {} /\ ToSet(cache') = {}
  BY <1>1 DEF ToSet
<1>6. inflight' \in [Key -> Req \cup {None}] /\ \A k \in Key : inflight'[k] = None
  BY <1>1
<1>7. Typed'
  <2>1. Len(cache') <= CacheMax
    BY <1>5, RegistryAssumption
  <2>2. QED BY <1>0, <1>1, <1>3, <1>4, <1>5, <1>6, <2>1 DEF Typed
<1>8. Answers({}, FALSE) /\ InUse({}, FALSE)
  <2>1. Answers({}, FALSE)
    BY <1>1 DEF Answers
  <2>2. InUse({}, FALSE)
    BY <1>2, <1>3, Phases DEF InUse
  <2>3. QED BY <2>1, <2>2
<1>9. Requests' /\ Owners' /\ Borrowed' /\ NoCloseUnderOperation'
  BY <1>8, UseKept DEF RegistryInv
<1>10. Cache' /\ Inflight' /\ Keyed' /\ Leaving'
  <2>1. Cache' /\ Inflight'
    BY <1>5, <1>6 DEF Cache, Inflight
  <2>2. Keyed'
    BY <1>2, <1>3, Phases DEF RegistryInv, Keyed
  <2>3. Leaving'
    BY <1>3 DEF RegistryInv, Leaving, Shared
  <2>4. QED BY <2>1, <2>2, <2>3
<1>11. ASSUME ~overlap, NEW i \in Req, ~mgr[i].owned
       PROVE  /\ mgr'[i].pc \notin Building
              /\ mgr'[i].pc = "live" => mgr'[i].evicted
              /\ mgr'[i].pc = "closing" => mgr'[i].evicted
  <2>1. mgr[i].pc \notin Building
    BY <1>1, <1>11 DEF RegistryInv, Shutdown, Shared
  <2>2. mgr[i].pc = "live" => mgr[i].evicted \/ i \in V
    BY <1>11 DEF RegistryInv, Sole, Shared
  <2>3. mgr[i].pc = "closing" => mgr[i].evicted
    BY <1>11 DEF RegistryInv, Leaving, Shared
  <2> HIDE DEF V
  <2>4. QED BY <1>3, <2>1, <2>2, <2>3, Phases
<1>12. Sole'
  BY <1>1, <1>3, <1>6, <1>11 DEF Sole, Shared
<1>13. Shutdown'
  <2>1. ASSUME ~overlap, NEW i \in Req, ~mgr[i].owned
        PROVE  mgr'[i].pc \in Ended \/ (mgr'[i].pc \in {"live", "closing"} /\ i \in Pending(mgr'))
    <3>1. mgr'[i].pc \in Building \cup Ended \cup {"live", "closing"}
      BY <1>3 DEF Managers, Ended
    <3>2. QED BY <1>11, <2>1, <3>1 DEF Pending
  <2>2. /\ server => ~overlap /\ \A i \in Req : ~mgr[i].owned
        /\ torn => overlap \/ \E i \in Req : mgr[i].owned
    BY DEF RegistryInv, Shutdown
  <2>3. UNCHANGED <<overlap, server, exit, torn>> /\ \A i \in Req : mgr'[i].owned = mgr[i].owned
    BY <1>1, <1>3
  <2>4. QED BY <1>4, <2>1, <2>2, <2>3 DEF Shutdown, Shared
<1>14. Clients' /\ Counted'
  <2>1. \A x \in Req :
          /\ mgr'[x].client = mgr[x].client
          /\ mgr'[x].pc = mgr[x].pc
             \/ {mgr[x].pc, mgr'[x].pc} \subseteq {"create", "discard", "live", "closing"}
    BY <1>3
  <2>2. QED BY <1>1, <2>1, ClientsKept DEF RegistryInv
<1>15. QED BY <1>7, <1>9, <1>10, <1>12, <1>13, <1>14 DEF RegistryInv

\* closeAllSharedMongoClients: by now only a get that overlapped closeAll, or the owner
\* of a manager, can still use a client.
LEMMA CloseClientsStep ==
  ASSUME RegistryInv, CloseClients
  PROVE  RegistryInv'
<1>0. Typed /\ None \notin Req /\ Clients /\ Counted
  BY RegistryAssumption DEF RegistryInv
<1>1. /\ closer.pc = "quiesce" /\ \A i \in closer.wait : mgr[i].pc = "closed"
      /\ registry' = None
      /\ closer' = [pc |-> "clients", wait |-> {registry} \ {None}]
      /\ client' = IF registry = None THEN client ELSE [client EXCEPT ![registry].doomed = TRUE]
      /\ torn' = (torn \/ (registry # None /\ \E i \in Req : Uses(i, registry)))
      /\ UNCHANGED <<req, mgr, cache, inflight, closeGeneration, server, exit, overlap>>
  BY DEF CloseClients
<1>2. /\ client' \in [Req -> Connection]
      /\ \A c \in Req : /\ client'[c].pc = client[c].pc /\ client'[c].refs = client[c].refs
                        /\ c # registry => client'[c] = client[c]
  <2>1. client \in [Req -> Connection] /\ \A c \in Req : client[c] \in Connection
    BY <1>0 DEF Typed
  <2>2. CASE registry = None
    BY <1>1, <2>1, <2>2
  <2>3. CASE registry # None
    <3>1. registry \in Req /\ client' = [client EXCEPT ![registry].doomed = TRUE]
      BY <1>0, <1>1, <2>3 DEF Typed
    <3>2. QED BY <2>1, <3>1 DEF Connection
  <2>4. QED BY <2>2, <2>3
<1>3. /\ closer' \in [pc : {"up", "drain", "settle", "quiesce", "clients"}, wait : SUBSET Req]
      /\ closer'.pc = "clients"
  <2>1. {registry} \ {None} \in SUBSET Req
    BY <1>0 DEF Typed
  <2>2. QED BY <1>1, <2>1
<1>4. Typed'
  <2>1. torn' \in BOOLEAN
    BY <1>0, <1>1 DEF Typed
  <2>2. QED BY <1>0, <1>1, <1>2, <1>3, <2>1 DEF Typed
<1>5. ~overlap => \A i \in Shared : mgr[i].pc \in Ended
  <2>1. "closed" \notin {"live", "closing"}
    OBVIOUS
  <2>2. QED BY <1>1, <2>1 DEF RegistryInv, Shutdown
<1>6. Shutdown'
  <2>1. torn' => overlap \/ \E i \in Req : mgr[i].owned
    <3>1. torn => overlap \/ \E i \in Req : mgr[i].owned
      BY DEF RegistryInv, Shutdown
    <3>2. ASSUME ~overlap, NEW i \in Req, Uses(i, registry)
          PROVE  mgr[i].owned
      <4>1. mgr[i].pc \notin Ended
        BY <3>2 DEF Uses, Building, Ended
      <4>2. QED BY <1>5, <3>2, <4>1 DEF Shared
    <3>3. QED BY <1>1, <3>1, <3>2
  <2>2. /\ server => ~overlap /\ \A i \in Req : ~mgr[i].owned
        /\ exit => server /\ \A i \in Shared : mgr[i].pc \in Ended
    BY DEF RegistryInv, Shutdown
  <2>3. Shared' = Shared
    BY <1>1 DEF Shared
  <2>4. QED BY <1>1, <1>3, <1>5, <2>1, <2>2, <2>3 DEF Shutdown
<1>7. Clients'
  <2>1. \A c \in Req : client[c].pc = "none" => c # registry
    BY <1>0 DEF Clients
  <2>2. QED BY <1>0, <1>1, <1>2, <2>1 DEF Clients
<1>8. Counted'
  <2> SUFFICES ASSUME ~torn' PROVE Counted'
    BY DEF Counted
  <2>1. ~torn /\ (registry # None => \A i \in Req : ~Uses(i, registry))
    BY <1>1
  <2>2. \A c \in Req : Users(c)' = Users(c)
    BY <1>1 DEF Users, Uses
  <2>3. ASSUME NEW c \in Req
        PROVE  Users(c) = {}
    <3>1. Users(c) # {} => registry = c
      BY <1>0, <2>1 DEF Counted
    <3>2. registry = c => Users(c) = {}
      BY <1>0, <2>1 DEF Users
    <3>3. QED BY <3>1, <3>2
  <2>4. QED BY <1>0, <1>2, <2>1, <2>2, <2>3 DEF Counted
<1>9. QED BY <1>1, <1>4, <1>6, <1>7, <1>8, ManagersBeside DEF RegistryInv

\* closeAll returns, and the server exits.
LEMMA CloseAllReturnsStep ==
  ASSUME RegistryInv, ~exit, CloseAllReturns
  PROVE  RegistryInv'
<1>1. /\ closer.pc = "clients" /\ closer' = [pc |-> "up", wait |-> {}] /\ exit' = server
      /\ UNCHANGED <<req, mgr, cache, inflight, closeGeneration, client, registry, server,
                     overlap, torn>>
  BY DEF CloseAllReturns
<1>2. Typed'
  BY <1>1 DEF RegistryInv, Typed
<1>3. Shutdown'
  <2>1. /\ ~overlap => \A i \in Shared : mgr[i].pc \in Ended
        /\ server => ~overlap /\ \A i \in Req : ~mgr[i].owned
        /\ torn => overlap \/ \E i \in Req : mgr[i].owned
    BY <1>1 DEF RegistryInv, Shutdown
  <2>2. Shared' = Shared
    BY <1>1 DEF Shared
  <2>3. closer'.pc = "up"
    BY <1>1
  <2>4. QED BY <1>1, <2>1, <2>2, <2>3 DEF Shutdown
<1>4. Clients' /\ Counted'
  BY <1>1, ClientsKept DEF RegistryInv
<1>5. QED BY <1>1, <1>2, <1>3, <1>4, ManagersBeside DEF RegistryInv
-----------------------------------------------------------------------------
(***************************************************************************)
(* The theorems.                                                           *)
(***************************************************************************)
\* Nothing has been asked yet.
LEMMA InitRegistryInv ==
  RegistryInit => RegistryInv
<1> SUFFICES ASSUME RegistryInit PROVE RegistryInv
  OBVIOUS
<1>0. None \notin Req /\ CacheMax \in Nat /\ MaxGen \in Nat
  BY RegistryAssumption
<1>1. /\ req = [r \in Req |-> [pc |-> "new", on |-> None, late |-> FALSE]]
      /\ mgr = [r \in Req |-> NoManager] /\ cache = << >> /\ inflight = [k \in Key |-> None]
      /\ closeGeneration = 0
      /\ client = [r \in Req |-> [pc |-> "none", refs |-> 0, doomed |-> FALSE]]
      /\ registry = None /\ closer = [pc |-> "up", wait |-> {}] /\ server \in BOOLEAN
      /\ exit = FALSE /\ overlap = FALSE /\ torn = FALSE
  BY DEF RegistryInit
<1>2. \A r \in Req : /\ mgr[r] = NoManager /\ mgr[r].pc = "none" /\ ~mgr[r].owned
                     /\ mgr[r].client = None /\ mgr[r].borrows = 0 /\ ~mgr[r].evicted
                     /\ req[r].pc = "new" /\ req[r].on = None
                     /\ client[r].pc = "none" /\ client[r].refs = 0 /\ ~client[r].doomed
  BY <1>1 DEF NoManager
<1>3. cache \in Seq(Req) /\ Len(cache) = 0 /\ DOMAIN cache = {} /\ closer.pc = "up"
  BY <1>1
<1>4. Typed
  <2>1. mgr \in [Req -> Managers] /\ req \in [Req -> Asked] /\ client \in [Req -> Connection]
    BY <1>1, NoManagerType DEF Asked, Connection
  <2>2. inflight \in [Key -> Req \cup {None}] /\ closeGeneration \in 0..MaxGen
    BY <1>0, <1>1
  <2>3. closer \in [pc : {"up", "drain", "settle", "quiesce", "clients"}, wait : SUBSET Req]
    BY <1>1
  <2>4. Len(cache) <= CacheMax /\ cache \in Seq(Req)
    BY <1>0, <1>3
  <2>5. registry \in Req \cup {None}
    BY <1>1
  <2>6. server \in BOOLEAN /\ exit \in BOOLEAN /\ overlap \in BOOLEAN /\ torn \in BOOLEAN
    BY <1>1
  <2>7. QED BY <2>1, <2>2, <2>3, <2>4, <2>5, <2>6 DEF Typed
<1>5. Requests /\ Owners /\ NoCloseUnderOperation
  BY <1>2 DEF Requests, Owners, NoCloseUnderOperation, Holding
<1>6. Borrowed
  <2>1. \A i \in Req : Operating(i) = {}
    BY <1>2 DEF Operating
  <2>2. QED BY <1>2, <2>1, FS_EmptySet DEF Borrowed
<1>7. Cache /\ Inflight /\ Keyed /\ Leaving
  BY <1>1, <1>2, <1>3, Phases DEF Cache, Inflight, Keyed, Leaving, Shared
<1>8. Sole /\ Shutdown
  <2>1. Sole
    BY <1>1, <1>2, Phases DEF Sole, Shared
  <2>2. Shutdown
    BY <1>1, <1>2, <1>3 DEF Shutdown, Shared
  <2>3. QED BY <2>1, <2>2
<1>9. Clients
  BY <1>1, <1>2 DEF Clients, Ended
<1>10. Counted
  <2>1. \A c \in Req : Users(c) = {}
    BY <1>0, <1>2 DEF Users, Uses
  <2>2. QED BY <1>2, <2>1, FS_EmptySet DEF Counted
<1>11. QED BY <1>4, <1>5, <1>6, <1>7, <1>8, <1>9, <1>10 DEF RegistryInv

\* A stuttering step.
LEMMA RegistryStutters ==
  ASSUME RegistryInv, UNCHANGED registryVars
  PROVE  RegistryInv'
<1>1. UNCHANGED <<req, mgr, cache, inflight, closeGeneration, client, registry,
                  closer, server, exit, overlap, torn>>
  BY DEF registryVars
<1>2. Typed'
  BY <1>1 DEF RegistryInv, Typed
<1>3. QED BY <1>1, <1>2, ManagersBeside, Unmoved DEF RegistryInv

\* Every step of the process keeps the invariant.
LEMMA RegistryStep ==
  ASSUME RegistryInv, [RegistryNext]_registryVars
  PROVE  RegistryInv'
<1>1. CASE UNCHANGED registryVars
  BY <1>1, RegistryStutters
<1>2. ASSUME ~exit, Progress
      PROVE  RegistryInv'
  <2>1. ASSUME NEW r \in Req, Connects(r) \/ ClientCloses(r) \/ ManagerCloses(r)
        PROVE  RegistryInv'
    BY <1>2, <2>1, ConnectsStep, ClientClosesStep, ManagerClosesStep
  <2>2. ASSUME NEW r \in Req, Imported(r) \/ Created(r)
        PROVE  RegistryInv'
    BY <1>2, <2>2, ImportedStep, CreatedStep
  <2>3. ASSUME NEW r \in Req, BeginOperation(r) \/ EndOperation(r)
        PROVE  RegistryInv'
    BY <1>2, <2>3, BeginOperationStep, EndOperationStep
  <2>4. CASE CloseAll \/ CloseEntries \/ CloseClients \/ CloseAllReturns
    BY <1>2, <2>4, CloseAllStep, CloseEntriesStep, CloseClientsStep, CloseAllReturnsStep
  <2>5. QED BY <1>2, <2>1, <2>2, <2>3, <2>4 DEF Progress
<1>3. ASSUME ~exit, NEW r \in Req, ConnectFails(r) \/ CreateFails(r)
      PROVE  RegistryInv'
  BY <1>3, ConnectFailsStep, CreateFailsStep
<1>4. ASSUME ~exit, NEW r \in Req, NEW w \in Wants[r], GetMemorySearchManager(r, w[1], w[2])
      PROVE  RegistryInv'
  BY <1>4, GetStep
<1>5. ASSUME ~exit, NEW S \in SUBSET Req, EvictIdle(S)
      PROVE  RegistryInv'
  BY <1>5, EvictIdleStep
<1>6. CASE ~exit /\ (CloseAll \/ Signal)
  BY <1>6, CloseAllStep, SignalStep
<1>7. QED BY <1>1, <1>2, <1>3, <1>4, <1>5, <1>6 DEF RegistryNext

\* The inductive invariant of the manager cache and the client registry.
THEOREM RegistryInvariance == RegistrySpec => []RegistryInv
<1>1. RegistryInit => RegistryInv
  BY InitRegistryInv
<1>2. RegistryInv /\ [RegistryNext]_registryVars => RegistryInv'
  BY RegistryStep
<1>3. QED BY <1>1, <1>2, PTL DEF RegistrySpec

\* No operation that began on a live manager has it closed under it, whatever evicts the
\* manager meanwhile (closeEntryAtQuiescence, trackManagerBorrows).
THEOREM OperationSafety == RegistrySpec => []NoCloseUnderOperation
<1>1. RegistryInv => NoCloseUnderOperation
  BY DEF RegistryInv
<1>2. QED BY <1>1, RegistryInvariance, PTL

\* The borrows of a manager never exceed the requests: RegistryTypeOK.
THEOREM RegistryTypes == RegistrySpec => []RegistryTypeOK
<1>1. RegistryInv => RegistryTypeOK
  <2> SUFFICES ASSUME RegistryInv PROVE RegistryTypeOK
    OBVIOUS
  <2>1. Typed
    BY DEF RegistryInv
  <2>2. \A i \in Req : mgr[i].borrows \in 0..Cardinality(Req)
    <3>1. ASSUME NEW i \in Req
          PROVE  mgr[i].borrows \in 0..Cardinality(Req)
      <4>1. Operating(i) \subseteq Req /\ IsFiniteSet(Req)
        BY RegistryAssumption DEF Operating
      <4>2. IsFiniteSet(Operating(i)) /\ Cardinality(Operating(i)) <= Cardinality(Req)
        BY <4>1, FS_Subset
      <4>3. Cardinality(Operating(i)) \in Nat /\ Cardinality(Req) \in Nat
        BY <4>1, <4>2, FS_CardinalityType
      <4>4. QED BY <4>2, <4>3 DEF RegistryInv, Borrowed
    <3>2. QED BY <3>1
  <2>3. mgr \in [Req -> [pc : Building \cup {"none", "live", "closing", "closed", "failed"},
                         key : Key \cup {None}, owned : BOOLEAN, gen : 0..MaxGen,
                         client : Req \cup {None}, borrows : 0..Cardinality(Req),
                         evicted : BOOLEAN]]
    <3>1. \A i \in Req : mgr[i] \in Managers
      BY <2>1 DEF Typed
    <3>2. mgr \in [Req -> Managers]
      BY <2>1 DEF Typed
    <3>3. QED BY <2>2, <3>1, <3>2 DEF Managers
  <2>4. QED BY <2>1, <2>3 DEF Typed, RegistryTypeOK, Asked, Connection
<1>2. QED BY <1>1, RegistryInvariance, PTL

\* The registry counts exactly the users of each client and closes none under them, at
\* most one manager per key is in service, and a clean shutdown leaves no manager open
\* (acquireSharedMongoClient, cacheManager, closeAllMemorySearchManagers).
THEOREM RegistrySafety == RegistrySpec => []NothingLeaks
<1>1. ASSUME RegistryInv
      PROVE  ClientsCounted
  <2>1. torn => overlap \/ \E i \in Req : mgr[i].owned
    BY <1>1 DEF RegistryInv, Shutdown
  <2>2. ASSUME ~torn, NEW c \in Req
        PROVE  /\ client[c].refs = Cardinality(Users(c))
               /\ client[c].doomed \/ client[c].pc = "closed" => Users(c) = {}
    <3>1. /\ client[c].refs = Cardinality(Users(c))
          /\ Users(c) # {} => registry = c
      BY <1>1, <2>2 DEF RegistryInv, Counted
    <3>2. registry = c => client[c].pc # "closed" /\ ~client[c].doomed
      BY <1>1, RegistryAssumption DEF RegistryInv, Clients
    <3>3. QED BY <3>1, <3>2
  <2>3. QED BY <2>1, <2>2 DEF ClientsCounted, Users
<1>2. ASSUME RegistryInv
      PROVE  ManagersAccounted
  <2>1. ASSUME ~overlap, NEW i \in Shared, NEW j \in Shared,
               mgr[i].key = mgr[j].key, i # j,
               {mgr[i].pc, mgr[j].pc} \subseteq Building \cup {"live"},
               ~mgr[i].evicted, ~mgr[j].evicted
        PROVE  FALSE
    <3>1. /\ mgr[i].pc \in Building => inflight[mgr[i].key] = i
          /\ mgr[j].pc \in Building => inflight[mgr[j].key] = j
          /\ mgr[i].pc = "live" => i \in ToSet(cache)
          /\ mgr[j].pc = "live" => j \in ToSet(cache)
          /\ \A k \in Key : inflight[k] # None => At(k) = {}
      BY <1>2, <2>1 DEF RegistryInv, Sole
    <3>2. mgr[i].key \in Key /\ i \in Req /\ j \in Req /\ i # None /\ j # None
      BY <1>2, <2>1, RegistryAssumption DEF RegistryInv, Keyed, Shared
    <3>3. \A x \in ToSet(cache) : x \in At(mgr[x].key)
      BY DEF At
    <3>4. mgr[i].pc = "live" /\ mgr[j].pc = "live"
      BY <2>1, <3>1, <3>2, <3>3
    <3>5. PICK m \in DOMAIN cache, n \in DOMAIN cache : i = cache[m] /\ j = cache[n]
      BY <3>1, <3>4 DEF ToSet
    <3>6. m # n
      BY <2>1, <3>5
    <3>7. mgr[cache[m]].key # mgr[cache[n]].key
      BY <1>2, <3>6 DEF RegistryInv, Cache
    <3>8. QED BY <2>1, <3>5, <3>7
  <2>2. /\ ~overlap /\ closer.pc = "clients" => \A i \in Shared : mgr[i].pc \in Ended
        /\ exit => \A i \in Shared : mgr[i].pc \in Ended
    BY <1>2 DEF RegistryInv, Shutdown
  <2> DEFINE cached == {i \in Req : mgr[i].pc # "none" /\ ~mgr[i].owned}
  <2>3. \A i \in cached : i \in Shared /\ (mgr[i].pc \in Ended => mgr[i].pc \in {"closed", "failed"})
    BY DEF Shared, Ended
  <2>4. /\ ~overlap => \A i, j \in cached :
             /\ mgr[i].key = mgr[j].key /\ i # j
             /\ {mgr[i].pc, mgr[j].pc} \subseteq Building \cup {"live"}
             => mgr[i].evicted \/ mgr[j].evicted
    BY <2>1, <2>3
  <2>5. /\ ~overlap /\ closer.pc = "clients" =>
             \A i \in cached : mgr[i].gen < closeGeneration => mgr[i].pc \in {"closed", "failed"}
        /\ exit => \A i \in cached : mgr[i].pc \in {"closed", "failed"}
    BY <2>2, <2>3
  <2>6. QED BY <2>4, <2>5 DEF ManagersAccounted
<1>3. RegistryInv => NothingLeaks
  BY <1>1, <1>2 DEF NothingLeaks
<1>4. QED BY <1>3, RegistryInvariance, PTL
=============================================================================
