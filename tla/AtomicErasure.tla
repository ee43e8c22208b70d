--------------------------- MODULE AtomicErasure ---------------------------
(***************************************************************************)
(* What the erasure gate promises, with no transactions, tokens or runs:   *)
(* an agent's data is either open to writes, all of it admitted in the     *)
(* current epoch, or being erased, when it can only shrink; it becomes     *)
(* open again only once it is empty, and every erasure has its own epoch.  *)
(* ErasureGate is shown to implement this specification.                   *)
(***************************************************************************)
EXTENDS Integers

CONSTANT Writer

VARIABLES
  erasing,  \* an erasure is in progress
  epoch,    \* how many erasures have started (or the legacy counter's value)
  docs      \* the agent's documents, each with the epoch that admitted it

vars == <<erasing, epoch, docs>>

Doc == [by : Writer, epoch : Nat]

Init ==
  /\ erasing = FALSE
  /\ epoch \in Nat
  /\ docs \subseteq {d \in Doc : d.epoch = epoch}

\* A document admitted in the current epoch is stored.
Write(w) ==
  /\ ~ erasing
  /\ docs' = docs \cup {[by |-> w, epoch |-> epoch]}
  /\ UNCHANGED <<erasing, epoch>>

\* A new erasure starts: everything stored so far is now its target.
StartErasure ==
  /\ ~ erasing
  /\ erasing' = TRUE
  /\ epoch' = epoch + 1
  /\ UNCHANGED docs

\* A batch of documents is erased.
Erase ==
  /\ erasing
  /\ docs' \subseteq docs
  /\ UNCHANGED <<erasing, epoch>>

\* The erasure is complete.
Reopen ==
  /\ erasing
  /\ docs = {}
  /\ erasing' = FALSE
  /\ UNCHANGED <<epoch, docs>>

Next == (\E w \in Writer : Write(w)) \/ StartErasure \/ Erase \/ Reopen

Spec == Init /\ [][Next]_vars

=============================================================================
