------------------------- MODULE MCManagerRegistry -------------------------
(* Two requests for one agent, and a third that asks for another agent or   *)
(* for a manager of its own: one cache slot, so that they evict each other. *)
EXTENDS ManagerRegistry

CONSTANTS r1, r2, r3, k1, k2

Requests == r1 :> {<<k1, FALSE>>} @@ r2 :> {<<k1, FALSE>>}
              @@ r3 :> {<<k2, FALSE>>, <<k1, TRUE>>}
=============================================================================
