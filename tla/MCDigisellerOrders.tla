------------------------- MODULE MCDigisellerOrders -------------------------
(***************************************************************************)
(* One PLATI sale and the redirects of its buyer.                          *)
(***************************************************************************)
EXTENDS DigisellerOrders, TLC

Symmetry == Permutations(Visits)

\* "True - the lock is taken; False - it is still active" (docstring of
\* try_acquire_inflight_inv): as long as no lock expires under a visit, one
\* visit at a time is told True.
LockTakenOnce == \A v, w \in Visits : Inside(v) /\ Inside(w) => v = w
=============================================================================
