-------------------------- MODULE MCPlatformTokens --------------------------
(***************************************************************************)
(* Two tasks that share a token which runs out and is revoked.             *)
(***************************************************************************)
EXTENDS PlatformTokens

\* The event loop runs every task, the lock is handed on in turn, calls end; a
\* login succeeds and a refusal is answered now and then.
Fairness == \A c \in Callers :
  /\ WF_vars(Ask(c) \/ Take(c) \/ Drop(c) \/ CallEnds(c) \/ ReserveEnds(c))
  /\ SF_vars(\E life \in Lives, read \in BOOLEAN : LoginOk(c, life, read))
  /\ SF_vars(\/ \E last \in BOOLEAN : GgselRefused(c, last)
             \/ DigisellerRefused(c))

FairSpec == Spec /\ Fairness

\* Every task has an accepted token again and again: one that is revoked, and
\* those that its refusals drop besides, cost some calls and no more.
Recovers == \A c \in Callers : []<>(At(c, "call") /\ ~Dead(caller[c].token))
=============================================================================
