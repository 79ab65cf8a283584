-------------------------- MODULE MCTelegramRoutes --------------------------
(***************************************************************************)
(* Calls of send_message that run at the same time over up to three        *)
(* proxies.                                                                *)
(***************************************************************************)
EXTENDS TelegramRoutes

\* Every attempt ends: the clients' timeouts see to it.
Fairness == \A s \in Sends : WF_vars(Answer(s))

FairSpec == Spec /\ Fairness

\* Every call returns, after so many attempts at the latest.
Returns == \A s \in Sends : At(s, "await") ~> (At(s, "true") \/ At(s, "false"))
=============================================================================
