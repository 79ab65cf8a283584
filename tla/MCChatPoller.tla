---------------------------- MODULE MCChatPoller ----------------------------
(***************************************************************************)
(* A chat with a page that its messages overflow, and the one poller of    *)
(* the worker process.                                                     *)
(***************************************************************************)
EXTENDS ChatPoller

CONSTANT Worker   \* the poller of the worker process

ASSUME Worker \in Pollers

\* The event loop of the worker process runs its poller, GGSEL answers now and
\* then, and Telegram takes what it does not refuse now and then.
Fairness ==
  /\ WF_vars(Read(Worker))
  /\ SF_vars(Fetch(Worker))
  /\ WF_vars(\E m \in Ids, ok \in BOOLEAN, n \in 0..2 : Send(Worker, m, ok, n))
  /\ SF_vars(\E m \in Ids, n \in 0..2 : Send(Worker, m, TRUE, n))
  /\ WF_vars(Sent(Worker))
  /\ WF_vars(Save(Worker))

FairSpec == Spec /\ Fairness

\* A message that Telegram refuses for good stands before m.
Blocked(m) == \E k \in refused \ deleted : last < k /\ k <= m

\* Every message of a fresh chat is forwarded, deleted or missed in the end,
\* unless one that Telegram never takes stands before it: everything else that
\* fails is made good by a later cycle.
Forwarded == \A m \in Ids :
  m \in buyer ~> (Accounted(m) \/ Blocked(m) \/ ~fresh)
=============================================================================
