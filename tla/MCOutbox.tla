------------------------------ MODULE MCOutbox ------------------------------
(***************************************************************************)
(* The outbox on small instances: its invariants, action properties and    *)
(* liveness, and the refinement of OutboxContract.                         *)
(***************************************************************************)
EXTENDS Outbox, TLC

Symmetry == Permutations(Workers) \cup Permutations(Tokens) \cup Permutations(Keys)

-----------------------------------------------------------------------------
\* Liveness

\* The event loop runs every task and restarts the process after it went
\* down, time passes, calls return, and the supplier does not put one message
\* off for ever.
Fairness ==
  /\ WF_vars(Tick)
  /\ \A w \in Workers :
       /\ WF_vars(Start(w))
       /\ WF_vars(StopDone(w))
       /\ WF_vars(GraceExpired(w))
       /\ WF_vars(Claim(w))
       /\ \A i \in Ids :
            /\ WF_vars(\E r \in Replies, n \in 0..1 : Answer(w, i, r, n))
            /\ SF_vars(\E r \in Replies, n \in 0..1 :
                         Classify(r) # "retry" /\ Answer(w, i, r, n))
            /\ WF_vars(RecordDelivered(w, i))
            /\ WF_vars(RecordDead(w, i))
            /\ WF_vars(RecordRetry(w, i))
            /\ WF_vars(RecordStale(w, i))
            /\ WF_vars(AfterComplete(w, i))

FairSpec == Spec /\ Fairness

\* Every queued message is settled, crashes, stops and failed commits
\* notwithstanding, once there are no more of them.
EventuallySettled == \A i \in Ids : Pending(i) ~> ~Pending(i)
=============================================================================
