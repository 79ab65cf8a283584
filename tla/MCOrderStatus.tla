--------------------------- MODULE MCOrderStatus ---------------------------
(***************************************************************************)
(* One order followed by the poller, a delayed check and visits of the     *)
(* status page.                                                            *)
(***************************************************************************)
EXTENDS OrderStatus

\* What the event loop runs of the poller; at most one of it is enabled at once.
PollerStep ==
  \/ PollRead \/ PollRow \/ Finish
  \/ Save(Poller) \/ Notify(Poller)

\* The worker's event loop runs the poller, the supplier answers it now and
\* then, and Telegram takes a message now and then. Checks and visits may hang.
Fairness ==
  /\ WF_vars(PollerStep)
  /\ SF_vars(Fetch(Poller))
  /\ SF_vars(\E a \in Actors, n \in 0..2 : Send(a, TRUE, n))

FairSpec == Spec /\ Fairness

\* A finished order leaves the poll, unless it grows too old for it, once fewer
\* newer orders are open than the poller takes at a time: no order is carried
\* along for ever, and one that the batch has no room for has to wait.
ClosedEventually ==
  <>[]~crowded => (IsFinal(supplier) ~> (status = "DONE" \/ ~fresh))

\* Nobody is about to say or to do anything more about the order.
Quiet == \A a \in Actors : actor[a].step \in {"idle", "gone"}

\* "The order is closed and the notification has gone out - take it off the
\* poll" (docstring of mark_order_done): a canceled order off the poll has
\* been told to the operator.
ClosedMeansTold ==
  status = "DONE" /\ supplier = "canceled" /\ Quiet => told["final"] >= 1
=============================================================================
