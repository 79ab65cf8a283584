--------------------------- MODULE MCGgselOrders ---------------------------
(***************************************************************************)
(* One sale, the sales poller and redirects of the buyer.                  *)
(***************************************************************************)
EXTENDS GgselOrders

\* Both processes run their tasks; over the poller's cycles GGSEL and Fragment
\* answer now and then.
Fairness ==
  /\ WF_vars(Expire)
  /\ \A a \in Actors : WF_vars(Process(a))
  /\ WF_vars(PollSales) /\ SF_vars(PollInfo)
  /\ SF_vars(GetPurchase(Poller)) /\ SF_vars(CheckUsername(Poller))
  /\ SF_vars(\E n \in 0..2 : CreateOrder(Poller, TRUE, n))

FairSpec == Spec /\ Fairness

\* A paid sale is launched or refused although the buyer never comes, a pass
\* dies with the lock or calls fail, as long as it is in the poller's window and
\* among the newest sales, which are all that the poller asks for ("repeated in
\* the next cycle", comment in _launch).
Launched ==
  (invoice = "paid" /\ coded /\ age = "window")
    ~> (HasRow \/ age \in {"old", "unlisted"} \/ invoice = "returned")

\* The check of the code in the database and mark_inflight protect both paths
\* against duplicates (docstring of sales_poller.py): one order per code.
OneOrderPerCode == placed <= 1
=============================================================================
