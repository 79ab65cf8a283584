-------------------------- MODULE MCWorkerProcess --------------------------
(***************************************************************************)
(* The life cycle of the worker process on a small instance.               *)
(***************************************************************************)
EXTENDS WorkerProcess

\* The event loop runs the steps of _main, and what has been cancelled ends:
\* a rollback and the release of a lock take the database a while, no more.
\* No call, no statement and no claim need ever come back, and nobody need
\* start a process.
Fairness ==
  /\ WF_vars(CleanUp)
  /\ WF_vars(LoopEnds)
  /\ WF_vars(LoopStops)
  /\ \A d \in Deliveries : WF_vars(DeliveryStops(d))
  /\ \A t \in Tasks : WF_vars(TaskStops(t))

FairSpec == Spec /\ Fairness

\* A process that was told to stop, or could not start, goes down, whatever
\* hangs in it.
Exits == phase # "down" /\ (signal \/ phase # "up") ~> phase = "down"
=============================================================================
