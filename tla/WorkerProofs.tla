---------------------------- MODULE WorkerProofs ----------------------------
(***************************************************************************)
(* Theorems about WorkerProcess, for any batch size and any number of      *)
(* status checks under way.                                                *)
(***************************************************************************)
EXTENDS WorkerProcess, TLAPS

\* Past the drain there is no loop and no delivery.
OutboxEnded ==
  phase \in {"stopTasks", "awaitTasks", "down"} \cup Closing =>
    /\ loop = "none"
    /\ \A d \in Deliveries : delivery[d] = "none"

\* stop_all has left no task running, and then waits for the cancelled ones.
TasksEnded ==
  /\ phase = "awaitTasks" => \A t \in Tracked : task[t] # "running"
  /\ phase \in Closing \cup {"down"} => \A t \in Tracked : task[t] = "none"

\* stop() has waited for _cleanup_loop.
CleanupEnded ==
  phase \notin {"up", "stopCleanup"} => task["cleanup"] = "none"

\* Deliveries are cancelled by the end of the grace period only.
CutLate ==
  /\ cut # {} => expired
  /\ \A d \in Deliveries : delivery[d] = "cancelled" => expired

IInv == TypeOK /\ OutboxEnded /\ TasksEnded /\ CleanupEnded /\ CutLate

-----------------------------------------------------------------------------
LEMMA InitIInv == Init => IInv
BY DEF Init, IInv, TypeOK, OutboxEnded, TasksEnded, CleanupEnded, CutLate,
       Phases, Closing, Tasks, Tracked, Pollers

\* The steps that start, stop or kill the process keep the invariant.
LEMMA LifeKeeps ==
  ASSUME IInv, Start \/ StartFails \/ Signal \/ Kill \/ Exit
  PROVE  IInv'
<1> USE DEF IInv, TypeOK, OutboxEnded, TasksEnded, CleanupEnded, CutLate,
            Phases, Closing, Tasks, Tracked, Pollers
<1>1. CASE Start
  BY <1>1, ProcessAssumption DEF Start
<1>2. CASE StartFails
  BY <1>2, ProcessAssumption DEF StartFails
<1>3. CASE Signal
  BY <1>3 DEF Signal
<1>4. CASE Kill
  BY <1>4 DEF Kill
<1>5. CASE Exit
  BY <1>5 DEF Exit
<1>6. QED
  BY <1>1, <1>2, <1>3, <1>4, <1>5

\* The steps of the outbox worker keep it: no delivery starts without a loop.
LEMMA OutboxKeeps ==
  ASSUME IInv, OutboxWorker
  PROVE  IInv'
<1> USE DEF IInv, TypeOK, OutboxEnded, TasksEnded, CleanupEnded, CutLate,
            Phases, Closing, Tasks, Tracked, Pollers
<1>1. CASE Claim
  BY <1>1 DEF Claim
<1>2. ASSUME NEW batch \in SUBSET Deliveries, Claimed(batch) PROVE IInv'
  BY <1>2 DEF Claimed
<1>3. ASSUME NEW d \in Deliveries, Answer(d) PROVE IInv'
  BY <1>3 DEF Answer
<1>4. ASSUME NEW d \in Deliveries, Record(d) PROVE IInv'
  BY <1>4 DEF Record
<1>5. ASSUME NEW d \in Deliveries, NEW c \in Checks, RecordDelivered(d, c) PROVE IInv'
  BY <1>5, ProcessAssumption DEF RecordDelivered
<1>6. ASSUME NEW d \in Deliveries, DeliveryStops(d) PROVE IInv'
  BY <1>6 DEF DeliveryStops
<1>7. CASE BatchDone
  BY <1>7 DEF BatchDone
<1>8. CASE LoopEnds
  BY <1>8 DEF LoopEnds
<1>9. CASE LoopStops
  BY <1>9 DEF LoopStops
<1>10. QED
  BY <1>1, <1>2, <1>3, <1>4, <1>5, <1>6, <1>7, <1>8, <1>9 DEF OutboxWorker

\* The background tasks keep it: what is cancelled schedules nothing.
LEMMA BackgroundKeeps ==
  ASSUME IInv, Background
  PROVE  IInv'
<1> USE DEF IInv, TypeOK, OutboxEnded, TasksEnded, CleanupEnded, CutLate,
            Phases, Closing, Tasks, Tracked, Pollers
<1>1. ASSUME NEW c \in Checks, SalesPollerSchedules(c) PROVE IInv'
  BY <1>1, ProcessAssumption DEF SalesPollerSchedules
<1>2. ASSUME NEW c \in Checks, CheckEnds(c) PROVE IInv'
  BY <1>2 DEF CheckEnds
<1>3. ASSUME NEW t \in Tasks, TaskStops(t) PROVE IInv'
  BY <1>3 DEF TaskStops
<1>4. QED
  BY <1>1, <1>2, <1>3 DEF Background

\* So does the clean-up of _main: each stage starts when the one before it
\* has left nothing behind.
LEMMA CleanUpKeeps ==
  ASSUME IInv, CleanUp
  PROVE  IInv'
<1> USE DEF IInv, TypeOK, OutboxEnded, TasksEnded, CleanupEnded, CutLate,
            Phases, Closing, Tasks, Tracked, Pollers
<1>1. CASE StopOutbox
  BY <1>1 DEF StopOutbox
<1>2. CASE CleanupStopped
  BY <1>2 DEF CleanupStopped
<1>3. CASE GraceExpires
  BY <1>3 DEF GraceExpires, CancelLoop
<1>4. CASE LoopEnded
  BY <1>4 DEF LoopEnded
<1>5. CASE StopAll
  BY <1>5, ProcessAssumption DEF StopAll
<1>6. CASE TasksStopped
  BY <1>6 DEF TasksStopped
<1>7. CASE CloseClients
  BY <1>7 DEF CloseClients
<1>8. CASE CloseDeliverer
  BY <1>8 DEF CloseDeliverer
<1>9. CASE Exit
  BY <1>9, LifeKeeps
<1>10. QED
  BY <1>1, <1>2, <1>3, <1>4, <1>5, <1>6, <1>7, <1>8, <1>9 DEF CleanUp

\* A step that changes nothing keeps it.
LEMMA StutterKeeps == IInv /\ UNCHANGED vars => IInv'
BY DEF vars, IInv, TypeOK, OutboxEnded, TasksEnded, CleanupEnded, CutLate

\* In every reachable state the stages of the shutdown have ended what they
\* were to end (stop, stop_all, _close_worker_clients).
THEOREM StagesEnd == Spec => []IInv
<1>1. IInv /\ [Next]_vars => IInv'
  BY LifeKeeps, OutboxKeeps, BackgroundKeeps, CleanUpKeeps, StutterKeeps DEF Next
<1>2. QED
  BY InitIInv, <1>1, PTL DEF Spec

\* Every reachable state of the worker process is well-typed, and no delivery
\* outlives its loop.
THEOREM TypeCorrect == Spec => []TypeOK
<1>1. IInv => TypeOK
  BY DEF IInv
<1>2. QED
  BY StagesEnd, <1>1, PTL

\* No task, delivery or loop is left when the clients are closed.
THEOREM NothingIsLeft == Spec => []NothingAfterClose
<1>1. IInv => NothingAfterClose
  BY DEF IInv, OutboxEnded, TasksEnded, CleanupEnded, NothingAfterClose, Quiet, Tasks, Closing
<1>2. QED
  BY StagesEnd, <1>1, PTL

\* No delivery is cut short before the end of the grace period.
THEOREM BatchIsDrained == Spec => []Drained
<1>1. IInv => Drained
  BY DEF IInv, CutLate, Drained
<1>2. QED
  BY StagesEnd, <1>1, PTL
=============================================================================
