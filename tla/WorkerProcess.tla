--------------------------- MODULE WorkerProcess ---------------------------
(***************************************************************************)
(* One life after another of the worker process, app/worker.py: it starts  *)
(* the outbox worker and three pollers, waits for SIGTERM or SIGINT, and   *)
(* then ends them in order: first the outbox worker, which gets a grace    *)
(* period for the batch under way, then the background tasks, which are    *)
(* cancelled, then the HTTP clients and the database engine that all of    *)
(* them work with.                                                         *)
(*                                                                         *)
(* The tasks of the process are asyncio tasks: a task that is cancelled    *)
(* does nothing more than roll back and give back its lock, which takes it *)
(* a while.  Calls to other services and statements may take for ever.     *)
(***************************************************************************)
CONSTANTS
  Deliveries,  \* bound: messages of one batch, min(batch_size, max_concurrency)
  Checks       \* bound: status checks that can be under way at once

Pollers == {"chat", "orders", "sales"}

ASSUME ProcessAssumption == Checks \cap (Pollers \cup {"cleanup"}) = {}

VARIABLES
  phase,     \* how far _main is
  signal,    \* the stop event
  task,      \* the tasks in background._tasks, and _cleanup_loop
  loop,      \* _delivery_loop
  delivery,  \* the _deliver_one of each message of the batch
  made,      \* what _main has constructed
  expired,   \* shutdown_grace ran out in this life
  cut        \* deliveries of this life that ended without an outcome

vars == <<phase, signal, task, loop, delivery, made, expired, cut>>

\* What stop_all knows of.
Tracked == Pollers \cup Checks

Tasks == Tracked \cup {"cleanup"}

Closing == {"closeClients", "closeDeliverer", "dispose"}

Phases == {"down", "up", "stopCleanup", "drain", "stopTasks", "awaitTasks"} \cup Closing

\* Nothing of the process runs.
Quiet ==
  /\ \A t \in Tasks : task[t] = "none"
  /\ \A d \in Deliveries : delivery[d] = "none"
  /\ loop = "none"

\* A batch belongs to a loop that waits for it (asyncio.gather), and a
\* process that is down to nobody.
TypeOK ==
  /\ phase \in Phases
  /\ signal \in BOOLEAN
  /\ task \in [Tasks -> {"none", "running", "cancelled"}]
  /\ loop \in {"none", "idle", "claiming", "delivering", "cancelled"}
  /\ delivery \in [Deliveries -> {"none", "calling", "recording", "cancelled"}]
  /\ made \subseteq {"deliverer", "outbox"}
  /\ expired \in BOOLEAN
  /\ cut \subseteq Deliveries
  /\ \A d \in Deliveries : delivery[d] # "none" => loop \in {"delivering", "cancelled"}

Init ==
  /\ phase = "down"
  /\ signal = FALSE
  /\ task = [t \in Tasks |-> "none"]
  /\ loop = "none"
  /\ delivery = [d \in Deliveries |-> "none"]
  /\ made = {}
  /\ expired = FALSE
  /\ cut = {}

-----------------------------------------------------------------------------
\* Start

\* _main up to the wait for the stop event, without an await between.
Start ==
  /\ phase = "down"
  /\ phase' = "up"
  /\ signal' = FALSE
  /\ made' = {"deliverer", "outbox"}
  /\ task' = [t \in Tasks |-> IF t \in Pollers \cup {"cleanup"} THEN "running" ELSE "none"]
  /\ loop' = "idle"
  /\ expired' = FALSE
  /\ cut' = {}
  /\ UNCHANGED delivery

\* A deliverer or OutboxWorkerConfig refuses its settings: straight to the
\* clean-up, and then the process fails.
StartFails ==
  /\ phase = "down"
  /\ phase' = "stopTasks"
  /\ signal' = FALSE
  /\ made' \in {{}, {"deliverer"}}
  /\ expired' = FALSE
  /\ cut' = {}
  /\ UNCHANGED <<task, loop, delivery>>

\* SIGTERM or SIGINT, at any time and any number of times.
Signal ==
  /\ phase # "down"
  /\ signal' = TRUE
  /\ UNCHANGED <<phase, task, loop, delivery, made, expired, cut>>

-----------------------------------------------------------------------------
\* The outbox worker

\* The next tick starts only while _running holds.
Claim ==
  /\ loop = "idle"
  /\ phase = "up"
  /\ loop' = "claiming"
  /\ UNCHANGED <<phase, signal, task, delivery, made, expired, cut>>

\* The claim commits, or fails, although a stop may have come meanwhile.
Claimed(batch) ==
  /\ loop = "claiming"
  /\ loop' = IF batch = {} THEN "idle" ELSE "delivering"
  /\ delivery' = [d \in Deliveries |-> IF d \in batch THEN "calling" ELSE "none"]
  /\ UNCHANGED <<phase, signal, task, made, expired, cut>>

\* The supplier's answer, or the error instead of it.
Answer(d) ==
  /\ delivery[d] = "calling"
  /\ delivery' = [delivery EXCEPT ![d] = "recording"]
  /\ UNCHANGED <<phase, signal, task, loop, made, expired, cut>>

\* The outcome is recorded, ignored as stale, or cannot be saved.
Record(d) ==
  /\ delivery[d] = "recording"
  /\ delivery' = [delivery EXCEPT ![d] = "none"]
  /\ UNCHANGED <<phase, signal, task, loop, made, expired, cut>>

\* The receipt is recorded and after_complete schedules a status check.
RecordDelivered(d, c) ==
  /\ delivery[d] = "recording"
  /\ task[c] = "none"
  /\ delivery' = [delivery EXCEPT ![d] = "none"]
  /\ task' = [task EXCEPT ![c] = "running"]
  /\ UNCHANGED <<phase, signal, loop, made, expired, cut>>

\* Mutant: the tick does not wait for its deliveries.
BatchDoneEarly ==
  /\ loop = "delivering"
  /\ \E d \in Deliveries : delivery[d] = "none"
  /\ loop' = "idle"
  /\ UNCHANGED <<phase, signal, task, delivery, made, expired, cut>>

BatchDone ==
  /\ loop = "delivering"
  /\ \A d \in Deliveries : delivery[d] = "none"
  /\ loop' = "idle"
  /\ UNCHANGED <<phase, signal, task, delivery, made, expired, cut>>

\* _running is looked at between two ticks.
LoopEnds ==
  /\ loop = "idle"
  /\ phase # "up"
  /\ loop' = "none"
  /\ UNCHANGED <<phase, signal, task, delivery, made, expired, cut>>

\* A cancelled delivery has rolled back.
DeliveryStops(d) ==
  /\ delivery[d] = "cancelled"
  /\ delivery' = [delivery EXCEPT ![d] = "none"]
  /\ cut' = cut \cup {d}
  /\ UNCHANGED <<phase, signal, task, loop, made, expired>>

\* The cancelled loop ends when all deliveries of its batch have.
LoopStops ==
  /\ loop = "cancelled"
  /\ \A d \in Deliveries : delivery[d] = "none"
  /\ loop' = "none"
  /\ UNCHANGED <<phase, signal, task, delivery, made, expired, cut>>

-----------------------------------------------------------------------------
\* The background tasks.  Pollers go round until they are cancelled.

\* The sales poller has ordered from Fragment and schedules a status check.
SalesPollerSchedules(c) ==
  /\ task["sales"] = "running"
  /\ task[c] = "none"
  /\ task' = [task EXCEPT ![c] = "running"]
  /\ UNCHANGED <<phase, signal, loop, delivery, made, expired, cut>>

CheckEnds(c) ==
  /\ task[c] = "running"
  /\ task' = [task EXCEPT ![c] = "none"]
  /\ UNCHANGED <<phase, signal, loop, delivery, made, expired, cut>>

\* A cancelled task has rolled back and given back its lock.
TaskStops(t) ==
  /\ task[t] = "cancelled"
  /\ task' = [task EXCEPT ![t] = "none"]
  /\ UNCHANGED <<phase, signal, loop, delivery, made, expired, cut>>

-----------------------------------------------------------------------------
\* The clean-up of _main

\* OutboxWorker.stop: no further tick, and _cleanup_loop is cancelled.
StopOutbox ==
  /\ phase = "up"
  /\ signal
  /\ phase' = "stopCleanup"
  /\ task' = [task EXCEPT !["cleanup"] = "cancelled"]
  /\ UNCHANGED <<signal, loop, delivery, made, expired, cut>>

CleanupStopped ==
  /\ phase = "stopCleanup"
  /\ task["cleanup"] = "none"
  /\ phase' = "drain"
  /\ UNCHANGED <<signal, task, loop, delivery, made, expired, cut>>

\* Cancelling the loop cancels all deliveries it waits for.
CancelLoop ==
  /\ loop' = "cancelled"
  /\ delivery' = [d \in Deliveries |-> IF delivery[d] = "none" THEN "none" ELSE "cancelled"]

\* Mutant: the deliveries are waited for as long as they take.
GraceNeverExpires ==
  /\ phase = "drain"
  /\ loop \in {"idle", "claiming"}
  /\ CancelLoop
  /\ expired' = TRUE
  /\ UNCHANGED <<phase, signal, task, made, cut>>

\* shutdown_grace is over and the loop still runs.
GraceExpires ==
  /\ phase = "drain"
  /\ loop \in {"idle", "claiming", "delivering"}
  /\ CancelLoop
  /\ expired' = TRUE
  /\ UNCHANGED <<phase, signal, task, made, cut>>

\* The loop has ended, in time or cancelled.
LoopEnded ==
  /\ phase = "drain"
  /\ loop = "none"
  /\ phase' = "stopTasks"
  /\ UNCHANGED <<signal, task, loop, delivery, made, expired, cut>>

\* background.stop_all: all tasks known now are cancelled ..
StopAll ==
  /\ phase = "stopTasks"
  /\ phase' = "awaitTasks"
  /\ task' = [t \in Tasks |->
       IF t \in Tracked /\ task[t] = "running" THEN "cancelled" ELSE task[t]]
  /\ UNCHANGED <<signal, loop, delivery, made, expired, cut>>

\* Mutant: .. and forgotten.
TasksForgotten ==
  /\ phase = "awaitTasks"
  /\ phase' = "closeClients"
  /\ UNCHANGED <<signal, task, loop, delivery, made, expired, cut>>

\* .. and waited for.
TasksStopped ==
  /\ phase = "awaitTasks"
  /\ \A t \in Tracked : task[t] # "cancelled"
  /\ phase' = "closeClients"
  /\ UNCHANGED <<signal, task, loop, delivery, made, expired, cut>>

\* _close_worker_clients; an error of one of them is logged.
CloseClients ==
  /\ phase = "closeClients"
  /\ phase' = IF "deliverer" \in made THEN "closeDeliverer" ELSE "dispose"
  /\ UNCHANGED <<signal, task, loop, delivery, made, expired, cut>>

\* OutboxRouter.close
CloseDeliverer ==
  /\ phase = "closeDeliverer"
  /\ phase' = "dispose"
  /\ UNCHANGED <<signal, task, loop, delivery, made, expired, cut>>

\* engine.dispose, and the end of asyncio.run, which cancels what is left.
Exit ==
  /\ phase = "dispose"
  /\ phase' = "down"
  /\ task' = [t \in Tasks |-> "none"]
  /\ loop' = "none"
  /\ delivery' = [d \in Deliveries |-> "none"]
  /\ cut' = cut \cup {d \in Deliveries : delivery[d] # "none"}
  /\ UNCHANGED <<signal, made, expired>>

\* SIGKILL, at the end of terminationGracePeriodSeconds or before.
Kill ==
  /\ phase # "down"
  /\ phase' = "down"
  /\ task' = [t \in Tasks |-> "none"]
  /\ loop' = "none"
  /\ delivery' = [d \in Deliveries |-> "none"]
  /\ UNCHANGED <<signal, made, expired, cut>>

CleanUp ==
  \/ StopOutbox
  \/ CleanupStopped
  \/ GraceExpires
  \/ LoopEnded
  \/ StopAll
  \/ TasksStopped
  \/ CloseClients
  \/ CloseDeliverer
  \/ Exit

OutboxWorker ==
  \/ Claim
  \/ \E batch \in SUBSET Deliveries : Claimed(batch)
  \/ \E d \in Deliveries : Answer(d) \/ Record(d) \/ DeliveryStops(d)
  \/ \E d \in Deliveries, c \in Checks : RecordDelivered(d, c)
  \/ BatchDone
  \/ LoopEnds
  \/ LoopStops

Background ==
  \/ \E c \in Checks : SalesPollerSchedules(c) \/ CheckEnds(c)
  \/ \E t \in Tasks : TaskStops(t)

Next == Start \/ StartFails \/ Signal \/ Kill \/ CleanUp \/ OutboxWorker \/ Background

Spec == Init /\ [][Next]_vars

-----------------------------------------------------------------------------
\* Safety

\* Once the first client is closed no task, no delivery and no loop of the
\* process is left that could still use it: the hooks of the last deliveries
\* schedule checks up to the end of the grace period, and stop_all must come
\* after all of them.
NothingAfterClose == phase \in Closing => Quiet

\* A batch under way when the stop comes is drained: unless the grace period
\* runs out or the process is killed, each of its deliveries ends with an
\* outcome.
Drained == cut # {} => expired
=============================================================================
