------------------------------- MODULE Outbox -------------------------------
(***************************************************************************)
(* The transactional outbox of app/services/outbox and                     *)
(* app/db/outbox_repository.py: a purchase and the message asking a        *)
(* supplier to create its order are committed together; worker processes   *)
(* lease due messages, call the supplier outside any transaction and       *)
(* record the outcome in one transaction guarded by the lease token.       *)
(*                                                                         *)
(* The n-th committed enqueue inserts message n and purchase n; they are   *)
(* both indexed by n here.  Time is relative to the database clock: "wait" *)
(* is next_attempt_at - now() and "age" is now() - delivered_at.           *)
(***************************************************************************)
EXTENDS Integers, FiniteSets

CONSTANTS
  Keys,         \* logical deliveries: (source, order_key, action)
  Workers,      \* worker processes
  Tokens,       \* lease tokens (uuid4); one is picked that nobody holds
  NoToken,      \* lease_token IS NULL
  NoKey,        \* key of a row that is not in the table
  MaxMsgs,      \* bound: rows ever inserted
  Limit,        \* min(batch_size, max_concurrency)
  Lease,        \* lease_seconds
  BackoffBase,  \* backoff_base
  BackoffMax,   \* backoff_max
  MaxAttempts,  \* bound: where the attempt counter saturates
  Retention,    \* cleanup_retention_days
  MaxOverdue,   \* bound: how far the model tells overdue rows apart
  MaxPlaced,    \* bound: orders the supplier creates per message
  MaxFaults,    \* bound: crashes, stops and failed commits
  SlowCalls     \* messages whose delivery may outlast its lease

ASSUME OutboxAssumption ==
  /\ NoToken \notin Tokens
  /\ NoKey \notin Keys
  /\ MaxMsgs \in Nat \ {0}
  /\ Limit \in Nat \ {0}
  /\ Lease \in Nat \ {0}
  /\ BackoffBase \in Nat \ {0}
  /\ BackoffMax \in Nat /\ BackoffBase <= BackoffMax
  /\ MaxAttempts \in Nat \ {0}
  /\ Retention \in Nat \ {0}
  /\ MaxOverdue \in Nat
  /\ MaxPlaced \in Nat
  /\ MaxFaults \in Nat
  /\ SlowCalls \subseteq 1..MaxMsgs

VARIABLES
  outbox,    \* outbox_messages, by row id
  purchase,  \* the purchases the messages refer to
  task,      \* task[w][i]: the _deliver_one of worker w for message i
  mode,      \* life cycle of each worker process
  placed,    \* how many orders the supplier has created for each message
  lost,      \* those of them whose answer reached nobody's books, by number
  checks,    \* status checks scheduled by after_complete: <<message, order>>
  faults     \* faults so far

vars == <<outbox, purchase, task, mode, placed, lost, checks, faults>>

Ids == 1..MaxMsgs

NoRow == [key |-> NoKey, status |-> "absent", attempts |-> 0, wait |-> 0,
          lease |-> NoToken, age |-> 0]

Row == [key : Keys \cup {NoKey},
        status : {"absent", "PENDING", "DELIVERED", "DEAD"},
        attempts : 0..MaxAttempts, wait : Int,
        lease : Tokens \cup {NoToken}, age : Nat]

NoPurchase == [status |-> "none", order |-> 0]

Purchase ==
  [status : {"none", "OUTBOX_PENDING", "SUPPLIER_ACCEPTED", "OUTBOX_DELIVERY_ERROR"},
   order : Nat]

NoTask == [phase |-> "idle", token |-> NoToken, outcome |-> "none", order |-> 0]

Task == [phase : {"idle", "calling", "answered", "hook"},
         token : Tokens \cup {NoToken},
         outcome : {"none", "delivered", "dead", "retry"},
         order : Nat]

TypeOK ==
  /\ outbox \in [Ids -> Row]
  /\ purchase \in [Ids -> Purchase]
  /\ task \in [Workers -> [Ids -> Task]]
  /\ mode \in [Workers -> {"down", "running", "stopping"}]
  /\ placed \in [Ids -> Nat]
  /\ lost \in [Ids -> SUBSET Nat]
  /\ checks \in SUBSET (Ids \X Nat)
  /\ faults \in Nat

Init ==
  /\ outbox = [i \in Ids |-> NoRow]
  /\ purchase = [i \in Ids |-> NoPurchase]
  /\ task = [w \in Workers |-> [i \in Ids |-> NoTask]]
  /\ mode = [w \in Workers |-> "down"]
  /\ placed = [i \in Ids |-> 0]
  /\ lost = [i \in Ids |-> {}]
  /\ checks = {}
  /\ faults = 0

-----------------------------------------------------------------------------
\* Helpers

Pending(i) == outbox[i].status = "PENDING"

\* The message has been claimed by w and its outcome is not recorded yet.
Live(w, i) == task[w][i].phase \in {"calling", "answered"}

Batch(w) == {i \in Ids : task[w][i].phase # "idle"}

\* Mutant: the lease token is not compared.
HoldsAnyLease(w, i) == Pending(i)

\* WHERE id = .. AND status = PENDING AND lease_token = ..
Holds(w, i) == Pending(i) /\ outbox[i].lease = task[w][i].token

TokensInUse == {outbox[i].lease : i \in Ids}
                 \cup {task[w][i].token : w \in Workers, i \in Ids}

MinOf(a, b) == IF a <= b THEN a ELSE b

Bump(n) == IF n < MaxAttempts THEN n + 1 ELSE n

\* next_delay: the ceiling under which the jittered delay is drawn.  A
\* doubling past backoff_max changes nothing, so the code stops there.
DelayCeiling(attempts) ==
  LET doublings == IF attempts > 1 THEN attempts - 1 ELSE 0
  IN  MinOf(BackoffBase * 2^doublings, BackoffMax)

\* ORDER BY next_attempt_at, id
Before(i, j) ==
  \/ outbox[i].wait < outbox[j].wait
  \/ outbox[i].wait = outbox[j].wait /\ i < j

\* Mutant: a lease that ran out is not taken over.
DueUnleased == {i \in Ids : Pending(i) /\ outbox[i].wait <= 0 /\ outbox[i].lease = NoToken}

Due == {i \in Ids : Pending(i) /\ outbox[i].wait <= 0}

\* The first Limit due rows.  Rows locked by another transaction are skipped,
\* which is the same as ordering the two transactions one after the other.
DueBatch == {i \in Due : Cardinality({j \in Due : Before(j, i)}) < Limit}

\* A row one second later.
Aged(r) ==
  [r EXCEPT
     !.wait = IF r.status = "PENDING" /\ r.wait > -MaxOverdue THEN r.wait - 1 ELSE r.wait,
     !.age = IF r.status = "DELIVERED" /\ r.age <= Retention THEN r.age + 1 ELSE r.age]

\* What the supplier's reply is turned into: deliver() and
\* classify_delivery_error.
Replies == {"receipt", "refusal", "invalid_receipt", "client_error",
            "overload", "server_error", "transport_error"}

\* Mutant: transport errors fall through the classification.
ClassifyStatusOnly(reply) ==
  CASE reply = "receipt" -> "delivered"
    [] reply \in {"refusal", "invalid_receipt", "client_error"} -> "dead"
    [] reply \in {"overload", "server_error"} -> "retry"
    [] OTHER -> "unclassified"

Classify(reply) ==
  CASE reply = "receipt" -> "delivered"
    [] reply \in {"refusal", "invalid_receipt", "client_error"} -> "dead"
    [] reply \in {"overload", "server_error", "transport_error"} -> "retry"

\* Replies after which the supplier may have created the order all the same.
MayHavePlaced(reply) ==
  reply \in {"receipt", "invalid_receipt", "server_error", "transport_error"}

\* The order of worker w that is known to nobody else.
Unrecorded(w, i) ==
  IF task[w][i].phase = "answered" /\ task[w][i].outcome = "delivered"
  THEN {task[w][i].order} ELSE {}

\* The order the books know.
Recorded(i) ==
  IF purchase[i].status = "SUPPLIER_ACCEPTED" THEN {purchase[i].order} ELSE {}

Fault == faults < MaxFaults /\ faults' = faults + 1

-----------------------------------------------------------------------------
\* Producer

\* queue_supplier_purchase: purchase and message in one transaction.  A
\* message with the same key is still in the table: the purchase is taken
\* back and nothing changes.
Enqueue(k) ==
  /\ \A i \in Ids : outbox[i].key # k
  /\ \E i \in Ids :
       /\ purchase[i].status = "none"
       /\ \A j \in Ids : j < i => purchase[j].status # "none"
       /\ purchase' = [purchase EXCEPT ![i] = [@ EXCEPT !.status = "OUTBOX_PENDING"]]
       /\ outbox' = [outbox EXCEPT ![i] = [NoRow EXCEPT !.key = k, !.status = "PENDING"]]
  /\ UNCHANGED <<task, mode, placed, lost, checks, faults>>

-----------------------------------------------------------------------------
\* Worker: claim, deliver, record

\* Mutant: next_attempt_at is not moved past the lease.
ClaimStillDue(w) ==
  /\ mode[w] = "running"
  /\ Batch(w) = {}
  /\ DueBatch # {}
  /\ \E t \in Tokens \ TokensInUse :
       /\ outbox' = [i \in Ids |->
            IF i \in DueBatch THEN [outbox[i] EXCEPT !.lease = t] ELSE outbox[i]]
       /\ task' = [task EXCEPT ![w] = [i \in Ids |->
            IF i \in DueBatch
            THEN [NoTask EXCEPT !.phase = "calling", !.token = t] ELSE NoTask]]
  /\ UNCHANGED <<purchase, mode, placed, lost, checks, faults>>

\* tick: the claim commits before any call, and the next tick starts only
\* when the whole batch is done.
Claim(w) ==
  /\ mode[w] = "running"
  /\ Batch(w) = {}
  /\ DueBatch # {}
  /\ \E t \in Tokens \ TokensInUse :
       /\ outbox' = [i \in Ids |->
            IF i \in DueBatch
            THEN [outbox[i] EXCEPT !.wait = Lease, !.lease = t] ELSE outbox[i]]
       /\ task' = [task EXCEPT ![w] = [i \in Ids |->
            IF i \in DueBatch
            THEN [NoTask EXCEPT !.phase = "calling", !.token = t] ELSE NoTask]]
  /\ UNCHANGED <<purchase, mode, placed, lost, checks, faults>>

\* The supplier's reply to deliver(), or the transport error raised instead
\* of it; n is the number of orders the call created.
Answer(w, i, reply, n) ==
  /\ task[w][i].phase = "calling"
  /\ reply = "receipt" => n = 1
  /\ n = 1 => MayHavePlaced(reply)
  /\ placed[i] + n <= MaxPlaced
  /\ placed' = [placed EXCEPT ![i] = @ + n]
  /\ lost' = IF reply = "receipt" \/ n = 0 THEN lost
              ELSE [lost EXCEPT ![i] = @ \cup {placed[i] + 1}]
  /\ task' = [task EXCEPT ![w][i] =
       [@ EXCEPT !.phase = "answered", !.outcome = Classify(reply),
                 !.order = IF reply = "receipt" THEN placed[i] + 1 ELSE 0]]
  /\ UNCHANGED <<outbox, purchase, mode, checks, faults>>

\* Mutant: the delivered update is not guarded by status and lease.
RecordDeliveredUnguarded(w, i) ==
  /\ task[w][i].phase = "answered"
  /\ task[w][i].outcome = "delivered"
  /\ outbox' = [outbox EXCEPT ![i].status = "DELIVERED", ![i].lease = NoToken]
  /\ purchase' = [purchase EXCEPT ![i] =
                    [status |-> "SUPPLIER_ACCEPTED", order |-> task[w][i].order]]
  /\ task' = [task EXCEPT ![w][i].phase = "hook"]
  /\ UNCHANGED <<mode, placed, lost, checks, faults>>

\* complete_supplier_delivery, then after_complete is next.
RecordDelivered(w, i) ==
  /\ task[w][i].phase = "answered"
  /\ task[w][i].outcome = "delivered"
  /\ Holds(w, i)
  /\ outbox' = [outbox EXCEPT ![i] =
       [@ EXCEPT !.status = "DELIVERED", !.age = 0, !.lease = NoToken,
                 !.attempts = Bump(outbox[i].attempts)]]
  /\ purchase' = [purchase EXCEPT ![i] =
                    [status |-> "SUPPLIER_ACCEPTED", order |-> task[w][i].order]]
  /\ task' = [task EXCEPT ![w][i] = [@ EXCEPT !.phase = "hook"]]
  /\ UNCHANGED <<mode, placed, lost, checks, faults>>

\* Mutant: the message dies and the purchase is forgotten.
RecordDeadAlone(w, i) ==
  /\ task[w][i].phase = "answered"
  /\ task[w][i].outcome = "dead"
  /\ Holds(w, i)
  /\ outbox' = [outbox EXCEPT ![i].status = "DEAD", ![i].lease = NoToken]
  /\ task' = [task EXCEPT ![w][i] = NoTask]
  /\ UNCHANGED <<purchase, mode, placed, lost, checks, faults>>

\* complete_supplier_failure
RecordDead(w, i) ==
  /\ task[w][i].phase = "answered"
  /\ task[w][i].outcome = "dead"
  /\ Holds(w, i)
  /\ outbox' = [outbox EXCEPT ![i] =
       [@ EXCEPT !.status = "DEAD", !.lease = NoToken, !.attempts = Bump(outbox[i].attempts)]]
  /\ purchase' = [purchase EXCEPT ![i] = [@ EXCEPT !.status = "OUTBOX_DELIVERY_ERROR"]]
  /\ task' = [task EXCEPT ![w][i] = NoTask]
  /\ UNCHANGED <<mode, placed, lost, checks, faults>>

\* Mutant: too many attempts end the message without a word to the purchase.
RecordRetryGivesUp(w, i) ==
  /\ task[w][i].phase = "answered"
  /\ task[w][i].outcome = "retry"
  /\ Holds(w, i)
  /\ outbox' = [outbox EXCEPT ![i].lease = NoToken,
                  ![i].status = IF outbox[i].attempts = MaxAttempts THEN "DEAD" ELSE @,
                  ![i].attempts = Bump(outbox[i].attempts)]
  /\ task' = [task EXCEPT ![w][i] = NoTask]
  /\ UNCHANGED <<purchase, mode, placed, lost, checks, faults>>

\* reschedule
RecordRetry(w, i) ==
  /\ task[w][i].phase = "answered"
  /\ task[w][i].outcome = "retry"
  /\ Holds(w, i)
  /\ \E delay \in 0..DelayCeiling(outbox[i].attempts + 1) :
       outbox' = [outbox EXCEPT ![i] =
         [@ EXCEPT !.attempts = Bump(outbox[i].attempts), !.lease = NoToken, !.wait = delay]]
  /\ task' = [task EXCEPT ![w][i] = NoTask]
  /\ UNCHANGED <<purchase, mode, placed, lost, checks, faults>>

\* Mutant: the answer of mark_delivered is ignored and the hook still runs.
RecordStaleUnnoticed(w, i) ==
  /\ task[w][i].phase = "answered"
  /\ ~Holds(w, i)
  /\ lost' = [lost EXCEPT ![i] = @ \cup Unrecorded(w, i)]
  /\ task' = [task EXCEPT ![w][i] =
       IF task[w][i].outcome = "delivered" THEN [@ EXCEPT !.phase = "hook"] ELSE NoTask]
  /\ UNCHANGED <<outbox, purchase, mode, placed, checks, faults>>

\* The update matches no row: somebody else owns the message by now.
RecordStale(w, i) ==
  /\ task[w][i].phase = "answered"
  /\ ~Holds(w, i)
  /\ lost' = [lost EXCEPT ![i] = @ \cup Unrecorded(w, i)]
  /\ task' = [task EXCEPT ![w][i] = NoTask]
  /\ UNCHANGED <<outbox, purchase, mode, placed, checks, faults>>

\* The transaction is rolled back and tick() only logs the exception: the
\* lease stays until it expires.
RecordFails(w, i) ==
  /\ task[w][i].phase = "answered"
  /\ Fault
  /\ lost' = [lost EXCEPT ![i] = @ \cup Unrecorded(w, i)]
  /\ task' = [task EXCEPT ![w][i] = NoTask]
  /\ UNCHANGED <<outbox, purchase, mode, placed, checks>>

\* after_complete: an order status check is scheduled in this process.
AfterComplete(w, i) ==
  /\ task[w][i].phase = "hook"
  /\ checks' = checks \cup {<<i, task[w][i].order>>}
  /\ task' = [task EXCEPT ![w][i] = NoTask]
  /\ UNCHANGED <<outbox, purchase, mode, placed, lost, faults>>

-----------------------------------------------------------------------------
\* Worker: life cycle and cleanup

Start(w) ==
  /\ mode[w] = "down"
  /\ mode' = [mode EXCEPT ![w] = "running"]
  /\ UNCHANGED <<outbox, purchase, task, placed, lost, checks, faults>>

\* stop(): the running tick goes on, a new one does not start.
Stop(w) ==
  /\ mode[w] = "running"
  /\ Fault
  /\ mode' = [mode EXCEPT ![w] = "stopping"]
  /\ UNCHANGED <<outbox, purchase, task, placed, lost, checks>>

StopDone(w) ==
  /\ mode[w] = "stopping"
  /\ Batch(w) = {}
  /\ mode' = [mode EXCEPT ![w] = "down"]
  /\ UNCHANGED <<outbox, purchase, task, placed, lost, checks, faults>>

\* Every delivery of the process ends here with no outcome recorded.
Abandon(w) ==
  /\ lost' = [i \in Ids |-> lost[i] \cup Unrecorded(w, i)]
  /\ task' = [task EXCEPT ![w] = [i \in Ids |-> NoTask]]
  /\ mode' = [mode EXCEPT ![w] = "down"]
  /\ UNCHANGED <<outbox, purchase, placed, checks>>

\* shutdown_grace has passed: the delivery task is cancelled.
GraceExpired(w) ==
  /\ mode[w] = "stopping"
  /\ Batch(w) # {}
  /\ Abandon(w)
  /\ UNCHANGED faults

Crash(w) ==
  /\ mode[w] # "down"
  /\ Fault
  /\ Abandon(w)

\* _cleanup_loop: delete_delivered_before
Cleanup(w) ==
  /\ mode[w] = "running"
  /\ LET old == {i \in Ids : outbox[i].status = "DELIVERED" /\ outbox[i].age > Retention}
     IN  /\ old # {}
         /\ outbox' = [i \in Ids |-> IF i \in old THEN NoRow ELSE outbox[i]]
  /\ UNCHANGED <<purchase, task, mode, placed, lost, checks, faults>>

\* One second of the database clock.  Where calls are not slow, the lease
\* covers the HTTP timeout and no delivery is still running when it expires.
Tick ==
  /\ \A w \in Workers, i \in Ids :
       Live(w, i) /\ Holds(w, i) /\ i \notin SlowCalls => outbox[i].wait > 1
  /\ outbox' = [i \in Ids |-> Aged(outbox[i])]
  /\ UNCHANGED <<purchase, task, mode, placed, lost, checks, faults>>

DeliverOne(w, i) ==
  \/ \E reply \in Replies, n \in 0..1 : Answer(w, i, reply, n)
  \/ RecordDelivered(w, i)
  \/ RecordDead(w, i)
  \/ RecordRetry(w, i)
  \/ RecordStale(w, i)
  \/ RecordFails(w, i)
  \/ AfterComplete(w, i)

Worker(w) ==
  \/ Start(w)
  \/ Stop(w)
  \/ StopDone(w)
  \/ GraceExpired(w)
  \/ Crash(w)
  \/ Cleanup(w)
  \/ Claim(w)
  \/ \E i \in Ids : DeliverOne(w, i)

Next ==
  \/ \E k \in Keys : Enqueue(k)
  \/ \E w \in Workers : Worker(w)
  \/ Tick

Spec == Init /\ [][Next]_vars

-----------------------------------------------------------------------------
\* Safety

\* Message and purchase never tell different stories: a queued message has a
\* purchase that waits, a delivered one a purchase naming an order the
\* supplier created, a dead one a purchase in error, and only rows of settled
\* purchases leave the table (enqueue_supplier_purchase,
\* complete_supplier_delivery, complete_supplier_failure,
\* delete_delivered_before).
BooksAgree == \A i \in Ids :
  /\ outbox[i].status = "PENDING" <=> purchase[i].status = "OUTBOX_PENDING"
  /\ outbox[i].status = "DELIVERED" => purchase[i].status = "SUPPLIER_ACCEPTED"
  /\ outbox[i].status = "DEAD" => purchase[i].status = "OUTBOX_DELIVERY_ERROR"
  /\ purchase[i].status = "SUPPLIER_ACCEPTED" => purchase[i].order \in 1..placed[i]

\* Two processes never believe they own the same lease, whatever expired or
\* crashed in between (claim_due hands out a fresh token per call).
OneOwner == \A v, w \in Workers, i \in Ids :
  v # w /\ Live(v, i) /\ Live(w, i) => task[v][i].token # task[w][i].token

\* The status check that after_complete schedules follows the very order the
\* purchase names, never the one of a result that was ignored as stale.
ChecksFollowBooks == \A c \in checks :
  purchase[c[1]] = [status |-> "SUPPLIER_ACCEPTED", order |-> c[2]]

\* With a lease that covers the HTTP timeout no two processes call the
\* supplier for one message at the same time.
ExclusiveDelivery == \A v, w \in Workers, i \in Ids \ SlowCalls :
  Live(v, i) /\ Live(w, i) => v = w

\* Each order the supplier created is in exactly one place: in its purchase,
\* in one delivery whose outcome is about to be recorded, or among the orders
\* known to be lost to an unclear answer, a stale result, a failed commit or
\* a process that ended.  No path of _deliver_one drops or doubles an order,
\* or puts the order of one delivery in the place of another one's.
OrdersAccounted == \A i \in Ids :
  /\ lost[i] \subseteq 1..placed[i]
  /\ \A n \in 1..placed[i] :
       n \in Recorded(i) \cup lost[i] \/ \E w \in Workers : n \in Unrecorded(w, i)
  /\ Recorded(i) \cap lost[i] = {}
  /\ \A w \in Workers :
       /\ Unrecorded(w, i) \cap (Recorded(i) \cup lost[i]) = {}
       /\ \A v \in Workers \ {w} : Unrecorded(v, i) \cap Unrecorded(w, i) = {}

-----------------------------------------------------------------------------
\* What a step may never do

\* A settled purchase keeps its status and its supplier order for good: a
\* late or repeated answer changes neither.
SettledForGood == [][\A i \in Ids :
  purchase[i].status \in {"SUPPLIER_ACCEPTED", "OUTBOX_DELIVERY_ERROR"}
    => purchase'[i] = purchase[i]]_vars

\* Only the process that holds the current lease moves a message out of it
\* while the lease has not run out.
LeaseRespected == [][\A i \in Ids :
  /\ Pending(i) /\ outbox[i].lease # NoToken /\ outbox[i].wait > 0
  /\ outbox'[i].lease # outbox[i].lease
  => \E w \in Workers :
       Live(w, i) /\ task[w][i].token = outbox[i].lease /\ ~Live(w, i)']_vars

-----------------------------------------------------------------------------
\* Refinement

Ledger(i) ==
  CASE purchase[i].status = "none" -> "none"
    [] purchase[i].status = "OUTBOX_PENDING" -> "pending"
    [] purchase[i].status = "SUPPLIER_ACCEPTED" -> "accepted"
    [] purchase[i].status = "OUTBOX_DELIVERY_ERROR" -> "failed"

Contract == INSTANCE OutboxContract WITH
  Msgs <- Ids,
  queue <- {i \in Ids : Pending(i)},
  ledger <- [i \in Ids |-> Ledger(i)],
  order <- [i \in Ids |-> purchase[i].order],
  placed <- placed

\* The outbox keeps the promise of OutboxContract.
KeepsContract == Contract!CSpec
=============================================================================
