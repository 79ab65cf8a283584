---------------------------- MODULE OutboxProofs ----------------------------
(***************************************************************************)
(* Theorems about Outbox for any number of workers, messages, tokens and   *)
(* any lease, backoff and fault budget.                                    *)
(***************************************************************************)
EXTENDS Outbox, TLAPS

\* A delivery that is running refers to a purchase that was really made,
\* under a token that was really handed out; the order it reports exists; and
\* when it is about to schedule a status check its order is the recorded one.
TasksFollowBooks == \A w \in Workers, i \in Ids :
  /\ task[w][i].phase # "idle" => purchase[i].status # "none"
  /\ Live(w, i) => task[w][i].token \in Tokens
  /\ task[w][i].phase = "answered" /\ task[w][i].outcome = "delivered"
       => task[w][i].order \in 1..placed[i]
  /\ task[w][i].phase = "hook"
       => purchase[i] = [status |-> "SUPPLIER_ACCEPTED", order |-> task[w][i].order]

IInv == TypeOK /\ BooksAgree /\ OneOwner /\ TasksFollowBooks /\ ChecksFollowBooks

\* Where calls are not slow a running delivery owns an unexpired lease.
LeaseCovers == \A w \in Workers, i \in Ids \ SlowCalls :
  Live(w, i) => Holds(w, i) /\ outbox[i].wait >= 1

-----------------------------------------------------------------------------
\* The types of the function-valued variables, one update at a time.

LEMMA BumpType == ASSUME NEW n \in 0..MaxAttempts PROVE Bump(n) \in 0..MaxAttempts
BY OutboxAssumption DEF Bump

LEMMA TaskUpdate ==
  ASSUME TypeOK, NEW w \in Workers, NEW i \in Ids, NEW t \in Task,
         task' = [task EXCEPT ![w][i] = t]
  PROVE  task' \in [Workers -> [Ids -> Task]]
BY DEF TypeOK

LEMMA RowUpdate ==
  ASSUME TypeOK, NEW i \in Ids, NEW r \in Row, outbox' = [outbox EXCEPT ![i] = r]
  PROVE  outbox' \in [Ids -> Row]
BY DEF TypeOK

LEMMA PurchaseUpdate ==
  ASSUME TypeOK, NEW i \in Ids, NEW p \in Purchase, purchase' = [purchase EXCEPT ![i] = p]
  PROVE  purchase' \in [Ids -> Purchase]
BY DEF TypeOK

LEMMA NoRecords == NoRow \in Row /\ NoTask \in Task /\ NoPurchase \in Purchase
BY OutboxAssumption DEF NoRow, Row, NoTask, Task, NoPurchase, Purchase

LEMMA LostType ==
  ASSUME TypeOK, NEW w \in Workers, NEW i \in Ids PROVE Unrecorded(w, i) \in SUBSET Nat
BY DEF Unrecorded, TypeOK, Task

\* The initial state satisfies the inductive invariant.
LEMMA InitIInv == Init => IInv
<1> SUFFICES ASSUME Init PROVE IInv
  OBVIOUS
<1> USE DEF Init
<1>1. TypeOK
  BY NoRecords DEF TypeOK
<1>2. BooksAgree
  BY DEF BooksAgree, NoRow, NoPurchase
<1>3. OneOwner /\ TasksFollowBooks /\ ChecksFollowBooks
  BY DEF OneOwner, TasksFollowBooks, ChecksFollowBooks, Live, NoTask
<1>4. QED
  BY <1>1, <1>2, <1>3 DEF IInv

\* Every step keeps the variables in their types.
LEMMA TypeStep == TypeOK /\ [Next]_vars => TypeOK'
<1> SUFFICES ASSUME TypeOK, [Next]_vars PROVE TypeOK'
  OBVIOUS
<1>0. /\ \A i \in Ids : outbox[i] \in Row /\ purchase[i] \in Purchase
      /\ \A w \in Workers, i \in Ids : task[w][i] \in Task
      /\ \A i \in Ids : placed[i] \in Nat /\ lost[i] \in SUBSET Nat
  BY DEF TypeOK
<1>1. ASSUME NEW k \in Keys, Enqueue(k) PROVE TypeOK'
  <2>1. PICK i \in Ids :
          /\ purchase' = [purchase EXCEPT ![i] = [@ EXCEPT !.status = "OUTBOX_PENDING"]]
          /\ outbox' = [outbox EXCEPT ![i] = [NoRow EXCEPT !.key = k, !.status = "PENDING"]]
    BY <1>1 DEF Enqueue
  <2>2. [purchase[i] EXCEPT !.status = "OUTBOX_PENDING"] \in Purchase
    BY <1>0 DEF Purchase
  <2>3. [NoRow EXCEPT !.key = k, !.status = "PENDING"] \in Row
    BY NoRecords DEF Row
  <2>4. purchase' \in [Ids -> Purchase] /\ outbox' \in [Ids -> Row]
    BY <2>1, <2>2, <2>3, RowUpdate, PurchaseUpdate
  <2>5. QED
    BY <1>1, <2>4 DEF Enqueue, TypeOK
<1>2. ASSUME NEW w \in Workers, Claim(w) PROVE TypeOK'
  <2>1. PICK t \in Tokens :
          /\ outbox' = [i \in Ids |-> IF i \in DueBatch
               THEN [outbox[i] EXCEPT !.wait = Lease, !.lease = t] ELSE outbox[i]]
          /\ task' = [task EXCEPT ![w] = [i \in Ids |-> IF i \in DueBatch
               THEN [NoTask EXCEPT !.phase = "calling", !.token = t] ELSE NoTask]]
    BY <1>2 DEF Claim
  <2>2. ASSUME NEW i \in Ids PROVE [outbox[i] EXCEPT !.wait = Lease, !.lease = t] \in Row
    <3>1. Lease \in Int
      BY OutboxAssumption
    <3>2. QED
      BY <1>0, <3>1 DEF Row
  <2>3. [NoTask EXCEPT !.phase = "calling", !.token = t] \in Task
    BY NoRecords DEF Task
  <2>4. outbox' \in [Ids -> Row]
    BY <1>0, <2>1, <2>2
  <2>5. task' \in [Workers -> [Ids -> Task]]
    BY <2>1, <2>3, NoRecords DEF TypeOK
  <2>6. QED
    BY <1>2, <2>4, <2>5 DEF Claim, TypeOK
<1>3. ASSUME NEW w \in Workers, NEW i \in Ids, NEW reply \in Replies, NEW n \in 0..1,
             Answer(w, i, reply, n)
      PROVE  TypeOK'
  <2> DEFINE t == [task[w][i] EXCEPT !.phase = "answered", !.outcome = Classify(reply),
                     !.order = IF reply = "receipt" THEN placed[i] + 1 ELSE 0]
  <2>1. Classify(reply) \in {"delivered", "dead", "retry"}
    BY DEF Classify, Replies
  <2>2. t \in Task
    <3>1. (IF reply = "receipt" THEN placed[i] + 1 ELSE 0) \in Nat
      BY <1>0
    <3>2. task[w][i] \in Task
      BY <1>0
    <3>3. QED
      BY <2>1, <3>1, <3>2 DEF Task
  <2>3. task' \in [Workers -> [Ids -> Task]]
    BY <1>3, <2>2, TaskUpdate DEF Answer
  <2>4. placed' \in [Ids -> Nat]
    BY <1>0, <1>3 DEF Answer, TypeOK
  <2>5. lost' \in [Ids -> SUBSET Nat]
    <3>1. placed[i] + 1 \in Nat
      BY <1>0
    <3>2. QED
      BY <1>3, <3>1 DEF Answer, TypeOK
  <2>6. QED
    BY <1>3, <2>3, <2>4, <2>5 DEF Answer, TypeOK
<1>4. ASSUME NEW w \in Workers, NEW i \in Ids,
             RecordDelivered(w, i) \/ RecordDead(w, i) \/ RecordRetry(w, i)
      PROVE  TypeOK'
  <2>1. Bump(outbox[i].attempts) \in 0..MaxAttempts
    BY <1>0, BumpType DEF Row
  <2>2. CASE RecordDelivered(w, i)
    <3>1. [outbox[i] EXCEPT !.status = "DELIVERED", !.age = 0, !.lease = NoToken,
             !.attempts = Bump(outbox[i].attempts)] \in Row
      BY <1>0, <2>1 DEF Row
    <3>2. [status |-> "SUPPLIER_ACCEPTED", order |-> task[w][i].order] \in Purchase
      BY <1>0 DEF Purchase, Task
    <3>3. [task[w][i] EXCEPT !.phase = "hook"] \in Task
      BY <1>0 DEF Task
    <3>4. outbox' \in [Ids -> Row]
      BY <2>2, <3>1, RowUpdate DEF RecordDelivered
    <3>5. purchase' \in [Ids -> Purchase]
      BY <2>2, <3>2, PurchaseUpdate DEF RecordDelivered
    <3>6. task' \in [Workers -> [Ids -> Task]]
      BY <2>2, <3>3, TaskUpdate DEF RecordDelivered
    <3>7. QED
      BY <2>2, <3>4, <3>5, <3>6 DEF RecordDelivered, TypeOK
  <2>3. CASE RecordDead(w, i)
    <3>1. [outbox[i] EXCEPT !.status = "DEAD", !.lease = NoToken,
             !.attempts = Bump(outbox[i].attempts)] \in Row
      BY <1>0, <2>1 DEF Row
    <3>2. [purchase[i] EXCEPT !.status = "OUTBOX_DELIVERY_ERROR"] \in Purchase
      BY <1>0 DEF Purchase
    <3>3. outbox' \in [Ids -> Row]
      BY <2>3, <3>1, RowUpdate DEF RecordDead
    <3>4. purchase' \in [Ids -> Purchase]
      BY <2>3, <3>2, PurchaseUpdate DEF RecordDead
    <3>5. task' \in [Workers -> [Ids -> Task]]
      BY <2>3, NoRecords, TaskUpdate DEF RecordDead
    <3>6. QED
      BY <2>3, <3>3, <3>4, <3>5 DEF RecordDead, TypeOK
  <2>4. CASE RecordRetry(w, i)
    <3>1. PICK delay \in 0..DelayCeiling(outbox[i].attempts + 1) :
            outbox' = [outbox EXCEPT ![i] =
              [@ EXCEPT !.attempts = Bump(outbox[i].attempts), !.lease = NoToken,
                        !.wait = delay]]
      BY <2>4 DEF RecordRetry
    <3>2. delay \in Int
      OBVIOUS
    <3>3. [outbox[i] EXCEPT !.attempts = Bump(outbox[i].attempts), !.lease = NoToken,
             !.wait = delay] \in Row
      BY <1>0, <2>1, <3>2 DEF Row
    <3>4. outbox' \in [Ids -> Row]
      BY <3>1, <3>3, RowUpdate
    <3>5. task' \in [Workers -> [Ids -> Task]]
      BY <2>4, NoRecords, TaskUpdate DEF RecordRetry
    <3>6. QED
      BY <2>4, <3>4, <3>5 DEF RecordRetry, TypeOK
  <2>5. QED
    BY <1>4, <2>2, <2>3, <2>4
<1>5. ASSUME NEW w \in Workers, NEW i \in Ids,
             RecordStale(w, i) \/ RecordFails(w, i) \/ AfterComplete(w, i)
      PROVE  TypeOK'
  <2>1. task' \in [Workers -> [Ids -> Task]]
    BY <1>5, NoRecords, TaskUpdate DEF RecordStale, RecordFails, AfterComplete
  <2>2. lost' \in [Ids -> SUBSET Nat]
    BY <1>0, <1>5, LostType DEF RecordStale, RecordFails, AfterComplete, TypeOK
  <2>3. checks' \in SUBSET (Ids \X Nat)
    BY <1>0, <1>5 DEF RecordStale, RecordFails, AfterComplete, Task, TypeOK
  <2>4. faults' \in Nat
    BY <1>5 DEF RecordStale, RecordFails, AfterComplete, Fault, TypeOK
  <2>5. QED
    BY <1>5, <2>1, <2>2, <2>3, <2>4 DEF RecordStale, RecordFails, AfterComplete, TypeOK
<1>6. ASSUME NEW w \in Workers, Start(w) \/ Stop(w) \/ StopDone(w) PROVE TypeOK'
  BY <1>6 DEF Start, Stop, StopDone, Fault, TypeOK
<1>7. ASSUME NEW w \in Workers, GraceExpired(w) \/ Crash(w) PROVE TypeOK'
  <2>1. Abandon(w) /\ faults' \in Nat
    BY <1>7 DEF GraceExpired, Crash, Fault, TypeOK
  <2>2. task' \in [Workers -> [Ids -> Task]]
    BY <2>1, NoRecords DEF Abandon, TypeOK
  <2>3. lost' \in [Ids -> SUBSET Nat]
    BY <1>0, <2>1, LostType DEF Abandon
  <2>4. QED
    BY <2>1, <2>2, <2>3 DEF Abandon, TypeOK
<1>8. ASSUME NEW w \in Workers, Cleanup(w) PROVE TypeOK'
  <2>1. outbox' \in [Ids -> Row]
    BY <1>0, <1>8, NoRecords DEF Cleanup
  <2>2. QED
    BY <1>8, <2>1 DEF Cleanup, TypeOK
<1>9. CASE Tick
  <2>1. ASSUME NEW r \in Row PROVE Aged(r) \in Row
    <3>1. (IF r.status = "PENDING" /\ r.wait > -MaxOverdue THEN r.wait - 1 ELSE r.wait) \in Int
      BY DEF Row
    <3>2. (IF r.status = "DELIVERED" /\ r.age <= Retention THEN r.age + 1 ELSE r.age) \in Nat
      BY DEF Row
    <3>3. QED
      BY <3>1, <3>2 DEF Aged, Row
  <2>2. outbox' = [i \in Ids |-> Aged(outbox[i])]
    BY <1>9 DEF Tick
  <2>3. outbox' \in [Ids -> Row]
    BY <1>0, <2>1, <2>2
  <2>4. QED
    BY <1>9, <2>3 DEF Tick, TypeOK
<1>10. CASE UNCHANGED vars
  BY <1>10 DEF vars, TypeOK
<1>11. QED
  BY <1>1, <1>2, <1>3, <1>4, <1>5, <1>6, <1>7, <1>8, <1>9, <1>10
  DEF Next, Worker, DeliverOne

\* Type correctness of the outbox: every row, task and purchase is one that
\* app/db/models.py allows.
THEOREM TypeCorrect == Spec => []TypeOK
<1>1. Init => TypeOK
  BY InitIInv DEF IInv
<1>2. QED
  BY <1>1, TypeStep, PTL DEF Spec

-----------------------------------------------------------------------------
\* The inductive step

LEMMA TaskAt ==
  ASSUME TypeOK, NEW w \in Workers, NEW i \in Ids, NEW t,
         task' = [task EXCEPT ![w][i] = t]
  PROVE  \A v \in Workers, j \in Ids :
           task'[v][j] = IF v = w /\ j = i THEN t ELSE task[v][j]
BY DEF TypeOK

\* No purchase that a status check was scheduled for changes.
LEMMA ChecksKept ==
  ASSUME TypeOK, ChecksFollowBooks, checks' = checks,
         \A j \in Ids : purchase[j].status = "SUPPLIER_ACCEPTED" => purchase'[j] = purchase[j]
  PROVE  ChecksFollowBooks'
<1> SUFFICES ASSUME NEW c \in checks
             PROVE  purchase'[c[1]] = [status |-> "SUPPLIER_ACCEPTED", order |-> c[2]]
  BY DEF ChecksFollowBooks
<1>1. c[1] \in Ids
  BY DEF TypeOK
<1>2. purchase[c[1]] = [status |-> "SUPPLIER_ACCEPTED", order |-> c[2]]
  BY DEF ChecksFollowBooks
<1>3. QED
  BY <1>1, <1>2

\* Steps that start no delivery and touch neither purchases nor the supplier:
\* deliveries may end, rows of settled purchases may be deleted.
LEMMA QuietStep ==
  ASSUME IInv, UNCHANGED <<purchase, placed>>,
         \A v \in Workers, j \in Ids : task'[v][j] \in {task[v][j], NoTask},
         \A j \in Ids : \/ outbox'[j].status = outbox[j].status
                        \/ outbox[j].status = "DELIVERED" /\ outbox'[j].status = "absent"
  PROVE  /\ BooksAgree' /\ OneOwner' /\ TasksFollowBooks'
         /\ checks' = checks => ChecksFollowBooks'
<1>1. BooksAgree'
  BY DEF IInv, BooksAgree
<1>2. OneOwner'
  BY DEF IInv, OneOwner, Live, NoTask
<1>3. TasksFollowBooks'
  BY DEF IInv, TasksFollowBooks, Live, NoTask
<1>4. checks' = checks => ChecksFollowBooks'
  BY DEF IInv, ChecksFollowBooks
<1>5. QED
  BY <1>1, <1>2, <1>3, <1>4

LEMMA EnqueueStep ==
  ASSUME IInv, NEW k \in Keys, Enqueue(k)
  PROVE  BooksAgree' /\ OneOwner' /\ TasksFollowBooks' /\ ChecksFollowBooks'
<1>1. PICK i \in Ids :
        /\ purchase[i].status = "none"
        /\ purchase' = [purchase EXCEPT ![i] = [@ EXCEPT !.status = "OUTBOX_PENDING"]]
        /\ outbox' = [outbox EXCEPT ![i] = [NoRow EXCEPT !.key = k, !.status = "PENDING"]]
  BY DEF Enqueue
<1>2. UNCHANGED <<task, placed, checks>>
  BY DEF Enqueue
<1>3. /\ purchase'[i].status = "OUTBOX_PENDING" /\ outbox'[i].status = "PENDING"
      /\ \A j \in Ids \ {i} : purchase'[j] = purchase[j] /\ outbox'[j] = outbox[j]
  BY <1>1 DEF IInv, TypeOK, Purchase, NoRow
<1>4. BooksAgree'
  BY <1>2, <1>3 DEF IInv, BooksAgree
<1>5. OneOwner'
  BY <1>2 DEF IInv, OneOwner, Live
<1>6. TasksFollowBooks'
  BY <1>1, <1>2, <1>3 DEF IInv, TasksFollowBooks, Live
<1>7. ChecksFollowBooks'
  BY <1>1, <1>2, <1>3, ChecksKept DEF IInv
<1>8. QED
  BY <1>4, <1>5, <1>6, <1>7

LEMMA ClaimStep ==
  ASSUME IInv, NEW w \in Workers, Claim(w)
  PROVE  BooksAgree' /\ OneOwner' /\ TasksFollowBooks' /\ ChecksFollowBooks'
<1>1. PICK t \in Tokens \ TokensInUse :
        /\ outbox' = [i \in Ids |-> IF i \in DueBatch
             THEN [outbox[i] EXCEPT !.wait = Lease, !.lease = t] ELSE outbox[i]]
        /\ task' = [task EXCEPT ![w] = [i \in Ids |-> IF i \in DueBatch
             THEN [NoTask EXCEPT !.phase = "calling", !.token = t] ELSE NoTask]]
  BY DEF Claim
<1>2. UNCHANGED <<purchase, placed, checks>>
  BY DEF Claim
<1>3. \A j \in Ids : outbox'[j].status = outbox[j].status
  BY <1>1 DEF IInv, TypeOK, Row
<1>4. \A v \in Workers \ {w}, j \in Ids : task'[v][j] = task[v][j] /\ task[v][j].token # t
  <2>1. \A v \in Workers, j \in Ids : task[v][j].token \in TokensInUse
    BY DEF TokensInUse
  <2>2. \A v \in Workers \ {w} : task'[v] = task[v]
    BY <1>1 DEF IInv, TypeOK
  <2>3. QED
    BY <2>1, <2>2
<1>5. ASSUME NEW j \in Ids
      PROVE  \/ task'[w][j] = NoTask
             \/ /\ task'[w][j].phase = "calling" /\ task'[w][j].token = t
                /\ outbox[j].status = "PENDING"
  BY <1>1 DEF IInv, TypeOK, NoTask, DueBatch, Due, Pending
<1>6. BooksAgree'
  BY <1>2, <1>3 DEF IInv, BooksAgree
<1>7. OneOwner'
  BY <1>4, <1>5 DEF IInv, OneOwner, Live, NoTask
<1>8. TasksFollowBooks'
  <2>1. ASSUME NEW v \in Workers, NEW j \in Ids, v # w
        PROVE  TasksFollowBooks!(v, j)'
    BY <1>2, <1>4, <2>1 DEF IInv, TasksFollowBooks, Live
  <2>2. ASSUME NEW j \in Ids PROVE TasksFollowBooks!(w, j)'
    <3>1. outbox[j].status = "PENDING" => purchase'[j].status = "OUTBOX_PENDING"
      BY <1>2 DEF IInv, BooksAgree
    <3>2. CASE task'[w][j] = NoTask
      BY <3>2 DEF Live, NoTask
    <3>3. CASE /\ task'[w][j].phase = "calling" /\ task'[w][j].token = t
               /\ outbox[j].status = "PENDING"
      BY <3>1, <3>3 DEF Live
    <3>4. QED
      BY <1>5, <3>2, <3>3
  <2>3. QED
    BY <2>1, <2>2 DEF TasksFollowBooks
<1>9. ChecksFollowBooks'
  BY <1>2 DEF IInv, ChecksFollowBooks
<1>10. QED
  BY <1>6, <1>7, <1>8, <1>9

LEMMA AnswerStep ==
  ASSUME IInv, NEW w \in Workers, NEW i \in Ids, NEW reply \in Replies, NEW n \in 0..1,
         Answer(w, i, reply, n)
  PROVE  BooksAgree' /\ OneOwner' /\ TasksFollowBooks' /\ ChecksFollowBooks'
<1> DEFINE t == [task[w][i] EXCEPT !.phase = "answered", !.outcome = Classify(reply),
                   !.order = IF reply = "receipt" THEN placed[i] + 1 ELSE 0]
<1>0. TypeOK /\ task[w][i] \in Task
  BY DEF IInv, TypeOK
<1>1. \A v \in Workers, j \in Ids :
        task'[v][j] = IF v = w /\ j = i THEN t ELSE task[v][j]
  <2>1. task' = [task EXCEPT ![w][i] = t]
    BY DEF Answer
  <2> HIDE DEF t
  <2>2. QED
    BY <1>0, <2>1 DEF TypeOK
<1>2. UNCHANGED <<outbox, purchase, checks>>
  BY DEF Answer
<1>3. /\ \A j \in Ids : placed[j] \in Nat /\ placed'[j] \in Nat /\ placed[j] <= placed'[j]
      /\ reply = "receipt" => placed'[i] = placed[i] + 1
  BY <1>0 DEF Answer, TypeOK
<1>4. /\ t.phase = "answered" /\ t.token = task[w][i].token
      /\ t.outcome = "delivered" => reply = "receipt" /\ t.order = placed[i] + 1
  BY <1>0 DEF Task, Classify, Replies
<1>5. task[w][i].phase = "calling"
  BY DEF Answer
<1> HIDE DEF t
<1>6. BooksAgree'
  BY <1>0, <1>2, <1>3 DEF IInv, TypeOK, Purchase, BooksAgree
<1>7. OneOwner'
  BY <1>1, <1>4, <1>5 DEF IInv, OneOwner, Live
<1>8. TasksFollowBooks'
  <2> SUFFICES ASSUME NEW v \in Workers, NEW j \in Ids PROVE TasksFollowBooks!(v, j)'
    BY DEF TasksFollowBooks
  <2>1. TasksFollowBooks!(v, j) /\ TasksFollowBooks!(w, i)
    BY DEF IInv, TasksFollowBooks
  <2>2. CASE v = w /\ j = i
    <3>1. t.outcome = "delivered" => t.order \in 1..placed'[i]
      BY <1>3, <1>4
    <3>2. QED
      BY <1>1, <1>2, <1>4, <1>5, <2>1, <2>2, <3>1 DEF Live
  <2>3. CASE ~(v = w /\ j = i)
    BY <1>1, <1>2, <1>3, <2>1, <2>3 DEF Live
  <2>4. QED
    BY <2>2, <2>3
<1>9. ChecksFollowBooks'
  BY <1>2 DEF IInv, ChecksFollowBooks
<1>10. QED
  BY <1>6, <1>7, <1>8, <1>9

LEMMA RecordDeliveredStep ==
  ASSUME IInv, NEW w \in Workers, NEW i \in Ids, RecordDelivered(w, i)
  PROVE  BooksAgree' /\ OneOwner' /\ TasksFollowBooks' /\ ChecksFollowBooks'
<1> DEFINE t == [task[w][i] EXCEPT !.phase = "hook"]
           p == [status |-> "SUPPLIER_ACCEPTED", order |-> task[w][i].order]
<1>0. TypeOK /\ task[w][i] \in Task
  BY DEF IInv, TypeOK
<1>1. \A v \in Workers, j \in Ids :
        task'[v][j] = IF v = w /\ j = i THEN t ELSE task[v][j]
  <2>1. task' = [task EXCEPT ![w][i] = t]
    BY DEF RecordDelivered
  <2> HIDE DEF t
  <2>2. QED
    BY <1>0, <2>1 DEF TypeOK
<1>2. UNCHANGED <<placed, checks>>
  BY DEF RecordDelivered
<1>3. /\ purchase'[i] = p /\ outbox'[i].status = "DELIVERED"
      /\ \A j \in Ids \ {i} : purchase'[j] = purchase[j] /\ outbox'[j] = outbox[j]
  BY <1>0 DEF RecordDelivered, TypeOK, Row
<1>4. t.phase = "hook" /\ t.token = task[w][i].token /\ t.order = task[w][i].order
  BY <1>0 DEF Task
<1>5. purchase[i].status = "OUTBOX_PENDING"
  BY DEF RecordDelivered, Holds, Pending, IInv, BooksAgree
<1>6. task[w][i].order \in 1..placed[i]
  BY DEF RecordDelivered, IInv, TasksFollowBooks
<1> HIDE DEF t
<1>7. BooksAgree'
  BY <1>2, <1>3, <1>6 DEF IInv, BooksAgree
<1>8. OneOwner'
  BY <1>1, <1>4 DEF IInv, OneOwner, Live
<1>9. TasksFollowBooks'
  <2> SUFFICES ASSUME NEW v \in Workers, NEW j \in Ids PROVE TasksFollowBooks!(v, j)'
    BY DEF TasksFollowBooks
  <2>1. TasksFollowBooks!(v, j)
    BY DEF IInv, TasksFollowBooks
  <2>2. CASE v = w /\ j = i
    BY <1>1, <1>3, <1>4, <2>2 DEF Live
  <2>3. CASE ~(v = w /\ j = i)
    BY <1>1, <1>2, <1>3, <1>5, <2>1, <2>3 DEF Live
  <2>4. QED
    BY <2>2, <2>3
<1>10. ChecksFollowBooks'
  BY <1>0, <1>2, <1>3, <1>5, ChecksKept DEF IInv
<1>11. QED
  BY <1>7, <1>8, <1>9, <1>10

LEMMA RecordDeadStep ==
  ASSUME IInv, NEW w \in Workers, NEW i \in Ids, RecordDead(w, i)
  PROVE  BooksAgree' /\ OneOwner' /\ TasksFollowBooks' /\ ChecksFollowBooks'
<1>0. TypeOK
  BY DEF IInv
<1>1. \A v \in Workers, j \in Ids :
        task'[v][j] = IF v = w /\ j = i THEN NoTask ELSE task[v][j]
  BY <1>0 DEF RecordDead, TypeOK
<1>2. UNCHANGED <<placed, checks>>
  BY DEF RecordDead
<1>3. /\ purchase'[i].status = "OUTBOX_DELIVERY_ERROR" /\ outbox'[i].status = "DEAD"
      /\ \A j \in Ids \ {i} : purchase'[j] = purchase[j] /\ outbox'[j] = outbox[j]
  BY <1>0 DEF RecordDead, TypeOK, Row, Purchase
<1>4. purchase[i].status = "OUTBOX_PENDING"
  BY DEF RecordDead, Holds, Pending, IInv, BooksAgree
<1>5. BooksAgree'
  BY <1>2, <1>3 DEF IInv, BooksAgree
<1>6. OneOwner'
  BY <1>1 DEF IInv, OneOwner, Live, NoTask
<1>7. TasksFollowBooks'
  BY <1>1, <1>2, <1>3, <1>4 DEF IInv, TasksFollowBooks, Live, NoTask
<1>8. ChecksFollowBooks'
  BY <1>0, <1>2, <1>3, <1>4, ChecksKept DEF IInv
<1>9. QED
  BY <1>5, <1>6, <1>7, <1>8

LEMMA AfterCompleteStep ==
  ASSUME IInv, NEW w \in Workers, NEW i \in Ids, AfterComplete(w, i)
  PROVE  BooksAgree' /\ OneOwner' /\ TasksFollowBooks' /\ ChecksFollowBooks'
<1>0. TypeOK
  BY DEF IInv
<1>1. \A v \in Workers, j \in Ids : task'[v][j] \in {task[v][j], NoTask}
  BY <1>0, TaskAt DEF AfterComplete
<1>2. BooksAgree' /\ OneOwner' /\ TasksFollowBooks'
  BY <1>1, QuietStep DEF AfterComplete
<1>3. purchase[i] = [status |-> "SUPPLIER_ACCEPTED", order |-> task[w][i].order]
  BY DEF AfterComplete, IInv, TasksFollowBooks
<1>4. ASSUME NEW c \in checks'
      PROVE  purchase'[c[1]] = [status |-> "SUPPLIER_ACCEPTED", order |-> c[2]]
  <2>1. CASE c \in checks
    BY <2>1 DEF AfterComplete, IInv, ChecksFollowBooks
  <2>2. CASE c = <<i, task[w][i].order>>
    BY <1>3, <2>2 DEF AfterComplete
  <2>3. QED
    BY <2>1, <2>2 DEF AfterComplete
<1>5. ChecksFollowBooks'
  BY <1>4 DEF ChecksFollowBooks
<1>6. QED
  BY <1>2, <1>5

\* Every step preserves the inductive invariant.
LEMMA StepIInv == IInv /\ [Next]_vars => IInv'
<1> SUFFICES ASSUME IInv, [Next]_vars
             PROVE  BooksAgree' /\ OneOwner' /\ TasksFollowBooks' /\ ChecksFollowBooks'
  BY TypeStep DEF IInv
<1>0. TypeOK
  BY DEF IInv
<1>1. ASSUME NEW w \in Workers, NEW i \in Ids,
             RecordRetry(w, i) \/ RecordStale(w, i) \/ RecordFails(w, i)
      PROVE  BooksAgree' /\ OneOwner' /\ TasksFollowBooks' /\ ChecksFollowBooks'
  <2>1. \A v \in Workers, j \in Ids : task'[v][j] \in {task[v][j], NoTask}
    <3>1. task' = [task EXCEPT ![w][i] = NoTask]
      BY <1>1 DEF RecordRetry, RecordStale, RecordFails
    <3>2. QED
      BY <1>0, <3>1, TaskAt
  <2>2. \A j \in Ids : outbox'[j].status = outbox[j].status
    <3>1. CASE RecordRetry(w, i)
      BY <1>0, <3>1 DEF RecordRetry, TypeOK, Row
    <3>2. CASE RecordStale(w, i) \/ RecordFails(w, i)
      BY <3>2 DEF RecordStale, RecordFails
    <3>3. QED
      BY <1>1, <3>1, <3>2
  <2>3. UNCHANGED <<purchase, placed, checks>>
    BY <1>1 DEF RecordRetry, RecordStale, RecordFails
  <2>4. QED
    BY <2>1, <2>2, <2>3, QuietStep
<1>2. ASSUME NEW w \in Workers,
             \/ Start(w) \/ Stop(w) \/ StopDone(w) \/ UNCHANGED vars
      PROVE  BooksAgree' /\ OneOwner' /\ TasksFollowBooks' /\ ChecksFollowBooks'
  BY <1>2, QuietStep DEF Start, Stop, StopDone, vars
<1>3. ASSUME NEW w \in Workers, GraceExpired(w) \/ Crash(w)
      PROVE  BooksAgree' /\ OneOwner' /\ TasksFollowBooks' /\ ChecksFollowBooks'
  <2>1. Abandon(w)
    BY <1>3 DEF GraceExpired, Crash
  <2>2. \A v \in Workers, j \in Ids : task'[v][j] \in {task[v][j], NoTask}
    BY <1>0, <2>1 DEF Abandon, TypeOK
  <2>3. QED
    BY <2>1, <2>2, QuietStep DEF Abandon
<1>4. ASSUME NEW w \in Workers, Cleanup(w)
      PROVE  BooksAgree' /\ OneOwner' /\ TasksFollowBooks' /\ ChecksFollowBooks'
  <2>1. \A j \in Ids : \/ outbox'[j].status = outbox[j].status
                       \/ outbox[j].status = "DELIVERED" /\ outbox'[j].status = "absent"
    BY <1>4 DEF Cleanup, NoRow
  <2>2. QED
    BY <1>4, <2>1, QuietStep DEF Cleanup
<1>5. CASE Tick
  <2>1. \A j \in Ids : outbox'[j].status = outbox[j].status
    BY <1>0, <1>5 DEF Tick, Aged, TypeOK, Row
  <2>2. QED
    BY <1>5, <2>1, QuietStep DEF Tick
<1>6. CASE UNCHANGED vars
  BY <1>6, QuietStep DEF vars
<1>7. QED
  BY <1>1, <1>2, <1>3, <1>4, <1>5, <1>6, EnqueueStep, ClaimStep, AnswerStep,
     RecordDeliveredStep, RecordDeadStep, AfterCompleteStep
  DEF Next, Worker, DeliverOne

\* IInv holds throughout.
THEOREM Invariant == Spec => []IInv
<1>1. QED
  BY InitIInv, StepIInv, PTL DEF Spec

\* Message and purchase agree in every reachable state.
THEOREM BooksAlwaysAgree == Spec => []BooksAgree
<1>1. IInv => BooksAgree
  BY DEF IInv
<1>2. QED
  BY <1>1, Invariant, PTL

\* Leases of two processes are never mixed up.
THEOREM OwnersDiffer == Spec => []OneOwner
<1>1. IInv => OneOwner
  BY DEF IInv
<1>2. QED
  BY <1>1, Invariant, PTL

\* A scheduled status check follows the order the purchase names.
THEOREM ChecksAreOfRecordedOrders == Spec => []ChecksFollowBooks
<1>1. IInv => ChecksFollowBooks
  BY DEF IInv
<1>2. QED
  BY <1>1, Invariant, PTL

-----------------------------------------------------------------------------
\* A settled purchase is never touched again, whatever answers come late.
THEOREM SettledPurchasesStay == Spec => SettledForGood
<1> DEFINE Stay == \A i \in Ids :
      purchase[i].status \in {"SUPPLIER_ACCEPTED", "OUTBOX_DELIVERY_ERROR"}
        => purchase'[i] = purchase[i]
<1>1. ASSUME IInv, Next PROVE Stay
  <2>0. TypeOK /\ BooksAgree
    BY <1>1 DEF IInv
  <2>1. ASSUME NEW k \in Keys, Enqueue(k) PROVE Stay
    BY <2>0, <2>1 DEF Enqueue, TypeOK
  <2>2. ASSUME NEW w \in Workers, NEW i \in Ids, RecordDelivered(w, i) \/ RecordDead(w, i)
        PROVE  Stay
    <3>1. purchase[i].status = "OUTBOX_PENDING"
      BY <2>0, <2>2 DEF RecordDelivered, RecordDead, Holds, Pending, BooksAgree
    <3>2. \A j \in Ids \ {i} : purchase'[j] = purchase[j]
      BY <2>0, <2>2 DEF RecordDelivered, RecordDead, TypeOK
    <3>3. QED
      BY <3>1, <3>2
  <2>3. ASSUME NEW w \in Workers, NEW i \in Ids, NEW reply \in Replies, NEW n \in 0..1,
               Answer(w, i, reply, n)
        PROVE  Stay
    BY <2>3 DEF Answer
  <2>4. ASSUME NEW w \in Workers, NEW i \in Ids,
               RecordRetry(w, i) \/ RecordStale(w, i) \/ RecordFails(w, i) \/ AfterComplete(w, i)
        PROVE  Stay
    BY <2>4 DEF RecordRetry, RecordStale, RecordFails, AfterComplete
  <2>5. ASSUME NEW w \in Workers,
               \/ Start(w) \/ Stop(w) \/ StopDone(w) \/ GraceExpired(w) \/ Crash(w)
               \/ Cleanup(w) \/ Claim(w)
        PROVE  Stay
    BY <2>5 DEF Start, Stop, StopDone, GraceExpired, Crash, Abandon, Cleanup, Claim
  <2>6. ASSUME Tick PROVE Stay
    BY <2>6 DEF Tick
  <2>7. QED
    BY <1>1, <2>1, <2>2, <2>3, <2>4, <2>5, <2>6 DEF Next, Worker, DeliverOne
<1>2. IInv /\ [Next]_vars => [Stay]_vars
  BY <1>1
<1>3. Spec => [][Stay]_vars
  BY <1>2, Invariant, PTL DEF Spec
<1>4. QED
  BY <1>3 DEF SettledForGood

-----------------------------------------------------------------------------
\* Every order has its place.

\* OrdersAccounted depends on nothing but these values.
LEMMA AccountsKept ==
  ASSUME OrdersAccounted, UNCHANGED placed,
         \A j \in Ids : Recorded(j)' = Recorded(j),
         \A j \in Ids, v \in Workers : Unrecorded(v, j)' \in {Unrecorded(v, j), {}},
         \A j \in Ids : lost[j] \subseteq lost'[j],
         \A j \in Ids : \A n \in lost'[j] : n \in lost[j]
           \/ \E v \in Workers : n \in Unrecorded(v, j) /\ Unrecorded(v, j)' = {},
         \A j \in Ids, v \in Workers :
           Unrecorded(v, j) \subseteq Unrecorded(v, j)' \cup lost'[j],
         \A j \in Ids, v \in Workers : Unrecorded(v, j) \subseteq 1..placed[j]
  PROVE  OrdersAccounted'
<1> SUFFICES ASSUME NEW i \in Ids PROVE OrdersAccounted!(i)'
  BY DEF OrdersAccounted
<1> USE DEF OrdersAccounted
<1>1. OrdersAccounted!(i)
  OBVIOUS
<1>2. lost'[i] \subseteq 1..placed'[i]
  BY <1>1
<1>3. \A n \in 1..placed'[i] : n \in (Recorded(i) \cup lost[i])' \/ \E w \in Workers : n \in Unrecorded(w, i)'
  BY <1>1
<1>4. Recorded(i)' \cap lost'[i] = {}
  BY <1>1
<1>5. ASSUME NEW w \in Workers
      PROVE  /\ Unrecorded(w, i)' \cap (Recorded(i)' \cup lost'[i]) = {}
             /\ \A v \in Workers \ {w} : Unrecorded(v, i)' \cap Unrecorded(w, i)' = {}
  BY <1>1
<1>6. QED
  BY <1>2, <1>3, <1>4, <1>5

\* What a delivery has in hand exists.
LEMMA InHandExists ==
  ASSUME IInv
  PROVE  \A j \in Ids, v \in Workers : Unrecorded(v, j) \subseteq 1..placed[j]
BY DEF IInv, TasksFollowBooks, Unrecorded

\* Steps in which deliveries only start, or end with nothing in hand.
LEMMA AccountsQuiet ==
  ASSUME IInv, OrdersAccounted, UNCHANGED <<placed, lost>>,
         \A j \in Ids : Recorded(j)' = Recorded(j),
         \A j \in Ids, v \in Workers : Unrecorded(v, j)' = Unrecorded(v, j)
  PROVE  OrdersAccounted'
BY AccountsKept, InHandExists

LEMMA AnswerAccounts ==
  ASSUME IInv, OrdersAccounted,
         NEW w \in Workers, NEW i \in Ids, NEW reply \in Replies, NEW n \in 0..1,
         Answer(w, i, reply, n)
  PROVE  OrdersAccounted'
<1> DEFINE t == [task[w][i] EXCEPT !.phase = "answered", !.outcome = Classify(reply),
                   !.order = IF reply = "receipt" THEN placed[i] + 1 ELSE 0]
           hand == IF reply = "receipt" THEN {placed[i] + 1} ELSE {}
           wreck == IF reply # "receipt" /\ n = 1 THEN {placed[i] + 1} ELSE {}
<1>0. TypeOK /\ task[w][i] \in Task
  BY DEF IInv, TypeOK
<1>1. \A v \in Workers, j \in Ids :
        task'[v][j] = IF v = w /\ j = i THEN t ELSE task[v][j]
  <2>1. task' = [task EXCEPT ![w][i] = t]
    BY DEF Answer
  <2> HIDE DEF t
  <2>2. QED
    BY <1>0, <2>1 DEF TypeOK
<1>2. /\ t.phase = "answered"
      /\ t.outcome = "delivered" <=> reply = "receipt"
      /\ reply = "receipt" => t.order = placed[i] + 1
  BY <1>0 DEF Task, Classify, Replies
<1> HIDE DEF t
<1>3. Unrecorded(w, i)' = hand /\ Unrecorded(w, i) = {}
  BY <1>1, <1>2 DEF Answer, Unrecorded
<1>4. \A v \in Workers, j \in Ids : ~(v = w /\ j = i) => Unrecorded(v, j)' = Unrecorded(v, j)
  BY <1>1 DEF Unrecorded
<1>5. \A j \in Ids : Recorded(j)' = Recorded(j) /\ Recorded(j) \subseteq 1..placed[j]
  BY DEF Answer, Recorded, IInv, BooksAgree
<1>6. /\ placed[i] \in Nat /\ placed'[i] = placed[i] + n
      /\ lost'[i] = lost[i] \cup wreck
      /\ \A j \in Ids \ {i} : placed'[j] = placed[j] /\ lost'[j] = lost[j]
      /\ reply = "receipt" => n = 1
  BY <1>0 DEF Answer, TypeOK
<1>7. \A j \in Ids, v \in Workers : Unrecorded(v, j) \subseteq 1..placed[j]
  BY InHandExists
<1> SUFFICES ASSUME NEW j \in Ids PROVE OrdersAccounted!(j)'
  BY DEF OrdersAccounted
<1>8. OrdersAccounted!(j)
  BY DEF OrdersAccounted
<1>9. CASE j # i
  <2>1. \A v \in Workers : Unrecorded(v, j)' = Unrecorded(v, j)
    BY <1>4, <1>9
  <2>2. placed'[j] = placed[j] /\ lost'[j] = lost[j] /\ Recorded(j)' = Recorded(j)
    BY <1>5, <1>6, <1>9
  <2>3. QED
    BY <1>8, <2>1, <2>2
<1>10. CASE j = i
  <2>1. placed[i] + 1 \notin 1..placed[i]
    BY <1>6
  <2>2. 1..placed'[i] = 1..placed[i] \cup hand \cup wreck
    <3>1. hand \cup wreck = IF n = 1 THEN {placed[i] + 1} ELSE {}
      BY <1>6
    <3>2. QED
      BY <1>6, <3>1
  <2>3. /\ hand \cap wreck = {} /\ hand \cap 1..placed[i] = {}
        /\ wreck \cap 1..placed[i] = {}
    BY <2>1
  <2> HIDE DEF hand, wreck
  <2>4. \A v \in Workers \ {w} : Unrecorded(v, i)' = Unrecorded(v, i)
    BY <1>4
  <2>5. lost'[i] \subseteq 1..placed'[i]
    BY <1>6, <1>8, <1>10, <2>2
  <2>6. \A m \in 1..placed'[i] : m \in Recorded(i)' \cup lost'[i] \/ \E v \in Workers : m \in Unrecorded(v, i)'
    <3> TAKE m \in 1..placed'[i]
    <3>1. CASE m \in hand
      BY <1>3, <3>1
    <3>2. CASE m \in wreck
      BY <1>6, <3>2
    <3>3. CASE m \in Recorded(i) \cup lost[i]
      BY <1>5, <1>6, <3>3
    <3>4. ASSUME NEW v \in Workers, m \in Unrecorded(v, i)
          PROVE  \E u \in Workers : m \in Unrecorded(u, i)'
      BY <1>3, <2>4, <3>4
    <3>5. QED
      BY <1>8, <1>10, <2>2, <3>1, <3>2, <3>3, <3>4
  <2>7. Recorded(i)' \cap lost'[i] = {}
    BY <1>5, <1>6, <1>8, <1>10, <2>3
  <2>8. ASSUME NEW v \in Workers
        PROVE  /\ Unrecorded(v, i)' \cap (Recorded(i)' \cup lost'[i]) = {}
               /\ \A u \in Workers \ {v} : Unrecorded(u, i)' \cap Unrecorded(v, i)' = {}
    <3>1. CASE v = w
      BY <1>3, <1>5, <1>6, <1>7, <1>8, <1>10, <2>3, <2>4, <3>1
    <3>2. CASE v # w
      BY <1>3, <1>5, <1>6, <1>7, <1>8, <1>10, <2>3, <2>4, <3>2
    <3>3. QED
      BY <3>1, <3>2
  <2>9. QED
    BY <1>10, <2>5, <2>6, <2>7, <2>8
<1>11. QED
  BY <1>9, <1>10

LEMMA RecordDeliveredAccounts ==
  ASSUME IInv, OrdersAccounted, NEW w \in Workers, NEW i \in Ids, RecordDelivered(w, i)
  PROVE  OrdersAccounted'
<1> DEFINE t == [task[w][i] EXCEPT !.phase = "hook"]
<1>0. TypeOK /\ task[w][i] \in Task
  BY DEF IInv, TypeOK
<1>1. \A v \in Workers, j \in Ids :
        task'[v][j] = IF v = w /\ j = i THEN t ELSE task[v][j]
  <2>1. task' = [task EXCEPT ![w][i] = t]
    BY DEF RecordDelivered
  <2> HIDE DEF t
  <2>2. QED
    BY <1>0, <2>1 DEF TypeOK
<1>2. t.phase = "hook"
  BY <1>0 DEF Task
<1> HIDE DEF t
<1>3. Unrecorded(w, i)' = {} /\ Unrecorded(w, i) = {task[w][i].order}
  BY <1>1, <1>2 DEF RecordDelivered, Unrecorded
<1>4. \A v \in Workers, j \in Ids : ~(v = w /\ j = i) => Unrecorded(v, j)' = Unrecorded(v, j)
  BY <1>1 DEF Unrecorded
<1>5. Recorded(i) = {} /\ Recorded(i)' = Unrecorded(w, i)
  <2>1. purchase[i].status = "OUTBOX_PENDING"
    BY DEF RecordDelivered, Holds, Pending, IInv, BooksAgree
  <2>2. purchase'[i] = [status |-> "SUPPLIER_ACCEPTED", order |-> task[w][i].order]
    BY <1>0 DEF RecordDelivered, TypeOK
  <2>3. QED
    BY <1>3, <2>1, <2>2 DEF Recorded
<1>6. \A j \in Ids \ {i} : Recorded(j)' = Recorded(j)
  BY <1>0 DEF RecordDelivered, Recorded, TypeOK
<1>7. UNCHANGED <<placed, lost>>
  BY DEF RecordDelivered
<1> SUFFICES ASSUME NEW j \in Ids PROVE OrdersAccounted!(j)'
  BY DEF OrdersAccounted
<1>8. OrdersAccounted!(j)
  BY DEF OrdersAccounted
<1>9. CASE j # i
  <2>1. \A v \in Workers : Unrecorded(v, j)' = Unrecorded(v, j)
    BY <1>4, <1>9
  <2>2. QED
    BY <1>6, <1>7, <1>8, <1>9, <2>1
<1>10. CASE j = i
  <2>1. \A v \in Workers \ {w} : Unrecorded(v, i)' = Unrecorded(v, i)
    BY <1>4
  <2>2. QED
    BY <1>3, <1>5, <1>7, <1>8, <1>10, <2>1
<1>11. QED
  BY <1>9, <1>10

\* A delivery of w for i ends, and what it had in hand is lost.
LEMMA EndAccounts ==
  ASSUME IInv, OrdersAccounted, NEW w \in Workers, NEW i \in Ids,
         task' = [task EXCEPT ![w][i] = NoTask],
         lost' = [lost EXCEPT ![i] = @ \cup Unrecorded(w, i)],
         UNCHANGED placed, \A j \in Ids : Recorded(j)' = Recorded(j)
  PROVE  OrdersAccounted'
<1>0. TypeOK
  BY DEF IInv
<1>1. \A v \in Workers, j \in Ids :
        task'[v][j] = IF v = w /\ j = i THEN NoTask ELSE task[v][j]
  <2>1. task' = [task EXCEPT ![w][i] = NoTask]
    OBVIOUS
  <2>2. QED
    BY ONLY TypeOK, <1>0, <2>1, w \in Workers, i \in Ids DEF TypeOK
<1>2. \A v \in Workers, j \in Ids :
        Unrecorded(v, j)' = IF v = w /\ j = i THEN {} ELSE Unrecorded(v, j)
  BY <1>1 DEF Unrecorded, NoTask
<1>3. \A j \in Ids : lost'[j] = IF j = i THEN lost[j] \cup Unrecorded(w, i) ELSE lost[j]
  BY <1>0 DEF TypeOK
<1>4. QED
  BY <1>2, <1>3, AccountsKept, InHandExists

\* Every step keeps the accounts.
LEMMA StepAccounts == IInv /\ OrdersAccounted /\ [Next]_vars => OrdersAccounted'
<1> SUFFICES ASSUME IInv, OrdersAccounted, [Next]_vars PROVE OrdersAccounted'
  OBVIOUS
<1>0. TypeOK /\ BooksAgree
  BY DEF IInv
<1>1. ASSUME NEW k \in Keys, Enqueue(k) PROVE OrdersAccounted'
  <2>1. PICK i \in Ids :
          /\ purchase[i].status = "none"
          /\ purchase' = [purchase EXCEPT ![i] = [@ EXCEPT !.status = "OUTBOX_PENDING"]]
    BY <1>1 DEF Enqueue
  <2>2. \A j \in Ids : Recorded(j)' = Recorded(j)
    BY <1>0, <2>1 DEF Recorded, TypeOK, Purchase
  <2>3. QED
    BY <1>1, <2>2, AccountsQuiet DEF Enqueue, Unrecorded
<1>2. ASSUME NEW w \in Workers, Claim(w) PROVE OrdersAccounted'
  <2>1. PICK t \in Tokens :
          task' = [task EXCEPT ![w] = [i \in Ids |-> IF i \in DueBatch
               THEN [NoTask EXCEPT !.phase = "calling", !.token = t] ELSE NoTask]]
    BY <1>2 DEF Claim
  <2>2. \A i \in Ids : task[w][i].phase = "idle" /\ task'[w][i].phase \in {"calling", "idle"}
    BY <1>0, <1>2, <2>1 DEF Claim, Batch, TypeOK, NoTask
  <2>3. \A v \in Workers \ {w} : task'[v] = task[v]
    BY <1>0, <2>1 DEF TypeOK
  <2>4. \A v \in Workers, i \in Ids : Unrecorded(v, i)' = Unrecorded(v, i)
    BY <2>2, <2>3 DEF Unrecorded
  <2>5. \A i \in Ids : Recorded(i)' = Recorded(i)
    BY <1>2 DEF Claim, Recorded
  <2>6. QED
    BY <1>2, <2>4, <2>5, AccountsQuiet DEF Claim
<1>3. ASSUME NEW w \in Workers, NEW i \in Ids,
             RecordDead(w, i) \/ RecordRetry(w, i) \/ AfterComplete(w, i)
      PROVE  OrdersAccounted'
  <2>1. Unrecorded(w, i) = {}
    BY <1>3 DEF RecordDead, RecordRetry, AfterComplete, Unrecorded
  <2>2. \A j \in Ids : Recorded(j)' = Recorded(j)
    <3>1. CASE RecordDead(w, i)
      <4>1. purchase[i].status = "OUTBOX_PENDING"
        BY <1>0, <3>1 DEF RecordDead, Holds, Pending, BooksAgree
      <4>2. purchase' = [purchase EXCEPT ![i] = [@ EXCEPT !.status = "OUTBOX_DELIVERY_ERROR"]]
        BY <3>1 DEF RecordDead
      <4>3. QED
        BY <1>0, <4>1, <4>2 DEF Recorded, TypeOK, Purchase
    <3>2. CASE RecordRetry(w, i) \/ AfterComplete(w, i)
      BY <3>2 DEF RecordRetry, AfterComplete, Recorded
    <3>3. QED
      BY <1>3, <3>1, <3>2
  <2>3. /\ task' = [task EXCEPT ![w][i] = NoTask]
        /\ UNCHANGED <<placed, lost>>
    BY <1>3 DEF RecordDead, RecordRetry, AfterComplete
  <2>4. lost' = [lost EXCEPT ![i] = @ \cup Unrecorded(w, i)]
    BY <1>0, <2>1, <2>3 DEF TypeOK
  <2>5. QED
    BY <2>2, <2>3, <2>4, EndAccounts
<1>4. ASSUME NEW w \in Workers, NEW i \in Ids, RecordStale(w, i) \/ RecordFails(w, i)
      PROVE  OrdersAccounted'
  BY <1>4, EndAccounts DEF RecordStale, RecordFails, Recorded
<1>5. ASSUME NEW w \in Workers, GraceExpired(w) \/ Crash(w) PROVE OrdersAccounted'
  <2>1. Abandon(w)
    BY <1>5 DEF GraceExpired, Crash
  <2>2. \A v \in Workers, i \in Ids :
          Unrecorded(v, i)' = IF v = w THEN {} ELSE Unrecorded(v, i)
    BY <1>0, <2>1 DEF Abandon, Unrecorded, NoTask, TypeOK
  <2>3. \A i \in Ids : lost'[i] = lost[i] \cup Unrecorded(w, i)
    BY <2>1 DEF Abandon
  <2>4. UNCHANGED placed /\ \A i \in Ids : Recorded(i)' = Recorded(i)
    BY <2>1 DEF Abandon, Recorded
  <2>5. QED
    BY <2>2, <2>3, <2>4, AccountsKept, InHandExists
<1>6. ASSUME NEW w \in Workers,
             Start(w) \/ Stop(w) \/ StopDone(w) \/ Cleanup(w)
      PROVE  OrdersAccounted'
  BY <1>6, AccountsQuiet
  DEF Start, Stop, StopDone, Cleanup, Recorded, Unrecorded
<1>7. CASE Tick \/ UNCHANGED vars
  BY <1>7, AccountsQuiet DEF Tick, vars, Recorded, Unrecorded
<1>8. QED
  BY <1>1, <1>2, <1>3, <1>4, <1>5, <1>6, <1>7, AnswerAccounts, RecordDeliveredAccounts
  DEF Next, Worker, DeliverOne

\* Each order the supplier created is in one place, and known of there.
THEOREM OrdersStayAccounted == Spec => []OrdersAccounted
<1>1. Init => OrdersAccounted
  BY DEF Init, OrdersAccounted, Recorded, Unrecorded, NoTask, NoPurchase
<1>2. QED
  BY <1>1, StepAccounts, Invariant, PTL DEF Spec

-----------------------------------------------------------------------------
\* An unexpired lease is ended by its holder alone, whoever else claims,
\* cleans up or reports late.
THEOREM LeasesAreRespected == Spec => LeaseRespected
<1> DEFINE Ended(i) == \E w \in Workers :
             Live(w, i) /\ task[w][i].token = outbox[i].lease /\ ~Live(w, i)'
           Respected == \A i \in Ids :
             /\ Pending(i) /\ outbox[i].lease # NoToken /\ outbox[i].wait > 0
             /\ outbox'[i].lease # outbox[i].lease
             => Ended(i)
<1>1. ASSUME IInv, Next PROVE Respected
  <2>0. TypeOK /\ BooksAgree
    BY <1>1 DEF IInv
  <2> SUFFICES ASSUME NEW i \in Ids, Pending(i), outbox[i].lease # NoToken, outbox[i].wait > 0,
                      outbox'[i].lease # outbox[i].lease
               PROVE  Ended(i)
    OBVIOUS
  <2>1. ASSUME NEW k \in Keys, Enqueue(k) PROVE FALSE
    BY <2>0, <2>1 DEF Enqueue, BooksAgree, Pending, TypeOK
  <2>2. ASSUME NEW w \in Workers, Claim(w) PROVE FALSE
    <3>1. i \notin DueBatch
      BY <2>0 DEF DueBatch, Due, TypeOK, Row
    <3>2. outbox'[i] = outbox[i]
      BY <2>2, <3>1 DEF Claim
    <3>3. QED
      BY <3>2
  <2>3. ASSUME NEW w \in Workers, NEW j \in Ids,
               RecordDelivered(w, j) \/ RecordDead(w, j) \/ RecordRetry(w, j)
        PROVE  Ended(i)
    <3>1. \A l \in Ids \ {j} : outbox'[l] = outbox[l]
      BY <2>0, <2>3 DEF RecordDelivered, RecordDead, RecordRetry, TypeOK
    <3>2. i = j
      BY <3>1
    <3>3. Live(w, i) /\ task[w][i].token = outbox[i].lease
      BY <2>3, <3>2 DEF RecordDelivered, RecordDead, RecordRetry, Holds, Live
    <3>4. task'[w][i].phase \in {"hook", "idle"}
      <4>1. task[w][i] \in Task
        BY <2>0 DEF TypeOK
      <4>2. CASE RecordDelivered(w, i)
        BY <2>0, <4>1, <4>2 DEF RecordDelivered, TypeOK, Task
      <4>3. CASE RecordDead(w, i) \/ RecordRetry(w, i)
        <5>1. task' = [task EXCEPT ![w][i] = NoTask]
          BY <4>3 DEF RecordDead, RecordRetry
        <5>2. QED
          BY <2>0, <5>1 DEF TypeOK, NoTask
      <4>4. QED
        BY <2>3, <3>2, <4>2, <4>3
    <3>5. QED
      BY <3>3, <3>4 DEF Live
  <2>4. ASSUME NEW w \in Workers, Cleanup(w) PROVE FALSE
    BY <2>4 DEF Cleanup, Pending
  <2>5. ASSUME Tick PROVE FALSE
    <3>1. outbox'[i].lease = outbox[i].lease
      BY <2>0, <2>5 DEF Tick, Aged, TypeOK, Row
    <3>2. QED
      BY <3>1
  <2>6. ASSUME NEW w \in Workers, NEW j \in Ids,
               \/ \E reply \in Replies, n \in 0..1 : Answer(w, j, reply, n)
               \/ RecordStale(w, j) \/ RecordFails(w, j) \/ AfterComplete(w, j)
        PROVE  FALSE
    BY <2>6 DEF Answer, RecordStale, RecordFails, AfterComplete
  <2>7. ASSUME NEW w \in Workers,
               Start(w) \/ Stop(w) \/ StopDone(w) \/ GraceExpired(w) \/ Crash(w)
        PROVE  FALSE
    BY <2>7 DEF Start, Stop, StopDone, GraceExpired, Crash, Abandon
  <2>8. QED
    BY <1>1, <2>1, <2>2, <2>3, <2>4, <2>5, <2>6, <2>7 DEF Next, Worker, DeliverOne
<1>2. IInv /\ [Next]_vars => [Respected]_vars
  BY <1>1
<1>3. Spec => [][Respected]_vars
  BY <1>2, Invariant, PTL DEF Spec
<1>4. QED
  BY <1>3 DEF LeaseRespected

-----------------------------------------------------------------------------
\* While leases cover the calls a running delivery keeps its lease.

LEMMA LeaseInit == Init => LeaseCovers
BY DEF Init, LeaseCovers, Live, NoTask

LEMMA LeaseStep ==
  ASSUME IInv, LeaseCovers, [Next]_vars
  PROVE  LeaseCovers'
<1> SUFFICES ASSUME NEW v \in Workers, NEW j \in Ids \ SlowCalls, Live(v, j)'
             PROVE  Holds(v, j)' /\ outbox'[j].wait >= 1
  BY DEF LeaseCovers
<1>0. TypeOK /\ BooksAgree /\ OneOwner
  BY DEF IInv
<1>1. \A w \in Workers, i \in Ids \ SlowCalls :
        Live(w, i) => Holds(w, i) /\ outbox[i].wait >= 1
  BY DEF LeaseCovers
<1>2. ASSUME task'[v][j] = task[v][j], outbox'[j] = outbox[j]
      PROVE  Holds(v, j)' /\ outbox'[j].wait >= 1
  BY <1>1, <1>2 DEF Live, Holds, Pending
<1>3. ASSUME NEW k \in Keys, Enqueue(k)
      PROVE  Holds(v, j)' /\ outbox'[j].wait >= 1
  <2>1. Live(v, j)
    BY <1>3 DEF Enqueue, Live
  <2>2. purchase[j].status = "OUTBOX_PENDING"
    BY <1>0, <1>1, <2>1 DEF Holds, Pending, BooksAgree
  <2>3. outbox'[j] = outbox[j] /\ task'[v][j] = task[v][j]
    BY <1>0, <1>3, <2>2 DEF Enqueue, TypeOK
  <2>4. QED
    BY <1>2, <2>3
<1>4. ASSUME NEW w \in Workers, Claim(w)
      PROVE  Holds(v, j)' /\ outbox'[j].wait >= 1
  <2>1. PICK t \in Tokens \ TokensInUse :
          /\ outbox' = [i \in Ids |-> IF i \in DueBatch
               THEN [outbox[i] EXCEPT !.wait = Lease, !.lease = t] ELSE outbox[i]]
          /\ task' = [task EXCEPT ![w] = [i \in Ids |-> IF i \in DueBatch
               THEN [NoTask EXCEPT !.phase = "calling", !.token = t] ELSE NoTask]]
    BY <1>4 DEF Claim
  <2>2. j \in DueBatch => outbox[j].status = "PENDING" /\ outbox[j].wait <= 0
    BY DEF DueBatch, Due, Pending
  <2>3. CASE v = w
    <3>1. j \in DueBatch /\ task'[v][j].token = t
      BY <1>0, <2>1, <2>3 DEF TypeOK, Live, NoTask
    <3>2. outbox'[j].lease = t /\ outbox'[j].wait = Lease /\ outbox'[j].status = "PENDING"
      BY <1>0, <2>1, <2>2, <3>1 DEF TypeOK, Row
    <3>3. QED
      BY <3>1, <3>2, OutboxAssumption DEF Holds, Pending
  <2>4. CASE v # w
    <3>1. task'[v][j] = task[v][j]
      BY <1>0, <2>1, <2>4 DEF TypeOK
    <3>2. outbox[j].wait >= 1 /\ outbox[j].wait \in Int
      BY <1>0, <1>1, <3>1 DEF Live, TypeOK, Row
    <3>3. j \notin DueBatch
      BY <2>2, <3>2
    <3>4. outbox'[j] = outbox[j]
      BY <2>1, <3>3
    <3>5. QED
      BY <1>2, <3>1, <3>4
  <2>5. QED
    BY <2>3, <2>4
<1>5. ASSUME NEW w \in Workers, NEW i \in Ids, NEW reply \in Replies, NEW n \in 0..1,
             Answer(w, i, reply, n)
      PROVE  Holds(v, j)' /\ outbox'[j].wait >= 1
  <2>1. task'[v][j].token = task[v][j].token /\ Live(v, j)
    BY <1>0, <1>5 DEF Answer, TypeOK, Task, Live
  <2>2. QED
    BY <1>1, <1>5, <2>1 DEF Answer, Holds, Pending
<1>6. ASSUME NEW w \in Workers, NEW i \in Ids,
             RecordDelivered(w, i) \/ RecordDead(w, i) \/ RecordRetry(w, i)
      PROVE  Holds(v, j)' /\ outbox'[j].wait >= 1
  <2>1. Holds(w, i) /\ Live(w, i)
    BY <1>6 DEF RecordDelivered, RecordDead, RecordRetry, Live
  <2>2. \E t : task' = [task EXCEPT ![w][i] = t] /\ t.phase \in {"idle", "hook"}
    <3>1. CASE RecordDelivered(w, i)
      <4>1. [task[w][i] EXCEPT !.phase = "hook"].phase = "hook"
        BY <1>0 DEF TypeOK, Task
      <4>2. QED
        BY <3>1, <4>1 DEF RecordDelivered
    <3>2. CASE RecordDead(w, i) \/ RecordRetry(w, i)
      <4>1. task' = [task EXCEPT ![w][i] = NoTask]
        BY <3>2 DEF RecordDead, RecordRetry
      <4>2. NoTask.phase = "idle"
        BY DEF NoTask
      <4>3. QED
        BY <4>1, <4>2
    <3>3. QED
      BY <1>6, <3>1, <3>2
  <2>3. ~Live(w, i)' /\ (v # w \/ j # i => task'[v][j] = task[v][j])
    BY <1>0, <2>2 DEF TypeOK, Live
  <2>4. v # w \/ j # i
    BY <2>3
  <2>5. j # i
    BY <1>0, <1>1, <2>1, <2>3, <2>4 DEF Holds, OneOwner, Live
  <2>6. outbox'[j] = outbox[j]
    BY <1>0, <1>6, <2>5 DEF RecordDelivered, RecordDead, RecordRetry, TypeOK
  <2>7. QED
    BY <1>2, <2>3, <2>4, <2>6
<1>7. ASSUME NEW w \in Workers, NEW i \in Ids,
             RecordStale(w, i) \/ RecordFails(w, i) \/ AfterComplete(w, i)
      PROVE  Holds(v, j)' /\ outbox'[j].wait >= 1
  <2>1. task' = [task EXCEPT ![w][i] = NoTask] /\ outbox' = outbox
    BY <1>7 DEF RecordStale, RecordFails, AfterComplete
  <2>2. task'[v][j] = task[v][j]
    BY <1>0, <2>1 DEF TypeOK, Live, NoTask
  <2>3. QED
    BY <1>2, <2>1, <2>2
<1>8. ASSUME NEW w \in Workers, Start(w) \/ Stop(w) \/ StopDone(w)
      PROVE  Holds(v, j)' /\ outbox'[j].wait >= 1
  BY <1>2, <1>8 DEF Start, Stop, StopDone
<1>9. ASSUME NEW w \in Workers, GraceExpired(w) \/ Crash(w)
      PROVE  Holds(v, j)' /\ outbox'[j].wait >= 1
  <2>1. Abandon(w)
    BY <1>9 DEF GraceExpired, Crash
  <2>2. task'[v][j] = task[v][j]
    BY <1>0, <2>1 DEF Abandon, TypeOK, Live, NoTask
  <2>3. QED
    BY <1>2, <2>1, <2>2 DEF Abandon
<1>10. ASSUME NEW w \in Workers, Cleanup(w)
       PROVE  Holds(v, j)' /\ outbox'[j].wait >= 1
  <2>1. task'[v][j] = task[v][j] /\ Live(v, j)
    BY <1>10 DEF Cleanup, Live
  <2>2. outbox[j].status = "PENDING"
    BY <1>1, <2>1 DEF Holds, Pending
  <2>3. outbox'[j] = outbox[j]
    BY <1>10, <2>2 DEF Cleanup
  <2>4. QED
    BY <1>2, <2>1, <2>3
<1>11. CASE Tick
  <2>1. task'[v][j] = task[v][j] /\ Live(v, j)
    BY <1>11 DEF Tick, Live
  <2>2. Holds(v, j) /\ outbox[j].wait > 1
    BY <1>1, <1>11, <2>1 DEF Tick
  <2>3. outbox[j] \in Row /\ outbox'[j] = Aged(outbox[j])
    BY <1>0, <1>11 DEF Tick, TypeOK
  <2>4. /\ outbox'[j].status = outbox[j].status /\ outbox'[j].lease = outbox[j].lease
        /\ outbox'[j].wait \in {outbox[j].wait, outbox[j].wait - 1}
    BY <2>3 DEF Aged, Row
  <2>5. outbox'[j].wait >= 1
    BY <2>2, <2>3, <2>4 DEF Row
  <2>6. QED
    BY <2>1, <2>2, <2>4, <2>5 DEF Holds, Pending
<1>12. CASE UNCHANGED vars
  BY <1>2, <1>12 DEF vars
<1>13. QED
  BY <1>3, <1>4, <1>5, <1>6, <1>7, <1>8, <1>9, <1>10, <1>11, <1>12
  DEF Next, Worker, DeliverOne

\* With a lease that covers the HTTP timeout one process at a time delivers a
\* message.
THEOREM DeliveryIsExclusive == Spec => []ExclusiveDelivery
<1>1. Spec => []LeaseCovers
  BY Invariant, LeaseInit, LeaseStep, PTL DEF Spec
<1>2. IInv /\ LeaseCovers => ExclusiveDelivery
  BY DEF IInv, OneOwner, LeaseCovers, ExclusiveDelivery, Holds
<1>3. QED
  BY <1>1, <1>2, Invariant, PTL

-----------------------------------------------------------------------------
\* Refinement: every step is a step of OutboxContract or changes none of its
\* variables.

LEMMA ContractInit == Init => Contract!CInit
<1> SUFFICES ASSUME Init PROVE Contract!CInit
  OBVIOUS
<1>1. {i \in Ids : Pending(i)} = {}
  BY DEF Init, NoRow, Pending
<1>2. \A i \in Ids : Ledger(i) = "none" /\ purchase[i].order = 0
  BY DEF Init, NoPurchase, Ledger
<1>3. placed = [i \in Ids |-> 0]
  BY DEF Init
<1>4. QED
  BY <1>1, <1>2, <1>3 DEF Contract!CInit

\* Steps that change neither a row's status nor a purchase nor the supplier.
LEMMA ContractStutter ==
  ASSUME UNCHANGED <<purchase, placed>>,
         \A j \in Ids : (outbox'[j].status = "PENDING") <=> (outbox[j].status = "PENDING")
  PROVE  UNCHANGED Contract!cvars
<1>1. {i \in Ids : Pending(i)}' = {i \in Ids : Pending(i)}
  BY DEF Pending
<1>2. [i \in Ids |-> Ledger(i)]' = [i \in Ids |-> Ledger(i)]
  BY DEF Ledger
<1>3. [i \in Ids |-> purchase[i].order]' = [i \in Ids |-> purchase[i].order]
  OBVIOUS
<1>4. QED
  BY <1>1, <1>2, <1>3 DEF Contract!cvars

LEMMA ContractSubmit ==
  ASSUME IInv, NEW k \in Keys, Enqueue(k)
  PROVE  Contract!CNext
<1>1. PICK i \in Ids :
        /\ purchase[i].status = "none"
        /\ purchase' = [purchase EXCEPT ![i] = [@ EXCEPT !.status = "OUTBOX_PENDING"]]
        /\ outbox' = [outbox EXCEPT ![i] = [NoRow EXCEPT !.key = k, !.status = "PENDING"]]
  BY DEF Enqueue
<1>2. /\ purchase'[i].status = "OUTBOX_PENDING" /\ purchase'[i].order = purchase[i].order
      /\ outbox'[i].status = "PENDING"
      /\ \A j \in Ids \ {i} : purchase'[j] = purchase[j] /\ outbox'[j] = outbox[j]
  BY <1>1 DEF IInv, TypeOK, Purchase, NoRow
<1>3. {j \in Ids : Pending(j)}' = {j \in Ids : Pending(j)} \cup {i}
  BY <1>2 DEF Pending
<1>4. Ledger(i) = "none" /\ Ledger(i)' = "pending" /\ \A j \in Ids \ {i} : Ledger(j)' = Ledger(j)
  BY <1>1, <1>2 DEF Ledger
<1>5. [j \in Ids |-> Ledger(j)]' = [[j \in Ids |-> Ledger(j)] EXCEPT ![i] = "pending"]
  BY <1>4
<1>6. [j \in Ids |-> purchase[j].order]' = [j \in Ids |-> purchase[j].order]
  BY <1>2
<1>7. placed' = placed
  BY DEF Enqueue
<1>8. Contract!Submit(i)
  BY <1>3, <1>4, <1>5, <1>6, <1>7 DEF Contract!Submit
<1>9. QED
  BY <1>8 DEF Contract!CNext

LEMMA ContractPlace ==
  ASSUME IInv, NEW w \in Workers, NEW i \in Ids, NEW reply \in Replies, NEW n \in 0..1,
         Answer(w, i, reply, n)
  PROVE  Contract!CNext \/ UNCHANGED Contract!cvars
<1>1. UNCHANGED <<outbox, purchase>> /\ placed' = [placed EXCEPT ![i] = @ + n]
  BY DEF Answer
<1>2. CASE n = 0
  <2>1. placed' = placed
    BY <1>1, <1>2 DEF IInv, TypeOK
  <2>2. QED
    BY <1>1, <2>1, ContractStutter
<1>3. CASE n = 1
  <2>1. purchase[i].status # "none"
    BY DEF Answer, IInv, TasksFollowBooks
  <2>2. Ledger(i) # "none"
    BY <2>1 DEF Ledger, IInv, TypeOK, Purchase
  <2>3. /\ {j \in Ids : Pending(j)}' = {j \in Ids : Pending(j)}
        /\ [j \in Ids |-> Ledger(j)]' = [j \in Ids |-> Ledger(j)]
        /\ [j \in Ids |-> purchase[j].order]' = [j \in Ids |-> purchase[j].order]
    BY <1>1 DEF Pending, Ledger
  <2>4. Contract!Place(i)
    BY <1>1, <1>3, <2>2, <2>3 DEF Contract!Place
  <2>5. QED
    BY <2>4 DEF Contract!CNext
<1>4. QED
  BY <1>2, <1>3

\* What both settling steps have in common.
LEMMA ContractSettle ==
  ASSUME IInv, NEW i \in Ids, Pending(i), ~Pending(i)',
         \A j \in Ids \ {i} : purchase'[j] = purchase[j] /\ outbox'[j] = outbox[j]
  PROVE  /\ {j \in Ids : Pending(j)}' = {j \in Ids : Pending(j)} \ {i}
         /\ [j \in Ids |-> Ledger(j)]' = [[j \in Ids |-> Ledger(j)] EXCEPT ![i] = Ledger(i)']
         /\ [j \in Ids |-> purchase[j].order]'
              = [[j \in Ids |-> purchase[j].order] EXCEPT ![i] = purchase'[i].order]
<1>1. {j \in Ids : Pending(j)}' = {j \in Ids : Pending(j)} \ {i}
  BY DEF Pending
<1>2. \A j \in Ids \ {i} : Ledger(j)' = Ledger(j)
  BY DEF Ledger
<1>3. QED
  BY <1>1, <1>2

LEMMA ContractAccept ==
  ASSUME IInv, NEW w \in Workers, NEW i \in Ids, RecordDelivered(w, i)
  PROVE  Contract!CNext
<1>0. TypeOK
  BY DEF IInv
<1>1. /\ purchase'[i] = [status |-> "SUPPLIER_ACCEPTED", order |-> task[w][i].order]
      /\ outbox'[i].status = "DELIVERED"
      /\ \A j \in Ids \ {i} : purchase'[j] = purchase[j] /\ outbox'[j] = outbox[j]
  BY <1>0 DEF RecordDelivered, TypeOK, Row
<1>2. Pending(i) /\ ~Pending(i)'
  BY <1>1 DEF RecordDelivered, Holds, Pending
<1>3. task[w][i].order \in 1..placed[i] /\ placed' = placed
  BY DEF RecordDelivered, IInv, TasksFollowBooks
<1>4. Ledger(i)' = "accepted" /\ purchase'[i].order = task[w][i].order
  BY <1>1 DEF Ledger
<1>5. /\ {j \in Ids : Pending(j)}' = {j \in Ids : Pending(j)} \ {i}
      /\ [j \in Ids |-> Ledger(j)]' = [[j \in Ids |-> Ledger(j)] EXCEPT ![i] = Ledger(i)']
      /\ [j \in Ids |-> purchase[j].order]'
           = [[j \in Ids |-> purchase[j].order] EXCEPT ![i] = purchase'[i].order]
  BY <1>1, <1>2, ContractSettle
<1>6. i \in {j \in Ids : Pending(j)}
  BY <1>2
<1>7. PICK n \in 1..placed[i] : n = task[w][i].order
  BY <1>3
<1>8. \E m \in 1..placed[i] : Contract!Accept(i, m)
  BY <1>3, <1>4, <1>5, <1>6, <1>7 DEF Contract!Accept
<1>9. QED
  BY <1>8 DEF Contract!CNext

LEMMA ContractRefuse ==
  ASSUME IInv, NEW w \in Workers, NEW i \in Ids, RecordDead(w, i)
  PROVE  Contract!CNext
<1>0. TypeOK
  BY DEF IInv
<1>1. /\ purchase'[i].status = "OUTBOX_DELIVERY_ERROR"
      /\ purchase'[i].order = purchase[i].order
      /\ outbox'[i].status = "DEAD"
      /\ \A j \in Ids \ {i} : purchase'[j] = purchase[j] /\ outbox'[j] = outbox[j]
  BY <1>0 DEF RecordDead, TypeOK, Row, Purchase
<1>2. Pending(i) /\ ~Pending(i)' /\ placed' = placed
  BY <1>1 DEF RecordDead, Holds, Pending
<1>3. Ledger(i)' = "failed"
  BY <1>1 DEF Ledger
<1>4. [j \in Ids |-> purchase[j].order]' = [j \in Ids |-> purchase[j].order]
  BY <1>1
<1>5. Contract!Refuse(i)
  BY <1>1, <1>2, <1>3, <1>4, ContractSettle DEF Contract!Refuse
<1>6. QED
  BY <1>5 DEF Contract!CNext

\* The outbox, with its leases, retries, stale results, crashes and cleanup,
\* implements the contract.
THEOREM OutboxKeepsContract == Spec => KeepsContract
<1>1. ASSUME IInv, [Next]_vars PROVE Contract!CNext \/ UNCHANGED Contract!cvars
  <2>0. TypeOK
    BY <1>1 DEF IInv
  <2>1. ASSUME NEW w \in Workers, NEW i \in Ids, RecordRetry(w, i)
        PROVE  UNCHANGED Contract!cvars
    <3>1. \A j \in Ids : outbox'[j].status = outbox[j].status
      BY <2>0, <2>1 DEF RecordRetry, TypeOK, Row
    <3>2. QED
      BY <2>1, <3>1, ContractStutter DEF RecordRetry
  <2>2. ASSUME NEW w \in Workers, NEW i \in Ids,
               RecordStale(w, i) \/ RecordFails(w, i) \/ AfterComplete(w, i)
        PROVE  UNCHANGED Contract!cvars
    BY <2>2, ContractStutter DEF RecordStale, RecordFails, AfterComplete
  <2>3. ASSUME NEW w \in Workers,
               \/ Start(w) \/ Stop(w) \/ StopDone(w) \/ GraceExpired(w) \/ Crash(w)
        PROVE  UNCHANGED Contract!cvars
    BY <2>3, ContractStutter DEF Start, Stop, StopDone, GraceExpired, Crash, Abandon
  <2>4. ASSUME NEW w \in Workers, Claim(w)
        PROVE  UNCHANGED Contract!cvars
    <3>1. \A j \in Ids : outbox'[j].status = outbox[j].status
      <4>1. PICK t \in Tokens : outbox' = [j \in Ids |-> IF j \in DueBatch
              THEN [outbox[j] EXCEPT !.wait = Lease, !.lease = t] ELSE outbox[j]]
        BY <2>4 DEF Claim
      <4>2. QED
        BY <2>0, <4>1 DEF TypeOK, Row
    <3>2. QED
      BY <2>4, <3>1, ContractStutter DEF Claim
  <2>5. ASSUME NEW w \in Workers, Cleanup(w)
        PROVE  UNCHANGED Contract!cvars
    <3>1. \A j \in Ids : (outbox'[j].status = "PENDING") <=> (outbox[j].status = "PENDING")
      BY <2>5 DEF Cleanup, NoRow
    <3>2. QED
      BY <2>5, <3>1, ContractStutter DEF Cleanup
  <2>6. ASSUME Tick
        PROVE  UNCHANGED Contract!cvars
    <3>1. \A j \in Ids : outbox'[j].status = outbox[j].status
      BY <2>0, <2>6 DEF Tick, Aged, TypeOK, Row
    <3>2. QED
      BY <2>6, <3>1, ContractStutter DEF Tick
  <2>7. CASE UNCHANGED vars
    BY <2>7, ContractStutter DEF vars
  <2>8. QED
    BY <1>1, <2>1, <2>2, <2>3, <2>4, <2>5, <2>6, <2>7, ContractSubmit, ContractPlace,
       ContractAccept, ContractRefuse
    DEF Next, Worker, DeliverOne
<1>2. QED
  BY <1>1, ContractInit, Invariant, PTL DEF Spec, KeepsContract, Contract!CSpec
=============================================================================
