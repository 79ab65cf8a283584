---------------------------- MODULE GgselProofs ----------------------------
(***************************************************************************)
(* Theorems about GgselOrders for any number of redirects, orders and      *)
(* faults.                                                                 *)
(***************************************************************************)
EXTENDS GgselOrders, FiniteSetTheorems, TLAPS

\* A pass that does not outlast the lock works under a live one.
UnderLock == ~SlowRuns => \A a \in Actors : Inside(a) => lock = "live"

\* Before the sale is paid no pass gets beyond asking GGSEL about it.
PaidFirst == ~Paid =>
  /\ placed = 0 /\ ~HasRow
  /\ \A a \in Actors : step[a] \notin {"queue", "check", "create", "insert", "reject"}

\* Passes that do not overlap decide one at a time ...
Alone == ~overlapped =>
  \A a, b \in Actors : Undecided(a) /\ Undecided(b) => a = b

\* ... and one that has not decided finds no order on record.
NotYet == ~overlapped =>
  \A a \in Actors : Undecided(a) => rows["SUPPLIER_ACCEPTED"] = 0

\* An order is on record, about to be, or was lost with the pass that made it.
Orders == ~overlapped /\ ~Ambiguous =>
  /\ placed <= faults + 1
  /\ rows["SUPPLIER_ACCEPTED"] = 0 /\ (\A a \in Actors : ~At(a, "insert"))
       => placed <= faults

Launches == Alone /\ NotYet /\ Orders

IInv ==
  /\ TypeOK
  /\ UnderLock /\ LockExclusive /\ LockFreed
  /\ QueuedOnce
  /\ PaidFirst
  /\ Launches

-----------------------------------------------------------------------------

LEMMA RestType == \A a : Rest(a) \in {"idle", "gone"}
BY DEF Rest

\* A pass that goes to step s; the others stay where they are.
LEMMA GoMoves ==
  ASSUME TypeOK, NEW a \in Actors, NEW s \in Steps, Go(a, s)
  PROVE  /\ step' \in [Actors -> Steps]
         /\ step'[a] = s
         /\ \A b \in Actors : b # a => step'[b] = step[b]
BY DEF TypeOK, Go

\* A row more, or none.
LEMMA RowAdded ==
  ASSUME TypeOK, NEW r \in RowStatus, NEW n \in Nat, rows' = [rows EXCEPT ![r] = n]
  PROVE  /\ rows' \in [RowStatus -> Nat]
         /\ rows'[r] = n
         /\ \A q \in RowStatus : q # r => rows'[q] = rows[q]
BY DEF TypeOK

LEMMA InitIInv == Init => IInv
<1> SUFFICES ASSUME Init PROVE IInv
  OBVIOUS
<1> USE DEF Init
<1>1. TypeOK
  BY DEF TypeOK, Routes, Steps, Locked
<1>2. \A a \in Actors : step[a] \in {"idle", "row"} /\ ~Inside(a)
  BY DEF Inside, Locked
<1>3. UnderLock /\ LockExclusive /\ LockFreed
  BY <1>2 DEF UnderLock, LockExclusive, LockFreed
<1>4. QueuedOnce /\ PaidFirst
  BY <1>2 DEF QueuedOnce, PaidFirst, HasRow, RowStatus
<1>5. Launches
  BY <1>2 DEF Launches, Alone, NotYet, Orders, Undecided, RowStatus
<1> QED
  BY <1>1, <1>3, <1>4, <1>5 DEF IInv

-----------------------------------------------------------------------------
\* The lock: a step that leaves it alone keeps what is said of it when the
\* actor that moves does not cross the border of the locked section, or
\* leaves it by a fault.

LEMMA LockKept ==
  ASSUME IInv, NEW a \in Actors, UNCHANGED lock,
         \A b \in Actors : b # a => step'[b] = step[b],
         Inside(a)' => Inside(a),
         ((Inside(a)' <=> Inside(a)) /\ faults' = faults) \/ faults' # 0
  PROVE  UnderLock' /\ LockExclusive' /\ LockFreed'
<1> USE DEF IInv, Inside
<1>1. \A b \in Actors : Inside(b)' => Inside(b)
  OBVIOUS
<1>2. UnderLock' /\ LockExclusive'
  BY <1>1 DEF UnderLock, LockExclusive
<1>3. LockFreed'
  BY DEF LockFreed
<1> QED
  BY <1>2, <1>3

\* The lock is taken by a pass that finds none that is live.
LEMMA LockTaken ==
  ASSUME IInv, NEW a \in Actors, lock # "live", lock' = "live",
         \A b \in Actors : b # a => step'[b] = step[b],
         Inside(a)'
  PROVE  UnderLock' /\ LockExclusive' /\ LockFreed'
<1> USE DEF IInv, Inside
<1>1. ~SlowRuns => \A b \in Actors : ~Inside(b)
  BY DEF UnderLock
<1> QED
  BY <1>1 DEF UnderLock, LockExclusive, LockFreed

\* The lock is removed by the pass that leaves the section.
LEMMA LockGiven ==
  ASSUME IInv, NEW a \in Actors, Inside(a), lock' = "none",
         \A b \in Actors : b # a => step'[b] = step[b],
         ~Inside(a)'
  PROVE  UnderLock' /\ LockExclusive' /\ LockFreed'
<1> USE DEF IInv, Inside
<1>1. ~SlowRuns => \A b \in Actors : ~Inside(b)'
  BY DEF LockExclusive
<1> QED
  BY <1>1 DEF UnderLock, LockExclusive, LockFreed

-----------------------------------------------------------------------------
\* The orders: a step that neither begins a pass nor makes or records an order
\* keeps what is said of them, and so does a fault.

LEMMA LaunchKept ==
  ASSUME IInv, NEW a \in Actors, UNCHANGED <<overlapped, placed>>,
         rows'["SUPPLIER_ACCEPTED"] = rows["SUPPLIER_ACCEPTED"],
         \A b \in Actors : b # a => step'[b] = step[b],
         Undecided(a)' => Undecided(a),
         \/ (At(a, "insert")' <=> At(a, "insert")) /\ faults' = faults
         \/ faults' = faults + 1
  PROVE  Launches'
<1> USE DEF IInv, Launches
<1>1. \A b \in Actors : Undecided(b)' => Undecided(b)
  BY DEF Undecided
<1>2. Alone' /\ NotYet'
  BY <1>1 DEF Alone, NotYet
<1>3. Orders'
  <2> SUFFICES ASSUME ~overlapped, ~Ambiguous
               PROVE  /\ placed <= faults' + 1
                      /\ rows["SUPPLIER_ACCEPTED"] = 0 /\ (\A b \in Actors : ~At(b, "insert")')
                           => placed <= faults'
    BY DEF Orders
  <2>1. /\ faults \in Nat /\ placed \in Nat /\ placed <= faults + 1
        /\ rows["SUPPLIER_ACCEPTED"] = 0 /\ (\A b \in Actors : ~At(b, "insert"))
             => placed <= faults
    BY DEF TypeOK, Orders
  <2>2. CASE (At(a, "insert")' <=> At(a, "insert")) /\ faults' = faults
    <3>1. \A b \in Actors : At(b, "insert")' <=> At(b, "insert")
      BY <2>2 DEF At
    <3> QED
      BY <2>1, <2>2, <3>1
  <2>3. CASE faults' = faults + 1
    BY <2>1, <2>3
  <2> QED
    BY <2>2, <2>3
<1> QED
  BY <1>2, <1>3

\* A pass that begins finds no row and, unless passes overlap, nobody else.
LEMMA LaunchBegins == ASSUME IInv, NEW a \in Actors, ReadRow(a) PROVE Launches'
<1> USE DEF IInv, Launches
<1>1. /\ UNCHANGED <<rows, placed, faults>> /\ At(a, "row")
      /\ overlapped' = (overlapped \/ (~HasRow /\ \E b \in Actors : Undecided(b)))
  BY DEF ReadRow, books
<1>2. CASE HasRow
  <2>1. step'[a] \in {"idle", "gone"} /\ \A b \in Actors : b # a => step'[b] = step[b]
    BY <1>2, RestType, GoMoves DEF ReadRow, Steps
  <2>2. UNCHANGED overlapped /\ ~Undecided(a)' /\ ~At(a, "insert") /\ ~At(a, "insert")'
    BY <1>1, <1>2, <2>1 DEF Undecided, At, TypeOK
  <2> QED
    BY <1>1, <2>1, <2>2, LaunchKept
<1>3. CASE ~HasRow
  <2>1. step'[a] = "lock" /\ \A b \in Actors : b # a => step'[b] = step[b]
    BY <1>3, GoMoves DEF ReadRow, Steps
  <2>2. ~overlapped' => ~overlapped /\ \A b \in Actors : ~Undecided(b)
    BY <1>1, <1>3
  <2>3. \A b \in Actors : b # a => (Undecided(b)' <=> Undecided(b))
    BY <2>1 DEF Undecided
  <2>4. Alone'
    BY <2>2, <2>3 DEF Alone
  <2>5. rows["SUPPLIER_ACCEPTED"] = 0
    BY <1>3 DEF HasRow, TypeOK, RowStatus
  <2>6. NotYet'
    BY <1>1, <2>5 DEF NotYet
  <2>7. (\A b \in Actors : ~At(b, "insert"))' <=> (\A b \in Actors : ~At(b, "insert"))
    BY <1>1, <2>1 DEF At
  <2> QED
    BY <1>1, <2>2, <2>4, <2>6, <2>7 DEF Orders
<1> QED
  BY <1>2, <1>3

-----------------------------------------------------------------------------
\* One lemma per group of actions.

LEMMA EnvironmentKeeps ==
  ASSUME IInv, Pay \/ Return \/ GrowOld \/ PushOff \/ Expire PROVE IInv'
<1> USE DEF IInv
<1>1. TypeOK'
  BY DEF TypeOK, Pay, Return, GrowOld, PushOff, Expire, sale, books, history
<1>2. UNCHANGED <<step, overlapped, faults, rows, queued, placed>> /\ (Paid => Paid')
  BY DEF Pay, Return, GrowOld, PushOff, Expire, sale, books, history, Paid
<1>3. QueuedOnce' /\ PaidFirst' /\ Launches'
  BY <1>2 DEF QueuedOnce, PaidFirst, HasRow, Launches, Alone, NotYet, Orders, Undecided, At
<1>4. CASE UNCHANGED lock
  BY <1>1, <1>2, <1>3, <1>4 DEF UnderLock, LockExclusive, LockFreed, Inside
<1>5. CASE Expire
  <2>1. lock' = "expired" /\ (~SlowRuns => \A a \in Actors : ~Inside(a))
    BY <1>5 DEF Expire
  <2> QED
    BY <1>1, <1>2, <1>3, <2>1 DEF UnderLock, LockExclusive, LockFreed, Inside
<1> QED
  BY <1>4, <1>5 DEF Pay, Return, GrowOld, PushOff

\* A pass moves and touches nothing else, except the mark of its message.
LEMMA MoveKeeps ==
  ASSUME IInv, NEW a \in Actors, NEW s \in Steps, Go(a, s),
         UNCHANGED <<order, coded, invoice, age, rows, queued, placed, lock, faults>>,
         skipped' \in BOOLEAN, notified' \in BOOLEAN, overlapped' \in BOOLEAN,
         (s \in Locked) = Inside(a),
         ReadRow(a) \/
           /\ UNCHANGED overlapped /\ ~At(a, "insert")
           /\ s \notin {"insert", "lock", "fetch"}
           /\ s \in {"check", "queue", "create", "reject"} => Undecided(a),
         ~Paid => s \notin {"queue", "check", "create", "insert", "reject"}
  PROVE  IInv'
<1> USE DEF IInv
<1>1. /\ step' \in [Actors -> Steps] /\ step'[a] = s
      /\ \A b \in Actors : b # a => step'[b] = step[b]
  BY GoMoves
<1>2. TypeOK'
  BY <1>1 DEF TypeOK
<1>3. UnderLock' /\ LockExclusive' /\ LockFreed'
  BY <1>1, LockKept DEF Inside
<1>4. QueuedOnce' /\ PaidFirst'
  BY <1>1 DEF QueuedOnce, PaidFirst, HasRow, Paid
<1>5. Launches'
  <2>1. CASE ReadRow(a)
    BY <2>1, LaunchBegins
  <2>2. CASE ~ReadRow(a)
    <3>1. Undecided(a)' => Undecided(a)
      BY <1>1, <2>2 DEF Undecided, Inside, Locked, Steps
    <3>2. ~At(a, "insert") /\ ~At(a, "insert")'
      BY <1>1, <2>2 DEF At
    <3> QED
      BY <1>1, <2>2, <3>1, <3>2, LaunchKept
  <2> QED
    BY <2>1, <2>2
<1> QED
  BY <1>2, <1>3, <1>4, <1>5

LEMMA PollKeeps ==
  ASSUME IInv, PollSales \/ PollInfo \/ PollInfoRaises PROVE IInv'
<1>1. Poller \in Actors /\ skipped \in BOOLEAN /\ notified \in BOOLEAN /\ overlapped \in BOOLEAN
  BY DEF Actors, IInv, TypeOK
<1>2. PICK s \in {"info", "idle", "row"} : Go(Poller, s)
  BY DEF PollSales, PollInfo, PollInfoRaises
<1>3. step[Poller] \in {"idle", "info"}
  BY DEF PollSales, PollInfo, PollInfoRaises, At
<1>4. /\ skipped' \in BOOLEAN
      /\ UNCHANGED <<order, coded, invoice, age, rows, queued, placed, lock, notified,
                     overlapped, faults>>
  BY <1>1 DEF PollSales, PollInfo, PollInfoRaises, sale, books, history
<1> QED
  BY <1>1, <1>2, <1>3, <1>4, MoveKeeps DEF Steps, Locked, Inside, At

\* The steps of process_ggsel that touch neither the books nor the lock.
LEMMA PassKeeps ==
  ASSUME IInv, NEW a \in Actors,
         \/ ReadRow(a) \/ GetPurchase(a) \/ CallRaises(a)
         \/ CheckUsername(a) \/ Mark(a) \/ Send(a)
  PROVE  IInv'
<1>1. skipped \in BOOLEAN /\ notified \in BOOLEAN /\ overlapped \in BOOLEAN /\ order \in Routes
  BY DEF IInv, TypeOK
<1>2. CASE ReadRow(a)
  <2>1. PICK s \in {"idle", "gone", "lock"} : Go(a, s)
    BY <1>2, RestType DEF ReadRow
  <2>2. overlapped' \in BOOLEAN
    BY <1>2 DEF ReadRow
  <2> QED
    BY <1>1, <1>2, <2>1, <2>2, MoveKeeps DEF ReadRow, At, Steps, Locked, Inside, Undecided, sale, books, history
<1>3. CASE GetPurchase(a)
  <2>1. PICK s \in {"check", "queue", "reject"} : Go(a, s)
    BY <1>1, <1>3 DEF GetPurchase, Routes
  <2> QED
    BY <1>1, <1>3, <2>1, MoveKeeps
       DEF GetPurchase, Paid, At, Steps, Locked, Inside, Undecided, sale, books, history
<1>4. CASE CallRaises(a)
  BY <1>1, <1>4, MoveKeeps DEF CallRaises, At, Steps, Locked, Inside, Undecided, sale, books, history
<1>5. CASE CheckUsername(a)
  <2>1. PICK s \in {"create", "reject"} : Go(a, s)
    BY <1>5 DEF CheckUsername
  <2>2. Paid
    BY <1>5 DEF CheckUsername, At, IInv, PaidFirst
  <2> QED
    BY <1>1, <1>5, <2>1, <2>2, MoveKeeps
       DEF CheckUsername, At, Steps, Locked, Inside, Undecided, sale, books, history
<1>6. CASE Mark(a)
  <2>1. PICK s \in {"clear", "send"} : Go(a, s) /\ notified' \in BOOLEAN
    BY <1>1, <1>6 DEF Mark
  <2> QED
    BY <1>1, <1>6, <2>1, MoveKeeps DEF Mark, At, Steps, Locked, Inside, Undecided, sale, books, history
<1>7. CASE Send(a)
  BY <1>1, <1>7, MoveKeeps DEF Send, At, Steps, Locked, Inside, Undecided, sale, books, history
<1> QED
  BY <1>2, <1>3, <1>4, <1>5, <1>6, <1>7

LEMMA LockKeeps ==
  ASSUME IInv, NEW a \in Actors, MarkInflight(a) \/ ClearInflight(a) PROVE IInv'
<1> USE DEF IInv
<1>1. UNCHANGED <<order, coded, invoice, age, skipped, rows, queued, placed, notified,
                  overlapped, faults>>
  BY DEF MarkInflight, ClearInflight, sale, books, history
<1>2. PICK s \in {"idle", "gone", "fetch"} : Go(a, s)
  BY RestType DEF MarkInflight, ClearInflight
<1>3. /\ step' \in [Actors -> Steps] /\ step'[a] = s
      /\ \A b \in Actors : b # a => step'[b] = step[b]
  BY <1>2, GoMoves DEF Steps, Locked
<1>4. TypeOK' /\ QueuedOnce' /\ PaidFirst'
  <2>1. lock' \in {"none", "live", "expired"}
    BY DEF MarkInflight, ClearInflight, TypeOK
  <2> QED
    BY <1>1, <1>3, <2>1 DEF TypeOK, QueuedOnce, PaidFirst, HasRow, Paid
<1>8. Launches'
  <2>1. Undecided(a)' => Undecided(a)
    <3>1. CASE MarkInflight(a)
      BY <3>1 DEF MarkInflight, At, Undecided
    <3>2. CASE ClearInflight(a)
      <4>1. Go(a, Rest(a)) /\ Rest(a) \in Steps
        BY <3>2, RestType DEF ClearInflight, Steps
      <4> QED
        BY <4>1, GoMoves, RestType DEF Undecided
    <3> QED
      BY <3>1, <3>2
  <2>2. ~At(a, "insert") /\ ~At(a, "insert")'
    BY <1>3 DEF MarkInflight, ClearInflight, At
  <2> QED
    BY <1>1, <1>3, <2>1, <2>2, LaunchKept
<1>5. CASE MarkInflight(a) /\ lock = "live"
  <2>1. step'[a] \in {"idle", "gone"} /\ UNCHANGED lock /\ ~Inside(a)
    <3>1. Go(a, Rest(a)) /\ Rest(a) \in Steps
      BY <1>5, RestType DEF MarkInflight, Steps
    <3> QED
      BY <1>5, <3>1, GoMoves, RestType DEF MarkInflight, Inside, At, Locked
  <2>2. ~Inside(a)'
    BY <2>1 DEF Inside, Locked
  <2> QED
    BY <1>1, <1>3, <1>4, <1>8, <2>1, <2>2, LockKept
<1>6. CASE MarkInflight(a) /\ lock # "live"
  <2>1. step'[a] = "fetch" /\ lock' = "live"
    BY <1>6, GoMoves DEF MarkInflight, Steps, Locked
  <2>2. Inside(a)'
    BY <2>1 DEF Inside, Locked
  <2> QED
    BY <1>3, <1>4, <1>6, <1>8, <2>1, <2>2, LockTaken
<1>7. CASE ClearInflight(a)
  <2>1. Inside(a) /\ lock' = "none"
    BY <1>7 DEF ClearInflight, At, Inside, Locked
  <2>2. step'[a] \in {"idle", "gone"}
    <3>1. Go(a, Rest(a)) /\ Rest(a) \in Steps
      BY <1>7, RestType DEF ClearInflight, Steps
    <3> QED
      BY <3>1, GoMoves, RestType
  <2>3. ~Inside(a)'
    BY <2>2 DEF Inside, Locked
  <2> QED
    BY <1>3, <1>4, <1>8, <2>1, <2>3, LockGiven
<1> QED
  BY <1>5, <1>6, <1>7

\* An order is made: nobody else is deciding, unless passes overlap.
LEMMA LaunchCreates ==
  ASSUME IInv, NEW a \in Actors, NEW ok \in BOOLEAN, NEW n \in 0..2, CreateOrder(a, ok, n)
  PROVE  Launches'
<1> USE DEF IInv, Launches
<1>1. /\ UNCHANGED <<rows, overlapped, faults>> /\ placed' = placed + n
      /\ ~Ambiguous => n = IF ok THEN 1 ELSE 0
      /\ At(a, "create") /\ Undecided(a)
  BY DEF CreateOrder, history, At, Undecided
<1>2. /\ step'[a] = IF ok THEN "insert" ELSE "mark"
      /\ \A b \in Actors : b # a => step'[b] = step[b]
  BY GoMoves DEF CreateOrder, Steps, Locked
<1>3. \A b \in Actors : Undecided(b)' => Undecided(b)
  BY <1>1, <1>2 DEF Undecided
<1>4. Alone' /\ NotYet'
  BY <1>1, <1>3 DEF Alone, NotYet
<1>5. Orders'
  <2> SUFFICES ASSUME ~overlapped, ~Ambiguous
               PROVE  /\ placed' <= faults + 1
                      /\ ~At(a, "insert")' => placed' <= faults
    BY <1>1 DEF Orders
  <2>1. \A b \in Actors : ~At(b, "insert")
    BY <1>1 DEF Alone, Undecided, At
  <2>2. placed <= faults /\ placed \in Nat /\ faults \in Nat
    BY <1>1, <2>1 DEF NotYet, Orders, TypeOK
  <2> QED
    BY <1>1, <1>2, <2>2 DEF At
<1> QED
  BY <1>4, <1>5

\* The order is on record, and the only undecided pass has decided.
LEMMA LaunchRecords ==
  ASSUME IInv, NEW a \in Actors, InsertAccepted(a)
  PROVE  Launches'
<1> USE DEF IInv, Launches
<1>1. /\ UNCHANGED <<placed, overlapped, faults>> /\ At(a, "insert") /\ Undecided(a)
      /\ rows' = [rows EXCEPT !["SUPPLIER_ACCEPTED"] = @ + 1]
  BY DEF InsertAccepted, history, At, Undecided
<1>2. step'[a] = "clear" /\ \A b \in Actors : b # a => step'[b] = step[b]
  BY GoMoves DEF InsertAccepted, Steps, Locked
<1>3. \A b \in Actors : Undecided(b)' => Undecided(b) /\ b # a
  BY <1>2 DEF Undecided
<1>4. Alone' /\ NotYet'
  BY <1>1, <1>3 DEF Alone, NotYet
<1>5. rows'["SUPPLIER_ACCEPTED"] # 0
  BY <1>1 DEF TypeOK, RowStatus
<1>6. Orders'
  BY <1>1, <1>5 DEF Orders
<1> QED
  BY <1>4, <1>6

LEMMA BooksLaunch ==
  ASSUME IInv, NEW a \in Actors,
         \/ Queue(a) \/ InsertAccepted(a) \/ Reject(a)
         \/ \E ok \in BOOLEAN, n \in 0..2 : CreateOrder(a, ok, n)
  PROVE  Launches'
<1>1. CASE Queue(a) \/ Reject(a)
  <2>1. /\ UNCHANGED <<placed, overlapped, faults>>
        /\ step[a] \in {"queue", "reject"}
        /\ rows'["SUPPLIER_ACCEPTED"] = rows["SUPPLIER_ACCEPTED"]
    BY <1>1 DEF Queue, Reject, history, At, IInv, TypeOK, RowStatus
  <2>2. /\ step'[a] \in {"clear", "mark"}
        /\ \A b \in Actors : b # a => step'[b] = step[b]
    BY <1>1, GoMoves DEF IInv, Queue, Reject, Steps, Locked
  <2>3. /\ ~Undecided(a)'
        /\ ~At(a, "insert") /\ ~At(a, "insert")'
    BY <2>1, <2>2 DEF Undecided, At
  <2> QED
    BY <2>1, <2>2, <2>3, LaunchKept
<1> QED
  BY <1>1, LaunchCreates, LaunchRecords

LEMMA BooksKeep ==
  ASSUME IInv, NEW a \in Actors,
         \/ Queue(a) \/ InsertAccepted(a) \/ Reject(a)
         \/ \E ok \in BOOLEAN, n \in 0..2 : CreateOrder(a, ok, n)
  PROVE  IInv'
<1> USE DEF IInv
<1>1. /\ step[a] \in {"queue", "insert", "reject", "create"}
      /\ UNCHANGED <<order, coded, invoice, age, skipped, lock, notified, overlapped, faults>>
  BY DEF Queue, InsertAccepted, Reject, CreateOrder, At, sale, history
<1>2. PICK s \in {"clear", "insert", "mark"} : Go(a, s)
  BY DEF Queue, InsertAccepted, Reject, CreateOrder
<1>3. /\ step' \in [Actors -> Steps] /\ step'[a] = s
      /\ \A b \in Actors : b # a => step'[b] = step[b]
  BY <1>2, GoMoves DEF Steps, Locked
<1>4. UnderLock' /\ LockExclusive' /\ LockFreed'
  <2>1. Inside(a) /\ Inside(a)'
    BY <1>1, <1>3 DEF Inside, Locked
  <2> QED
    BY <1>1, <1>3, <2>1, LockKept
<1>5. PaidFirst'
  <2>1. Paid /\ Paid'
    BY <1>1 DEF PaidFirst, Paid
  <2> QED
    BY <2>1 DEF PaidFirst
<1>6. /\ rows' \in [RowStatus -> Nat] /\ queued' \in BOOLEAN /\ placed' \in Nat
      /\ QueuedOnce'
  <2>1. CASE Queue(a)
    <3> DEFINE n == IF queued THEN rows["OUTBOX_PENDING"] ELSE rows["OUTBOX_PENDING"] + 1
    <3>1. rows' = [rows EXCEPT !["OUTBOX_PENDING"] = n] /\ n \in Nat
      BY <2>1 DEF Queue, TypeOK, RowStatus
    <3>2. rows' \in [RowStatus -> Nat] /\ rows'["OUTBOX_PENDING"] = n
      BY <3>1, RowAdded DEF RowStatus
    <3>3. queued' = TRUE /\ UNCHANGED placed
      BY <2>1 DEF Queue
    <3> QED
      BY <3>2, <3>3 DEF QueuedOnce, TypeOK
  <2>2. CASE InsertAccepted(a)
    <3>1. /\ rows' = [rows EXCEPT !["SUPPLIER_ACCEPTED"] = rows["SUPPLIER_ACCEPTED"] + 1]
          /\ rows["SUPPLIER_ACCEPTED"] + 1 \in Nat /\ UNCHANGED <<queued, placed>>
      BY <2>2 DEF InsertAccepted, TypeOK, RowStatus
    <3>2. rows' \in [RowStatus -> Nat] /\ rows'["OUTBOX_PENDING"] = rows["OUTBOX_PENDING"]
      BY <3>1, RowAdded DEF RowStatus
    <3> QED
      BY <3>1, <3>2 DEF QueuedOnce, TypeOK
  <2>3. CASE Reject(a)
    <3>1. /\ rows' = [rows EXCEPT !["ERROR"] = rows["ERROR"] + 1]
          /\ rows["ERROR"] + 1 \in Nat /\ UNCHANGED <<queued, placed>>
      BY <2>3 DEF Reject, TypeOK, RowStatus
    <3>2. rows' \in [RowStatus -> Nat] /\ rows'["OUTBOX_PENDING"] = rows["OUTBOX_PENDING"]
      BY <3>1, RowAdded DEF RowStatus
    <3> QED
      BY <3>1, <3>2 DEF QueuedOnce, TypeOK
  <2>4. CASE \E ok \in BOOLEAN, n \in 0..2 : CreateOrder(a, ok, n)
    BY <2>4 DEF CreateOrder, QueuedOnce, TypeOK
  <2> QED
    BY <2>1, <2>2, <2>3, <2>4
<1>7. TypeOK'
  BY <1>1, <1>3, <1>6 DEF TypeOK
<1>8. Launches'
  BY BooksLaunch
<1> QED
  BY <1>4, <1>5, <1>6, <1>7, <1>8

LEMMA FaultKeeps ==
  ASSUME IInv, Cancel \/ \E a \in Actors : Die(a) PROVE IInv'
<1> USE DEF IInv
<1>1. /\ UNCHANGED <<order, coded, invoice, age, rows, queued, placed, lock, notified,
                     overlapped>>
      /\ skipped' \in BOOLEAN /\ faults' \in Nat /\ faults' # 0 /\ faults' = faults + 1
  <2>1. faults' = faults + 1 /\ faults \in Nat
    BY DEF Cancel, Die, TypeOK
  <2>2. skipped' \in {skipped, FALSE}
    BY DEF Cancel, Die
  <2>3. skipped' \in BOOLEAN
    BY <2>2 DEF TypeOK
  <2>4. faults' \in Nat /\ faults' # 0
    BY <2>1
  <2>5. UNCHANGED <<sale, books, lock, notified, overlapped>>
    BY DEF Cancel, Die
  <2> QED
    BY <2>1, <2>3, <2>4, <2>5 DEF sale, books
<1>2. PICK a \in Actors, s \in {"idle", "gone", "clear"} :
        Go(a, s) /\ (s = "clear" => Inside(a))
  <2>1. CASE Cancel
    BY <2>1 DEF Cancel, Actors
  <2>2. CASE \E a \in Actors : Die(a)
    BY <2>2, RestType DEF Die
  <2> QED
    BY <2>1, <2>2
<1>3. /\ step' \in [Actors -> Steps] /\ step'[a] = s
      /\ \A b \in Actors : b # a => step'[b] = step[b]
  BY <1>2, GoMoves DEF Steps, Locked
<1>4. TypeOK' /\ QueuedOnce' /\ PaidFirst'
  BY <1>1, <1>3 DEF TypeOK, QueuedOnce, PaidFirst, HasRow, Paid
<1>5. Inside(a)' => Inside(a)
  BY <1>2, <1>3 DEF Inside, Locked
<1>6. Launches'
  <2>1. ~Undecided(a)'
    BY <1>3 DEF Undecided
  <2> QED
    BY <1>1, <1>3, <2>1, LaunchKept
<1> QED
  BY <1>1, <1>3, <1>4, <1>5, <1>6, LockKept

LEMMA StutterKeeps == ASSUME IInv, UNCHANGED vars PROVE IInv'
BY DEF IInv, TypeOK, UnderLock, LockExclusive, LockFreed, QueuedOnce, PaidFirst, Paid,
       Launches, Alone, NotYet, Orders, Undecided, At, Inside, HasRow, vars

LEMMA NextIInv == IInv /\ [Next]_vars => IInv'
<1> SUFFICES ASSUME IInv, [Next]_vars PROVE IInv'
  OBVIOUS
<1>1. CASE Pay \/ Return \/ GrowOld \/ PushOff \/ Expire
  BY <1>1, EnvironmentKeeps
<1>2. CASE PollSales \/ PollInfo \/ PollInfoRaises
  BY <1>2, PollKeeps
<1>3. ASSUME NEW a \in Actors, Process(a) PROVE IInv'
  BY <1>3, PassKeeps, LockKeeps, BooksKeep DEF Process
<1>4. CASE Cancel \/ \E a \in Actors : Die(a)
  BY <1>4, FaultKeeps
<1>5. CASE UNCHANGED vars
  BY <1>5, StutterKeeps
<1> QED
  BY <1>1, <1>2, <1>3, <1>4, <1>5 DEF Next

LEMMA Invariant == Spec => []IInv
BY InitIInv, NextIInv, PTL DEF Spec

-----------------------------------------------------------------------------

\* Every reachable state is well-typed (process_ggsel, poll_sales_once).
THEOREM TypeCorrect == Spec => []TypeOK
<1>1. IInv => TypeOK
  BY DEF IInv
<1> QED
  BY <1>1, Invariant, PTL

\* With passes shorter than the lock's life two of them never hold it, for
\* any number of redirects and faults (mark_inflight, clear_inflight).
THEOREM LockIsExclusive == Spec => []LockExclusive
<1>1. IInv => LockExclusive
  BY DEF IInv
<1> QED
  BY <1>1, Invariant, PTL

\* Without a fault the lock is never left behind, even by passes that outlast
\* it (the finally of process_ggsel).
THEOREM LockIsFreed == Spec => []LockFreed
<1>1. IInv => LockFreed
  BY DEF IInv
<1> QED
  BY <1>1, Invariant, PTL

\* However many passes overlap, expire or die, the code is queued once, with
\* one purchase (enqueue_supplier_purchase).
THEOREM CodeIsQueuedOnce == Spec => []QueuedOnce
<1>1. IInv => QueuedOnce
  BY DEF IInv
<1> QED
  BY <1>1, Invariant, PTL

\* Any number of passes, one after the other, order once from Fragment, and
\* once more for each that died (the lookup of the code in process_ggsel).
THEOREM OrderedOnce == Spec => []OnceUnlessOverlapping
<1>1. IInv => OnceUnlessOverlapping
  <2> SUFFICES ASSUME IInv, ~overlapped, ~Ambiguous PROVE placed <= 1 + faults
    BY DEF OnceUnlessOverlapping
  <2> QED
    BY DEF IInv, TypeOK, Launches, Orders
<1> QED
  BY <1>1, Invariant, PTL

\* No pass orders, queues or refuses an unpaid sale (the state check of
\* process_ggsel).
THEOREM UnpaidIsLeftAlone == Spec => []NothingUnpaid
<1>1. IInv => NothingUnpaid
  BY DEF IInv, PaidFirst, NothingUnpaid
<1> QED
  BY <1>1, Invariant, PTL

-----------------------------------------------------------------------------
\* Refinement: every step is a step of SaleContract or changes none of its
\* variables.

Standings == [b \in Actors |-> Standing(step[b])]

LEMMA StandingMoves ==
  ASSUME TypeOK, NEW a \in Actors, NEW s \in Steps, Go(a, s)
  PROVE  Standings' = [Standings EXCEPT ![a] = Standing(s)]
<1>1. step'[a] = s /\ \A b \in Actors : b # a => step'[b] = step[b]
  BY GoMoves
<1> QED
  BY <1>1 DEF Standings

LEMMA SaleInit == Init => Sale!Init
<1> SUFFICES ASSUME Init PROVE Sale!Init
  OBVIOUS
<1>1. \A a \in Actors : Standing(step[a]) = "out"
  BY DEF Init, Standing
<1>2. Standings = [a \in Actors |-> "out"]
  BY <1>1 DEF Standings
<1>3. /\ Paid \in BOOLEAN /\ ~queued /\ placed = 0
      /\ \A r \in RowStatus : rows[r] = 0
  BY DEF Init, Paid
<1> QED
  BY <1>2, <1>3 DEF Sale!Init, Standings, RowStatus, Init

\* A pass that moves without touching the books stands as before, leaves, or
\* begins while the sale has no row.
LEMMA SaleMove ==
  ASSUME IInv, NEW a \in Actors, NEW s \in Steps, Go(a, s),
         UNCHANGED <<invoice, rows, queued, placed>>,
         \/ Standing(s) = Standing(step[a])
         \/ Standing(s) = "out"
         \/ At(a, "row") /\ s = "lock" /\ ~HasRow
  PROVE  Sale!Next \/ UNCHANGED Sale!svars
<1>0. TypeOK
  BY DEF IInv
<1>1. Standings' = [Standings EXCEPT ![a] = Standing(s)]
  BY <1>0, StandingMoves
<1>2. Standings[a] = Standing(step[a])
  BY DEF Standings
<1>3. UNCHANGED Paid
  BY DEF Paid
<1>4. CASE Standing(s) = Standing(step[a])
  <2>1. UNCHANGED Standings
    BY <1>1, <1>2, <1>4 DEF Standings
  <2> QED
    BY <1>3, <2>1 DEF Sale!svars, Standings
<1>5. CASE Standing(s) # Standing(step[a]) /\ Standing(s) = "out"
  <2>1. Sale!Leave(a)
    BY <1>1, <1>2, <1>3, <1>5 DEF Sale!Leave, Sale!Move, Standings
  <2> QED
    BY <2>1 DEF Sale!Next, Sale!Act
<1>6. CASE At(a, "row") /\ s = "lock" /\ ~HasRow
  <2>1. Standings[a] = "out" /\ Standing(s) = "in"
    BY <1>2, <1>6 DEF At, Standing
  <2>2. rows["OUTBOX_PENDING"] = 0 /\ rows["SUPPLIER_ACCEPTED"] = 0 /\ rows["ERROR"] = 0
    BY <1>0, <1>6 DEF HasRow, TypeOK, RowStatus
  <2>3. Sale!Enter(a)
    BY <1>1, <1>3, <2>1, <2>2 DEF Sale!Enter, Sale!Move, Standings
  <2> QED
    BY <2>3 DEF Sale!Next, Sale!Act
<1> QED
  BY <1>4, <1>5, <1>6

LEMMA SaleQuiet ==
  ASSUME IInv, NEW a \in Actors,
         \/ ReadRow(a) \/ MarkInflight(a) \/ GetPurchase(a) \/ CallRaises(a)
         \/ CheckUsername(a) \/ Mark(a) \/ Send(a) \/ ClearInflight(a) \/ Die(a)
  PROVE  Sale!Next \/ UNCHANGED Sale!svars
<1>1. UNCHANGED <<invoice, rows, queued, placed>> /\ order \in Routes
  BY DEF ReadRow, MarkInflight, GetPurchase, CallRaises, CheckUsername, Mark, Send,
         ClearInflight, Die, sale, books, IInv, TypeOK
<1>2. /\ Rest(a) \in Steps /\ Standing(Rest(a)) = "out"
      /\ \A s \in {"idle", "gone", "lock", "fetch", "mark", "send", "clear", "check",
                     "queue", "create", "reject"} : s \in Steps
  BY RestType DEF Standing, Steps, Locked
<1>3. \A s \in Steps :
        Go(a, s) /\ (\/ Standing(s) = Standing(step[a])
                     \/ Standing(s) = "out"
                     \/ At(a, "row") /\ s = "lock" /\ ~HasRow)
        => Sale!Next \/ UNCHANGED Sale!svars
  BY <1>1, SaleMove
<1>4. CASE ReadRow(a)
  BY <1>2, <1>3, <1>4 DEF ReadRow
<1>5. CASE MarkInflight(a)
  <2>1. Standing("fetch") = Standing("lock")
    BY DEF Standing
  <2> QED
    BY <1>2, <1>3, <1>5, <2>1 DEF MarkInflight, At
<1>6. CASE GetPurchase(a) \/ CheckUsername(a)
  <2>1. PICK s \in {"check", "queue", "create", "reject"} : Go(a, s)
    BY <1>1, <1>6 DEF GetPurchase, CheckUsername, Routes
  <2>2. Standing(s) = "in" /\ Standing(step[a]) = "in"
    BY <1>6 DEF GetPurchase, CheckUsername, At, Standing
  <2> QED
    BY <1>2, <1>3, <2>1, <2>2
<1>7. CASE CallRaises(a) \/ Mark(a) \/ Send(a) \/ ClearInflight(a) \/ Die(a)
  <2>1. PICK s \in {"mark", "send", "clear", Rest(a)} : Go(a, s)
    BY <1>7 DEF CallRaises, Mark, Send, ClearInflight, Die
  <2>2. Standing(s) = "out"
    BY <1>2 DEF Standing
  <2> QED
    BY <1>2, <1>3, <2>1, <2>2
<1> QED
  BY <1>4, <1>5, <1>6, <1>7

LEMMA SalePoll ==
  ASSUME IInv, PollSales \/ PollInfo \/ PollInfoRaises \/ Cancel
  PROVE  Sale!Next \/ UNCHANGED Sale!svars
<1>1. UNCHANGED <<invoice, rows, queued, placed>> /\ Poller \in Actors
  BY DEF PollSales, PollInfo, PollInfoRaises, Cancel, sale, books, Actors
<1>2. PICK s \in {"info", "idle", "row", "clear"} : Go(Poller, s)
  BY DEF PollSales, PollInfo, PollInfoRaises, Cancel
<1>3. s \in Steps /\ Standing(s) = "out"
  BY DEF Steps, Locked, Standing
<1> QED
  BY <1>1, <1>2, <1>3, SaleMove

\* The message and its purchase appear together, or were there before.
LEMMA SaleQueue ==
  ASSUME IInv, NEW a \in Actors, Queue(a)
  PROVE  Sale!Next \/ UNCHANGED Sale!svars
<1>0. TypeOK /\ QueuedOnce /\ "clear" \in Steps
  BY DEF IInv, Steps, Locked
<1>1. /\ UNCHANGED <<invoice, placed>> /\ At(a, "queue") /\ Go(a, "clear")
      /\ queued' = TRUE
      /\ rows' = [rows EXCEPT !["OUTBOX_PENDING"] = IF queued THEN @ ELSE @ + 1]
  BY DEF Queue, sale
<1>2. CASE queued
  <2>1. UNCHANGED <<rows, queued>>
    BY <1>0, <1>1, <1>2 DEF TypeOK, RowStatus
  <2>2. Standing("clear") = "out"
    BY DEF Standing
  <2> QED
    BY <1>0, <1>1, <2>1, <2>2, SaleMove
<1>3. CASE ~queued
  <2>1. /\ rows'["OUTBOX_PENDING"] = rows["OUTBOX_PENDING"] + 1
        /\ rows'["SUPPLIER_ACCEPTED"] = rows["SUPPLIER_ACCEPTED"]
        /\ rows'["ERROR"] = rows["ERROR"]
    BY <1>0, <1>1, <1>3 DEF TypeOK, RowStatus
  <2>2. Standings' = [Standings EXCEPT ![a] = "out"] /\ Standings[a] = "in"
    BY <1>0, <1>1, StandingMoves DEF Standings, Standing, At
  <2>3. Paid /\ UNCHANGED Paid
    BY <1>1 DEF IInv, PaidFirst, At, Paid
  <2>4. \A r \in RowStatus : rows[r] \in Nat
    BY <1>0 DEF TypeOK
  <2>5. placed \in Nat
    BY <1>0 DEF TypeOK
  <2>6. Sale!HandOver(a)
    BY <1>1, <1>3, <2>1, <2>2, <2>3, <2>4, <2>5
       DEF Sale!HandOver, Sale!Move, Standings, RowStatus
  <2> QED
    BY <2>6 DEF Sale!Next, Sale!Act
<1> QED
  BY <1>2, <1>3

LEMMA SaleCreate ==
  ASSUME IInv, NEW a \in Actors, NEW ok \in BOOLEAN, NEW n \in 0..2, CreateOrder(a, ok, n)
  PROVE  Sale!Next
<1>0. TypeOK
  BY DEF IInv
<1>1. /\ UNCHANGED <<invoice, rows, queued>> /\ At(a, "create")
      /\ ok => n >= 1
      /\ placed' = placed + n /\ placed \in Nat
      /\ Go(a, IF ok THEN "insert" ELSE "mark")
  BY <1>0 DEF CreateOrder, sale, TypeOK
<1>2. Paid /\ UNCHANGED Paid
  BY <1>1 DEF IInv, PaidFirst, At, Paid
<1>3. /\ Standings' = [Standings EXCEPT ![a] = IF ok THEN "holds" ELSE "out"]
      /\ Standings[a] = "in"
  <2>1. PICK s \in {"insert", "mark"} : Go(a, s) /\ s = IF ok THEN "insert" ELSE "mark"
    BY <1>1
  <2>2. s \in Steps
    BY DEF Steps, Locked
  <2>3. Standing(s) = IF ok THEN "holds" ELSE "out"
    BY <2>1 DEF Standing
  <2>4. Standings' = [Standings EXCEPT ![a] = Standing(s)]
    BY <1>0, <2>1, <2>2, StandingMoves
  <2>5. Standings[a] = "in"
    BY <1>1 DEF Standings, Standing, At
  <2> QED
    BY <2>3, <2>4, <2>5
<1>4. CASE ok
  <2>1. Sale!Named(a)
    BY <1>1, <1>2, <1>3, <1>4 DEF Sale!Named, Sale!Move, Standings
  <2> QED
    BY <2>1 DEF Sale!Next, Sale!Act
<1>5. CASE ~ok
  <2>1. Sale!Unnamed(a)
    BY <1>1, <1>2, <1>3, <1>5 DEF Sale!Unnamed, Sale!Move, Standings
  <2> QED
    BY <2>1 DEF Sale!Next, Sale!Act
<1> QED
  BY <1>4, <1>5

LEMMA SaleRecord ==
  ASSUME IInv, NEW a \in Actors, InsertAccepted(a) \/ Reject(a)
  PROVE  Sale!Next
<1>0. /\ TypeOK /\ \A r \in RowStatus : rows[r] \in Nat
      /\ "clear" \in Steps /\ "mark" \in Steps
  BY DEF IInv, TypeOK, Steps, Locked
<1>1. UNCHANGED <<invoice, queued, placed>>
  BY DEF InsertAccepted, Reject, sale
<1>2. UNCHANGED Paid
  BY <1>1 DEF Paid
<1>3. CASE InsertAccepted(a)
  <2>1. /\ rows'["OUTBOX_PENDING"] = rows["OUTBOX_PENDING"]
        /\ rows'["SUPPLIER_ACCEPTED"] = rows["SUPPLIER_ACCEPTED"] + 1
        /\ rows'["ERROR"] = rows["ERROR"]
    BY <1>0, <1>3 DEF InsertAccepted, TypeOK, RowStatus
  <2>2. Standings' = [Standings EXCEPT ![a] = "out"] /\ Standings[a] = "holds"
    BY <1>0, <1>3, StandingMoves DEF InsertAccepted, Standings, Standing, At
  <2>3. Sale!Accept(a)
    BY <1>0, <1>1, <1>2, <2>1, <2>2 DEF Sale!Accept, Sale!Move, Standings, RowStatus
  <2> QED
    BY <2>3 DEF Sale!Next, Sale!Act
<1>4. CASE Reject(a)
  <2>1. /\ rows'["OUTBOX_PENDING"] = rows["OUTBOX_PENDING"]
        /\ rows'["SUPPLIER_ACCEPTED"] = rows["SUPPLIER_ACCEPTED"]
        /\ rows'["ERROR"] = rows["ERROR"] + 1
    BY <1>0, <1>4 DEF Reject, TypeOK, RowStatus
  <2>2. Standings' = [Standings EXCEPT ![a] = "out"] /\ Standings[a] = "in"
    BY <1>0, <1>4, StandingMoves DEF Reject, Standings, Standing, At
  <2>3. Paid
    BY <1>4 DEF IInv, PaidFirst, Reject, At
  <2>4. Sale!Refuse(a)
    BY <1>1, <1>2, <2>1, <2>2, <2>3 DEF Sale!Refuse, Sale!Move, Standings
  <2> QED
    BY <2>4 DEF Sale!Next, Sale!Act
<1> QED
  BY <1>3, <1>4

LEMMA SaleEnvironment ==
  ASSUME IInv, Pay \/ Return \/ GrowOld \/ PushOff \/ Expire \/ UNCHANGED vars
  PROVE  Sale!Next \/ UNCHANGED Sale!svars
<1>1. UNCHANGED <<rows, queued, placed, step>>
  BY DEF Pay, Return, GrowOld, PushOff, Expire, books, vars
<1>2. UNCHANGED Standings
  BY <1>1 DEF Standings
<1>3. CASE Pay
  <2>1. ~Paid /\ Paid'
    BY <1>3 DEF Pay, Paid
  <2>2. Sale!Pay
    BY <1>1, <1>2, <2>1 DEF Sale!Pay, Standings
  <2> QED
    BY <2>2 DEF Sale!Next
<1>4. CASE Return \/ GrowOld \/ PushOff \/ Expire \/ UNCHANGED vars
  <2>1. UNCHANGED Paid
    BY <1>4 DEF Return, GrowOld, PushOff, Expire, vars, sale, Paid
  <2> QED
    BY <1>1, <1>2, <2>1 DEF Sale!svars, Standings
<1> QED
  BY <1>3, <1>4

\* Redirects and the poller, with their lock, their queue, their failures and
\* deaths, implement the contract of a sale.
THEOREM GgselKeepsSaleContract == Spec => KeepsSaleContract
<1>1. IInv /\ [Next]_vars => [Sale!Next]_(Sale!svars)
  <2> SUFFICES ASSUME IInv, [Next]_vars PROVE Sale!Next \/ UNCHANGED Sale!svars
    OBVIOUS
  <2>1. ASSUME NEW a \in Actors, Process(a) \/ Die(a)
        PROVE  Sale!Next \/ UNCHANGED Sale!svars
    BY <2>1, SaleQuiet, SaleQueue, SaleCreate, SaleRecord DEF Process
  <2> QED
    BY <2>1, SalePoll, SaleEnvironment DEF Next
<1> QED
  BY <1>1, SaleInit, Invariant, PTL DEF Spec, KeepsSaleContract, Sale!Spec

-----------------------------------------------------------------------------
\* What the contract comes to: the orders on record, and those that passes hold
\* and have yet to record, are all different orders.

Holders == {a \in Actors : Standings[a] = "holds"}

Recorded == rows["OUTBOX_PENDING"] + rows["SUPPLIER_ACCEPTED"]

Made == placed + IF queued THEN 1 ELSE 0

Backed == IsFiniteSet(Holders) /\ Recorded + Cardinality(Holders) <= Made

LEMMA PlusOneOrNone == \A n \in Nat, b \in {0, 1} : n + b \in Nat
OBVIOUS

LEMMA MadeType ==
  ASSUME placed \in Nat, placed' \in Nat PROVE Made \in Nat /\ Made' \in Nat
<1>1. /\ (IF queued THEN 1 ELSE 0) \in {0, 1}
      /\ (IF queued' THEN 1 ELSE 0) \in {0, 1}
  OBVIOUS
<1> QED
  BY <1>1, PlusOneOrNone DEF Made

\* A step of the contract, as far as the orders are concerned.
MovesTo(a, s) ==
  /\ Standings' = [Standings EXCEPT ![a] = s]
  /\ Recorded' = Recorded
  /\ Made' >= Made

SomeoneMoves == \E a \in Actors, s \in {"in", "failed", "out"} : MovesTo(a, s)

SomeoneIsGiven ==
  \E a \in Actors :
    /\ Standings' = [Standings EXCEPT ![a] = "holds"]
    /\ Recorded' = Recorded
    /\ Made' >= Made + 1

SomeoneRecords ==
  \E a \in Actors :
    /\ Standings[a] = "holds"
    /\ Standings' = [Standings EXCEPT ![a] = "out"]
    /\ Recorded' = Recorded + 1
    /\ Made' = Made

SomeoneHandsOver ==
  \E a \in Actors :
    /\ Standings[a] = "in"
    /\ Standings' = [Standings EXCEPT ![a] = "out"]
    /\ Recorded' = Recorded + 1
    /\ Made' = Made + 1

NobodyMoves == UNCHANGED <<Standings, Recorded, Made>>

LEMMA OrderSteps ==
  ASSUME TypeOK, TypeOK', Sale!Next \/ UNCHANGED Sale!svars
  PROVE  SomeoneMoves \/ SomeoneIsGiven \/ SomeoneRecords \/ SomeoneHandsOver \/ NobodyMoves
<1>1. /\ Made \in Nat /\ Made' \in Nat
      /\ Recorded \in Nat /\ Recorded' \in Nat
  <2>1. /\ rows["OUTBOX_PENDING"] \in Nat /\ rows["SUPPLIER_ACCEPTED"] \in Nat
        /\ rows'["OUTBOX_PENDING"] \in Nat /\ rows'["SUPPLIER_ACCEPTED"] \in Nat
    BY DEF TypeOK, RowStatus
  <2>2. placed \in Nat /\ placed' \in Nat
    BY DEF TypeOK
  <2>3. Recorded \in Nat /\ Recorded' \in Nat
    BY <2>1 DEF Recorded
  <2>4. Made \in Nat /\ Made' \in Nat
    BY <2>2, MadeType
  <2> QED
    BY <2>3, <2>4
<1>2. CASE UNCHANGED Sale!svars
  BY <1>2 DEF Sale!svars, Standings, Recorded, Made, NobodyMoves
<1>3. Sale!Pay => NobodyMoves
  BY DEF Sale!Pay, Standings, Recorded, Made, NobodyMoves
<1>4. ASSUME NEW a \in Actors, Sale!Act(a)
      PROVE  SomeoneMoves \/ SomeoneIsGiven \/ SomeoneRecords \/ SomeoneHandsOver
  <2>1. CASE Sale!HandOver(a)
    <3>1. /\ Standings[a] = "in" /\ Standings' = [Standings EXCEPT ![a] = "out"]
          /\ Recorded' = Recorded + 1 /\ Made' = Made + 1
      BY <1>1, <2>1 DEF Sale!HandOver, Sale!Move, Standings, Recorded, Made
    <3> QED
      BY <3>1 DEF SomeoneHandsOver
  <2>2. CASE Sale!Enter(a)
    <3>1. MovesTo(a, "in")
      BY <1>1, <2>2 DEF Sale!Enter, Sale!Move, Standings, Recorded, Made, MovesTo
    <3> QED
      BY <3>1 DEF SomeoneMoves
  <2>3. CASE Sale!Unnamed(a)
    <3>1. MovesTo(a, "failed") \/ MovesTo(a, "out")
      BY <1>1, <2>3 DEF Sale!Unnamed, Sale!Move, Standings, Recorded, Made, MovesTo
    <3> QED
      BY <3>1 DEF SomeoneMoves
  <2>4. CASE Sale!Refuse(a)
    <3>1. MovesTo(a, "out")
      BY <1>1, <2>4 DEF Sale!Refuse, Sale!Move, Standings, Recorded, Made, MovesTo
    <3> QED
      BY <3>1 DEF SomeoneMoves
  <2>5. CASE Sale!Leave(a)
    <3>1. MovesTo(a, "out")
      BY <1>1, <2>5 DEF Sale!Leave, Sale!Move, Standings, Recorded, Made, MovesTo
    <3> QED
      BY <3>1 DEF SomeoneMoves
  <2>6. CASE Sale!Named(a)
    <3>1. /\ Standings' = [Standings EXCEPT ![a] = "holds"]
          /\ Recorded' = Recorded /\ Made' >= Made + 1
      BY <1>1, <2>6 DEF Sale!Named, Sale!Move, Standings, Recorded, Made
    <3> QED
      BY <3>1 DEF SomeoneIsGiven
  <2>7. CASE Sale!Accept(a)
    BY <1>1, <2>7 DEF Sale!Accept, Sale!Move, Standings, Recorded, Made, SomeoneRecords
  <2> QED
    BY <1>4, <2>1, <2>2, <2>3, <2>4, <2>5, <2>6, <2>7 DEF Sale!Act
<1> QED
  BY <1>2, <1>3, <1>4 DEF Sale!Next

\* The holders, when one pass's standing changes.
LEMMA HoldersMove ==
  ASSUME NEW a \in Actors, NEW s, Standings' = [Standings EXCEPT ![a] = s]
  PROVE  Holders' = IF s = "holds" THEN Holders \cup {a} ELSE Holders \ {a}
<1>1. \A b \in Actors : Standings'[b] = IF b = a THEN s ELSE Standings[b]
  BY DEF Standings
<1> QED
  BY <1>1 DEF Holders

LEMMA FewerHolders ==
  ASSUME IsFiniteSet(Holders), NEW a
  PROVE  /\ IsFiniteSet(Holders \ {a}) /\ Cardinality(Holders \ {a}) \in Nat
         /\ Cardinality(Holders \ {a}) <= Cardinality(Holders)
BY FS_Subset, FS_CardinalityType

LEMMA BackedStep ==
  ASSUME TypeOK, TypeOK', Backed, Sale!Next \/ UNCHANGED Sale!svars
  PROVE  Backed'
<1>1. /\ Made \in Nat /\ Made' \in Nat /\ Recorded \in Nat
      /\ IsFiniteSet(Holders) /\ Cardinality(Holders) \in Nat
      /\ Recorded + Cardinality(Holders) <= Made
  <2>1. /\ rows["OUTBOX_PENDING"] \in Nat /\ rows["SUPPLIER_ACCEPTED"] \in Nat
        /\ placed \in Nat /\ placed' \in Nat
    BY DEF TypeOK, RowStatus
  <2>2. Recorded \in Nat
    BY <2>1 DEF Recorded
  <2>3. Made \in Nat /\ Made' \in Nat
    BY <2>1, MadeType
  <2> QED
    BY <2>2, <2>3, FS_CardinalityType DEF Backed
<1>2. CASE SomeoneMoves
  <2>1. PICK a \in Actors, s \in {"in", "failed", "out"} :
          /\ Standings' = [Standings EXCEPT ![a] = s]
          /\ Recorded' = Recorded /\ Made' >= Made
    BY <1>2 DEF SomeoneMoves, MovesTo
  <2>2. Holders' = Holders \ {a}
    BY <2>1, HoldersMove
  <2>3. /\ IsFiniteSet(Holders') /\ Cardinality(Holders') \in Nat
        /\ Cardinality(Holders') <= Cardinality(Holders)
    BY <1>1, <2>2, FewerHolders
  <2> QED
    BY <1>1, <2>1, <2>3 DEF Backed
<1>3. CASE SomeoneIsGiven
  <2>1. PICK a \in Actors :
          /\ Standings' = [Standings EXCEPT ![a] = "holds"]
          /\ Recorded' = Recorded /\ Made' >= Made + 1
    BY <1>3 DEF SomeoneIsGiven
  <2>2. Holders' = Holders \cup {a}
    BY <2>1, HoldersMove
  <2>3. /\ IsFiniteSet(Holders') /\ Cardinality(Holders') \in Nat
        /\ Cardinality(Holders') <= Cardinality(Holders) + 1
    <3>1. /\ IsFiniteSet(Holders \cup {a})
          /\ \/ Cardinality(Holders \cup {a}) = Cardinality(Holders)
             \/ Cardinality(Holders \cup {a}) = Cardinality(Holders) + 1
      BY <1>1, FS_AddElement
    <3> QED
      BY <1>1, <2>2, <3>1
  <2> QED
    BY <1>1, <2>1, <2>3 DEF Backed
<1>4. CASE SomeoneRecords
  <2>1. PICK a \in Actors :
          /\ Standings[a] = "holds"
          /\ Standings' = [Standings EXCEPT ![a] = "out"]
          /\ Recorded' = Recorded + 1 /\ Made' = Made
    BY <1>4 DEF SomeoneRecords
  <2>2. a \in Holders /\ Holders' = Holders \ {a}
    <3>1. "out" # "holds" /\ a \in Holders
      BY <2>1 DEF Holders
    <3> QED
      BY <2>1, <3>1, HoldersMove
  <2>3. IsFiniteSet(Holders') /\ Cardinality(Holders') = Cardinality(Holders) - 1
    BY <1>1, <2>2, FS_RemoveElement
  <2> QED
    BY <1>1, <2>1, <2>3 DEF Backed
<1>5. CASE SomeoneHandsOver
  <2>1. PICK a \in Actors :
          /\ Standings' = [Standings EXCEPT ![a] = "out"]
          /\ Recorded' = Recorded + 1 /\ Made' = Made + 1
    BY <1>5 DEF SomeoneHandsOver
  <2>2. Holders' = Holders \ {a}
    <3>1. "out" # "holds"
      OBVIOUS
    <3> QED
      BY <2>1, <3>1, HoldersMove
  <2>3. /\ IsFiniteSet(Holders') /\ Cardinality(Holders') \in Nat
        /\ Cardinality(Holders') <= Cardinality(Holders)
    BY <1>1, <2>2, FewerHolders
  <2> QED
    BY <1>1, <2>1, <2>3 DEF Backed
<1>6. CASE NobodyMoves
  BY <1>1, <1>6 DEF NobodyMoves, Backed, Holders
<1> QED
  BY <1>2, <1>3, <1>4, <1>5, <1>6, OrderSteps

LEMMA InitBacked == Init => Backed
<1> SUFFICES ASSUME Init PROVE Backed
  OBVIOUS
<1>1. \A a \in Actors : Standings[a] = "out"
  BY DEF Init, Standings, Standing
<1>2. Holders = {} /\ Recorded = 0 /\ Made = 0
  BY <1>1 DEF Init, Holders, RowStatus, Recorded, Made
<1> QED
  BY <1>2, FS_EmptySet DEF Backed

\* Each purchase that says "accepted" has an order of its own at Fragment, for
\* any number of passes, faults and orders: from the contract, and the one
\* message of the queue (process_ggsel, process_fragment).
THEOREM AcceptedHaveOrders == Spec => []AcceptedAreOrdered
<1>1. TypeOK /\ TypeOK' /\ Backed /\ [Sale!Next]_(Sale!svars) => Backed'
  BY BackedStep
<1>2. Spec => [][Sale!Next]_(Sale!svars)
  BY GgselKeepsSaleContract, PTL DEF KeepsSaleContract, Sale!Spec
<1>3. Spec => []TypeOK /\ []QueuedOnce
  BY TypeCorrect, CodeIsQueuedOnce
<1>4. TypeOK /\ QueuedOnce /\ Backed => AcceptedAreOrdered
  <2> SUFFICES ASSUME TypeOK, QueuedOnce, Backed PROVE AcceptedAreOrdered
    OBVIOUS
  <2>1. /\ rows["SUPPLIER_ACCEPTED"] \in Nat /\ placed \in Nat /\ Cardinality(Holders) \in Nat
        /\ Recorded + Cardinality(Holders) <= Made
    BY FS_CardinalityType DEF TypeOK, RowStatus, Backed
  <2> QED
    BY <2>1 DEF AcceptedAreOrdered, QueuedOnce, Recorded, Made
<1> QED
  BY <1>1, <1>2, <1>3, <1>4, InitBacked, PTL DEF Spec
=============================================================================
