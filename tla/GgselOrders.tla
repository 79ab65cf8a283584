---------------------------- MODULE GgselOrders ----------------------------
(***************************************************************************)
(* The launch of one GGSEL sale: redirects of the buyer and the sales      *)
(* poller all call process_ggsel for its unique code                       *)
(* (app/services/orders/ggsel.py, orders/fragment.py, sales_poller.py).    *)
(* A pass first looks for a row of the code in purchases, then takes the   *)
(* lock of table "inflight", asks GGSEL for the purchase and either queues *)
(* it in the outbox, orders it from Fragment or records why it cannot.     *)
(*                                                                         *)
(* A step is one database transaction or one call to another service.      *)
(***************************************************************************)
EXTENDS Naturals, FiniteSets

CONSTANTS
  Poller,     \* the sales poller (one, in the worker process)
  Visits,     \* redirects of the buyer to /ggsel, /stars or /premium
  MaxPlaced,  \* bound: orders Fragment creates
  MaxFaults,  \* bound: passes that die or are cancelled
  Ambiguous,  \* may Fragment create an order it does not acknowledge?
  SlowRuns    \* may a pass outlast INFLIGHT_TTL_SECONDS?

ASSUME GgselAssumption ==
  /\ Poller \notin Visits
  /\ MaxPlaced \in Nat
  /\ MaxFaults \in Nat
  /\ Ambiguous \in BOOLEAN
  /\ SlowRuns \in BOOLEAN

Actors == {Poller} \cup Visits

VARIABLES
  order,       \* where the options of the sale lead
  coded,       \* does purchase/info name the unique code?
  invoice,     \* invoice_state at GGSEL
  age,         \* age of the sale against the poller's window; or "unlisted": no
               \* longer one of the newest GGSEL_SALES_POLL_TOP sales, of any age
  skipped,     \* inv \in _skipped of the sales poller
  rows,        \* purchases of the code, by status
  queued,      \* the outbox holds a message for the code
  lock,        \* the row of the code in "inflight"
  notified,    \* (code, "fail") is in the table "notified"
  placed,      \* orders created at Fragment
  step,        \* where each pass stands
  overlapped,  \* has a pass ever begun while another was undecided?
  faults       \* faults so far

vars == <<order, coded, invoice, age, skipped, rows, queued, lock, notified,
          placed, step, overlapped, faults>>

sale == <<order, coded, invoice, age>>
books == <<rows, queued, placed>>
history == <<overlapped, faults>>

\* Fragment goods; a service of the outbox suppliers; no service, no channel
\* link or no user name to be made out of the options.
Routes == {"fragment", "outbox", "rejected"}

RowStatus == {"OUTBOX_PENDING", "SUPPLIER_ACCEPTED", "ERROR"}

\* Steps under the lock: "check" and "create" call Fragment, "insert" and
\* "reject" write the row, "mark" and "send" tell the operator of a failure.
Locked == {"fetch", "queue", "check", "create", "insert", "reject", "mark",
           "send", "clear"}

Steps == {"idle", "gone", "info", "row", "lock"} \cup Locked

TypeOK ==
  /\ order \in Routes
  /\ coded \in BOOLEAN
  /\ invoice \in {"created", "canceled", "paid", "returned"}
  /\ age \in {"fresh", "window", "old", "unlisted"}
  /\ skipped \in BOOLEAN
  /\ rows \in [RowStatus -> Nat]
  /\ queued \in BOOLEAN
  /\ lock \in {"none", "live", "expired"}
  /\ notified \in BOOLEAN
  /\ placed \in Nat
  /\ step \in [Actors -> Steps]
  /\ overlapped \in BOOLEAN
  /\ faults \in Nat

At(a, s) == step[a] = s

Inside(a) == step[a] \in Locked

\* Between the lookup of the code and the row that says what became of it.
Undecided(a) ==
  step[a] \in {"lock", "fetch", "queue", "check", "create", "insert", "reject"}

Paid == invoice \in {"paid", "returned"}

HasRow == \E s \in RowStatus : rows[s] > 0

\* A redirect is served once, the poller comes again.
Rest(a) == IF a = Poller THEN "idle" ELSE "gone"

Go(a, s) == step' = [step EXCEPT ![a] = s]

Init ==
  /\ order \in Routes
  /\ coded \in BOOLEAN
  /\ invoice = "created"
  /\ age = "fresh"
  /\ skipped = FALSE
  /\ rows = [s \in RowStatus |-> 0]
  /\ queued = FALSE
  /\ lock = "none"
  /\ notified = FALSE
  /\ placed = 0
  /\ step = [a \in Actors |-> IF a = Poller THEN "idle" ELSE "row"]
  /\ overlapped = FALSE
  /\ faults = 0

-----------------------------------------------------------------------------
\* Environment

Pay ==
  /\ invoice = "created"
  /\ invoice' = "paid"
  /\ UNCHANGED <<order, coded, age, skipped, books, lock, notified, step, history>>

\* The invoice is canceled, or what was paid is returned.
Return ==
  /\ \/ invoice = "created" /\ invoice' = "canceled"
     \/ invoice = "paid" /\ invoice' = "returned"
  /\ UNCHANGED <<order, coded, age, skipped, books, lock, notified, step, history>>

GrowOld ==
  /\ \/ age = "fresh" /\ age' = "window"
     \/ age = "window" /\ age' = "old"
  /\ UNCHANGED <<order, coded, invoice, skipped, books, lock, notified, step, history>>

\* As many newer sales have been made as get_last_sales returns: to the poller
\* that is as good as too old, also within its window.
PushOff ==
  /\ age \in {"fresh", "window"}
  /\ age' = "unlisted"
  /\ UNCHANGED <<order, coded, invoice, skipped, books, lock, notified, step, history>>

\* expires_at has passed.
Expire ==
  /\ lock = "live"
  /\ SlowRuns \/ \A a \in Actors : ~Inside(a)
  /\ lock' = "expired"
  /\ UNCHANGED <<sale, skipped, books, notified, step, history>>

-----------------------------------------------------------------------------
\* The sales poller

\* poll_sales_once up to get_known_invs: the sale is listed and in the window,
\* not skipped and not in purchases.
PollSales ==
  /\ At(Poller, "idle")
  /\ age = "window"
  /\ ~skipped
  /\ ~HasRow
  /\ Go(Poller, "info")
  /\ UNCHANGED <<sale, skipped, books, lock, notified, history>>

\* _launch up to process_ggsel: get_purchase_info and the state it names.
PollInfo ==
  /\ At(Poller, "info")
  /\ \/ /\ invoice \in {"canceled", "returned"} \/ (invoice = "paid" /\ ~coded)
        /\ skipped' = TRUE
        /\ Go(Poller, "idle")
     \/ /\ invoice = "created"
        /\ Go(Poller, "idle")
        /\ UNCHANGED skipped
     \/ /\ invoice = "paid" /\ coded
        /\ Go(Poller, "row")
        /\ UNCHANGED skipped
  /\ UNCHANGED <<sale, books, lock, notified, history>>

PollInfoRaises ==
  /\ At(Poller, "info")
  /\ Go(Poller, "idle")
  /\ UNCHANGED <<sale, skipped, books, lock, notified, history>>

-----------------------------------------------------------------------------
\* process_ggsel

\* Mutant: the code is not looked up in purchases.
ReadRowIgnored(a) ==
  /\ At(a, "row")
  /\ Go(a, "lock")
  /\ overlapped' = (overlapped \/ \E b \in Actors : Undecided(b))
  /\ UNCHANGED <<sale, skipped, books, lock, notified, faults>>

ReadRow(a) ==
  /\ At(a, "row")
  /\ Go(a, IF HasRow THEN Rest(a) ELSE "lock")
  /\ overlapped' = (overlapped \/ (~HasRow /\ \E b \in Actors : Undecided(b)))
  /\ UNCHANGED <<sale, skipped, books, lock, notified, faults>>

\* Mutant: the lock is not looked at before it is taken.
MarkInflightBlindly(a) ==
  /\ At(a, "lock")
  /\ lock' = "live"
  /\ Go(a, "fetch")
  /\ UNCHANGED <<sale, skipped, books, notified, history>>

\* Mutant: expired locks are not removed.
MarkInflightOnce(a) ==
  /\ At(a, "lock")
  /\ \/ lock # "none" /\ Go(a, Rest(a)) /\ UNCHANGED lock
     \/ lock = "none" /\ Go(a, "fetch") /\ lock' = "live"
  /\ UNCHANGED <<sale, skipped, books, notified, history>>

\* mark_inflight: expired locks are removed first.  Of two passes that find no
\* lock the primary key lets one insert; the other one's error ends it, which
\* is the same as finding the lock.
MarkInflight(a) ==
  /\ At(a, "lock")
  /\ \/ lock = "live" /\ Go(a, Rest(a)) /\ UNCHANGED lock
     \/ lock # "live" /\ Go(a, "fetch") /\ lock' = "live"
  /\ UNCHANGED <<sale, skipped, books, notified, history>>

\* Mutant: the state of the unique code is not asked for.
GetPurchaseUnpaid(a) ==
  /\ At(a, "fetch")
  /\ Go(a, CASE order = "fragment" -> "check"
             [] order = "outbox" -> "queue"
             [] order = "rejected" -> "reject")
  /\ UNCHANGED <<sale, skipped, books, lock, notified, history>>

\* get_purchase returns a code in state 1 or 3 and the options are resolved.
GetPurchase(a) ==
  /\ At(a, "fetch")
  /\ invoice = "paid"
  /\ Go(a, CASE order = "fragment" -> "check"
             [] order = "outbox" -> "queue"
             [] order = "rejected" -> "reject")
  /\ UNCHANGED <<sale, skipped, books, lock, notified, history>>

\* get_purchase or check_username raises, or the code is in another state.
CallRaises(a) ==
  /\ step[a] \in {"fetch", "check"}
  /\ Go(a, "mark")
  /\ UNCHANGED <<sale, skipped, books, lock, notified, history>>

\* Mutant: a purchase is removed that had never been inserted.
QueueTakesBack(a) ==
  /\ At(a, "queue")
  /\ queued' = TRUE
  /\ rows' = [rows EXCEPT !["OUTBOX_PENDING"] = IF queued THEN @ - 1 ELSE @ + 1]
  /\ Go(a, "clear")
  /\ UNCHANGED <<sale, skipped, lock, notified, placed, history>>

\* queue_supplier_purchase: the purchase of a duplicate message is removed.
Queue(a) ==
  /\ At(a, "queue")
  /\ queued' = TRUE
  /\ rows' = [rows EXCEPT !["OUTBOX_PENDING"] = IF queued THEN @ ELSE @ + 1]
  /\ Go(a, "clear")
  /\ UNCHANGED <<sale, skipped, lock, notified, placed, history>>

CheckUsername(a) ==
  /\ At(a, "check")
  /\ Go(a, "create") \/ Go(a, "reject")
  /\ UNCHANGED <<sale, skipped, books, lock, notified, history>>

\* create_stars_order and create_premium_order: n orders come of the call,
\* two when the HTTP client repeats a POST that had worked.
CreateOrder(a, ok, n) ==
  /\ At(a, "create")
  /\ ok => n >= 1
  /\ ~Ambiguous => n = IF ok THEN 1 ELSE 0
  /\ placed + n <= MaxPlaced
  /\ placed' = placed + n
  /\ Go(a, IF ok THEN "insert" ELSE "mark")
  /\ UNCHANGED <<sale, skipped, rows, queued, lock, notified, history>>

InsertAccepted(a) ==
  /\ At(a, "insert")
  /\ rows' = [rows EXCEPT !["SUPPLIER_ACCEPTED"] = @ + 1]
  /\ Go(a, "clear")
  /\ UNCHANGED <<sale, skipped, queued, placed, lock, notified, history>>

\* _save_error, _save_invalid_link and fail() of process_fragment.
Reject(a) ==
  /\ At(a, "reject")
  /\ rows' = [rows EXCEPT !["ERROR"] = @ + 1]
  /\ Go(a, "mark")
  /\ UNCHANGED <<sale, skipped, queued, placed, lock, notified, history>>

\* _notify: the mark comes before the message ...
Mark(a) ==
  /\ At(a, "mark")
  /\ \/ notified /\ Go(a, "clear") /\ UNCHANGED notified
     \/ ~notified /\ Go(a, "send") /\ notified' = TRUE
  /\ UNCHANGED <<sale, skipped, books, lock, history>>

\* ... and is taken back when the message did not go out.
Send(a) ==
  /\ At(a, "send")
  /\ notified' \in BOOLEAN
  /\ Go(a, "clear")
  /\ UNCHANGED <<sale, skipped, books, lock, history>>

\* clear_inflight in the finally: whoever's lock it is by now.
ClearInflight(a) ==
  /\ At(a, "clear")
  /\ lock' = "none"
  /\ Go(a, Rest(a))
  /\ UNCHANGED <<sale, skipped, books, notified, history>>

-----------------------------------------------------------------------------
\* The process is killed, or a statement raises and so does the clear_inflight
\* after it: the lock stays.  _skipped is lost with the worker process.
Die(a) ==
  /\ faults < MaxFaults
  /\ faults' = faults + 1
  /\ step[a] \notin {"idle", "gone"}
  /\ Go(a, Rest(a))
  /\ IF a = Poller THEN skipped' \in {skipped, FALSE} ELSE UNCHANGED skipped
  /\ UNCHANGED <<sale, books, lock, notified, overlapped>>

\* stop_all cancels the poller: only the finally is still run.
Cancel ==
  /\ faults < MaxFaults
  /\ faults' = faults + 1
  /\ Go(Poller, IF Inside(Poller) THEN "clear" ELSE "idle")
  /\ skipped' = FALSE
  /\ UNCHANGED <<sale, books, lock, notified, overlapped>>

Process(a) ==
  \/ ReadRow(a)
  \/ MarkInflight(a)
  \/ GetPurchase(a)
  \/ CallRaises(a)
  \/ Queue(a)
  \/ CheckUsername(a)
  \/ \E ok \in BOOLEAN, n \in 0..2 : CreateOrder(a, ok, n)
  \/ InsertAccepted(a)
  \/ Reject(a)
  \/ Mark(a)
  \/ Send(a)
  \/ ClearInflight(a)

Next ==
  \/ Pay
  \/ Return
  \/ GrowOld
  \/ PushOff
  \/ Expire
  \/ PollSales
  \/ PollInfo
  \/ PollInfoRaises
  \/ Cancel
  \/ \E a \in Actors : Process(a) \/ Die(a)

Spec == Init /\ [][Next]_vars

-----------------------------------------------------------------------------
\* Safety

\* Passes that do not outlast the lock never work on the code side by side,
\* whatever died and left its lock behind (mark_inflight, clear_inflight).
LockExclusive == ~SlowRuns =>
  \A a, b \in Actors : Inside(a) /\ Inside(b) => a = b

\* Every way out of process_ggsel gives the lock back: without a fault it is
\* never left to its expiry.
LockFreed == lock = "live" /\ faults = 0 => \E a \in Actors : Inside(a)

\* Passes that overlap because they both found no row still queue one message
\* with one purchase (the key of outbox_messages, enqueue_supplier_purchase).
QueuedOnce == rows["OUTBOX_PENDING"] = IF queued THEN 1 ELSE 0

\* Nothing is ordered, queued or refused for a sale nobody has paid.
NothingUnpaid == ~Paid => placed = 0 /\ ~HasRow

\* Passes that come one after the other, redirects and the poller's cycles
\* alike, order once from Fragment, and once more for every one that died
\* between the order and its row.
OnceUnlessOverlapping == ~overlapped /\ ~Ambiguous => placed <= 1 + faults

\* No purchase claims an order that Fragment has not created, and no two of
\* them the same one, whatever passes do side by side or leave undone.
AcceptedAreOrdered == rows["SUPPLIER_ACCEPTED"] <= placed

-----------------------------------------------------------------------------
\* The abstract specification

Standing(s) ==
  CASE s \in {"lock", "fetch", "queue", "check", "create", "reject"} -> "in"
    [] s = "insert" -> "holds"
    [] OTHER -> "out"

Sale == INSTANCE SaleContract WITH
  Passes <- Actors,
  paid <- Paid,
  made <- placed + IF queued THEN 1 ELSE 0,
  accepted <- rows["OUTBOX_PENDING"] + rows["SUPPLIER_ACCEPTED"],
  refused <- rows["ERROR"],
  handed <- queued,
  pass <- [a \in Actors |-> Standing(step[a])]

\* Whatever passes do side by side, expire under, or leave undone, each begins
\* before there is an outcome, is given one order and records that one.
KeepsSaleContract == Sale!Spec
=============================================================================
