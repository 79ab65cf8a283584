-------------------------- MODULE DigisellerOrders --------------------------
(***************************************************************************)
(* The launch of one PLATI sale: the redirects of the buyer, served by     *)
(* several web processes, call process_digiseller for its unique code      *)
(* (app/services/orders/digiseller.py, orders/fragment.py).  The table     *)
(* inflight_invoices is the lock of the invoice, processed_invoices says   *)
(* that it is done with; the order is made while the visit waits.          *)
(*                                                                         *)
(* A step is one database transaction or one call to another service; of   *)
(* try_acquire_inflight_inv the SELECT and the INSERT are steps.           *)
(***************************************************************************)
EXTENDS Naturals, FiniteSets

CONSTANTS
  Visits,     \* redirects of the buyer to /digiseller-callback
  MaxPlaced,  \* bound: orders the suppliers create
  MaxFaults,  \* bound: visits that die
  Ambiguous,  \* may a supplier create an order it does not acknowledge?
  SlowRuns    \* may a visit outlast INFLIGHT_TTL_SECONDS?

ASSUME DigisellerAssumption ==
  /\ MaxPlaced \in Nat
  /\ MaxFaults \in Nat
  /\ Ambiguous \in BOOLEAN
  /\ SlowRuns \in BOOLEAN

VARIABLES
  order,       \* where the options of the sale lead
  numbered,    \* does the sale name an invoice number?
  rows,        \* purchases of the code, by what they say
  lock,        \* the row of the invoice in inflight_invoices
  processed,   \* the invoice is in processed_invoices
  remembered,  \* the invoice is in supplier_orders
  notified,    \* (code, "fail") is in the table "notified"
  placed,      \* orders created for the sale
  visit,       \* where each visit stands, and what follows its message
  overlapped,  \* has a visit ever begun while another was under way?
  faults       \* faults so far

vars == <<order, numbered, rows, lock, processed, remembered, notified,
          placed, visit, overlapped, faults>>

sale == <<order, numbered>>
invoice == <<lock, processed, remembered>>
history == <<overlapped, faults>>

\* Fragment goods; a service of the suppliers; no service or no channel link.
Routes == {"fragment", "panel", "rejected"}

\* An accepted order, or an ERROR row by its message: Digiseller refused the
\* code, the order was rejected, the supplier named no order.
RowSays == {"accepted", "refused", "rejected", "no_id"}

\* "peek", "take": the two statements of try_acquire_inflight_inv; "finish",
\* "release": those of _finish_inv.
Steps == {"idle", "gone", "fetch", "processed", "peek", "take", "route",
          "check", "create", "remember", "insert", "refuse", "reject",
          "reject_no_id", "mark", "send", "finish", "release"}

TypeOK ==
  /\ order \in Routes
  /\ numbered \in BOOLEAN
  /\ rows \in [RowSays -> Nat]
  /\ lock \in {"none", "live", "expired"}
  /\ processed \in BOOLEAN
  /\ remembered \in BOOLEAN
  /\ notified \in BOOLEAN
  /\ placed \in Nat
  /\ visit \in [Visits -> [step : Steps, then : Steps]]
  /\ overlapped \in BOOLEAN
  /\ faults \in Nat

At(v, s) == visit[v].step = s

HasRow == \E s \in RowSays : rows[s] > 0

UnderWay(v) == visit[v].step \notin {"idle", "gone"}

\* Between an acquired lock and its release; a visit whose call to the
\* supplier raised has given up on both.
Inside(v) == numbered /\
  \/ visit[v].step \in {"route", "remember", "reject_no_id", "finish", "release"}
  \/ visit[v].step \in {"create", "reject", "insert"} /\ order # "fragment"
  \/ visit[v].step \in {"mark", "send"} /\ visit[v].then \in {"finish", "release"}

Go(v, s) == visit' = [visit EXCEPT ![v] = [step |-> s, then |-> "gone"]]

\* To the message about a failure, and from there to s.
TellThen(v, s) == visit' = [visit EXCEPT ![v] = [step |-> "mark", then |-> s]]

Add(s) == rows' = [rows EXCEPT ![s] = @ + 1]

\* Mutant: nothing is left to do for a sale without a number.
IfNumberedOrNothing(s) == IF numbered THEN s ELSE "nothing"

\* _finish_inv and the release do nothing for a sale without a number.
IfNumbered(s) == IF numbered THEN s ELSE "gone"

Init ==
  /\ order \in Routes
  /\ numbered \in BOOLEAN
  /\ rows = [s \in RowSays |-> 0]
  /\ lock = "none"
  /\ processed = FALSE
  /\ remembered = FALSE
  /\ notified = FALSE
  /\ placed = 0
  /\ visit = [v \in Visits |-> [step |-> "idle", then |-> "gone"]]
  /\ overlapped = FALSE
  /\ faults = 0

-----------------------------------------------------------------------------

\* INFLIGHT_TTL_SECONDS have passed.
Expire ==
  /\ lock = "live"
  /\ SlowRuns \/ \A v \in Visits : ~Inside(v)
  /\ lock' = "expired"
  /\ UNCHANGED <<sale, rows, processed, remembered, notified, placed, visit, history>>

\* Mutant: the code is not looked up in purchases.
ReadRowIgnored(v) ==
  /\ At(v, "idle")
  /\ Go(v, "fetch")
  /\ overlapped' = (overlapped \/ \E w \in Visits : UnderWay(w))
  /\ UNCHANGED <<sale, rows, invoice, notified, placed, faults>>

ReadRow(v) ==
  /\ At(v, "idle")
  /\ Go(v, IF HasRow THEN "gone" ELSE "fetch")
  /\ overlapped' = (overlapped \/ \E w \in Visits : UnderWay(w))
  /\ UNCHANGED <<sale, rows, invoice, notified, placed, faults>>

\* get_purchase answers with retval 0, or with an error that is told first
\* and then saved.
GetPurchase(v) ==
  /\ At(v, "fetch")
  /\ \/ Go(v, IF numbered THEN "processed" ELSE "route")
     \/ TellThen(v, "refuse")
  /\ UNCHANGED <<sale, rows, invoice, notified, placed, history>>

\* get_purchase or check_username raises: the lock stays until it expires.
CallRaises(v) ==
  /\ visit[v].step \in {"fetch", "check"}
  /\ TellThen(v, "gone")
  /\ UNCHANGED <<sale, rows, invoice, notified, placed, history>>

Refuse(v) ==
  /\ At(v, "refuse")
  /\ Add("refused")
  /\ Go(v, "gone")
  /\ UNCHANGED <<sale, invoice, notified, placed, history>>

IsProcessed(v) ==
  /\ At(v, "processed")
  /\ Go(v, IF processed THEN "gone" ELSE "peek")
  /\ UNCHANGED <<sale, rows, invoice, notified, placed, history>>

\* try_acquire_inflight_inv, the SELECT
Peek(v) ==
  /\ At(v, "peek")
  /\ Go(v, IF lock = "live" THEN "gone" ELSE "take")
  /\ UNCHANGED <<sale, rows, invoice, notified, placed, history>>

\* ... and the INSERT: a row that is there by now is kept or replaced, and
\* the answer is True in any case.
Take(v) ==
  /\ At(v, "take")
  /\ lock' = "live"
  /\ Go(v, "route")
  /\ UNCHANGED <<sale, rows, processed, remembered, notified, placed, history>>

\* A Fragment sale is finished before it is ordered.
Route(v) ==
  /\ At(v, "route")
  /\ Go(v, CASE order = "fragment" -> IF numbered THEN "finish" ELSE "check"
             [] order = "panel" -> "create"
             [] order = "rejected" -> "reject")
  /\ UNCHANGED <<sale, rows, invoice, notified, placed, history>>

CheckUsername(v) ==
  /\ At(v, "check")
  /\ Go(v, "create") \/ Go(v, "reject")
  /\ UNCHANGED <<sale, rows, invoice, notified, placed, history>>

\* _save_error, _save_invalid_link and fail() of process_fragment; a Fragment
\* sale has been finished already.
Reject(v) ==
  /\ At(v, "reject")
  /\ Add("rejected")
  /\ TellThen(v, IF order = "fragment" THEN "gone" ELSE IfNumbered("finish"))
  /\ UNCHANGED <<sale, invoice, notified, placed, history>>

\* The supplier names the order, names none (which only the panel route takes
\* for an answer) or the call raises; n orders come of it.
CreateOrder(v, answer, n) ==
  /\ At(v, "create")
  /\ answer = "no_id" => order = "panel"
  /\ answer = "id" => n >= 1
  /\ ~Ambiguous => n = IF answer = "id" THEN 1 ELSE 0
  /\ placed + n <= MaxPlaced
  /\ placed' = placed + n
  /\ \/ answer = "id" /\ Go(v, IF numbered /\ order = "panel" THEN "remember" ELSE "insert")
     \/ answer = "no_id" /\ Go(v, "reject_no_id")
     \/ answer = "raises" /\ TellThen(v, "gone")
  /\ UNCHANGED <<sale, rows, invoice, notified, history>>

\* Mutant: the invoice is finished after a failure, too.
RejectNoIdForGood(v) ==
  /\ At(v, "reject_no_id")
  /\ Add("no_id")
  /\ TellThen(v, IfNumbered("finish"))
  /\ UNCHANGED <<sale, invoice, notified, placed, history>>

\* Mutant: the row says that the order was accepted.
RejectNoIdAccepts(v) ==
  /\ At(v, "reject_no_id")
  /\ Add("accepted")
  /\ TellThen(v, IfNumbered("release"))
  /\ UNCHANGED <<sale, invoice, notified, placed, history>>

\* The lock is released and the invoice not marked, "so that the order can be
\* repeated".
RejectNoId(v) ==
  /\ At(v, "reject_no_id")
  /\ Add("no_id")
  /\ TellThen(v, IfNumbered("release"))
  /\ UNCHANGED <<sale, invoice, notified, placed, history>>

\* save_supplier_order
Remember(v) ==
  /\ At(v, "remember")
  /\ remembered' = TRUE
  /\ Go(v, "insert")
  /\ UNCHANGED <<sale, rows, lock, processed, notified, placed, history>>

\* Mutant: only the lock is given back after an accepted order.
InsertAndRelease(v) ==
  /\ At(v, "insert")
  /\ Add("accepted")
  /\ Go(v, IF order = "fragment" THEN "gone" ELSE IfNumbered("release"))
  /\ UNCHANGED <<sale, invoice, notified, placed, history>>

\* insert_purchase of the accepted order
Insert(v) ==
  /\ At(v, "insert")
  /\ Add("accepted")
  /\ Go(v, IF order = "fragment" THEN "gone" ELSE IfNumbered("finish"))
  /\ UNCHANGED <<sale, invoice, notified, placed, history>>

\* _notify: the mark comes before the message ...
Mark(v) ==
  /\ At(v, "mark")
  /\ \/ notified /\ Go(v, visit[v].then) /\ UNCHANGED notified
     \/ /\ ~notified
        /\ notified' = TRUE
        /\ visit' = [visit EXCEPT ![v] = [step |-> "send", then |-> visit[v].then]]
  /\ UNCHANGED <<sale, rows, invoice, placed, history>>

\* ... and is taken back when the message did not go out.
Send(v) ==
  /\ At(v, "send")
  /\ notified' \in BOOLEAN
  /\ Go(v, visit[v].then)
  /\ UNCHANGED <<sale, rows, invoice, placed, history>>

\* mark_processed
Finish(v) ==
  /\ At(v, "finish")
  /\ processed' = TRUE
  /\ Go(v, "release")
  /\ UNCHANGED <<sale, rows, lock, remembered, notified, placed, history>>

\* release_inflight_inv: whoever's lock it is by now.
Release(v) ==
  /\ At(v, "release")
  /\ lock' = "none"
  /\ Go(v, IF order = "fragment" THEN "check" ELSE "gone")
  /\ UNCHANGED <<sale, rows, processed, remembered, notified, placed, history>>

\* The process is killed, or a statement raises: the rest is not done.
Die(v) ==
  /\ faults < MaxFaults
  /\ faults' = faults + 1
  /\ UnderWay(v)
  /\ Go(v, "gone")
  /\ UNCHANGED <<sale, rows, invoice, notified, placed, overlapped>>

Process(v) ==
  \/ ReadRow(v)
  \/ GetPurchase(v)
  \/ CallRaises(v)
  \/ Refuse(v)
  \/ IsProcessed(v)
  \/ Peek(v)
  \/ Take(v)
  \/ Route(v)
  \/ CheckUsername(v)
  \/ Reject(v)
  \/ \E answer \in {"id", "no_id", "raises"}, n \in 0..2 : CreateOrder(v, answer, n)
  \/ RejectNoId(v)
  \/ Remember(v)
  \/ Insert(v)
  \/ Mark(v)
  \/ Send(v)
  \/ Finish(v)
  \/ Release(v)

Next == Expire \/ \E v \in Visits : Process(v) \/ Die(v)

Spec == Init /\ [][Next]_vars

-----------------------------------------------------------------------------
\* Safety

Quiet == \A v \in Visits : ~UnderWay(v)

\* An invoice of the direct suppliers that later visits will be turned away
\* from has its outcome in purchases: an accepted order or a rejection, never
\* one that the supplier named no order for (_finish_inv, is_processed).
ProcessedIsSettled == processed =>
  /\ order = "panel" => rows["accepted"] > 0
  /\ order = "rejected" => rows["rejected"] > 0

\* Once an order is recorded and no visit is under way, PLATI cannot repeat it
\* although its lock is gone or has expired (comment on _finish_inv).
AcceptedIsProcessed ==
  rows["accepted"] > 0 /\ numbered /\ Quiet /\ faults = 0 => processed

\* Visits that come one after the other order once, and once more for every
\* one that died between the order and its record; a numbered Fragment sale,
\* which is finished before it is ordered, is never ordered again.
OnceUnlessOverlapping == ~overlapped /\ ~Ambiguous =>
  placed <= IF order = "fragment" /\ numbered THEN 1 ELSE 1 + faults

\* No purchase claims an order that no supplier has created, and no two of them
\* the same one, whatever visits do side by side or leave undone.
AcceptedAreOrdered == rows["accepted"] <= placed

-----------------------------------------------------------------------------
\* The abstract specification

\* A Fragment sale is finished before it is ordered, the others after; what a
\* refusal by Digiseller says is told before it is recorded.
Standing(s, then) ==
  CASE \/ s \in {"fetch", "processed", "peek", "take", "route", "check",
                 "create", "reject", "refuse"}
       \/ s \in {"mark", "send"} /\ then = "refuse"
       \/ s \in {"finish", "release"} /\ order = "fragment"      -> "in"
    [] s \in {"remember", "insert"}                              -> "holds"
    [] s = "reject_no_id"                                        -> "failed"
    [] OTHER                                                     -> "out"

Sale == INSTANCE SaleContract WITH
  Passes <- Visits,
  paid <- TRUE,
  made <- placed,
  accepted <- rows["accepted"],
  refused <- rows["refused"] + rows["rejected"] + rows["no_id"],
  handed <- FALSE,
  pass <- [v \in Visits |-> Standing(visit[v].step, visit[v].then)]

\* Whatever visits do side by side, outlast the lock or leave undone, each
\* begins before there is an outcome, is given one order and records that one.
KeepsSaleContract == Sale!Spec
=============================================================================
