---------------------------- MODULE OrderStatus ----------------------------
(***************************************************************************)
(* The life of one accepted order after the supplier took it: the order    *)
(* poller of the worker process, the delayed status checks and the visits  *)
(* of the status page (app/services/background.py,                         *)
(* app/api/v1/routes/status.py) fetch the supplier's status, save it in    *)
(* the purchase and tell the operator in Telegram, at most once per kind   *)
(* by way of the table "notified" (app/db/repository.py).                  *)
(*                                                                         *)
(* Every actor works in steps with other actors in between: each database  *)
(* transaction and each call to the supplier or to Telegram is a step.     *)
(***************************************************************************)
EXTENDS Naturals, FiniteSets

CONSTANTS
  Poller,     \* the order poller (one, in the worker process)
  Checks,     \* delayed status checks scheduled for the order
  Visits,     \* concurrent visits of the status page
  MaxTold,    \* bound: messages counted per kind
  MaxFaults,  \* bound: actors that die between two steps
  Ambiguous   \* may Telegram deliver what it does not acknowledge?

ASSUME OrderStatusAssumption ==
  /\ Poller \notin Checks \cup Visits
  /\ Checks \cap Visits = {}
  /\ MaxTold \in Nat \ {0, 1}
  /\ MaxFaults \in Nat
  /\ Ambiguous \in BOOLEAN

Actors == {Poller} \cup Checks \cup Visits

VARIABLES
  supplier,   \* what became of the order at the supplier
  erred,      \* has the supplier ever answered a query with an error?
  status,     \* purchases.status
  saved,      \* purchases.supplier_status
  fresh,      \* created_at within ORDER_POLL_MAX_AGE_HOURS
  crowded,    \* ORDER_POLL_BATCH newer orders are open
  notified,   \* kinds in the table "notified"
  told,       \* messages the operator has received, by kind
  actor,      \* where each actor stands and the status it holds
  faults      \* faults so far

vars == <<supplier, erred, status, saved, fresh, crowded, notified, told, actor,
          faults>>

Kinds == {"started", "final"}
SupplierStatus == {"active", "done", "canceled"}
SavedStatus == SupplierStatus \cup {"none"}

\* "row": the row is read; "gone": a check that ended for good.
Steps == {"idle", "gone", "row", "fetch", "save", "look", "insert", "send",
          "unmark", "finish"}

TypeOK ==
  /\ supplier \in SupplierStatus
  /\ erred \in BOOLEAN
  /\ status \in {"SUPPLIER_ACCEPTED", "DONE"}
  /\ saved \in SavedStatus
  /\ fresh \in BOOLEAN
  /\ crowded \in BOOLEAN
  /\ notified \in SUBSET Kinds
  /\ told \in [Kinds -> 0..MaxTold]
  /\ actor \in [Actors -> [step : Steps, seen : SavedStatus]]
  /\ faults \in Nat

At(a, s) == actor[a].step = s

\* _is_final_status and _is_final agree on every status a supplier reports.
IsFinal(s) == s \in {"done", "canceled"}

\* A done order is marked as notified but no message is sent for it.
IsDone(s) == s = "done"

\* Mutant: the mark carries the status instead of its kind.
KindByStatus(s) == s

Kind(s) == IF IsFinal(s) THEN "final" ELSE "started"

\* Mutant: an exception ends the poller's loop.
RestForGood(a) == IF a \in Visits THEN "idle" ELSE "gone"

\* A check runs once; the poller and the page come again.
Rest(a) == IF a \in Checks THEN "gone" ELSE "idle"

\* Where an actor goes when the notification is settled: only the poller takes
\* the order off the poll.
Settled(a) == IF a = Poller THEN "finish" ELSE Rest(a)

\* Here an actor lets go of the status it holds: it rests, or is to ask anew.
EmptyHanded == {"idle", "gone", "finish", "fetch"}

Go(a, s) ==
  actor' = [actor EXCEPT ![a] =
    [step |-> s, seen |-> IF s \in EmptyHanded THEN "none" ELSE @.seen]]

Capped(n) == IF n < MaxTold THEN n ELSE MaxTold

Init ==
  /\ supplier = "active"
  /\ erred = FALSE
  /\ status = "SUPPLIER_ACCEPTED"
  /\ saved = "none"
  /\ fresh = TRUE
  /\ crowded = FALSE
  /\ notified = {}
  /\ told = [k \in Kinds |-> 0]
  /\ actor = [a \in Actors |->
       [step |-> IF a \in Checks THEN "fetch" ELSE "idle", seen |-> "none"]]
  /\ faults = 0

-----------------------------------------------------------------------------
\* Environment

SupplierSettles ==
  /\ supplier = "active"
  /\ supplier' \in {"done", "canceled"}
  /\ UNCHANGED <<erred, status, saved, fresh, crowded, notified, told, actor, faults>>

Expire ==
  /\ fresh
  /\ fresh' = FALSE
  /\ UNCHANGED <<supplier, erred, status, saved, crowded, notified, told, actor, faults>>

\* Newer orders are accepted, or closed.
Crowd ==
  /\ crowded' = ~crowded
  /\ UNCHANGED <<supplier, erred, status, saved, fresh, notified, told, actor, faults>>

-----------------------------------------------------------------------------
\* Reading the purchase

\* get_pending_orders: the batch is a snapshot of the newest rows.
PollRead ==
  /\ At(Poller, "idle")
  /\ status = "SUPPLIER_ACCEPTED"
  /\ fresh
  /\ ~crowded
  /\ actor' = [actor EXCEPT ![Poller] = [step |-> "row", seen |-> saved]]
  /\ UNCHANGED <<supplier, erred, status, saved, fresh, crowded, notified, told, faults>>

\* _poll_order up to the fetch: a saved final status that was notified ends
\* the polling, an order grown stale meanwhile is skipped.
PollRow ==
  /\ At(Poller, "row")
  /\ \/ /\ IsFinal(actor[Poller].seen) /\ "final" \in notified
        /\ Go(Poller, "finish")
     \/ /\ ~(IsFinal(actor[Poller].seen) /\ "final" \in notified)
        /\ Go(Poller, IF fresh THEN "fetch" ELSE "idle")
  /\ UNCHANGED <<supplier, erred, status, saved, fresh, crowded, notified, told, faults>>

\* status_view reads the row; a final saved status is not fetched again.
VisitRead(v) ==
  /\ At(v, "idle")
  /\ actor' = [actor EXCEPT ![v] =
       [step |-> IF IsFinal(saved) THEN "look" ELSE "fetch", seen |-> saved]]
  /\ UNCHANGED <<supplier, erred, status, saved, fresh, crowded, notified, told, faults>>

-----------------------------------------------------------------------------
\* Fetching and saving the status

Fetch(a) ==
  /\ At(a, "fetch")
  /\ actor' = [actor EXCEPT ![a] = [step |-> "save", seen |-> supplier]]
  /\ UNCHANGED <<supplier, erred, status, saved, fresh, crowded, notified, told, faults>>

\* A reply with status 200 whose body reports an error - an invalid key, too many
\* queries - raises nothing, and supplier_canceled takes it for a canceled order,
\* whatever became of the order.
FetchError(a) ==
  /\ At(a, "fetch")
  /\ actor' = [actor EXCEPT ![a] = [step |-> "save", seen |-> "canceled"]]
  /\ erred' = TRUE
  /\ UNCHANGED <<supplier, status, saved, fresh, crowded, notified, told, faults>>

\* The page goes on with the status it read, the others give up for now.
FetchFails(a) ==
  /\ At(a, "fetch")
  /\ Go(a, IF a \in Visits THEN "look" ELSE Rest(a))
  /\ UNCHANGED <<supplier, erred, status, saved, fresh, crowded, notified, told, faults>>

\* Mutant: the poller does not ask whether the status is final.
SaveAndTell(a) ==
  /\ At(a, "save")
  /\ saved' = actor[a].seen
  /\ Go(a, "look")
  /\ UNCHANGED <<supplier, erred, status, fresh, crowded, notified, told, faults>>

\* update_supplier_by_ucode: whatever is saved by now is overwritten.
Save(a) ==
  /\ At(a, "save")
  /\ saved' = actor[a].seen
  /\ Go(a, IF a = Poller /\ ~IsFinal(actor[a].seen) THEN "idle" ELSE "look")
  /\ UNCHANGED <<supplier, erred, status, fresh, crowded, notified, told, faults>>

-----------------------------------------------------------------------------
\* Telling the operator

\* try_mark_notified, the SELECT
Look(a) ==
  /\ At(a, "look")
  /\ Go(a, IF Kind(actor[a].seen) \in notified THEN Settled(a) ELSE "insert")
  /\ UNCHANGED <<supplier, erred, status, saved, fresh, crowded, notified, told, faults>>

\* Mutant: the mark is left to whoever sends successfully.
InsertNothing(a) ==
  /\ At(a, "insert")
  /\ Kind(actor[a].seen) \notin notified
  /\ Go(a, IF IsDone(actor[a].seen) THEN Settled(a) ELSE "send")
  /\ UNCHANGED <<supplier, erred, status, saved, fresh, crowded, notified, told, faults>>

\* try_mark_notified, the INSERT: the primary key refuses the second one, and
\* the IntegrityError ends the actor's turn.
Insert(a) ==
  /\ At(a, "insert")
  /\ LET kind == Kind(actor[a].seen) IN
       \/ /\ kind \notin notified
          /\ notified' = notified \cup {kind}
          /\ Go(a, IF IsDone(actor[a].seen) THEN Settled(a) ELSE "send")
       \/ /\ kind \in notified
          /\ Go(a, Rest(a))
          /\ UNCHANGED notified
  /\ UNCHANGED <<supplier, erred, status, saved, fresh, crowded, told, faults>>

\* Mutant: a failed send leaves its mark.
SendGivesUp(a, ok, copies) ==
  /\ At(a, "send")
  /\ ok => copies >= 1
  /\ ~Ambiguous => copies = IF ok THEN 1 ELSE 0
  /\ told' = [told EXCEPT ![Kind(actor[a].seen)] = Capped(@ + copies)]
  /\ Go(a, IF ok THEN Settled(a) ELSE Rest(a))
  /\ UNCHANGED <<supplier, erred, status, saved, fresh, crowded, notified, faults>>

\* send_message tries every route in turn: a route that delivers without
\* answering in time is followed by the next one.
Send(a, ok, copies) ==
  /\ At(a, "send")
  /\ ok => copies >= 1
  /\ ~Ambiguous => copies = IF ok THEN 1 ELSE 0
  /\ told' = [told EXCEPT ![Kind(actor[a].seen)] = Capped(@ + copies)]
  /\ Go(a, IF ok THEN Settled(a) ELSE "unmark")
  /\ UNCHANGED <<supplier, erred, status, saved, fresh, crowded, notified, faults>>

\* unmark_notified: the next one to come sends again.
Unmark(a) ==
  /\ At(a, "unmark")
  /\ notified' = notified \ {Kind(actor[a].seen)}
  /\ Go(a, Rest(a))
  /\ UNCHANGED <<supplier, erred, status, saved, fresh, crowded, told, faults>>

\* mark_order_done
Finish ==
  /\ At(Poller, "finish")
  /\ status' = "DONE"
  /\ Go(Poller, "idle")
  /\ UNCHANGED <<supplier, erred, saved, fresh, crowded, notified, told, faults>>

-----------------------------------------------------------------------------
\* The process is killed, or a statement raises: the rest is not done.
Die(a) ==
  /\ faults < MaxFaults
  /\ faults' = faults + 1
  /\ actor[a].step \notin {"idle", "gone"}
  /\ Go(a, Rest(a))
  /\ UNCHANGED <<supplier, erred, status, saved, fresh, crowded, notified, told>>

Notify(a) ==
  \/ Look(a)
  \/ Insert(a)
  \/ \E ok \in BOOLEAN, copies \in 0..2 : Send(a, ok, copies)
  \/ Unmark(a)

Next ==
  \/ SupplierSettles
  \/ Expire
  \/ Crowd
  \/ PollRead
  \/ PollRow
  \/ Finish
  \/ \E v \in Visits : VisitRead(v)
  \/ \E a \in Actors :
       Fetch(a) \/ FetchError(a) \/ FetchFails(a) \/ Save(a) \/ Notify(a) \/ Die(a)

Spec == Init /\ [][Next]_vars

-----------------------------------------------------------------------------
\* Safety

\* Two actors never send, or take back, the same kind of notification at once
\* (the primary key of "notified" decides between poller, checks and visits).
OneSender == \A a, b \in Actors :
  /\ actor[a].step \in {"send", "unmark"} /\ actor[b].step \in {"send", "unmark"}
  /\ Kind(actor[a].seen) = Kind(actor[b].seen)
  => a = b

\* As long as Telegram acknowledges what it delivers, the operator gets at
\* most one message of each kind, whoever dies in between.
ToldOnce == ~Ambiguous => \A k \in Kinds : told[k] <= 1

\* Marks without a message that nobody is about to send or take back. An order
\* that came out done is marked on purpose and not told.
Orphans == {k \in notified :
  /\ told[k] = 0
  /\ ~(k = "final" /\ IsDone(supplier))
  /\ \A a \in Actors :
       actor[a].step \in {"send", "unmark"} => Kind(actor[a].seen) # k}

\* A mark keeps everybody silent for good, so none may stand without its
\* message: only a death between the mark and the message leaves one, each
\* death at most one, and no failed send and no race ever does (mark, send and
\* unmark of _poll_order and _check_order_after_delay).
MarksHaveReason == Cardinality(Orphans) <= faults

\* Final, for anybody who asks: the supplier has finished the order, or has once
\* answered a query about it with an error.
Ended == IsFinal(supplier) \/ erred

\* The poll ends, and a final message goes out, only for an order that the
\* supplier has finished or has reported an error of, however old the status is
\* that an actor holds. A passing error does end it: see FetchError.
ClosedOnlyWhenFinal ==
  status = "DONE" \/ told["final"] > 0 \/ "final" \in notified => Ended
=============================================================================
